---------------------------- MODULE StartupProofs ----------------------------
(***************************************************************************)
(* IInv is an inductive invariant of Startup, so what serves is ready, its *)
(* enum cache resolves every row, and ids survive restarts, for any        *)
(* databases, configurations, crashes and failures.                        *)
(***************************************************************************)
EXTENDS Startup, TLAPS

\* The list of RunMigrations: nothing that one gives is taken away by another, and no
\* seeded value is deleted.
LEMMA MigrationFacts ==
    /\ Len(Migrations) = 14
    /\ \A i \in 1..14 :
        /\ Migrations[i].gives \subseteq Objects
        /\ Migrations[i].gives \cap {"issuer:text", "bodies:jsonb"} = {}
        /\ Migrations[i].takes \subseteq {"issuer:text", "bodies:jsonb"}
        /\ Migrations[i].drops \subseteq Stale
    /\ \A i \in 1..14, j \in 1..14 : Migrations[i].gives \cap Migrations[j].takes = {}
<1> DEFINE Late == {"issuer:text", "bodies:jsonb"}
<1>1. Len(Migrations) = 14
    BY DEF Migrations
<1>2. ASSUME NEW i \in 1..14
      PROVE  /\ Migrations[i].gives \cap Late = {}
             /\ Migrations[i].takes \subseteq Late
             /\ Migrations[i].drops \subseteq Stale
    <2>1. i = 1 \/ i = 2 \/ i = 3 \/ i = 4 \/ i = 5 \/ i = 6 \/ i = 7
            \/ i = 8 \/ i = 9 \/ i = 10 \/ i = 11 \/ i = 12 \/ i = 13 \/ i = 14
        OBVIOUS
    <2>2. CASE i = 1
        BY <2>2 DEF Migrations, Migration
    <2>3. CASE i = 2
        BY <2>3 DEF Migrations, Migration
    <2>4. CASE i = 3
        BY <2>4 DEF Migrations, Migration
    <2>5. CASE i = 4
        BY <2>5 DEF Migrations, Migration
    <2>6. CASE i = 5
        BY <2>6 DEF Migrations, Migration
    <2>7. CASE i = 6
        BY <2>7 DEF Migrations, Migration
    <2>8. CASE i = 7
        BY <2>8 DEF Migrations, Migration
    <2>9. CASE i = 8
        BY <2>9 DEF Migrations, Migration
    <2>10. CASE i = 9
        BY <2>10 DEF Migrations, Migration
    <2>11. CASE i = 10
        BY <2>11 DEF Migrations, Migration
    <2>12. CASE i = 11
        BY <2>12 DEF Migrations, Migration
    <2>13. CASE i = 12
        BY <2>13 DEF Migrations, Migration
    <2>14. CASE i = 13
        BY <2>14 DEF Migrations, Migration
    <2>15. CASE i = 14
        BY <2>15 DEF Migrations, Migration
    <2> QED
        BY <2>1, <2>2, <2>3, <2>4, <2>5, <2>6, <2>7, <2>8, <2>9, <2>10, <2>11, <2>12, <2>13, <2>14, <2>15
<1>3. \A i \in 1..14 : Migrations[i].gives \subseteq Objects
    BY <1>1 DEF Objects, Schema
<1> QED
    BY <1>1, <1>2, <1>3

\* The list of seedEnumTypes.
LEMMA SeedFacts ==
    /\ Len(Seeds) = 14
    /\ \A i \in 1..14 : Seeds[i] \in Seeded /\ Seeds[i] \in Values
    /\ \A v \in Seeded : v \in Values /\ v \notin Stale /\ \E i \in 1..14 : v = Seeds[i]
<1>1. Len(Seeds) = 14
    BY DEF Seeds
<1>2. \A i \in 1..14 : Seeds[i] \in Seeded /\ Seeds[i] \in Values
    BY <1>1 DEF Seeded, Values
<1>3. ASSUME NEW i \in 1..14
      PROVE  Seeds[i] \notin Stale
    <2>1. i = 1 \/ i = 2 \/ i = 3 \/ i = 4 \/ i = 5 \/ i = 6 \/ i = 7
            \/ i = 8 \/ i = 9 \/ i = 10 \/ i = 11 \/ i = 12 \/ i = 13 \/ i = 14
        OBVIOUS
    <2> QED
        BY <2>1 DEF Seeds, Stale
<1> QED
    BY <1>1, <1>2, <1>3 DEF Seeded, Values

\* The initial databases and configurations satisfy the invariant.
LEMMA InitIInv ==
    ASSUME Init
    PROVE  IInv
<1>1. PICK d \in Databases : db = d.db /\ enums = d.enums /\ minted = d.minted /\ refs = d.refs
    BY DEF Init
<1>2. d \in Database /\ \A id \in d.refs : id # None /\ \E v \in Values : d.enums[v] = id
    BY DatabasesAssumption
<1>3. TypeOK
    <2>1. db \subseteq Objects /\ enums \in [Values -> Nat] /\ minted \in Nat /\ refs \subseteq Nat \ {None}
        BY <1>1, <1>2 DEF Database
    <2>2. /\ config \in Configs /\ pc = "down" /\ at = 1 /\ up = {} /\ cache = Nil
          /\ ending = "none" /\ faults = 0 /\ stops = 0
        BY DEF Init
    <2> QED
        BY <2>1, <2>2, BoundsAssumption DEF TypeOK, Endings
<1>4. ForeignKeys
    BY <1>1, <1>2 DEF ForeignKeys
<1>5. MigratedSoFar /\ SeededSoFar /\ CacheCurrent /\ Checked /\ FlushedUnlessCutShort
    BY DEF Init, MigratedSoFar, SeededSoFar, CacheCurrent, Checked, FlushedUnlessCutShort,
           AfterSeeds, Booting, Running
<1> QED
    BY <1>3, <1>4, <1>5 DEF IInv

\* A migration that is applied keeps what those before it did, and the rows (Migrate).
LEMMA ApplyKeeps ==
    ASSUME TypeOK, ForeignKeys, NEW i \in 1..14, Possible(Migrations[i]), Apply(Migrations[i])
    PROVE  /\ db' \subseteq Objects /\ enums' \in [Values -> Nat] /\ minted' = minted /\ refs' = refs
           /\ ForeignKeys'
           /\ \A v \in Seeded : enums'[v] = enums[v]
           /\ \A n \in 0..14 : Applied(n) => Applied(n)'
           /\ Applied(i - 1) => Applied(i)'
<1> DEFINE m == Migrations[i]
<1>1. /\ m.gives \subseteq Objects /\ m.drops \subseteq Stale
      /\ \A j \in 1..14 : Migrations[j].gives \cap m.takes = {} /\ m.gives \cap Migrations[j].takes = {}
    BY MigrationFacts
<1> HIDE DEF m
<1>2. /\ db' = (db \ m.takes) \cup m.gives /\ minted' = minted /\ refs' = refs
      /\ enums' = [v \in Values |-> IF v \in m.drops THEN None ELSE enums[v]]
      /\ \A v \in m.drops : enums[v] \notin refs
    BY DEF m, Apply, Possible, Referenced
<1>3. db' \subseteq Objects /\ enums' \in [Values -> Nat]
    BY <1>1, <1>2 DEF TypeOK, None
<1>4. ForeignKeys'
    <2> SUFFICES ASSUME NEW id \in refs
                 PROVE  \E v \in Values : enums'[v] = id
        BY <1>2 DEF ForeignKeys
    <2>1. PICK v \in Values : enums[v] = id
        BY DEF ForeignKeys
    <2>2. v \notin m.drops
        BY <1>2, <2>1
    <2> QED
        BY <1>2, <2>1, <2>2
<1>5. \A v \in Seeded : enums'[v] = enums[v]
    BY <1>1, <1>2, SeedFacts
<1>6. \A j \in 1..14 : Migrations[j].gives \subseteq db /\ Migrations[j].takes \cap db = {}
            => Migrations[j].gives \subseteq db' /\ Migrations[j].takes \cap db' = {}
    BY <1>1, <1>2
<1>7. m.gives \subseteq db' /\ m.takes \cap db' = {}
    <2>1. m.gives \cap m.takes = {}
        BY MigrationFacts DEF m
    <2> QED
        BY <1>2, <2>1
<1>8. \A n \in 0..14 : Applied(n) => Applied(n)'
    BY <1>6 DEF Applied
<1>9. Applied(i - 1) => Applied(i)'
    BY <1>6, <1>7 DEF Applied, m
<1> QED
    BY <1>2, <1>3, <1>4, <1>5, <1>8, <1>9

\* A seed gets an id if it has none; no other id changes (Seed).
LEMMA UpsertKeeps ==
    ASSUME TypeOK, ForeignKeys, NEW v \in Values, Upsert(v), refs' = refs
    PROVE  /\ enums' \in [Values -> Nat] /\ minted' \in Nat
           /\ ForeignKeys'
           /\ enums'[v] # None
           /\ \A u \in Values : enums[u] # None => enums'[u] = enums[u]
<1>1. /\ enums' \in [Values -> Nat] /\ minted' \in Nat /\ enums'[v] # None
      /\ \A u \in Values : enums[u] # None => enums'[u] = enums[u]
    BY DEF TypeOK, Upsert, None
<1>2. ForeignKeys'
    <2> SUFFICES ASSUME NEW id \in refs
                 PROVE  \E u \in Values : enums'[u] = id
        BY DEF ForeignKeys
    <2>1. PICK u \in Values : enums[u] = id
        BY DEF ForeignKeys
    <2> QED
        BY <1>1, <2>1 DEF TypeOK
<1> QED
    BY <1>1, <1>2

\* A table is no empty cache.
LEMMA NilIsNoTable ==
    ASSUME NEW f \in [Values -> Nat]
    PROVE  f # Nil
<1>1. "PENDING" \in DOMAIN f
    BY DEF Values, Seeded, Seeds
<1>2. "PENDING" \notin DOMAIN Nil
    BY DEF Nil
<1> QED
    BY <1>1, <1>2

\* The steps that leave the tables as they are.
QuietStep ==
    \/ Boot \/ StartExporter(TRUE) \/ StartExporter(FALSE) \/ TelemetryReady
    \/ Connect(TRUE) \/ Connect(FALSE) \/ Migrated \/ SeedsDone \/ BuildGateway \/ BuildRegistry
    \/ BuildStack(TRUE) \/ BuildStack(FALSE) \/ BuildAuth
    \/ Start \/ Listen(TRUE) \/ Listen(FALSE) \/ Signal \/ Drain \/ Expire \/ Flush \/ Crash
    \/ Idle \/ UNCHANGED vars

\* They change no table and no configuration.
LEMMA QuietTable ==
    ASSUME QuietStep
    PROVE  UNCHANGED <<table, config>>
<1>1. CASE Boot
    BY <1>1 DEF Boot
<1>2. CASE StartExporter(TRUE)
    BY <1>2 DEF StartExporter
<1>3. CASE StartExporter(FALSE)
    BY <1>3 DEF StartExporter
<1>4. CASE TelemetryReady
    BY <1>4 DEF TelemetryReady
<1>5. CASE Connect(TRUE)
    BY <1>5 DEF Connect
<1>6. CASE Connect(FALSE)
    BY <1>6 DEF Connect
<1>7. CASE Migrated
    BY <1>7 DEF Migrated
<1>8. CASE SeedsDone
    BY <1>8 DEF SeedsDone
<1>9. CASE BuildGateway
    BY <1>9 DEF BuildGateway
<1>10. CASE BuildRegistry
    BY <1>10 DEF BuildRegistry
<1>11. CASE BuildStack(TRUE)
    BY <1>11 DEF BuildStack
<1>12. CASE BuildStack(FALSE)
    BY <1>12 DEF BuildStack
<1>13. CASE BuildAuth
    BY <1>13 DEF BuildAuth
<1>14. CASE Start
    BY <1>14 DEF Start
<1>15. CASE Listen(TRUE)
    BY <1>15 DEF Listen
<1>16. CASE Listen(FALSE)
    BY <1>16 DEF Listen
<1>17. CASE Signal
    BY <1>17 DEF Signal
<1>18. CASE Drain
    BY <1>18 DEF Drain
<1>19. CASE Expire
    BY <1>19 DEF Expire
<1>20. CASE Flush
    BY <1>20 DEF Flush
<1>21. CASE Crash
    BY <1>21 DEF Crash
<1>22. CASE Idle \/ UNCHANGED vars
    BY <1>22 DEF Idle, vars
<1> QED
    BY <1>1, <1>2, <1>3, <1>4, <1>5, <1>6, <1>7, <1>8, <1>9, <1>10, <1>11, <1>12, <1>13, <1>14, <1>15, <1>16, <1>17, <1>18, <1>19, <1>20, <1>21, <1>22 DEF QuietStep

\* They keep the types.
LEMMA QuietTypes ==
    ASSUME IInv, QuietStep
    PROVE  TypeOK'
<1> DEFINE Control ==
    /\ pc' \in Booting \cup Running \cup {"down", "flush"} /\ at' \in Nat \ {0}
    /\ ending' \in Endings
    /\ faults' \in 0..MaxFaults /\ stops' \in 0..MaxStops
<1> DEFINE Memory ==
    /\ up' \subseteq Exporters
    /\ cache' \in [Values -> Nat] \cup {Nil} /\ (cache' # Nil => config.host)
<1>0. TypeOK
    BY DEF IInv
<1>1. ASSUME Boot PROVE Control /\ Memory
    <2>1. Control
        BY <1>0, <1>1, BoundsAssumption DEF TypeOK, Booting, Running, Endings, Boot
    <2>2. Memory
        BY <1>0, <1>1 DEF TypeOK, Exporters, Boot
    <2> QED
        BY <2>1, <2>2
<1>2. ASSUME StartExporter(TRUE) PROVE Control /\ Memory
    <2>1. Control
        BY <1>0, <1>2, BoundsAssumption DEF TypeOK, Booting, Running, Endings, StartExporter
    <2>2. Memory
        BY <1>0, <1>2 DEF TypeOK, Exporters, StartExporter
    <2> QED
        BY <2>1, <2>2
<1>3. ASSUME StartExporter(FALSE) PROVE Control /\ Memory
    <2>1. Control
        BY <1>0, <1>3, BoundsAssumption DEF TypeOK, Booting, Running, Endings, StartExporter, Fails, GiveUp
    <2>2. Memory
        BY <1>0, <1>3 DEF TypeOK, Exporters, StartExporter, Fails, GiveUp
    <2> QED
        BY <2>1, <2>2
<1>4. ASSUME TelemetryReady PROVE Control /\ Memory
    <2>1. Control
        BY <1>0, <1>4, BoundsAssumption DEF TypeOK, Booting, Running, Endings, TelemetryReady, Enter
    <2>2. Memory
        BY <1>0, <1>4 DEF TypeOK, Exporters, TelemetryReady, Enter
    <2> QED
        BY <2>1, <2>2
<1>5. ASSUME Connect(TRUE) PROVE Control /\ Memory
    <2>1. Control
        BY <1>0, <1>5, BoundsAssumption DEF TypeOK, Booting, Running, Endings, Connect, Enter
    <2>2. Memory
        BY <1>0, <1>5 DEF TypeOK, Exporters, Connect, Enter
    <2> QED
        BY <2>1, <2>2
<1>6. ASSUME Connect(FALSE) PROVE Control /\ Memory
    <2>1. Control
        BY <1>0, <1>6, BoundsAssumption DEF TypeOK, Booting, Running, Endings, Connect, Enter, Fails, GiveUp
    <2>2. Memory
        BY <1>0, <1>6 DEF TypeOK, Exporters, Connect, Enter, Fails, GiveUp
    <2> QED
        BY <2>1, <2>2
<1>7. ASSUME Migrated PROVE Control /\ Memory
    <2>1. Control
        BY <1>0, <1>7, BoundsAssumption DEF TypeOK, Booting, Running, Endings, Migrated, Enter
    <2>2. Memory
        BY <1>0, <1>7 DEF TypeOK, Exporters, Migrated, Enter
    <2> QED
        BY <2>1, <2>2
<1>8. ASSUME SeedsDone PROVE Control /\ Memory
    <2>1. Control
        BY <1>0, <1>8, BoundsAssumption DEF TypeOK, Booting, Running, Endings, SeedsDone, Enter
    <2>2. Memory
        BY <1>0, <1>8 DEF TypeOK, Exporters, SeedsDone, Enter
    <2> QED
        BY <2>1, <2>2
<1>9. ASSUME BuildGateway PROVE Control /\ Memory
    <2>1. Control
        BY <1>0, <1>9, BoundsAssumption DEF TypeOK, Booting, Running, Endings, BuildGateway, Enter, GiveUp
    <2>2. Memory
        BY <1>0, <1>9 DEF TypeOK, Exporters, BuildGateway, Enter, GiveUp
    <2> QED
        BY <2>1, <2>2
<1>10. ASSUME BuildRegistry PROVE Control /\ Memory
    <2>1. Control
        BY <1>0, <1>10, BoundsAssumption DEF TypeOK, Booting, Running, Endings, BuildRegistry, Enter, GiveUp
    <2>2. Memory
        BY <1>0, <1>10 DEF TypeOK, Exporters, BuildRegistry, Enter, GiveUp
    <2> QED
        BY <2>1, <2>2
<1>11. ASSUME BuildStack(TRUE) PROVE Control /\ Memory
    <2>1. Control
        BY <1>0, <1>11, BoundsAssumption DEF TypeOK, Booting, Running, Endings, BuildStack, Enter, Load
    <2>2. Memory
        BY <1>0, <1>11 DEF TypeOK, Exporters, BuildStack, Enter, Load
    <2> QED
        BY <2>1, <2>2
<1>12. ASSUME BuildStack(FALSE) PROVE Control /\ Memory
    <2>1. Control
        BY <1>0, <1>12, BoundsAssumption DEF TypeOK, Booting, Running, Endings, BuildStack, Enter, Fails, GiveUp, Load
    <2>2. Memory
        BY <1>0, <1>12 DEF TypeOK, Exporters, BuildStack, Enter, Fails, GiveUp, Load
    <2> QED
        BY <2>1, <2>2
<1>13. ASSUME BuildAuth PROVE Control /\ Memory
    <2>1. Control
        BY <1>0, <1>13, BoundsAssumption DEF TypeOK, Booting, Running, Endings, BuildAuth, Enter, GiveUp
    <2>2. Memory
        BY <1>0, <1>13 DEF TypeOK, Exporters, BuildAuth, Enter, GiveUp
    <2> QED
        BY <2>1, <2>2
<1>14. ASSUME Start PROVE Control /\ Memory
    <2>1. Control
        BY <1>0, <1>14, BoundsAssumption DEF TypeOK, Booting, Running, Endings, Start
    <2>2. Memory
        BY <1>0, <1>14 DEF TypeOK, Exporters, Start
    <2> QED
        BY <2>1, <2>2
<1>15. ASSUME Listen(TRUE) PROVE Control /\ Memory
    <2>1. Control
        BY <1>0, <1>15, BoundsAssumption DEF TypeOK, Booting, Running, Endings, Listen
    <2>2. Memory
        BY <1>0, <1>15 DEF TypeOK, Exporters, Listen
    <2> QED
        BY <2>1, <2>2
<1>16. ASSUME Listen(FALSE) PROVE Control /\ Memory
    <2>1. Control
        BY <1>0, <1>16, BoundsAssumption DEF TypeOK, Booting, Running, Endings, Listen, End
    <2>2. Memory
        BY <1>0, <1>16 DEF TypeOK, Exporters, Listen, End
    <2> QED
        BY <2>1, <2>2
<1>17. ASSUME Signal PROVE Control /\ Memory
    <2>1. Control
        BY <1>0, <1>17, BoundsAssumption DEF TypeOK, Booting, Running, Endings, Signal
    <2>2. Memory
        BY <1>0, <1>17 DEF TypeOK, Exporters, Signal
    <2> QED
        BY <2>1, <2>2
<1>18. ASSUME Drain PROVE Control /\ Memory
    <2>1. Control
        BY <1>0, <1>18, BoundsAssumption DEF TypeOK, Booting, Running, Endings, Drain
    <2>2. Memory
        BY <1>0, <1>18 DEF TypeOK, Exporters, Drain
    <2> QED
        BY <2>1, <2>2
<1>19. ASSUME Expire PROVE Control /\ Memory
    <2>1. Control
        BY <1>0, <1>19, BoundsAssumption DEF TypeOK, Booting, Running, Endings, Expire, End
    <2>2. Memory
        BY <1>0, <1>19 DEF TypeOK, Exporters, Expire, End
    <2> QED
        BY <2>1, <2>2
<1>20. ASSUME Flush PROVE Control /\ Memory
    <2>1. Control
        BY <1>0, <1>20, BoundsAssumption DEF TypeOK, Booting, Running, Endings, Flush, End
    <2>2. Memory
        BY <1>0, <1>20 DEF TypeOK, Exporters, Flush, End
    <2> QED
        BY <2>1, <2>2
<1>21. ASSUME Crash PROVE Control /\ Memory
    <2>1. Control
        BY <1>0, <1>21, BoundsAssumption DEF TypeOK, Booting, Running, Endings, Crash, End
    <2>2. Memory
        BY <1>0, <1>21 DEF TypeOK, Exporters, Crash, End
    <2> QED
        BY <2>1, <2>2
<1>22. ASSUME Idle \/ UNCHANGED vars PROVE Control /\ Memory
    <2>1. Control
        BY <1>0, <1>22, BoundsAssumption DEF TypeOK, Booting, Running, Endings, Idle, vars, process
    <2>2. Memory
        BY <1>0, <1>22 DEF TypeOK, Exporters, Idle, vars, process
    <2> QED
        BY <2>1, <2>2
<1>23. Control /\ Memory
    BY <1>1, <1>2, <1>3, <1>4, <1>5, <1>6, <1>7, <1>8, <1>9, <1>10, <1>11, <1>12, <1>13, <1>14, <1>15, <1>16, <1>17, <1>18, <1>19, <1>20, <1>21, <1>22 DEF QuietStep
<1> QED
    BY <1>0, <1>23, QuietTable DEF TypeOK, Exporters, table

\* They keep what boots have done and checked.
LEMMA QuietProgress ==
    ASSUME IInv, QuietStep
    PROVE  (MigratedSoFar /\ SeededSoFar /\ Checked)'
<1> USE MigrationFacts, SeedFacts, NilIsNoTable DEF table, IInv, TypeOK, MigratedSoFar, SeededSoFar, Checked, Applied, SeededUpTo, AfterSeeds, Booting, Running,
        GatewayBuilds, EnsureCapability
<1>1. CASE Boot
    BY <1>1 DEF Boot
<1>2. CASE StartExporter(TRUE)
    BY <1>2 DEF StartExporter
<1>3. CASE StartExporter(FALSE)
    BY <1>3 DEF StartExporter, Fails, GiveUp
<1>4. CASE TelemetryReady
    BY <1>4 DEF TelemetryReady, Enter
<1>5. CASE Connect(TRUE)
    BY <1>5 DEF Connect, Enter
<1>6. CASE Connect(FALSE)
    BY <1>6 DEF Connect, Enter, Fails, GiveUp
<1>7. CASE Migrated
    BY <1>7 DEF Migrated, Enter
<1>8. CASE SeedsDone
    BY <1>8 DEF SeedsDone, Enter
<1>9. CASE BuildGateway
    BY <1>9 DEF BuildGateway, Enter, GiveUp
<1>10. CASE BuildRegistry
    BY <1>10 DEF BuildRegistry, Enter, GiveUp
<1>11. CASE BuildStack(TRUE)
    BY <1>11 DEF BuildStack, Enter, Load
<1>12. CASE BuildStack(FALSE)
    BY <1>12 DEF BuildStack, Enter, Fails, GiveUp, Load
<1>13. CASE BuildAuth
    BY <1>13 DEF BuildAuth, Enter, GiveUp
<1>14. CASE Start
    BY <1>14 DEF Start
<1>15. CASE Listen(TRUE)
    BY <1>15 DEF Listen
<1>16. CASE Listen(FALSE)
    BY <1>16 DEF Listen, End
<1>17. CASE Signal
    BY <1>17 DEF Signal
<1>18. CASE Drain
    BY <1>18 DEF Drain
<1>19. CASE Expire
    BY <1>19 DEF Expire, End
<1>20. CASE Flush
    BY <1>20 DEF Flush, End
<1>21. CASE Crash
    BY <1>21 DEF Crash, End
<1>22. CASE Idle \/ UNCHANGED vars
    BY <1>22 DEF Idle, vars, process
<1> QED
    BY <1>1, <1>2, <1>3, <1>4, <1>5, <1>6, <1>7, <1>8, <1>9, <1>10, <1>11, <1>12, <1>13, <1>14, <1>15, <1>16, <1>17, <1>18, <1>19, <1>20, <1>21, <1>22 DEF QuietStep

\* They keep what the process holds in memory, and the foreign keys.
LEMMA QuietMemory ==
    ASSUME IInv, QuietStep
    PROVE  (CacheCurrent /\ ForeignKeys /\ FlushedUnlessCutShort)'
<1> USE MigrationFacts, SeedFacts, NilIsNoTable DEF table, IInv, TypeOK, CacheCurrent, ForeignKeys, FlushedUnlessCutShort, Booting, Running
<1>1. CASE Boot
    BY <1>1 DEF Boot
<1>2. CASE StartExporter(TRUE)
    BY <1>2 DEF StartExporter
<1>3. CASE StartExporter(FALSE)
    BY <1>3 DEF StartExporter, Fails, GiveUp
<1>4. CASE TelemetryReady
    BY <1>4 DEF TelemetryReady, Enter
<1>5. CASE Connect(TRUE)
    BY <1>5 DEF Connect, Enter
<1>6. CASE Connect(FALSE)
    BY <1>6 DEF Connect, Enter, Fails, GiveUp
<1>7. CASE Migrated
    BY <1>7 DEF Migrated, Enter
<1>8. CASE SeedsDone
    BY <1>8 DEF SeedsDone, Enter
<1>9. CASE BuildGateway
    BY <1>9 DEF BuildGateway, Enter, GiveUp
<1>10. CASE BuildRegistry
    BY <1>10 DEF BuildRegistry, Enter, GiveUp
<1>11. CASE BuildStack(TRUE)
    BY <1>11 DEF BuildStack, Enter, Load
<1>12. CASE BuildStack(FALSE)
    BY <1>12 DEF BuildStack, Enter, Fails, GiveUp, Load
<1>13. CASE BuildAuth
    BY <1>13 DEF BuildAuth, Enter, GiveUp
<1>14. CASE Start
    BY <1>14 DEF Start
<1>15. CASE Listen(TRUE)
    BY <1>15 DEF Listen
<1>16. CASE Listen(FALSE)
    BY <1>16 DEF Listen, End
<1>17. CASE Signal
    BY <1>17 DEF Signal
<1>18. CASE Drain
    BY <1>18 DEF Drain
<1>19. CASE Expire
    BY <1>19 DEF Expire, End
<1>20. CASE Flush
    BY <1>20 DEF Flush, End
<1>21. CASE Crash
    BY <1>21 DEF Crash, End
<1>22. CASE Idle \/ UNCHANGED vars
    BY <1>22 DEF Idle, vars, process
<1> QED
    BY <1>1, <1>2, <1>3, <1>4, <1>5, <1>6, <1>7, <1>8, <1>9, <1>10, <1>11, <1>12, <1>13, <1>14, <1>15, <1>16, <1>17, <1>18, <1>19, <1>20, <1>21, <1>22 DEF QuietStep

\* A migration, applied or not (Migrate).
LEMMA MigrateStep ==
    ASSUME IInv, NEW ok \in BOOLEAN, Migrate(ok)
    PROVE  IInv'
<1>1. /\ pc = "migrate" /\ at \in 1..14 /\ cache = Nil /\ Applied(at - 1)
      /\ UNCHANGED <<config, stops>>
    BY MigrationFacts DEF IInv, TypeOK, Migrate, CacheCurrent, MigratedSoFar, Booting
<1>2. TypeOK /\ ForeignKeys
    BY DEF IInv
<1>3. PICK i \in 1..14 : i = at
    BY <1>1
<1>4. CASE GiveUp /\ faults' \in 0..MaxFaults
    <2>1. (Possible(Migrations[at]) /\ Apply(Migrations[at])) \/ UNCHANGED table
        BY <1>4 DEF Migrate, StopMigrating
    <2>2. /\ db' \subseteq Objects /\ enums' \in [Values -> Nat] /\ minted' \in Nat
          /\ refs' = refs /\ ForeignKeys'
        <3>1. CASE UNCHANGED table
            BY <1>2, <3>1 DEF TypeOK, ForeignKeys, table
        <3>2. CASE Possible(Migrations[at]) /\ Apply(Migrations[at])
            BY <1>1, <1>2, <3>2, ApplyKeeps DEF TypeOK
        <3> QED
            BY <2>1, <3>1, <3>2
    <2>3. TypeOK'
        BY <1>1, <1>2, <1>4, <2>2 DEF TypeOK, GiveUp, Exporters, Booting, Running, Endings
    <2>4. (MigratedSoFar /\ SeededSoFar /\ CacheCurrent /\ Checked /\ FlushedUnlessCutShort)'
        BY <1>4 DEF GiveUp, MigratedSoFar, SeededSoFar, CacheCurrent, Checked, FlushedUnlessCutShort,
                    AfterSeeds, Booting, Running
    <2> QED
        BY <2>2, <2>3, <2>4 DEF IInv
<1>5. CASE Possible(Migrations[at]) /\ Apply(Migrations[at]) /\ Advance /\ UNCHANGED <<cache, faults>>
    <2>1. /\ db' \subseteq Objects /\ enums' \in [Values -> Nat] /\ minted' \in Nat
          /\ refs' = refs /\ ForeignKeys' /\ Applied(i)'
        BY <1>1, <1>2, <1>5, <1>3, ApplyKeeps DEF TypeOK
    <2>2. TypeOK'
        BY <1>1, <1>2, <1>5, <2>1 DEF TypeOK, Advance, Exporters
    <2>3. MigratedSoFar'
        <3>1. pc' = "migrate" /\ at' = i + 1
            BY <1>1, <1>5, <1>3 DEF Advance
        <3> QED
            BY <2>1, <3>1, MigrationFacts DEF MigratedSoFar, Applied, AfterSeeds, Running
    <2>4. (SeededSoFar /\ CacheCurrent /\ Checked /\ FlushedUnlessCutShort)'
        BY <1>1, <1>5 DEF Advance, SeededSoFar, CacheCurrent, Checked, FlushedUnlessCutShort,
                          AfterSeeds, Booting, Running
    <2> QED
        BY <2>1, <2>2, <2>3, <2>4 DEF IInv
<1>6. CASE ok /\ Possible(Migrations[at])
    BY <1>5, <1>6 DEF Migrate
<1>7. CASE ~ok /\ Possible(Migrations[at])
    BY <1>2, <1>4, <1>7, BoundsAssumption DEF Migrate, Fails, TypeOK
<1>8. CASE ~Possible(Migrations[at])
    BY <1>2, <1>4, <1>8 DEF Migrate, StopMigrating, TypeOK
<1> QED
    BY <1>6, <1>7, <1>8

\* A seed, written or not (Seed).
LEMMA SeedStep ==
    ASSUME IInv, NEW ok \in BOOLEAN, Seed(ok)
    PROVE  IInv'
<1>1. /\ pc = "seed" /\ at \in 1..14 /\ cache = Nil /\ SeededUpTo(at - 1) /\ Applied(14)
      /\ UNCHANGED <<db, refs, config, stops>>
    BY SeedFacts, MigrationFacts DEF IInv, TypeOK, Seed, CacheCurrent, MigratedSoFar, SeededSoFar, Booting
<1>2. TypeOK /\ ForeignKeys /\ Seeds[at] \in Values
    BY <1>1, SeedFacts DEF IInv
<1>3. CASE ~ok
    <2>1. GiveUp /\ faults' \in 0..MaxFaults /\ (Upsert(Seeds[at]) \/ UNCHANGED <<enums, minted>>)
        BY <1>2, <1>3, BoundsAssumption DEF Seed, Fails, TypeOK
    <2>2. enums' \in [Values -> Nat] /\ minted' \in Nat /\ ForeignKeys'
        <3>1. CASE UNCHANGED <<enums, minted>>
            BY <1>1, <1>2, <3>1 DEF TypeOK, ForeignKeys
        <3>2. CASE Upsert(Seeds[at])
            BY <1>1, <1>2, <3>2, UpsertKeeps
        <3> QED
            BY <2>1, <3>1, <3>2
    <2>3. TypeOK'
        BY <1>1, <1>2, <2>1, <2>2 DEF TypeOK, GiveUp, Exporters, Booting, Running, Endings
    <2>4. (MigratedSoFar /\ SeededSoFar /\ CacheCurrent /\ Checked /\ FlushedUnlessCutShort)'
        BY <2>1 DEF GiveUp, MigratedSoFar, SeededSoFar, CacheCurrent, Checked, FlushedUnlessCutShort,
                    AfterSeeds, Booting, Running
    <2> QED
        BY <2>2, <2>3, <2>4 DEF IInv
<1>4. CASE ok
    <2>1. Upsert(Seeds[at]) /\ Advance /\ UNCHANGED <<cache, faults>>
        BY <1>4 DEF Seed
    <2>2. /\ enums' \in [Values -> Nat] /\ minted' \in Nat /\ ForeignKeys'
          /\ enums'[Seeds[at]] # None
          /\ \A u \in Values : enums[u] # None => enums'[u] = enums[u]
        BY <1>1, <1>2, <2>1, UpsertKeeps
    <2>3. TypeOK'
        BY <1>1, <1>2, <2>1, <2>2 DEF TypeOK, Advance, Exporters
    <2>4. pc' = "seed" /\ at' = at + 1
        BY <1>1, <2>1 DEF Advance
    <2>5. MigratedSoFar'
        BY <1>1, <2>4, MigrationFacts DEF MigratedSoFar, Applied, AfterSeeds, Running
    <2>6. SeededSoFar'
        <3>1. \A i \in 1..at : enums'[Seeds[i]] # None
            BY <1>1, <2>2, SeedFacts DEF SeededUpTo
        <3> QED
            BY <1>1, <2>4, <3>1, SeedFacts DEF SeededSoFar, SeededUpTo, AfterSeeds, Running
    <2>7. (CacheCurrent /\ Checked /\ FlushedUnlessCutShort)'
        BY <1>1, <2>1, <2>4 DEF CacheCurrent, Checked, FlushedUnlessCutShort, Booting, Running
    <2> QED
        BY <2>2, <2>3, <2>5, <2>6, <2>7 DEF IInv
<1> QED
    BY <1>3, <1>4

\* A row that is stored refers to an enum row that is there (Store).
LEMMA StoreStep ==
    ASSUME IInv, NEW v \in Written, Store(v)
    PROVE  IInv'
<1>1. PICK u \in Values : cache[v] = enums[u] /\ enums[u] # None
    BY DEF Store
<1>2. enums[u] \in Nat \ {None} /\ refs' = refs \cup {enums[u]}
    BY <1>1 DEF IInv, TypeOK, Store
<1>3. UNCHANGED <<db, enums, minted, config, process, faults, stops>>
    BY DEF Store
<1>4. ForeignKeys'
    BY <1>1, <1>2, <1>3 DEF IInv, ForeignKeys
<1>5. TypeOK'
    BY <1>2, <1>3 DEF IInv, TypeOK, process, Exporters
<1>6. (MigratedSoFar /\ SeededSoFar /\ CacheCurrent /\ Checked /\ FlushedUnlessCutShort)'
    BY <1>3 DEF IInv, process, MigratedSoFar, Applied, SeededSoFar, SeededUpTo, CacheCurrent, Checked,
                GatewayBuilds, EnsureCapability, FlushedUnlessCutShort
<1> QED
    BY <1>4, <1>5, <1>6 DEF IInv

\* Every step keeps the invariant (Next).
LEMMA Inductive ==
    ASSUME IInv, [Next]_vars
    PROVE  IInv'
<1>1. CASE QuietStep
    BY <1>1, QuietTypes, QuietProgress, QuietMemory DEF IInv
<1>2. CASE \E ok \in BOOLEAN : Migrate(ok)
    BY <1>2, MigrateStep
<1>3. CASE \E ok \in BOOLEAN : Seed(ok)
    BY <1>3, SeedStep
<1>4. CASE \E v \in Written : Store(v)
    BY <1>4, StoreStep
<1> QED
    BY <1>1, <1>2, <1>3, <1>4 DEF Next, Run, Fault, QuietStep

\* The inductive invariant of a service that is started, killed and started again: what
\* the boots so far have migrated, seeded, cached and checked (bootstrap.New, App.Start).
THEOREM Invariance == Spec => []IInv
<1>1. Init => IInv
    BY InitIInv
<1>2. IInv /\ [Next]_vars => IInv'
    BY Inductive
<1> QED
    BY <1>1, <1>2, PTL DEF Spec

\* Type correctness of the process and the database.
THEOREM TypeCorrect == Spec => []TypeOK
<1>1. IInv => TypeOK
    BY DEF IInv
<1> QED
    BY <1>1, Invariance, PTL

\* Whatever database the service was started on and however many boots broke off, it
\* serves on a complete schema with every seed in its cache (RunMigrations,
\* LoadEnumCache).
THEOREM ServesOnlyReadyHolds == Spec => []ServesOnlyReady
<1>1. IInv => ServesOnlyReady
    <2> SUFFICES ASSUME IInv, pc \in Running, config.host
                 PROVE  Ready(db) /\ cache # Nil /\ \A v \in Seeded : cache[v] # None /\ cache[v] = enums[v]
        BY DEF ServesOnlyReady
    <2>1. cache # Nil /\ cache = enums
        BY DEF IInv, CacheCurrent
    <2>2. Applied(14) /\ SeededUpTo(14)
        BY MigrationFacts, SeedFacts DEF IInv, MigratedSoFar, SeededSoFar, AfterSeeds
    <2>3. \A v \in Seeded : enums[v] # None
        BY <2>2, SeedFacts DEF SeededUpTo
    <2>4. Schema \subseteq db
        BY <2>2, MigrationFacts DEF Applied, Schema
    <2>5. {"issuer:text", "bodies:jsonb"} \cap db = {}
        <3>1. Migrations[10].takes = {"issuer:text"} /\ Migrations[13].takes = {"bodies:jsonb"}
            BY DEF Migrations, Migration
        <3> QED
            BY <2>2, <3>1 DEF Applied
    <2> QED
        BY <2>1, <2>3, <2>4, <2>5 DEF Ready
<1> QED
    BY <1>1, Invariance, PTL

\* No stored row, of this process or an earlier one, names an enum row the cache lacks
\* (the EnumCache against the foreign keys of credential_requests and credentials).
THEOREM RowsResolveHolds == Spec => []RowsResolve
<1>1. IInv => RowsResolve
    BY DEF IInv, RowsResolve, CacheCurrent, ForeignKeys
<1> QED
    BY <1>1, Invariance, PTL

\* What NewGateway and NewVerifierRegistry check at boot is enough for every provider a
\* credential type names to be called and its results stored.
THEOREM VendorsResolveHolds == Spec => []VendorsResolve
<1>1. IInv => VendorsResolve
    <2> SUFFICES ASSUME IInv, pc \in Running, NEW use \in config.uses
                 PROVE  /\ use \in config.offers /\ use[1] \in Callers
                        /\ config.host => cache[Verifier[use[1]]] # None
        BY DEF VendorsResolve
    <2>1. use \in config.offers /\ use[1] \in Callers
        BY DEF IInv, Checked, EnsureCapability
    <2>2. Verifier[use[1]] \in {"DIGIO", "MOCK"}
        BY <2>1 DEF Callers, Verifier
    <2>3. Seeds[9] = "DIGIO" /\ Seeds[10] = "MOCK"
        BY DEF Seeds
    <2>4. config.host => cache = enums /\ SeededUpTo(14)
        BY SeedFacts DEF IInv, CacheCurrent, SeededSoFar, AfterSeeds
    <2> QED
        BY <2>1, <2>2, <2>3, <2>4 DEF SeededUpTo
<1> QED
    BY <1>1, Invariance, PTL

\* Telemetry is flushed by every process that was not cut short (New's error paths, the
\* shutdown of App.Start).
THEOREM FlushedUnlessCutShortHolds == Spec => []FlushedUnlessCutShort
<1>1. IInv => FlushedUnlessCutShort
    BY DEF IInv
<1> QED
    BY <1>1, Invariance, PTL

\* Restarts and reruns of the migrations keep the id of every seeded value (the upsert of
\* seedEnumTypes, the stale deletion of RunMigrations).
THEOREM IdsStableHolds == Spec => IdsStable
<1>1. ASSUME IInv, [Next]_vars
      PROVE  \A v \in Seeded : enums[v] # None => enums'[v] = enums[v]
    <2>1. TypeOK /\ ForeignKeys
        BY <1>1 DEF IInv
    <2>2. CASE QuietStep
        BY <2>2, QuietTable DEF table
    <2>3. ASSUME NEW ok \in BOOLEAN, Migrate(ok)
          PROVE  \A v \in Seeded : enums[v] # None => enums'[v] = enums[v]
        <3>1. at \in 1..14
            BY <2>1, <2>3, MigrationFacts DEF Migrate, TypeOK
        <3>2. UNCHANGED enums \/ (Possible(Migrations[at]) /\ Apply(Migrations[at]))
            BY <2>3 DEF Migrate, StopMigrating, table
        <3> QED
            BY <2>1, <3>1, <3>2, ApplyKeeps
    <2>4. ASSUME NEW ok \in BOOLEAN, Seed(ok)
          PROVE  \A v \in Seeded : enums[v] # None => enums'[v] = enums[v]
        <3>1. Seeds[at] \in Values /\ UNCHANGED refs
            BY <2>1, <2>4, SeedFacts DEF Seed, TypeOK
        <3>2. UNCHANGED enums \/ Upsert(Seeds[at])
            BY <2>4 DEF Seed
        <3> QED
            BY <2>1, <3>1, <3>2, UpsertKeeps, SeedFacts
    <2>5. CASE \E v \in Written : Store(v)
        BY <2>5 DEF Store
    <2> QED
        BY <1>1, <2>2, <2>3, <2>4, <2>5 DEF Next, Run, Fault, QuietStep
<1> QED
    BY <1>1, Invariance, PTL DEF Spec, IdsStable

=============================================================================
