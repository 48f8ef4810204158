------------------------------- MODULE Startup -------------------------------
(***************************************************************************)
(* One process of the service from main to its end, over a database that   *)
(* survives it: telemetry, connection, migrations, seeds, provider         *)
(* gateway, verifier registry, enum cache, signature check, worker, server;  *)
(* then the shutdown in the order bootstrap.App.Start gives it.  A process *)
(* may fail or die at any step, and its container is started again.        *)
(*                                                                         *)
(* A migration is what it needs, gives and takes away.  Each is one        *)
(* multi-statement query, which Postgres applies as a whole or not at all. *)
(***************************************************************************)
EXTENDS Integers, Sequences, FiniteSets

CONSTANTS
    Databases,  \* the databases the service may be started on
    Configs,    \* the configurations it may be started with
    Written,    \* the enum values its rows refer to in this instance
    MaxFaults,  \* bound: failing calls
    MaxStops    \* bound: signals and crashes

None == 0                    \* a value that has no row in enum_types
Nil == [v \in {} |-> None]   \* no cache

-----------------------------------------------------------------------------
(* What the code lists.                                                      *)

\* seedEnumTypes, without labels and schemas.
Seeds == <<"PAN", "GST", "FSSAI", "UDYAM", "PENDING", "VERIFIED", "FAILED", "REJECTED",
           "DIGIO", "MOCK", "INCOME_TAX_DEPT", "GSTN", "FSSAI_AUTHORITY", "MSME">>

Seeded == {Seeds[i] : i \in 1..Len(Seeds)}
Stale == {"CRED_PAN", "CRED_GST"}
Values == Seeded \cup Stale

\* setupProviderGateway's callers, and the CRED_VERIFIER value of each.
Callers == {"digio", "mock"}
Verifier == [digio |-> "DIGIO", mock |-> "MOCK"]

\* A migration: the objects it needs and gives, the legacy ones it takes away, those
\* that make it fail, and the enum values it deletes.
Migration(needs, gives) ==
    [needs |-> needs, gives |-> gives, takes |-> {}, blocks |-> {}, drops |-> {}]

Tables == {"enum_types", "credential_requests", "credentials"}

Migrations == <<
    Migration({}, {"uuid-ossp"}),
    Migration({"uuid-ossp"}, {"enum_types"}),
    Migration({"enum_types"}, {"enum_columns"}),
    Migration({"uuid-ossp", "enum_types"}, {"credential_requests"}),
    Migration({"credential_requests"}, {"request_indexes"}),
    Migration({"uuid-ossp", "enum_types"}, {"credentials"}),
    Migration({"credentials"}, {"credentials_indexes"}),
    [Migration({"enum_types"}, {}) EXCEPT !.drops = Stale],
    Migration({"credential_requests"}, {"dedup"}),
    [Migration(Tables, {"issuer_fkey"}) EXCEPT !.takes = {"issuer:text"}, !.blocks = {"issuer:codes"}],
    Migration({"credential_requests"}, {"subscriber_id"}),
    Migration({"credential_requests"}, {"bodies"}),
    [Migration({"bodies"}, {}) EXCEPT !.takes = {"bodies:jsonb"}],
    Migration({"dedup"}, {"vendor_calls_index"}) >>

\* What the code needs of a database, and what earlier versions may have left in one:
\* text issuers (perhaps codes, which are no UUIDs) and JSONB bodies.
Schema == UNION {Migrations[i].gives : i \in 1..Len(Migrations)}
Leftovers == {"issuer:text", "issuer:codes", "bodies:jsonb"}
Objects == Schema \cup Leftovers

Ready(d) == Schema \subseteq d /\ {"issuer:text", "bodies:jsonb"} \cap d = {}

-----------------------------------------------------------------------------

\* Rows refer to enum rows by foreign keys.
Database == [db : SUBSET Objects, enums : [Values -> Nat], minted : Nat, refs : SUBSET Nat]

\* Whether there is a database host; the exporters in the order Setup starts them; the
\* <<provider, capability>> pairs configs/providers offers and the credential types
\* use; which of the two kinds of definitions load; whether the signature check has
\* what it needs.
Config == [host : BOOLEAN, exports : Seq({"trace", "metric", "log"}),
           offers : SUBSET (STRING \X STRING), uses : SUBSET (STRING \X STRING),
           valid : SUBSET {"providers", "types"}, auth : BOOLEAN]

ASSUME DatabasesAssumption ==
    \A d \in Databases :
        /\ d \in Database
        /\ \A v \in Values : d.enums[v] <= d.minted
        /\ \A id \in d.refs : id # None /\ \E v \in Values : d.enums[v] = id
ASSUME ConfigsAssumption == Configs \subseteq Config
ASSUME WrittenAssumption == Written \subseteq Seeded
ASSUME BoundsAssumption == MaxFaults \in Nat /\ MaxStops \in Nat

VARIABLES
    db,      \* the objects of the database
    enums,   \* enum_types: the id of each value
    minted,  \* the ids enum_types has given out so far
    refs,    \* the ids the rows of the other tables refer to
    config,  \* the environment and the files the process is started with
    pc,      \* where the process is
    at,      \* the next exporter, migration or seed
    up,      \* telemetry providers that are installed and not shut down
    cache,   \* the EnumCache
    ending,  \* history: how the last process ended
    faults,  \* failed calls so far
    stops    \* signals and crashes so far

table   == <<db, enums, minted, refs>>
process == <<pc, at, up, cache, ending>>
vars    == <<table, config, process, faults, stops>>

Booting == {"telemetry", "connect", "migrate", "seed", "gateway", "registry", "stack", "auth", "start"}
Running == {"listen", "serving", "draining"}
Endings == {"none", "failed", "stopped", "forced", "listen", "crash"}

Exporters == {config.exports[i] : i \in 1..Len(config.exports)}

Init ==
    /\ \E d \in Databases : db = d.db /\ enums = d.enums /\ minted = d.minted /\ refs = d.refs
    /\ config \in Configs
    /\ pc = "down" /\ at = 1 /\ up = {} /\ cache = Nil
    /\ ending = "none"
    /\ faults = 0 /\ stops = 0

-----------------------------------------------------------------------------
(* The stages of a boot.                                                     *)

\* On to the next stage, or to the next element of this one.
Enter(stage) == pc' = stage /\ at' = 1 /\ UNCHANGED <<up, ending>>
Advance == at' = at + 1 /\ UNCHANGED <<pc, up, ending>>

\* Mutant of GiveUp: the error is returned at once.
GiveUpAtOnce ==
    /\ pc' = "down" /\ ending' = "failed" /\ cache' = Nil
    /\ UNCHANGED <<at, up>>

\* New returns an error, after the shutdown of whatever telemetry was set up.
GiveUp ==
    /\ pc' = "flush" /\ ending' = "failed" /\ cache' = Nil
    /\ UNCHANGED <<at, up>>

\* A call fails.
Fails == GiveUp /\ faults < MaxFaults /\ faults' = faults + 1

Boot ==
    /\ pc = "down"
    /\ pc' = "telemetry" /\ at' = 1 /\ up' = {} /\ ending' = "none"
    /\ UNCHANGED <<table, config, cache, faults, stops>>

\* telemetry.Setup: one exporter after the other.  If one fails, those before it are
\* shut down.
StartExporter(ok) ==
    /\ pc = "telemetry" /\ at <= Len(config.exports)
    /\ IF ok THEN /\ up' = up \cup {config.exports[at]} /\ at' = at + 1
                  /\ UNCHANGED <<pc, cache, ending, faults>>
             ELSE Fails
    /\ UNCHANGED <<table, config, stops>>

TelemetryReady ==
    /\ pc = "telemetry" /\ at > Len(config.exports)
    /\ Enter("connect")
    /\ UNCHANGED <<table, config, cache, faults, stops>>

\* setupDatabase, which leaves everything out that needs a database when there is none.
Connect(ok) ==
    /\ pc = "connect"
    /\ IF ok \/ ~config.host
       THEN Enter(IF config.host THEN "migrate" ELSE "gateway") /\ UNCHANGED <<cache, faults>>
       ELSE Fails
    /\ UNCHANGED <<table, config, stops>>

\* Mutant of Referenced: the tables were created without their foreign keys.
ReferencedNever(v) == FALSE

\* Deleting a row of enum_types fails while a row refers to it.
Referenced(v) == enums[v] \in refs

\* Mutant of Possible: CREATE without IF NOT EXISTS.
PossibleOnce(m) == m.needs \subseteq db /\ m.gives \cap db = {}

Possible(m) ==
    /\ m.needs \subseteq db /\ m.blocks \cap db = {}
    /\ \A v \in m.drops : ~Referenced(v)

Apply(m) ==
    /\ db' = (db \ m.takes) \cup m.gives
    /\ enums' = [v \in Values |-> IF v \in m.drops THEN None ELSE enums[v]]
    /\ UNCHANGED <<minted, refs>>

\* Mutant of StopMigrating: a migration that fails is logged and skipped.
SkipMigration == Advance /\ UNCHANGED <<table, cache, faults>>

StopMigrating == GiveUp /\ UNCHANGED <<table, faults>>

\* RunMigrations stops at the first that fails.  If the connection is lost, it may have
\* been applied.
Migrate(ok) ==
    /\ pc = "migrate" /\ at <= Len(Migrations)
    /\ IF Possible(Migrations[at])
       THEN IF ok THEN Apply(Migrations[at]) /\ Advance /\ UNCHANGED <<cache, faults>>
                  ELSE (Apply(Migrations[at]) \/ UNCHANGED table) /\ Fails
       ELSE StopMigrating
    /\ UNCHANGED <<config, stops>>

Migrated ==
    /\ pc = "migrate" /\ at > Len(Migrations)
    /\ Enter("seed")
    /\ UNCHANGED <<table, config, cache, faults, stops>>

\* Mutant of Upsert: a seed that is there is inserted anew.
UpsertAnew(v) == enums' = [enums EXCEPT ![v] = minted + 1] /\ minted' = minted + 1

\* INSERT ... ON CONFLICT DO UPDATE keeps the id of a value that is there.
Upsert(v) ==
    IF enums[v] = None THEN enums' = [enums EXCEPT ![v] = minted + 1] /\ minted' = minted + 1
                       ELSE UNCHANGED <<enums, minted>>

\* seedEnumTypes.
Seed(ok) ==
    /\ pc = "seed" /\ at <= Len(Seeds)
    /\ IF ok THEN Upsert(Seeds[at]) /\ Advance /\ UNCHANGED <<cache, faults>>
             ELSE (Upsert(Seeds[at]) \/ UNCHANGED <<enums, minted>>) /\ Fails
    /\ UNCHANGED <<db, refs, config, stops>>

SeedsDone ==
    /\ pc = "seed" /\ at > Len(Seeds)
    /\ Enter("gateway")
    /\ UNCHANGED <<table, config, cache, faults, stops>>

\* NewGateway: every provider that is catalogued has a client.
GatewayBuilds == "providers" \in config.valid /\ \A o \in config.offers : o[1] \in Callers

BuildGateway ==
    /\ pc = "gateway"
    /\ IF GatewayBuilds THEN Enter("registry") /\ UNCHANGED cache ELSE GiveUp
    /\ UNCHANGED <<table, config, faults, stops>>

\* Mutant of EnsureCapability: the capability is not looked up.
EnsureProvider(use) == \E o \in config.offers : o[1] = use[1]

EnsureCapability(use) == use \in config.offers /\ use[1] \in Callers

\* NewVerifierRegistry.
BuildRegistry ==
    /\ pc = "registry"
    /\ IF "types" \in config.valid /\ \A use \in config.uses : EnsureCapability(use)
       THEN Enter("stack") /\ UNCHANGED cache ELSE GiveUp
    /\ UNCHANGED <<table, config, faults, stops>>

\* Mutant of Load: a cache is made without a database too.
LoadAlways == cache' = enums

Load == IF config.host THEN cache' = enums ELSE UNCHANGED cache

\* setupCredentialStack: the only time the enum cache is filled.
BuildStack(ok) ==
    /\ pc = "stack"
    /\ IF ok \/ ~config.host THEN Enter("auth") /\ Load /\ UNCHANGED faults ELSE Fails
    /\ UNCHANGED <<table, config, stops>>

\* setupAuthVerifier.
BuildAuth ==
    /\ pc = "auth"
    /\ IF config.auth THEN Enter("start") /\ UNCHANGED cache ELSE GiveUp
    /\ UNCHANGED <<table, config, faults, stops>>

-----------------------------------------------------------------------------
(* App.Start.                                                                *)

\* The worker, if there is a database, is started before the server.
Start ==
    /\ pc = "start"
    /\ pc' = "listen"
    /\ UNCHANGED <<table, config, at, up, cache, ending, faults, stops>>

\* The process ends; what it held in memory is gone.
End(how) == pc' = "down" /\ ending' = how /\ cache' = Nil /\ UNCHANGED <<at, up>>

\* If the server cannot listen, Start returns without any shutdown.
Listen(ok) ==
    /\ pc = "listen"
    /\ IF ok THEN pc' = "serving" /\ UNCHANGED <<at, up, cache, ending, faults>>
             ELSE End("listen") /\ faults < MaxFaults /\ faults' = faults + 1
    /\ UNCHANGED <<table, config, stops>>

\* The worker and the handlers write rows that refer to the ids they have cached.
Store(v) ==
    /\ pc \in Running /\ cache # Nil
    /\ \E u \in Values : cache[v] = enums[u] /\ enums[u] # None
    /\ refs' = refs \cup {cache[v]}
    /\ UNCHANGED <<db, enums, minted, config, process, faults, stops>>

Signal ==
    /\ pc = "serving" /\ stops < MaxStops
    /\ pc' = "draining" /\ stops' = stops + 1
    /\ UNCHANGED <<table, config, at, up, cache, ending, faults>>

Drain ==
    /\ pc = "draining"
    /\ pc' = "flush" /\ ending' = "stopped"
    /\ UNCHANGED <<table, config, at, up, cache, faults, stops>>

\* Connections outlast the ten seconds of the shutdown's context, which telemetry is
\* then given too.
Expire ==
    /\ pc = "draining"
    /\ End("forced")
    /\ UNCHANGED <<table, config, faults, stops>>

\* telemetry's shutdown: the providers in the reverse order of their start.
Flush ==
    /\ pc = "flush"
    /\ IF up = {} THEN End(ending)
       ELSE /\ \E i \in 1..Len(config.exports) :
                /\ config.exports[i] \in up
                /\ \A j \in i + 1..Len(config.exports) : config.exports[j] \notin up
                /\ up' = up \ {config.exports[i]}
            /\ UNCHANGED <<pc, at, cache, ending>>
    /\ UNCHANGED <<table, config, faults, stops>>

Crash ==
    /\ pc # "down" /\ stops < MaxStops
    /\ End("crash") /\ stops' = stops + 1
    /\ UNCHANGED <<table, config, faults>>

\* What the process does when no call fails and nobody stops it.
Run ==
    \/ Boot \/ StartExporter(TRUE) \/ TelemetryReady \/ Connect(TRUE)
    \/ Migrate(TRUE) \/ Migrated \/ Seed(TRUE) \/ SeedsDone
    \/ BuildGateway \/ BuildRegistry \/ BuildStack(TRUE) \/ BuildAuth
    \/ Start \/ Listen(TRUE) \/ Drain \/ Expire \/ Flush

Fault ==
    \/ StartExporter(FALSE) \/ Connect(FALSE) \/ Migrate(FALSE) \/ Seed(FALSE)
    \/ BuildStack(FALSE) \/ Listen(FALSE)

\* The server waits for requests and signals.
Idle == pc = "serving" /\ UNCHANGED vars

Next == Run \/ Fault \/ Signal \/ Crash \/ Idle \/ \E v \in Written : Store(v)

Spec == Init /\ [][Next]_vars

\* A process that can go on does, and one that ended is started again.
FairSpec == Spec /\ WF_vars(Run)

-----------------------------------------------------------------------------
(* What must hold.                                                           *)

TypeOK ==
    /\ db \subseteq Objects /\ enums \in [Values -> Nat] /\ minted \in Nat
    /\ refs \subseteq Nat \ {None}
    /\ config \in Configs
    /\ pc \in Booting \cup Running \cup {"down", "flush"}
    /\ at \in Nat \ {0}
    /\ up \subseteq Exporters
    /\ cache \in [Values -> Nat] \cup {Nil}
    /\ cache # Nil => config.host
    /\ ending \in Endings
    /\ faults \in 0..MaxFaults /\ stops \in 0..MaxStops

\* Whatever database the process was started on, and wherever earlier boots broke off:
\* once the worker or the server runs, the schema is complete and every seed resolves.
ServesOnlyReady ==
    pc \in Running /\ config.host =>
        /\ Ready(db)
        /\ cache # Nil
        /\ \A v \in Seeded : cache[v] # None /\ cache[v] = enums[v]

\* Every enum row that stored rows refer to, those of earlier processes included, is in
\* the cache of the process that reads them.
RowsResolve ==
    pc \in Running /\ config.host => \A id \in refs : \E v \in Values : cache[v] = id

\* An id once given to a seeded value is never another one: the PENDING rows of one
\* process are those of the next.
IdsStable == [][\A v \in Seeded : enums[v] # None => enums'[v] = enums[v]]_vars

\* What serves has a client and a capability for every provider a credential type
\* names, and a CRED_VERIFIER row to store its results under.
VendorsResolve ==
    pc \in Running =>
        \A use \in config.uses :
            /\ use \in config.offers /\ use[1] \in Callers
            /\ config.host => cache[Verifier[use[1]]] # None

\* A process that ends leaves telemetry behind only if it was killed, forced, or could
\* not listen.
FlushedUnlessCutShort == pc = "down" /\ up # {} => ending \in {"crash", "forced", "listen"}

\* A good configuration on a database whose data no migration trips over.
Bootable ==
    /\ GatewayBuilds /\ config.auth
    /\ "types" \in config.valid /\ \A use \in config.uses : EnsureCapability(use)
    /\ config.host => "issuer:codes" \notin db /\ \A v \in Stale : ~Referenced(v)

\* Such a service comes up, whatever the database holds already and however many boots
\* break off halfway.
EventuallyServes == Bootable ~> pc = "serving"

-----------------------------------------------------------------------------
(* The inductive invariant.                                                  *)

\* What the first n migrations have done is still done.
Applied(n) ==
    \A i \in 1..n :
        /\ Migrations[i].gives \subseteq db /\ Migrations[i].takes \cap db = {}

SeededUpTo(n) == \A i \in 1..n : enums[Seeds[i]] # None

AfterSeeds == {"gateway", "registry", "stack", "auth", "start"} \cup Running

MigratedSoFar ==
    /\ pc = "migrate" => at <= Len(Migrations) + 1 /\ Applied(at - 1)
    /\ pc = "seed" \/ (pc \in AfterSeeds /\ config.host) => Applied(Len(Migrations))

SeededSoFar ==
    /\ pc = "seed" => at <= Len(Seeds) + 1 /\ SeededUpTo(at - 1)
    /\ pc \in AfterSeeds /\ config.host => SeededUpTo(Len(Seeds))

\* Nothing changes enum_types once the cache is filled.
CacheCurrent ==
    /\ cache # Nil => cache = enums
    /\ pc \in {"auth", "start"} \cup Running /\ config.host => cache # Nil
    /\ pc \in {"down"} \cup (Booting \ {"auth", "start"}) => cache = Nil

ForeignKeys == \A id \in refs : \E v \in Values : enums[v] = id

Checked ==
    /\ pc \in {"registry", "stack", "auth", "start"} \cup Running => GatewayBuilds
    /\ pc \in {"stack", "auth", "start"} \cup Running => \A use \in config.uses : EnsureCapability(use)

IInv ==
    /\ TypeOK
    /\ MigratedSoFar /\ SeededSoFar /\ CacheCurrent /\ ForeignKeys /\ Checked
    /\ FlushedUnlessCutShort

=============================================================================
