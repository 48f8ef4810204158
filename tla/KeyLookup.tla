------------------------------ MODULE KeyLookup ------------------------------
(***************************************************************************)
(* How a signed request is authenticated when keys come from the ONDC      *)
(* Registry: ONDCRegistryClient resolves the public key of the             *)
(* Authorization header's keyId, from its cache or by a lookup, and        *)
(* Verifier checks the header's time window and signature with it.         *)
(* Handlers run concurrently: nothing joins their lookups of one keyId,    *)
(* and the registry may change between a lookup and its answer.            *)
(*                                                                         *)
(* Time is a counter of ticks.  A lookup takes at most Timeout of them     *)
(* (http.Client's), the processor work after it takes none.                *)
(***************************************************************************)
EXTENDS Integers

CONSTANTS
    Handlers,    \* requests handled at once; each handler takes one after the other
    Ids,         \* keyIds: a subscriber_id and a unique_key_id
    Keys,        \* signing public keys
    Entries,     \* what the registry may list under a keyId
    Lags,        \* inputs: how far a header's created is behind the clock (or ahead, if negative)
    Life,        \* from the created to the expires of a header (an hour)
    TTL,         \* CacheTTL (5 minutes)
    Timeout,     \* of one lookup (10 seconds)
    MaxTime,     \* bound: ticks
    MaxChanges,  \* bound: changes of the registry
    Nil          \* no cache entry, no answer, no key

Never == -1       \* before the clock starts

\* RegistrySubscriberKey: signing_public_key, whether Status is SUBSCRIBED, and
\* valid_from and valid_until.
Entry == [key : Keys, subscribed : BOOLEAN, from : Int, until : Int]

\* cachedKey, with the entry its key is from.
CacheEntry == [entry : Entries, expiresAt : Nat]

ASSUME EntriesAssumption == Entries \subseteq Entry
ASSUME NilAssumption == Nil \notin CacheEntry
ASSUME TimesAssumption == TTL \in Nat \ {0} /\ Timeout \in Nat \ {0} /\ Life \in Nat
ASSUME LagsAssumption == Lags \subseteq Int
ASSUME BoundsAssumption == MaxTime \in Nat /\ MaxChanges \in Nat

VARIABLES
    now,       \* time.Now()
    registry,  \* the entry the registry lists under each keyId
    changes,   \* of the registry so far
    listed,    \* history: when the registry last listed each entry
    cache,     \* the client's cache: the entry its key is from, and expiresAt
    pc,        \* where each handler is in its request, or how its last one ended
    req,       \* its header, the key it is signed with and when it arrived
    answer,    \* what the registry answered its lookup with
    used       \* the entry its key is from

world    == <<registry, changes, listed>>
requests == <<pc, req, answer, used>>
vars     == <<now, world, cache, requests>>

Time == 0..MaxTime

Request == [id : Ids, signer : Keys, created : Int, began : Nat]
Undecided == {"asked", "answered", "check"}

\* With no request in hand: the last one, if any, passed, was refused for its
\* signature, or was refused before (401 both).
Decided == {"accepted", "forged", "idle"}

\* What the registry lists is remembered with the time it still did.
Remember(reg, t) ==
    listed' = [i \in Ids |-> [e \in Entries |-> IF reg[i] = e THEN t ELSE listed[i][e]]]

Init ==
    /\ now = 0
    /\ registry \in [Ids -> Entries]
    /\ changes = 0
    /\ listed = [i \in Ids |-> [e \in Entries |-> IF registry[i] = e THEN 0 ELSE Never]]
    /\ cache = [i \in Ids |-> Nil]
    /\ pc = [h \in Handlers |-> "idle"]
    /\ req = [h \in Handlers |-> Nil]
    /\ answer = [h \in Handlers |-> Nil]
    /\ used = [h \in Handlers |-> Nil]

Goto(h, l) == pc' = [pc EXCEPT ![h] = l]

-----------------------------------------------------------------------------
(* The clock and the registry.                                               *)

\* Mutant of Busy: the HTTP client has no timeout.
BusyChecking(h) == pc[h] = "check"

\* Time does not pass over a check, nor over the end of a lookup's timeout.
Busy(h) ==
    \/ pc[h] = "check"
    \/ pc[h] \in {"asked", "answered"} /\ now >= req[h].began + Timeout

Tick ==
    /\ now < MaxTime
    /\ \A h \in Handlers : ~Busy(h)
    /\ now' = now + 1
    /\ Remember(registry, now + 1)
    /\ UNCHANGED <<registry, changes, cache, requests>>

\* A key is rotated, revoked, or subscribed again.
Change(i, e) ==
    /\ changes < MaxChanges /\ registry[i] # e
    /\ changes' = changes + 1
    /\ registry' = [registry EXCEPT ![i] = e]
    /\ Remember([registry EXCEPT ![i] = e], now)
    /\ UNCHANGED <<now, cache, requests>>

\* The registry answers a lookup with entries, the one asked for or others.
Serve(h) ==
    /\ pc[h] = "asked"
    /\ Goto(h, "answered")
    /\ answer' = [answer EXCEPT ![h] = registry]
    /\ UNCHANGED <<now, world, cache, req, used>>

-----------------------------------------------------------------------------
(* VerifyRequest.                                                            *)

\* Mutant of Cached: expiresAt is not looked at.
CachedForEver(i) == cache[i] # Nil

\* cachedKey finds an entry: it is used up to and including expiresAt.
Cached(i) == cache[i] # Nil /\ now <= cache[i].expiresAt

\* ParseKeyID, then LookupSubscriberKey's look at the cache, under its read lock.
Arrive(h) ==
    /\ pc[h] \in Decided
    /\ \E i \in Ids, k \in Keys, lag \in Lags :
        /\ req' = [req EXCEPT ![h] =
                      [id |-> i, signer |-> k, created |-> now - lag, began |-> now]]
        /\ IF Cached(i) THEN Goto(h, "check") /\ used' = [used EXCEPT ![h] = cache[i].entry]
                        ELSE Goto(h, "asked") /\ UNCHANGED used
    /\ UNCHANGED <<now, world, cache, answer>>

Matches(i, h) == i = req[h].id
WithinValidity(e) == e.from <= now /\ now <= e.until
Usable(e) == e.subscribed /\ WithinValidity(e)

\* Mutant of Resolve: an entry already in the cache is renewed with the key it has.
ResolveRenewing(h) ==
    /\ pc[h] = "answered"
    /\ \E i \in Ids :
        LET e == answer[h][i] IN
        /\ Matches(i, h) /\ Usable(e)
        /\ cache' = [cache EXCEPT ![req[h].id] =
                        [entry |-> IF @ = Nil THEN e ELSE @.entry, expiresAt |-> now + TTL]]
        /\ used' = [used EXCEPT ![h] = e]
    /\ Goto(h, "check")
    /\ answer' = [answer EXCEPT ![h] = Nil]
    /\ UNCHANGED <<now, world, req>>

\* The first usable entry's key is stored, whatever the cache holds by now.
Resolve(h) ==
    /\ pc[h] = "answered"
    /\ \E i \in Ids :
        LET e == answer[h][i] IN
        /\ Matches(i, h) /\ Usable(e)
        /\ cache' = [cache EXCEPT ![req[h].id] = [entry |-> e, expiresAt |-> now + TTL]]
        /\ used' = [used EXCEPT ![h] = e]
    /\ Goto(h, "check")
    /\ answer' = [answer EXCEPT ![h] = Nil]
    /\ UNCHANGED <<now, world, req>>

\* Mutant of Unresolved: the error of the lookup is not looked at.
UnresolvedChecked(h) ==
    /\ pc[h] \in {"asked", "answered"}
    /\ Goto(h, "check")
    /\ answer' = [answer EXCEPT ![h] = Nil]
    /\ UNCHANGED <<now, world, cache, req, used>>

\* No usable entry, or the lookup failed or timed out: the cache is as it was, and
\* a registry-backed Verifier falls back to no other key.
Unresolved(h) ==
    /\ pc[h] \in {"asked", "answered"}
    /\ Goto(h, "idle")
    /\ answer' = [answer EXCEPT ![h] = Nil] /\ req' = [req EXCEPT ![h] = Nil]
    /\ UNCHANGED <<now, world, cache, used>>

InWindow(h, t) == req[h].created <= t /\ t <= req[h].created + Life

\* VerifyAuthorisationHeader reads the clock again, after the lookup.
Check(h) ==
    /\ pc[h] = "check"
    /\ \/ ~InWindow(h, now) /\ Goto(h, "idle")
       \/ InWindow(h, now) /\ req[h].signer # used[h].key /\ Goto(h, "forged")
       \/ InWindow(h, now) /\ req[h].signer = used[h].key /\ Goto(h, "accepted")
    /\ req' = [req EXCEPT ![h] = Nil] /\ used' = [used EXCEPT ![h] = Nil]
    /\ UNCHANGED <<now, world, cache, answer>>

Verify(h) == Arrive(h) \/ Resolve(h) \/ Unresolved(h) \/ Check(h)

Next ==
    \/ Tick
    \/ \E i \in Ids, e \in Entries : Change(i, e)
    \/ \E h \in Handlers : Serve(h) \/ Verify(h)

Spec == Init /\ [][Next]_vars

-----------------------------------------------------------------------------
(* What must hold.                                                           *)

TypeOK ==
    /\ now \in Time
    /\ registry \in [Ids -> Entries]
    /\ changes \in 0..MaxChanges
    /\ listed \in [Ids -> [Entries -> Time \cup {Never}]]
    /\ cache \in [Ids -> CacheEntry \cup {Nil}]
    /\ pc \in [Handlers -> Undecided \cup Decided]
    /\ req \in [Handlers -> Request \cup {Nil}]
    /\ answer \in [Handlers -> [Ids -> Entries] \cup {Nil}]
    /\ used \in [Handlers -> Entries \cup {Nil}]
    /\ \A h \in Handlers : pc[h] = "check" => req[h] \in Request /\ used[h] \in Entries

\* What the registry said d ago or later, if the registry said it at all.
ListedWithin(i, e, d) == listed[i][e] # Never /\ now <= listed[i][e] + d

\* A key that authenticates a caller is one the registry listed for that caller's own
\* keyId, as SUBSCRIBED, at most a TTL and a lookup ago, and within its validity
\* window but for the TTL: the cache, which outlives valid_until and any revocation,
\* is never more out of date than that, in whatever order lookups answer.
KeyInUseRecent ==
    \A h \in Handlers : pc[h] = "check" =>
        LET e == used[h] IN
        /\ ListedWithin(req[h].id, e, TTL + Timeout)
        /\ e.subscribed /\ e.from <= now /\ now <= e.until + TTL

\* A rotation takes effect: once the registry has listed nothing but a key for longer
\* than a TTL and a lookup, a request signed with it is not refused for its signature,
\* although a slow lookup may put the older key back into the cache.
RotationTakesEffect ==
    [][\A h \in Handlers :
         LET e == registry[req[h].id] IN
         /\ pc[h] = "check" /\ pc'[h] = "forged"
         /\ \A f \in Entries \ {e} : ~ListedWithin(req[h].id, f, TTL + Timeout)
         => req[h].signer # e.key]_vars

\* How long a lookup takes decides on a header only near the ends of its window: one that
\* has begun and has a lookup's timeout left to live when its request arrives is refused
\* for no other reason than its signature, and one that is accepted was at most a
\* timeout early then (the window is held against the clock after the lookup).
WindowHeldInTime ==
    [][\A h \in Handlers : pc[h] = "check" =>
         LET r == req[h] IN
         /\ r.created <= r.began /\ r.began + Timeout <= r.created + Life
              => pc'[h] # "idle"
         /\ pc'[h] = "accepted"
              => r.created <= r.began + Timeout /\ r.began <= r.created + Life]_vars

-----------------------------------------------------------------------------
(* The inductive invariant: what a lookup that is out, an answer that is on  *)
(* its way and a cached key are known to be.                                 *)

ListedNow == \A i \in Ids :
    /\ listed[i][registry[i]] = now
    /\ \A e \in Entries : listed[i][e] <= now

LookupTimely ==
    \A h \in Handlers : pc[h] \in {"asked", "answered"} =>
        req[h] \in Request /\ req[h].began <= now /\ now <= req[h].began + Timeout

\* An answer is no older than the lookup.
AnswerListed ==
    \A h \in Handlers : pc[h] = "answered" =>
        /\ answer[h] \in [Ids -> Entries]
        /\ \A i \in Ids :
            /\ listed[i][answer[h][i]] # Never
            /\ req[h].began <= listed[i][answer[h][i]]

CacheBacked ==
    \A i \in Ids : cache[i] # Nil =>
        LET e == cache[i].entry IN
        /\ listed[i][e] # Never /\ cache[i].expiresAt <= listed[i][e] + TTL + Timeout
        /\ e.subscribed /\ e.from <= now /\ cache[i].expiresAt <= e.until + TTL

CheckTimely ==
    \A h \in Handlers : pc[h] = "check" =>
        req[h].began <= now /\ now <= req[h].began + Timeout

IInv ==
    /\ TypeOK
    /\ ListedNow /\ LookupTimely /\ AnswerListed /\ CacheBacked
    /\ CheckTimely /\ KeyInUseRecent

=============================================================================
