--------------------------- MODULE KeyLookupProofs ---------------------------
(***************************************************************************)
(* IInv is an inductive invariant of KeyLookup, and the age of a key, the  *)
(* effect of a rotation and the window of a header follow from it, for any *)
(* number of concurrent requests, keyIds and entries, any TTL and timeout. *)
(***************************************************************************)
EXTENDS KeyLookup, TLAPS

\* Time's steps, the registry's and the handlers' each preserve one type invariant:
\* the first part of the induction (the actions of KeyLookup).
LEMMA TypeStep ==
    ASSUME IInv, [Next]_vars
    PROVE  TypeOK'
<1> USE EntriesAssumption, TimesAssumption, BoundsAssumption DEF TypeOK, Time, Undecided, Decided, world, requests
<1>0. TypeOK
    BY DEF IInv
<1>1. CASE Tick
    BY <1>0, <1>1 DEF Tick, Remember
<1>2. ASSUME NEW i \in Ids, NEW e \in Entries, Change(i, e)
      PROVE  TypeOK'
    BY <1>0, <1>2 DEF Change, Remember
<1>3. ASSUME NEW h \in Handlers, Serve(h)
      PROVE  TypeOK'
    BY <1>0, <1>3 DEF Serve, Goto
<1>4. ASSUME NEW h \in Handlers, Arrive(h)
      PROVE  TypeOK'
    <2>1. PICK i \in Ids, k \in Keys, lag \in Lags :
            /\ req' = [req EXCEPT ![h] =
                        [id |-> i, signer |-> k, created |-> now - lag, began |-> now]]
            /\ IF Cached(i) THEN Goto(h, "check") /\ used' = [used EXCEPT ![h] = cache[i].entry]
                            ELSE Goto(h, "asked") /\ UNCHANGED used
        BY <1>4 DEF Arrive
    <2>2. [id |-> i, signer |-> k, created |-> now - lag, began |-> now] \in Request
        BY <1>0, LagsAssumption DEF Request, TypeOK, Time
    <2>3. req' \in [Handlers -> Request \cup {Nil}]
        BY <1>0, <2>1, <2>2
    <2>4. pc' \in [Handlers -> Undecided \cup Decided]
        BY <1>0, <2>1 DEF Goto
    <2>5. used' \in [Handlers -> Entries \cup {Nil}]
        <3>1. Cached(i) => cache[i].entry \in Entries
            BY <1>0 DEF Cached, CacheEntry
        <3> QED
            BY <1>0, <2>1, <3>1
    <2>6. \A g \in Handlers : pc'[g] = "check" => req'[g] \in Request /\ used'[g] \in Entries
        <3>1. pc'[h] = "check" => used'[h] \in Entries
            BY <1>0, <2>1 DEF Goto, Cached, CacheEntry
        <3>2. req'[h] \in Request
            BY <1>0, <2>1, <2>2
        <3>3. \A g \in Handlers \ {h} : pc'[g] = pc[g] /\ req'[g] = req[g] /\ used'[g] = used[g]
            BY <1>0, <2>1 DEF Goto
        <3> QED
            BY <1>0, <3>1, <3>2, <3>3
    <2> QED
        BY <1>0, <1>4, <2>3, <2>4, <2>5, <2>6 DEF Arrive
<1>5. ASSUME NEW h \in Handlers, Resolve(h)
      PROVE  TypeOK'
    <2>1. answer[h] \in [Ids -> Entries]
        BY <1>5 DEF IInv, AnswerListed, Resolve
    <2>2. PICK i \in Ids :
            /\ cache' = [cache EXCEPT ![req[h].id] =
                            [entry |-> answer[h][i], expiresAt |-> now + TTL]]
            /\ used' = [used EXCEPT ![h] = answer[h][i]]
        BY <1>5 DEF Resolve
    <2>3. [entry |-> answer[h][i], expiresAt |-> now + TTL] \in CacheEntry
        BY <1>0, <2>1 DEF CacheEntry
    <2>4. cache' \in [Ids -> CacheEntry \cup {Nil}]
        BY <1>0, <2>2, <2>3
    <2>5. used' \in [Handlers -> Entries \cup {Nil}]
        BY <1>0, <2>1, <2>2
    <2>6. \A g \in Handlers : pc'[g] = "check" => req'[g] \in Request /\ used'[g] \in Entries
        <3>1. req[h] \in Request
            BY <1>5 DEF IInv, LookupTimely, Resolve
        <3>2. used'[h] \in Entries
            BY <1>0, <2>1, <2>2
        <3>3. \A g \in Handlers \ {h} : pc'[g] = pc[g] /\ req'[g] = req[g] /\ used'[g] = used[g]
            BY <1>0, <1>5, <2>2 DEF Resolve, Goto
        <3> QED
            BY <1>0, <1>5, <3>1, <3>2, <3>3 DEF Resolve
    <2> QED
        BY <1>0, <1>5, <2>4, <2>5, <2>6 DEF Resolve, Goto
<1>6. ASSUME NEW h \in Handlers, Unresolved(h)
      PROVE  TypeOK'
    BY <1>0, <1>6 DEF Unresolved, Goto
<1>7. ASSUME NEW h \in Handlers, Check(h)
      PROVE  TypeOK'
    BY <1>0, <1>7 DEF Check, Goto
<1>8. CASE UNCHANGED vars
    BY <1>0, <1>8 DEF vars, world, requests
<1> QED
    BY <1>1, <1>2, <1>3, <1>4, <1>5, <1>6, <1>7, <1>8 DEF Next, Verify

\* Whatever the registry listed stays on record, with a time that only grows, and
\* what it lists now is on record with the present (Tick and Change).
LEMMA HistoryStep ==
    ASSUME IInv, [Next]_vars
    PROVE  /\ now \in Nat /\ now' \in Nat /\ now <= now'
           /\ \A i \in Ids, e \in Entries : listed[i][e] # Never =>
                /\ listed[i][e] \in Nat
                /\ listed'[i][e] # Never /\ listed[i][e] <= listed'[i][e]
           /\ ListedNow'
<1> USE BoundsAssumption DEF Time, Never, ListedNow, world
<1>0. /\ now \in Time
      /\ registry \in [Ids -> Entries]
      /\ listed \in [Ids -> [Entries -> Time \cup {Never}]]
      /\ ListedNow
    BY DEF IInv, TypeOK
<1>1. \A i \in Ids, e \in Entries : listed[i][e] # Never => listed[i][e] \in Nat /\ listed[i][e] <= MaxTime
    BY <1>0
<1>2. \A i \in Ids, e \in Entries : listed[i][e] # Never => listed[i][e] <= now
    BY <1>0
<1>3. CASE Tick
    BY <1>0, <1>1, <1>2, <1>3 DEF Tick, Remember
<1>4. ASSUME NEW i \in Ids, NEW e \in Entries, Change(i, e)
      PROVE  /\ now' = now
             /\ \A j \in Ids, f \in Entries : listed[j][f] # Never =>
                  listed'[j][f] # Never /\ listed[j][f] <= listed'[j][f]
             /\ ListedNow'
    BY <1>0, <1>1, <1>2, <1>4 DEF Change, Remember
<1>5. CASE UNCHANGED <<now, world>>
    BY <1>0, <1>1, <1>2, <1>5
<1> QED
    BY <1>0, <1>1, <1>3, <1>4, <1>5
    DEF Next, Verify, Serve, Arrive, Resolve, Unresolved, Check, vars

\* The induction: no action of KeyLookup breaks what is known of lookups, answers,
\* cached keys and keys in hand.
LEMMA InvariantStep ==
    ASSUME IInv, [Next]_vars
    PROVE  IInv'
<1> USE TimesAssumption, EntriesAssumption DEF Never, world, requests
<1> DEFINE Kept == \A i \in Ids, e \in Entries : listed[i][e] # Never =>
                     /\ listed[i][e] \in Nat
                     /\ listed'[i][e] # Never /\ listed[i][e] <= listed'[i][e]
<1>t. TypeOK'
    BY TypeStep
<1>k. now \in Nat /\ now' \in Nat /\ now <= now' /\ Kept /\ ListedNow'
    BY HistoryStep
<1>l. \A i \in Ids, e \in Entries : listed'[i][e] # Never => listed'[i][e] \in Nat
    BY <1>t, BoundsAssumption DEF TypeOK, Time
<1>e. \A e \in Entries : e.from \in Int /\ e.until \in Int
    BY DEF Entry
<1>c. \A i \in Ids : cache[i] # Nil => cache[i].entry \in Entries /\ cache[i].expiresAt \in Nat
    BY DEF IInv, TypeOK, CacheEntry
<1>i. /\ TypeOK /\ ListedNow /\ LookupTimely /\ AnswerListed
      /\ CacheBacked /\ CheckTimely /\ KeyInUseRecent
    BY DEF IInv
<1> HIDE DEF Kept
<1>b. ASSUME UNCHANGED cache
      PROVE  CacheBacked'
    BY <1>b, <1>c, <1>e, <1>i, <1>k, <1>l DEF CacheBacked, Kept
<1>1. CASE Tick
    <2>1. LookupTimely'
        BY <1>1, <1>i, <1>k DEF Tick, Busy, LookupTimely, Request
    <2>2. AnswerListed'
        BY <1>1, <1>i, <1>k, <1>l DEF Tick, AnswerListed, LookupTimely, Request, Kept
    <2>3. CheckTimely' /\ KeyInUseRecent'
        BY <1>1, <1>i DEF Tick, Busy, CheckTimely, KeyInUseRecent
    <2> QED
        BY <1>1, <1>t, <1>k, <1>b, <2>1, <2>2, <2>3 DEF IInv, Tick
<1>2. ASSUME NEW i \in Ids, NEW e \in Entries, Change(i, e)
      PROVE  IInv'
    <2>1. LookupTimely' /\ CheckTimely'
        BY <1>2, <1>i DEF Change, LookupTimely, CheckTimely
    <2>2. AnswerListed'
        BY <1>2, <1>i, <1>k, <1>l DEF Change, AnswerListed, LookupTimely, Request, Kept
    <2>3. KeyInUseRecent'
        BY <1>2, <1>i, <1>k, <1>l DEF Change, TypeOK, KeyInUseRecent, ListedWithin, Request, Kept
    <2> QED
        BY <1>2, <1>t, <1>k, <1>b, <2>1, <2>2, <2>3 DEF IInv, Change
<1>3. ASSUME NEW h \in Handlers, Serve(h)
      PROVE  IInv'
    <2>1. LookupTimely'
        BY <1>3, <1>i DEF Serve, Goto, LookupTimely, TypeOK
    <2>2. AnswerListed'
        BY <1>3, <1>i, <1>k DEF Serve, Goto, AnswerListed, LookupTimely, ListedNow, TypeOK
    <2>3. CheckTimely' /\ KeyInUseRecent'
        BY <1>3, <1>i DEF Serve, Goto, CheckTimely, KeyInUseRecent, ListedWithin, TypeOK
    <2> QED
        BY <1>3, <1>t, <1>k, <1>b, <2>1, <2>2, <2>3 DEF IInv, Serve
<1>4. ASSUME NEW h \in Handlers, Arrive(h)
      PROVE  IInv'
    <2>1. PICK i \in Ids, k \in Keys, lag \in Lags :
            /\ req' = [req EXCEPT ![h] =
                        [id |-> i, signer |-> k, created |-> now - lag, began |-> now]]
            /\ IF Cached(i) THEN Goto(h, "check") /\ used' = [used EXCEPT ![h] = cache[i].entry]
                            ELSE Goto(h, "asked") /\ UNCHANGED used
        BY <1>4 DEF Arrive
    <2> DEFINE header == [id |-> i, signer |-> k, created |-> now - lag, began |-> now]
    <2>h. header \in Request /\ header.id = i /\ header.began = now
        BY <1>k, LagsAssumption DEF Request
    <2>r. req' = [req EXCEPT ![h] = header]
        BY <2>1
    <2> HIDE DEF header
    <2>2. /\ req'[h] \in Request
          /\ req'[h].id = i /\ req'[h].began = now
          /\ \A g \in Handlers \ {h} : req'[g] = req[g] /\ pc'[g] = pc[g] /\ used'[g] = used[g]
          /\ pc'[h] # "answered"
        BY <1>i, <2>1, <2>h, <2>r DEF Goto, TypeOK
    <2>3. UNCHANGED <<now, listed, cache, answer>>
        BY <1>4 DEF Arrive
    <2>4. pc'[h] = "check" => Cached(i) /\ used'[h] = cache[i].entry
        BY <1>i, <2>1 DEF Goto, TypeOK
    <2>5. LookupTimely' /\ AnswerListed'
        BY <1>i, <1>k, <2>2, <2>3 DEF LookupTimely, AnswerListed
    <2>6. CheckTimely'
        BY <1>i, <1>k, <2>2, <2>3 DEF CheckTimely
    <2>7. KeyInUseRecent'
        BY <1>i, <1>c, <1>e, <1>k, <1>l, <2>2, <2>3, <2>4
        DEF KeyInUseRecent, ListedWithin, Cached, CacheBacked
    <2> QED
        BY <1>t, <1>k, <1>b, <2>3, <2>5, <2>6, <2>7 DEF IInv
<1>5. ASSUME NEW h \in Handlers, Resolve(h)
      PROVE  IInv'
    <2>1. PICK i \in Ids :
            /\ i = req[h].id /\ answer[h][i].subscribed
            /\ answer[h][i].from <= now /\ now <= answer[h][i].until
            /\ cache' = [cache EXCEPT ![req[h].id] =
                            [entry |-> answer[h][i], expiresAt |-> now + TTL]]
            /\ used' = [used EXCEPT ![h] = answer[h][i]]
        BY <1>5 DEF Resolve, Matches, Usable, WithinValidity
    <2>2. pc[h] = "answered" /\ pc' = [pc EXCEPT ![h] = "check"] /\ answer' = [answer EXCEPT ![h] = Nil]
          /\ UNCHANGED <<now, listed, req>>
        BY <1>5 DEF Resolve, Goto
    <2>3. /\ req[h] \in Request /\ req[h].began <= now /\ now <= req[h].began + Timeout
          /\ answer[h][i] \in Entries
          /\ listed[i][answer[h][i]] # Never /\ req[h].began <= listed[i][answer[h][i]]
        BY <1>i, <2>2 DEF LookupTimely, AnswerListed
    <2>4. /\ listed[i][answer[h][i]] \in Nat
          /\ now <= listed[i][answer[h][i]] + Timeout
        BY <1>k, <2>3 DEF Kept, Request
    <2>5. /\ \A g \in Handlers \ {h} : pc'[g] = pc[g] /\ used'[g] = used[g] /\ answer'[g] = answer[g]
          /\ pc'[h] = "check" /\ used'[h] = answer[h][i]
          /\ \A j \in Ids \ {i} : cache'[j] = cache[j]
          /\ cache'[i] = [entry |-> answer[h][i], expiresAt |-> now + TTL]
        BY <1>i, <2>1, <2>2 DEF TypeOK
    <2>6. LookupTimely' /\ AnswerListed'
        BY <1>i, <2>2, <2>5 DEF LookupTimely, AnswerListed
    <2>7. CheckTimely'
        BY <1>i, <2>2, <2>3, <2>5 DEF CheckTimely
    <2>8. KeyInUseRecent'
        <3>1. /\ listed'[i][answer[h][i]] # Never
              /\ now' <= listed'[i][answer[h][i]] + TTL + Timeout
              /\ answer[h][i].subscribed /\ answer[h][i].from <= now'
              /\ now' <= answer[h][i].until + TTL
            BY <1>e, <1>k, <2>1, <2>2, <2>3, <2>4
        <3>2. req'[h].id = i
            BY <2>1, <2>2
        <3> QED
            BY <1>i, <2>2, <2>4, <2>5, <3>1, <3>2 DEF KeyInUseRecent, ListedWithin
    <2>9. CacheBacked'
        <3>1. /\ listed'[i][answer[h][i]] # Never
              /\ now + TTL <= listed'[i][answer[h][i]] + TTL + Timeout
              /\ answer[h][i].subscribed /\ answer[h][i].from <= now'
              /\ now + TTL <= answer[h][i].until + TTL
            BY <1>e, <1>k, <2>1, <2>2, <2>3, <2>4
        <3>2. cache'[i].entry = answer[h][i] /\ cache'[i].expiresAt = now + TTL
            BY <2>5
        <3> QED
            BY <1>i, <2>2, <2>5, <3>1, <3>2 DEF CacheBacked
    <2> QED
        BY <1>t, <1>k, <2>6, <2>7, <2>8, <2>9 DEF IInv
<1>6. ASSUME NEW h \in Handlers, Unresolved(h)
      PROVE  IInv'
    <2>1. LookupTimely' /\ AnswerListed' /\ CheckTimely' /\ KeyInUseRecent'
        BY <1>6, <1>i
        DEF Unresolved, Goto, LookupTimely, AnswerListed, CheckTimely, KeyInUseRecent, ListedWithin, TypeOK
    <2> QED
        BY <1>6, <1>t, <1>k, <1>b, <2>1 DEF IInv, Unresolved
<1>7. ASSUME NEW h \in Handlers, Check(h)
      PROVE  IInv'
    <2>1. LookupTimely' /\ AnswerListed' /\ CheckTimely' /\ KeyInUseRecent'
        BY <1>7, <1>i
        DEF Check, Goto, LookupTimely, AnswerListed, CheckTimely, KeyInUseRecent, ListedWithin, TypeOK
    <2> QED
        BY <1>7, <1>t, <1>k, <1>b, <2>1 DEF IInv, Check
<1>8. CASE UNCHANGED vars
    BY <1>8, <1>i, <1>t, <1>k, <1>b
    DEF IInv, vars, LookupTimely, AnswerListed, CheckTimely, KeyInUseRecent, ListedWithin
<1> QED
    BY <1>1, <1>2, <1>3, <1>4, <1>5, <1>6, <1>7, <1>8 DEF Next, Verify

LEMMA InitInvariant == Init => IInv
<1> USE EntriesAssumption, BoundsAssumption DEF Never
<1>1. ASSUME Init
      PROVE  IInv
    <2>1. TypeOK
        BY <1>1 DEF Init, TypeOK, Time, Undecided, Decided
    <2>2. ListedNow
        BY <1>1 DEF Init, ListedNow
    <2> QED
        BY <1>1, <2>1, <2>2
        DEF Init, IInv, LookupTimely, AnswerListed, CacheBacked, CheckTimely, KeyInUseRecent
<1> QED
    BY <1>1

\* What a lookup that is out, an answer and a cached key are known to be, always.
THEOREM Invariance == Spec => []IInv
    BY InitInvariant, InvariantStep, PTL DEF Spec

\* The states of the key lookup have the types its code gives them.
THEOREM TypeCorrect == Spec => []TypeOK
<1>1. IInv => TypeOK
    BY DEF IInv
<1> QED
    BY <1>1, Invariance, PTL

\* A key that authenticates a caller was listed for its keyId, SUBSCRIBED, at most a
\* TTL and a lookup ago, for any number of concurrent lookups (LookupSubscriberKey).
THEOREM KeyInUseRecentHolds == Spec => []KeyInUseRecent
<1>1. IInv => KeyInUseRecent
    BY DEF IInv
<1> QED
    BY <1>1, Invariance, PTL

\* A check ends with a step of Check (VerifyAuthorisationHeader).
LEMMA VerdictIsCheck ==
    ASSUME IInv, Next, NEW h \in Handlers, pc[h] = "check", pc'[h] # "check"
    PROVE  Check(h)
<1>0. TypeOK
    BY DEF IInv
<1>1. ASSUME NEW g \in Handlers, Serve(g) \/ Verify(g)
      PROVE  Check(h)
    <2>1. CASE g = h
        BY <1>0, <1>1, <2>1 DEF Verify, Serve, Arrive, Resolve, Unresolved, Decided
    <2>2. CASE g # h
        <3>1. pc'[h] = pc[h]
            BY <1>0, <1>1, <2>2 DEF TypeOK, Verify, Serve, Arrive, Resolve, Unresolved, Check, Goto
        <3> QED
            BY <3>1
    <2> QED
        BY <2>1, <2>2
<1>2. ~Tick /\ \A i \in Ids, e \in Entries : ~Change(i, e)
    BY DEF Tick, Change, requests
<1> QED
    BY <1>1, <1>2 DEF Next

\* A header that has begun and has a timeout left to live when its request arrives is not
\* refused for its window, and none is accepted that was more than a timeout early, for
\* any timeout and any life (LookupSubscriberKey, VerifyAuthorisationHeader).
THEOREM WindowHeldInTimeHolds == Spec => WindowHeldInTime
<1>1. IInv /\ [Next]_vars =>
        [\A h \in Handlers : pc[h] = "check" =>
            LET r == req[h] IN
            /\ r.created <= r.began /\ r.began + Timeout <= r.created + Life
                 => pc'[h] # "idle"
            /\ pc'[h] = "accepted"
                 => r.created <= r.began + Timeout /\ r.began <= r.created + Life]_vars
    <2> SUFFICES ASSUME IInv, Next, NEW h \in Handlers, pc[h] = "check"
                 PROVE  /\ req[h].created <= req[h].began
                           /\ req[h].began + Timeout <= req[h].created + Life
                             => pc'[h] # "idle"
                        /\ pc'[h] = "accepted"
                             => /\ req[h].created <= req[h].began + Timeout
                                /\ req[h].began <= req[h].created + Life
        OBVIOUS
    <2>1. /\ now \in Nat /\ req[h].began \in Nat /\ req[h].created \in Int
          /\ req[h].began <= now /\ now <= req[h].began + Timeout
        BY BoundsAssumption DEF IInv, TypeOK, CheckTimely, Request, Time
    <2>2. pc'[h] \in {"idle", "accepted"} => Check(h)
        BY VerdictIsCheck
    <2>3. ASSUME Check(h)
          PROVE  /\ pc'[h] = "idle" => ~InWindow(h, now)
                 /\ pc'[h] = "accepted" => InWindow(h, now)
        BY <2>3 DEF Check, Goto, IInv, TypeOK
    <2> QED
        BY <2>1, <2>2, <2>3, TimesAssumption DEF InWindow
<1> QED
    BY <1>1, Invariance, PTL DEF Spec, WindowHeldInTime

\* A key that the registry has listed alone for longer than a TTL and a lookup is not
\* refused, in whatever order lookups are answered (LookupSubscriberKey, storeKey).
THEOREM RotationTakesEffectHolds == Spec => RotationTakesEffect
<1>1. IInv /\ [Next]_vars =>
        [\A h \in Handlers :
            LET e == registry[req[h].id] IN
            /\ pc[h] = "check" /\ pc'[h] = "forged"
            /\ \A f \in Entries \ {e} : ~ListedWithin(req[h].id, f, TTL + Timeout)
            => req[h].signer # e.key]_vars
    <2> SUFFICES ASSUME IInv, Next, NEW h \in Handlers,
                        pc[h] = "check", pc'[h] = "forged",
                        \A f \in Entries \ {registry[req[h].id]} :
                            ~ListedWithin(req[h].id, f, TTL + Timeout)
                 PROVE  req[h].signer # registry[req[h].id].key
        OBVIOUS
    <2>1. Check(h)
        BY VerdictIsCheck
    <2>2. used[h] \in Entries /\ ListedWithin(req[h].id, used[h], TTL + Timeout)
        BY DEF IInv, TypeOK, KeyInUseRecent
    <2>3. used[h] = registry[req[h].id]
        BY <2>2
    <2> QED
        BY <2>1, <2>3 DEF Check, Goto, IInv, TypeOK
<1> QED
    BY <1>1, Invariance, PTL DEF Spec, RotationTakesEffect

=============================================================================
