------------------------ MODULE VerifyEndpointProofs ------------------------
(***************************************************************************)
(* IInv is an inductive invariant of VerifyEndpoint; who is charged, what  *)
(* a refusal costs and that a reached limit stays reached follow from it,  *)
(* for any number of calls and subscribers and any limit.                  *)
(***************************************************************************)
EXTENDS VerifyEndpoint, FiniteSetTheorems, TLAPS

Labels   == {"new", "check", "verify", "waiting", "record", "done", "lost"}
Statuses == {None, "200", "400", "401", "429", "500", "502"}

\* A row that lands never lowers a subscriber's count (CountVerifyVendorCallsBySubscriber).
LEMMA CountGrows ==
    ASSUME IsFiniteSet(table), table \subseteq table', IsFiniteSet(table'), NEW x
    PROVE  /\ Cardinality(Counted(x)) \in Nat /\ Cardinality(Counted(x)') \in Nat
           /\ Cardinality(Counted(x)) <= Cardinality(Counted(x)')
<1>1. Counted(x) \subseteq table /\ Counted(x)' \subseteq table' /\ Counted(x) \subseteq Counted(x)'
    BY DEF Counted
<1>2. IsFiniteSet(Counted(x)) /\ IsFiniteSet(Counted(x)')
    BY <1>1, FS_Subset
<1> QED
    BY <1>1, <1>2, FS_Subset, FS_CardinalityType

\* A subscriber's calls in flight can be counted: calls are finitely many (Admit's peak).
LEMMA InFlightFinite ==
    ASSUME NEW x
    PROVE  Cardinality(InFlight(x)) \in Nat
<1>1. InFlight(x) \subseteq Calls
    BY DEF InFlight
<1> QED
    BY <1>1, FinitenessAssumption, FS_Subset, FS_CardinalityType

\* A step of one call moves that call only; only Record adds to the table, one row.
LEMMA HandleFrame ==
    ASSUME TypeOK, NEW c \in Calls, Receive(c) \/ Handle(c)
    PROVE  /\ pc' \in [Calls -> Labels] /\ answer' \in [Calls -> Statuses]
           /\ who' \in [Calls -> Callers]
           /\ entry' \in [Calls -> {None} \cup NotCalled \cup Replies]
           /\ \A d \in Calls \ {c} : /\ pc'[d] = pc[d] /\ answer'[d] = answer[d]
                                     /\ who'[d] = who[d] /\ entry'[d] = entry[d]
           /\ reached \subseteq reached' /\ reached' \subseteq reached \cup {c}
<1> USE DEF TypeOK, Labels, Statuses, Goto, Answer, Refuse
<1>1. CASE Receive(c)
    BY <1>1 DEF Receive
<1>2. CASE Admit(c)
    BY <1>2 DEF Admit
<1>3. CASE RefuseAnonymous(c) \/ RefuseExceeded(c) \/ CountFails(c) \/ Unsupported(c)
    BY <1>3 DEF RefuseAnonymous, RefuseExceeded, CountFails, Unsupported
<1>4. CASE NoProvider(c)
    BY <1>4 DEF NoProvider
<1>5. CASE CallProvider(c)
    BY <1>5 DEF CallProvider
<1>6. CASE Respond(c)
    <2>1. PICK r \in Replies : \E status \in StatusOf(r) :
            entry' = [entry EXCEPT ![c] = r] /\ answer' = [answer EXCEPT ![c] = status]
        BY <1>6 DEF Respond
    <2>2. StatusOf(r) \subseteq Statuses
        BY DEF StatusOf, Replies
    <2> QED
        BY <1>6, <2>1, <2>2 DEF Respond
<1>7. CASE Record(c)
    BY <1>7 DEF Record
<1> QED
    BY <1>1, <1>2, <1>3, <1>4, <1>5, <1>6, <1>7 DEF Handle

\* Types, and that the table stays finite (Record adds one row, Admit one peak).
LEMMA TypeStep ==
    ASSUME TypeOK, IsFiniteSet(table), [Next]_vars
    PROVE  TypeOK' /\ IsFiniteSet(table') /\ table \subseteq table'
<1> USE LimitAssumption DEF TypeOK, Labels, Statuses
<1>1. ASSUME NEW c \in Calls, Receive(c) \/ Handle(c)
      PROVE  TypeOK' /\ IsFiniteSet(table') /\ table \subseteq table'
    <2>1. /\ pc' \in [Calls -> Labels] /\ answer' \in [Calls -> Statuses]
          /\ who' \in [Calls -> Callers]
          /\ entry' \in [Calls -> {None} \cup NotCalled \cup Replies]
          /\ reached' \subseteq Calls
        BY <1>1, HandleFrame
    <2>e. \A d \in Calls : pc'[d] = "record" => entry'[d] \in NotCalled \cup Replies
        <3>1. pc'[c] = "record" => entry'[c] \in NotCalled \cup Replies
            <4>1. CASE NoProvider(c) \/ Respond(c)
                BY <4>1 DEF NoProvider, Respond
            <4>2. CASE ~NoProvider(c) /\ ~Respond(c)
                BY <1>1, <4>2
                DEF Receive, Handle, Admit, RefuseAnonymous, RefuseExceeded, CountFails,
                    Unsupported, CallProvider, Record, Refuse, Goto
            <4> QED
                BY <4>1, <4>2
        <3>2. \A d \in Calls \ {c} : pc'[d] = pc[d] /\ entry'[d] = entry[d]
            BY <1>1, HandleFrame
        <3> QED
            BY <3>1, <3>2
    <2>2. crashes' = crashes
        BY <1>1
        DEF Receive, Handle, Admit, RefuseAnonymous, RefuseExceeded, CountFails, Unsupported,
            NoProvider, CallProvider, Respond, Record, Refuse
    <2>3. faults' \in 0..MaxFaults
        BY <1>1
        DEF Receive, Handle, Admit, RefuseAnonymous, RefuseExceeded, CountFails, Unsupported,
            NoProvider, CallProvider, Respond, Record, Refuse
    <2>4. CASE Record(c)
        <3>1. CASE UNCHANGED table
            BY <2>1, <2>e, <2>2, <2>3, <2>4, <3>1 DEF Record
        <3>2. CASE table' = table \cup {[call |-> c, subscriber |-> who[c],
                                         verified |-> entry[c] = "verified",
                                         evidence |-> Evidenced(entry[c])]}
            <4>1. [call |-> c, subscriber |-> who[c], verified |-> entry[c] = "verified",
                   evidence |-> Evidenced(entry[c])] \in Row
                BY DEF Row, Evidenced
            <4>2. IsFiniteSet(table') /\ table \subseteq table' /\ table' \subseteq Row
                BY <3>2, <4>1, FS_AddElement
            <4> QED
                BY <2>1, <2>e, <2>2, <2>3, <2>4, <4>2 DEF Record
        <3> QED
            BY <2>4, <3>1, <3>2 DEF Record
    <2>5. CASE Admit(c)
        <3>1. peak' \in [Callers -> Nat]
            BY <2>5, InFlightFinite DEF Admit
        <3> QED
            BY <2>1, <2>e, <2>2, <2>3, <2>5, <3>1 DEF Admit
    <2>6. ASSUME UNCHANGED <<table, peak>>
          PROVE  TypeOK' /\ IsFiniteSet(table') /\ table \subseteq table'
        BY <2>1, <2>e, <2>2, <2>3, <2>6
    <2> QED
        BY <1>1, <2>4, <2>5, <2>6
        DEF Receive, Handle, RefuseAnonymous, RefuseExceeded, CountFails, Unsupported,
            NoProvider, CallProvider, Respond, Refuse
<1>2. CASE Crash
    BY <1>2 DEF Crash
<1>3. CASE UNCHANGED vars
    BY <1>3 DEF vars
<1> QED
    BY <1>1, <1>2, <1>3 DEF Next, Finished

\* What is known of the calls, their entries and the rows is kept by every action.
LEMMA CallsStep ==
    ASSUME IInv, [Next]_vars, TypeOK'
    PROVE  /\ CallsInOrder' /\ EntriesBacked' /\ RowsBacked'
           /\ ChargedOnlyIfReached' /\ RefusedCostNothing'
<1>i. /\ TypeOK /\ CallsInOrder /\ EntriesBacked /\ RowsBacked
      /\ ChargedOnlyIfReached /\ RefusedCostNothing
    BY DEF IInv
<1>t. /\ pc \in [Calls -> Labels] /\ answer \in [Calls -> Statuses] /\ who \in [Calls -> Callers]
      /\ entry \in [Calls -> {None} \cup NotCalled \cup Replies]
      /\ \A r \in table : r.call \in Calls /\ r.evidence \in BOOLEAN
    BY <1>i DEF TypeOK, Labels, Statuses, Row
<1> DEFINE Kept == /\ CallsInOrder' /\ EntriesBacked' /\ RowsBacked'
                   /\ ChargedOnlyIfReached' /\ RefusedCostNothing'
<1>1. ASSUME NEW c \in Calls, Receive(c) \/ Handle(c), UNCHANGED table,
             pc[c] # "done", pc'[c] # "record",
             pc'[c] \in {"new", "check", "verify", "waiting"} => answer'[c] = None,
             pc'[c] \in {"new", "check", "verify"} => c \notin reached',
             c \in reached' => answer'[c] \notin Refusals
      PROVE  Kept
    <2>1. /\ \A d \in Calls \ {c} : /\ pc'[d] = pc[d] /\ answer'[d] = answer[d]
                                    /\ who'[d] = who[d] /\ entry'[d] = entry[d]
          /\ reached \subseteq reached' /\ reached' \subseteq reached \cup {c}
        BY <1>1, <1>i, HandleFrame
    <2>2. \A r \in table : r.call # c
        BY <1>1, <1>i DEF RowsBacked
    <2>3. CallsInOrder'
        BY <1>1, <1>i, <2>1 DEF CallsInOrder
    <2>4. EntriesBacked'
        BY <1>1, <1>i, <2>1 DEF EntriesBacked
    <2>5. RowsBacked'
        BY <1>1, <1>i, <1>t, <2>1, <2>2 DEF RowsBacked
    <2>6. ChargedOnlyIfReached'
        BY <1>1, <1>i, <1>t, <2>1, <2>2 DEF ChargedOnlyIfReached
    <2>7. RefusedCostNothing'
        BY <1>1, <1>i, <1>t, <2>1, <2>2, <2>5 DEF RefusedCostNothing, CallsInOrder, RowsBacked, Refusals
    <2> QED
        BY <2>3, <2>4, <2>5, <2>6, <2>7
<1>2. ASSUME NEW c \in Calls, Receive(c)
      PROVE  Kept
    BY <1>1, <1>2, <1>i, <1>t DEF Receive, Goto, Answer, CallsInOrder, Refusals, None
<1>3. ASSUME NEW c \in Calls, Handle(c), pc[c] = "check"
      PROVE  Kept
    <2>1. c \notin reached /\ answer[c] = None
        BY <1>i, <1>3 DEF CallsInOrder
    <2>2. UNCHANGED <<table, reached>> /\ \/ pc'[c] = "verify" /\ answer'[c] = None
                                          \/ pc'[c] = "done"
        BY <1>3, <1>t, <2>1
        DEF Handle, Admit, RefuseAnonymous, RefuseExceeded, CountFails, Unsupported,
            NoProvider, CallProvider, Respond, Record, Refuse, Goto, Answer
    <2> QED
        BY <1>1, <1>3, <2>1, <2>2
<1>4. ASSUME NEW c \in Calls, Unsupported(c) \/ CallProvider(c)
      PROVE  Kept
    <2>1. c \notin reached /\ answer[c] = None /\ pc[c] = "verify"
        BY <1>i, <1>4 DEF CallsInOrder, Unsupported, CallProvider
    <2>2. CASE Unsupported(c)
        BY <1>1, <1>t, <2>1, <2>2 DEF Unsupported, Refuse, Goto, Answer, Handle
    <2>3. CASE CallProvider(c)
        BY <1>1, <1>t, <2>1, <2>3 DEF CallProvider, Goto, Handle, Refusals, None
    <2> QED
        BY <1>4, <2>2, <2>3
<1>5. ASSUME NEW c \in Calls, NoProvider(c) \/ Respond(c)
      PROVE  Kept
    <2>1. /\ \A d \in Calls \ {c} : /\ pc'[d] = pc[d] /\ answer'[d] = answer[d]
                                    /\ who'[d] = who[d] /\ entry'[d] = entry[d]
          /\ who' = who /\ reached' = reached /\ table' = table
          /\ pc[c] \in {"verify", "waiting"} /\ pc'[c] = "record"
        BY <1>5, <1>i, <1>t, HandleFrame DEF Handle, NoProvider, Respond, Goto
    <2>2. /\ answer'[c] \notin Refusals
          /\ Evidenced(entry'[c]) /\ Marshalled(entry'[c]) => c \in reached /\ answer'[c] = "200"
        <3>1. CASE NoProvider(c)
            BY <1>t, <3>1 DEF NoProvider, Answer, NotCalled, Evidenced, GoErrors, Refusals
        <3>2. CASE Respond(c)
            <4>1. PICK r \in Replies : /\ c \notin reached => r = "unanswered"
                                       /\ entry' = [entry EXCEPT ![c] = r]
                                       /\ \E status \in StatusOf(r) : Answer(c, status)
                BY <3>2 DEF Respond
            <4>2. entry'[c] = r /\ answer'[c] \in StatusOf(r)
                BY <1>t, <4>1 DEF Answer
            <4> QED
                BY <4>1, <4>2 DEF Replies, StatusOf, Refusals, Evidenced, Marshalled, GoErrors
        <3> QED
            BY <1>5, <3>1, <3>2
    <2>3. \A r \in table : r.call # c
        BY <2>1, <1>i DEF RowsBacked
    <2>4. CallsInOrder'
        BY <1>i, <2>1, <2>2 DEF CallsInOrder
    <2>5. EntriesBacked'
        BY <1>i, <2>1, <2>2 DEF EntriesBacked
    <2>6. RowsBacked' /\ ChargedOnlyIfReached'
        BY <1>i, <1>t, <2>1, <2>3 DEF RowsBacked, ChargedOnlyIfReached
    <2>7. RefusedCostNothing'
        BY <1>i, <1>t, <2>1, <2>2, <2>3 DEF RefusedCostNothing, Refusals
    <2> QED
        BY <2>4, <2>5, <2>6, <2>7
<1>6. ASSUME NEW c \in Calls, Record(c)
      PROVE  Kept
    <2> DEFINE row == [call |-> c, subscriber |-> who[c], verified |-> entry[c] = "verified",
                       evidence |-> Evidenced(entry[c])]
    <2>1. /\ pc[c] = "record" /\ pc' = [pc EXCEPT ![c] = "done"]
          /\ UNCHANGED <<who, answer, entry, reached>>
          /\ table' = table \/ (Marshalled(entry[c]) /\ table' = table \cup {row})
        BY <1>6 DEF Record, Goto
    <2>2. \A d \in Calls : IF d = c THEN pc'[d] = "done" ELSE pc'[d] = pc[d]
        BY <1>t, <2>1
    <2>3. \A r \in table : r.call # c
        BY <2>1, <1>i DEF RowsBacked
    <2>4. \A r \in table' : r \in table \/ (r = row /\ Marshalled(entry[c]))
        BY <2>1
    <2>5. /\ answer[c] \notin Refusals
          /\ row.evidence /\ Marshalled(entry[c]) => c \in reached /\ answer[c] = "200"
          /\ row.call = c /\ row.subscriber = who[c]
        BY <2>1, <1>i DEF EntriesBacked
    <2>6. CallsInOrder' /\ EntriesBacked'
        BY <1>i, <2>1, <2>2 DEF CallsInOrder, EntriesBacked
    <2>7. RowsBacked'
        BY <1>i, <1>t, <2>1, <2>2, <2>3, <2>4, <2>5 DEF RowsBacked
    <2>8. ChargedOnlyIfReached'
        BY <1>i, <1>t, <2>1, <2>3, <2>4, <2>5 DEF ChargedOnlyIfReached
    <2>9. RefusedCostNothing'
        BY <1>i, <2>1, <2>4, <2>5 DEF RefusedCostNothing, Refusals
    <2> QED
        BY <2>6, <2>7, <2>8, <2>9
<1>7. CASE Crash
    <2>1. /\ \A d \in Calls : pc'[d] = (IF pc[d] \in {"new", "done"} THEN pc[d] ELSE "lost")
          /\ UNCHANGED <<who, answer, entry, table, reached>>
        BY <1>7 DEF Crash
    <2>2. CallsInOrder' /\ EntriesBacked'
        BY <1>i, <2>1 DEF CallsInOrder, EntriesBacked
    <2>3. RowsBacked' /\ ChargedOnlyIfReached' /\ RefusedCostNothing'
        BY <1>i, <1>t, <2>1 DEF RowsBacked, ChargedOnlyIfReached, RefusedCostNothing
    <2> QED
        BY <2>2, <2>3
<1>8. CASE UNCHANGED vars
    BY <1>8, <1>i
    DEF vars, CallsInOrder, EntriesBacked, RowsBacked, ChargedOnlyIfReached, RefusedCostNothing
<1> QED
    <2>1. ASSUME NEW c \in Calls, Handle(c)
          PROVE  Kept
        BY <1>3, <1>4, <1>5, <1>6, <2>1
        DEF Handle, Admit, RefuseAnonymous, RefuseExceeded, CountFails
    <2> QED
        BY <1>2, <1>7, <1>8, <2>1 DEF Next, Finished

\* A subscriber refused for its limit stays at it: rows are only added, and a call keeps
\* the subscriber it claimed (VerifyLimiter.Check, VerifyIdentityLogger.Record).
LEMMA LimitStep ==
    ASSUME IInv, [Next]_vars, IsFiniteSet(table'), table \subseteq table'
    PROVE  LimitReached'
<1>i. TypeOK /\ IsFiniteSet(table) /\ CallsInOrder /\ LimitReached
    BY DEF IInv
<1>n. \A x : /\ Cardinality(Counted(x)) \in Nat /\ Cardinality(Counted(x)') \in Nat
             /\ Cardinality(Counted(x)) <= Cardinality(Counted(x)')
    BY <1>i, CountGrows
<1>1. ASSUME NEW d \in Calls, answer'[d] = "429"
      PROVE  who'[d] = who[d] /\ Limit > 0 /\ Cardinality(Counted(who[d])) >= Limit
    <2>1. CASE \E c \in Calls : Receive(c) \/ Handle(c)
        <3>1. PICK c \in Calls : Receive(c) \/ Handle(c)
            BY <2>1
        <3>2. CASE c # d
            BY <1>1, <1>i, <3>1, <3>2, HandleFrame DEF LimitReached
        <3>3. CASE c = d
            <4>1. CASE RefuseExceeded(d)
                BY <4>1 DEF RefuseExceeded, Refuse
            <4>2. CASE Receive(d)
                BY <1>1, <1>i, <4>2 DEF Receive, Answer, TypeOK, CallsInOrder, None
            <4>3. CASE Handle(d) /\ ~RefuseExceeded(d)
                <5>1. who' = who
                    BY <4>3
                    DEF Handle, Admit, RefuseAnonymous, CountFails, Unsupported, NoProvider,
                        CallProvider, Respond, Record, Refuse
                <5>2. answer[d] = "429"
                    <6>1. CASE Respond(d)
                        BY <1>1, <1>i, <6>1 DEF Respond, Answer, StatusOf, Replies, TypeOK
                    <6> QED
                        BY <1>1, <1>i, <4>3, <6>1
                        DEF Handle, Admit, RefuseAnonymous, CountFails, Unsupported, NoProvider,
                            CallProvider, Record, Refuse, Answer, TypeOK
                <5> QED
                    BY <1>i, <5>1, <5>2 DEF LimitReached
            <4> QED
                BY <3>1, <3>3, <4>1, <4>2, <4>3
        <3> QED
            BY <3>2, <3>3
    <2>2. CASE Crash \/ UNCHANGED vars
        BY <1>1, <1>i, <2>2 DEF Crash, vars, LimitReached
    <2> QED
        BY <2>1, <2>2 DEF Next, Finished
<1>2. ASSUME NEW d \in Calls, answer'[d] = "429"
      PROVE  Limit > 0 /\ Cardinality(Counted(who[d])') >= Limit
    BY <1>1, <1>2, <1>n, LimitAssumption
<1>3. ASSUME NEW d \in Calls, answer'[d] = "429"
      PROVE  Cardinality(Counted(who[d])') = Cardinality(Counted(who[d]))'
    BY <1>1, <1>3 DEF Counted
<1> QED
    BY <1>1, <1>2, <1>3 DEF LimitReached

\* No call made, no row, nothing refused (the state after a first start).
LEMMA InitInvariant == Init => IInv
<1> SUFFICES ASSUME Init PROVE IInv
    OBVIOUS
<1> USE LimitAssumption DEF Init
<1>1. TypeOK
    BY DEF TypeOK, Callers
<1>2. IsFiniteSet(table)
    BY FS_EmptySet
<1>3. CallsInOrder /\ EntriesBacked /\ RowsBacked
    BY DEF CallsInOrder, EntriesBacked, RowsBacked, Refusals, None
<1>4. LimitReached /\ ChargedOnlyIfReached /\ RefusedCostNothing
    BY DEF LimitReached, ChargedOnlyIfReached, RefusedCostNothing, None
<1> QED
    BY <1>1, <1>2, <1>3, <1>4 DEF IInv

\* Every action, the process's end included, keeps IInv.
LEMMA InvariantStep == IInv /\ [Next]_vars => IInv'
<1> SUFFICES ASSUME IInv, [Next]_vars PROVE IInv'
    OBVIOUS
<1>1. TypeOK' /\ IsFiniteSet(table') /\ table \subseteq table'
    BY TypeStep DEF IInv
<1>2. /\ CallsInOrder' /\ EntriesBacked' /\ RowsBacked'
      /\ ChargedOnlyIfReached' /\ RefusedCostNothing'
    BY <1>1, CallsStep
<1>3. LimitReached'
    BY <1>1, LimitStep
<1> QED
    BY <1>1, <1>2, <1>3 DEF IInv

\* What is known of calls, entries, rows and exhausted limits, always.
THEOREM Invariance == Spec => []IInv
    BY InitInvariant, InvariantStep, PTL DEF Spec

\* The states of the endpoint have the types its code gives them.
THEOREM TypeCorrect == Spec => []TypeOK
<1>1. IInv => TypeOK
    BY DEF IInv
<1> QED
    BY <1>1, Invariance, PTL

\* A row counts against the subscriber that made its call, once, and only if the call
\* reached a provider and was answered 200 (VerifyLimiter, VerifyIdentityLogger).
THEOREM ChargedOnlyIfReachedHolds == Spec => []ChargedOnlyIfReached
<1>1. IInv => ChargedOnlyIfReached
    BY DEF IInv
<1> QED
    BY <1>1, Invariance, PTL

\* A refused call reached no provider and has no row (VerifyIdentity, VerifyLimiter).
THEOREM RefusedCostNothingHolds == Spec => []RefusedCostNothing
<1>1. IInv => RefusedCostNothing
    BY DEF IInv
<1> QED
    BY <1>1, Invariance, PTL

\* After a 429 no call of that subscriber is let through, whatever is lost or fails and
\* however many calls run at once (VerifyLimiter.Check).
THEOREM ExhaustedForGoodHolds == Spec => ExhaustedForGood
<1>1. IInv /\ [Next]_vars =>
        [\A c, d \in Calls :
            pc[c] = "check" /\ pc'[c] = "verify" /\ answer[d] = "429" => who[d] # who[c]]_vars
    <2> SUFFICES ASSUME IInv, Next, NEW c \in Calls, NEW d \in Calls,
                        pc[c] = "check", pc'[c] = "verify", answer[d] = "429"
                 PROVE  who[d] # who[c]
        OBVIOUS
    <2>0. TypeOK /\ IsFiniteSet(table)
        BY DEF IInv
    <2>1. Admit(c)
        <3>1. ASSUME NEW e \in Calls, Receive(e) \/ Handle(e)
              PROVE  Admit(c)
            <4>1. e = c
                BY <2>0, <3>1, HandleFrame
            <4> QED
                BY <2>0, <3>1, <4>1
                DEF Receive, Handle, Admit, RefuseAnonymous, RefuseExceeded, CountFails,
                    Unsupported, NoProvider, CallProvider, Respond, Record, Refuse, Goto, TypeOK
        <3>2. ~Crash /\ ~Finished
            BY DEF Crash, Finished, vars
        <3> QED
            BY <3>1, <3>2 DEF Next
    <2>2. Limit > 0 /\ Cardinality(Counted(who[d])) >= Limit
        BY DEF IInv, LimitReached
    <2>3. Cardinality(Counted(who[c])) \in Nat
        BY <2>0, FS_Subset, FS_CardinalityType DEF Counted
    <2> QED
        BY <2>1, <2>2, <2>3, LimitAssumption DEF Admit
<1> QED
    BY <1>1, Invariance, PTL DEF Spec, ExhaustedForGood

-----------------------------------------------------------------------------
(* How far the limit is overshot.                                            *)

\* What can be counted against a subscriber, now or once its rows have landed.
Exposure(x) == Cardinality(Counted(x)) + Cardinality(InFlight(x))

\* A step other than Admit and Record adds no row and no call in flight.
LEMMA QuietExposure ==
    ASSUME TypeOK, IsFiniteSet(table), NEW x, UNCHANGED <<table, peak>>,
           InFlight(x)' \subseteq InFlight(x)
    PROVE  /\ Cardinality(InFlight(x)') <= Cardinality(InFlight(x))
           /\ Cardinality(InFlight(x)') \in Nat
           /\ Counted(x)' = Counted(x)
<1>1. InFlight(x) \subseteq Calls /\ IsFiniteSet(InFlight(x))
    BY FinitenessAssumption, FS_Subset DEF InFlight
<1>2. IsFiniteSet(InFlight(x)')
    BY <1>1, FS_Subset
<1> QED
    BY <1>1, <1>2, FS_Subset, FS_CardinalityType DEF Counted

\* A call that is let through adds one call in flight, and is within the peak it records
\* (Check).
LEMMA AdmitExposure ==
    ASSUME TypeOK, IsFiniteSet(table), NEW c \in Calls, Admit(c), Limit > 0
    PROVE  /\ Cardinality(Counted(who[c])) < Limit
           /\ Cardinality(InFlight(who[c])') = Cardinality(InFlight(who[c])) + 1
           /\ peak'[who[c]] >= Cardinality(InFlight(who[c])) + 1
           /\ \A x : x # who[c] => InFlight(x)' = InFlight(x)
           /\ \A x \in Callers \ {who[c]} : peak'[x] = peak[x]
           /\ UNCHANGED <<who, table>>
<1>1. /\ pc[c] = "check" /\ pc' = [pc EXCEPT ![c] = "verify"] /\ who' = who /\ table' = table
      /\ pc \in [Calls -> Labels] /\ who \in [Calls -> Callers] /\ peak \in [Callers -> Nat]
    BY DEF Admit, Goto, TypeOK, Labels
<1>2. InFlight(who[c])' = InFlight(who[c]) \cup {c} /\ c \notin InFlight(who[c])
    BY <1>1 DEF InFlight
<1>3. IsFiniteSet(InFlight(who[c])) /\ Cardinality(InFlight(who[c])) \in Nat
    BY FinitenessAssumption, FS_Subset, FS_CardinalityType DEF InFlight
<1>4. Cardinality(InFlight(who[c])') = Cardinality(InFlight(who[c])) + 1
    BY <1>2, <1>3, FS_AddElement
<1>5. \A x : x # who[c] => InFlight(x)' = InFlight(x)
    BY <1>1 DEF InFlight
<1>6. peak'[who[c]] = IF peak[who[c]] > Cardinality(InFlight(who[c])) THEN peak[who[c]]
                      ELSE Cardinality(InFlight(who[c])) + 1
    BY <1>1 DEF Admit
<1>7. peak'[who[c]] >= Cardinality(InFlight(who[c])) + 1
    BY <1>1, <1>3, <1>6
<1>8. \A x \in Callers \ {who[c]} : peak'[x] = peak[x]
    BY <1>1 DEF Admit
<1> QED
    BY <1>1, <1>4, <1>5, <1>7, <1>8 DEF Admit

\* A row that lands, or is lost, is that of a call in flight no longer (Record).
LEMMA RecordExposure ==
    ASSUME TypeOK, IsFiniteSet(table), NEW c \in Calls, Record(c), NEW x
    PROVE  /\ Cardinality(Counted(x)') \in Nat /\ Cardinality(InFlight(x)') \in Nat
           /\ Cardinality(Counted(x)') + Cardinality(InFlight(x)') <= Exposure(x)
<1> DEFINE row == [call |-> c, subscriber |-> who[c], verified |-> entry[c] = "verified",
                   evidence |-> Evidenced(entry[c])]
<1>1. /\ pc[c] = "record" /\ pc' = [pc EXCEPT ![c] = "done"] /\ who' = who
      /\ table' = table \/ table' = table \cup {row}
      /\ pc \in [Calls -> Labels] /\ who \in [Calls -> Callers]
    BY DEF Record, Goto, TypeOK, Labels
<1>2. /\ IsFiniteSet(InFlight(x)) /\ Cardinality(InFlight(x)) \in Nat
      /\ IsFiniteSet(Counted(x)) /\ Cardinality(Counted(x)) \in Nat
    <2>1. InFlight(x) \subseteq Calls /\ Counted(x) \subseteq table
        BY DEF InFlight, Counted
    <2> QED
        BY <2>1, FinitenessAssumption, FS_Subset, FS_CardinalityType
<1>3. CASE x = who[c]
    <2>1. InFlight(x)' = InFlight(x) \ {c} /\ c \in InFlight(x)
        BY <1>1, <1>3 DEF InFlight
    <2>2. Cardinality(InFlight(x)') = Cardinality(InFlight(x)) - 1 /\ Cardinality(InFlight(x)') \in Nat
        BY <1>2, <2>1, FS_RemoveElement, FS_CardinalityType
    <2>3. Counted(x)' = Counted(x) \/ Counted(x)' = Counted(x) \cup {row}
        BY <1>1 DEF Counted
    <2>4. /\ Cardinality(Counted(x)') <= Cardinality(Counted(x)) + 1
          /\ Cardinality(Counted(x)') \in Nat
        <3>1. CASE Counted(x)' = Counted(x)
            BY <1>2, <3>1
        <3>2. CASE Counted(x)' = Counted(x) \cup {row}
            <4> HIDE DEF row
            <4>1. Cardinality(Counted(x) \cup {row})
                      = IF row \in Counted(x) THEN Cardinality(Counted(x))
                        ELSE Cardinality(Counted(x)) + 1
                BY <1>2, FS_AddElement
            <4> QED
                BY <1>2, <3>2, <4>1
        <3> QED
            BY <2>3, <3>1, <3>2
    <2> QED
        BY <1>2, <2>2, <2>4 DEF Exposure
<1>4. CASE x # who[c]
    <2>1. InFlight(x)' = InFlight(x) /\ Counted(x)' = Counted(x)
        BY <1>1, <1>4 DEF InFlight, Counted
    <2> QED
        BY <1>2, <2>1 DEF Exposure
<1> QED
    BY <1>3, <1>4

\* Every action keeps the overshoot within the calls in flight.
LEMMA OvershootStep ==
    ASSUME TypeOK, IsFiniteSet(table), OvershootWithinInFlight, [Next]_vars
    PROVE  OvershootWithinInFlight'
<1> SUFFICES ASSUME NEW x \in Subscribers, Limit > 0, peak'[x] > 0
             PROVE  Cardinality(Counted(x)') + Cardinality(InFlight(x)') <= Limit + peak'[x] - 1
    BY DEF OvershootWithinInFlight, Counted, InFlight
<1>t. /\ x \in Callers /\ peak[x] \in Nat /\ Limit \in Nat
      /\ pc \in [Calls -> Labels] /\ who \in [Calls -> Callers]
      /\ Cardinality(Counted(x)) \in Nat /\ Cardinality(InFlight(x)) \in Nat
    <2>1. Counted(x) \subseteq table
        BY DEF Counted
    <2> QED
        BY <2>1, InFlightFinite, LimitAssumption, FS_Subset, FS_CardinalityType
        DEF TypeOK, Callers, Labels
<1>i. peak[x] > 0 => Exposure(x) <= Limit + peak[x] - 1
    BY DEF OvershootWithinInFlight, Exposure
<1>1. ASSUME UNCHANGED <<table, peak>>, InFlight(x)' \subseteq InFlight(x)
      PROVE  Cardinality(Counted(x)') + Cardinality(InFlight(x)') <= Limit + peak'[x] - 1
    BY <1>1, <1>t, <1>i, QuietExposure DEF Exposure
<1>2. ASSUME NEW c \in Calls, Receive(c) \/ Handle(c)
      PROVE  Cardinality(Counted(x)') + Cardinality(InFlight(x)') <= Limit + peak'[x] - 1
    <2>1. CASE Admit(c)
        <3>1. CASE x = who[c]
            <4>1. Counted(x)' = Counted(x)
                BY <2>1, AdmitExposure DEF Counted
            <4>2. peak'[x] \in Nat
                BY <2>1, <1>t, InFlightFinite DEF Admit, TypeOK
            <4> QED
                BY <1>t, <2>1, <3>1, <4>1, <4>2, AdmitExposure
        <3>2. CASE x # who[c]
            <4>1. Counted(x)' = Counted(x) /\ InFlight(x)' = InFlight(x) /\ peak'[x] = peak[x]
                BY <1>t, <2>1, <3>2, AdmitExposure DEF Counted
            <4> QED
                BY <1>t, <1>i, <4>1 DEF Exposure
        <3> QED
            BY <3>1, <3>2
    <2>2. CASE Record(c)
        <3>1. peak' = peak
            BY <2>2 DEF Record
        <3> QED
            BY <1>t, <1>i, <2>2, <3>1, RecordExposure DEF Exposure
    <2>3. CASE ~Admit(c) /\ ~Record(c)
        <3>1. UNCHANGED <<table, peak>>
            BY <1>2, <2>3
            DEF Receive, Handle, RefuseAnonymous, RefuseExceeded, CountFails, Unsupported,
                NoProvider, CallProvider, Respond, Refuse
        <3>2. InFlight(x)' \subseteq InFlight(x)
            <4>1. CASE Receive(c)
                BY <1>t, <4>1 DEF Receive, Goto, InFlight
            <4>2. CASE Handle(c)
                BY <1>t, <2>3, <4>2
                DEF Handle, RefuseAnonymous, RefuseExceeded, CountFails, Unsupported,
                    NoProvider, CallProvider, Respond, Refuse, Goto, InFlight
            <4> QED
                BY <1>2, <4>1, <4>2
        <3> QED
            BY <1>1, <3>1, <3>2
    <2> QED
        BY <2>1, <2>2, <2>3
<1>3. CASE Crash
    <2>1. UNCHANGED <<table, peak, who>> /\ InFlight(x)' \subseteq InFlight(x)
        BY <1>3, <1>t DEF Crash, InFlight
    <2> QED
        BY <1>1, <2>1
<1>4. CASE UNCHANGED vars
    <2>1. UNCHANGED <<table, peak>> /\ InFlight(x)' = InFlight(x)
        BY <1>4 DEF vars, InFlight
    <2> QED
        BY <1>1, <2>1
<1> QED
    BY <1>2, <1>3, <1>4 DEF Next, Finished

\* The limit is overshot by at most the calls a subscriber had in flight, for any limit,
\* any number of calls and whatever rows are lost (VerifyLimiter.Check, Record).
THEOREM OvershootWithinInFlightHolds == Spec => []OvershootWithinInFlight
<1>1. Init => OvershootWithinInFlight
    BY DEF Init, OvershootWithinInFlight, Callers
<1>2. IInv => TypeOK /\ IsFiniteSet(table)
    BY DEF IInv
<1>3. IInv /\ OvershootWithinInFlight /\ [Next]_vars => OvershootWithinInFlight'
    BY <1>2, OvershootStep
<1> QED
    BY <1>1, <1>3, Invariance, PTL DEF Spec

-----------------------------------------------------------------------------
(* The endpoint implements UsageMeter.                                       *)

\* The limiter's comparison is the meter's (Check).
LEMMA WithinIsCounted ==
    ASSUME IInv, Limit > 0, NEW c \in Calls
    PROVE  Meter!Within(who[c])
               <=> who[c] # Anonymous /\ Cardinality(Counted(who[c])) < Limit
<1>1. who[c] \in Callers /\ (who[c] \in Subscribers <=> who[c] # Anonymous)
    BY AnonymousAssumption DEF IInv, TypeOK, Callers
<1>2. Used[who[c]] = Cardinality(Counted(who[c]))
    BY <1>1 DEF Used
<1> QED
    BY <1>1, <1>2 DEF Meter!Within

\* A step of one call moves its own stage only.
LEMMA StageMove ==
    ASSUME NEW c \in Calls, NEW to, Stage(c)' = to, table \subseteq table',
           \A r \in table' \ table : r.call = c,
           \A d \in Calls \ {c} : pc'[d] = pc[d] /\ answer'[d] = answer[d]
    PROVE  Stages' = [Stages EXCEPT ![c] = to]
<1>1. ASSUME NEW d \in Calls \ {c}
      PROVE  d \in Charged' <=> d \in Charged
    <2>1. \A r : r.call = d => (r \in table' <=> r \in table)
        BY <1>1
    <2> QED
        BY <1>1, <2>1 DEF Charged
<1>2. ASSUME NEW d \in Calls \ {c}
      PROVE  Stage(d)' = Stage(d)
    <2>1. pc'[d] = pc[d] /\ answer'[d] = answer[d] /\ (d \in Charged' <=> d \in Charged)
        BY <1>1
    <2> QED
        BY <2>1 DEF Stage
<1> QED
    BY <1>2 DEF Stages

\* Who has been neither refused nor charged is where its handler is; a call in flight is
\* open to the meter.
LEMMA StageNow ==
    ASSUME IInv, NEW c \in Calls
    PROVE  /\ pc[c] = "new" => Stages[c] = "new"
           /\ pc[c] = "check" => Stages[c] = "asked"
           /\ pc[c] \in {"verify", "waiting", "record"} => Stages[c] = "open"
           /\ pc[c] # "done" => c \notin Charged
<1>1. pc[c] # "done" => c \notin Charged
    BY DEF IInv, RowsBacked, Charged
<1>2. pc[c] \in {"new", "check", "verify", "waiting", "record"} => answer[c] \notin Refusals
    BY DEF IInv, CallsInOrder, EntriesBacked, Refusals, None
<1> QED
    BY <1>1, <1>2 DEF Stages, Stage

\* Before its row lands a call moves to the meter as its handler's state says.
LEMMA HandlerMove ==
    ASSUME IInv, NEW c \in Calls, Receive(c) \/ Handle(c), UNCHANGED table, pc[c] # "done",
           NEW to,
           \/ answer'[c] \in Refusals /\ to = "refused"
           \/ /\ answer'[c] \notin Refusals
              /\ \/ pc'[c] = "check" /\ to = "asked"
                 \/ pc'[c] \in {"verify", "waiting", "record"} /\ to = "open"
                 \/ pc'[c] = "done" /\ to = "free"
    PROVE  Stages' = [Stages EXCEPT ![c] = to] /\ Used' = Used
<1>1. \A d \in Calls \ {c} : pc'[d] = pc[d] /\ answer'[d] = answer[d]
    BY HandleFrame DEF IInv
<1>2. c \notin Charged'
    BY StageNow DEF Charged
<1>3. Stage(c)' = to
    BY <1>2 DEF Stage
<1>4. Stages' = [Stages EXCEPT ![c] = to]
    BY <1>1, <1>3, StageMove
<1>5. Used' = Used
    BY DEF Used, Counted
<1> QED
    BY <1>4, <1>5

\* Up to the limiter's verdict every step of the handler is one of the meter: the request
\* is asked, granted or refused (VerifyIdentity, Check).
LEMMA MeterAdmission ==
    ASSUME IInv, NEW c \in Calls,
           Receive(c) \/ Admit(c) \/ RefuseAnonymous(c) \/ RefuseExceeded(c) \/ CountFails(c)
    PROVE  Meter!Ask(c) \/ Meter!Grant(c) \/ Meter!Refuse(c)
<1>t. /\ pc \in [Calls -> Labels] /\ answer \in [Calls -> Statuses] /\ who \in [Calls -> Callers]
    BY DEF IInv, TypeOK, Labels, Statuses
<1>n. pc[c] \in {"new", "check"} => answer[c] \notin Refusals
    BY DEF IInv, CallsInOrder, Refusals, None
<1>1. CASE Receive(c)
    <2>1. /\ pc[c] = "new" /\ UNCHANGED <<table, reached, faults>>
          /\ \E x \in Callers : who' = [who EXCEPT ![c] = x]
          /\ answer'[c] \notin Refusals /\ pc'[c] \in {"check", "done"}
        BY <1>1, <1>t, <1>n DEF Receive, Goto, Answer, Refusals
    <2>2. Stages[c] = "new"
        BY <2>1, StageNow
    <2>3. /\ Used' = Used
          /\ Stages' = [Stages EXCEPT ![c] = "asked"] \/ Stages' = [Stages EXCEPT ![c] = "free"]
        BY <1>1, <2>1, HandlerMove
    <2> QED
        BY <2>1, <2>2, <2>3 DEF Meter!Ask, Meter!Moves
<1>2. CASE Admit(c)
    <2>1. /\ pc[c] = "check" /\ UNCHANGED <<who, answer, table, reached, faults>>
          /\ Limit > 0 => who[c] # Anonymous /\ Cardinality(Counted(who[c])) < Limit
          /\ pc'[c] = "verify"
        BY <1>2, <1>t DEF Admit, Goto
    <2>2. Stages[c] = "asked"
        BY <2>1, StageNow
    <2>3. Meter!Within(who[c])
        <3>1. CASE Limit > 0
            BY <2>1, <3>1, WithinIsCounted
        <3>2. CASE ~(Limit > 0)
            BY <3>2 DEF Meter!Within
        <3> QED
            BY <3>1, <3>2
    <2>4. Used' = Used /\ Stages' = [Stages EXCEPT ![c] = "open"]
        BY <1>2, <1>n, <2>1, HandlerMove DEF Handle
    <2> QED
        BY <2>1, <2>2, <2>3, <2>4 DEF Meter!Grant, Meter!Moves
<1>3. CASE RefuseAnonymous(c) \/ RefuseExceeded(c) \/ CountFails(c)
    <2>1. /\ pc[c] = "check" /\ Limit > 0 /\ UNCHANGED <<who, table, reached>>
          /\ answer'[c] \in Refusals
        BY <1>3, <1>t DEF RefuseAnonymous, RefuseExceeded, CountFails, Refuse, Answer, Refusals
    <2>2. Stages[c] = "asked"
        BY <2>1, StageNow
    <2>3. Used' = Used /\ Stages' = [Stages EXCEPT ![c] = "refused"]
        BY <1>3, <2>1, HandlerMove DEF Handle
    <2>4. (~Meter!Within(who[c]) /\ faults' = faults) \/ faults' = faults + 1
        <3>1. CASE RefuseAnonymous(c)
            BY <2>1, <3>1, WithinIsCounted DEF RefuseAnonymous
        <3>2. CASE RefuseExceeded(c)
            <4>1. Cardinality(Counted(who[c])) \in Nat
                BY FS_Subset, FS_CardinalityType DEF Counted, IInv
            <4>2. ~(Cardinality(Counted(who[c])) < Limit)
                BY <3>2, <4>1, LimitAssumption DEF RefuseExceeded
            <4> QED
                BY <2>1, <3>2, <4>2, WithinIsCounted DEF RefuseExceeded
        <3>3. CASE CountFails(c)
            BY <3>3 DEF CountFails
        <3> QED
            BY <1>3, <3>1, <3>2, <3>3
    <2> QED
        BY <2>1, <2>2, <2>3, <2>4 DEF Meter!Refuse, Meter!Moves
<1> QED
    BY <1>1, <1>2, <1>3

\* A verification is passed on at most once, and nothing is charged before its row lands
\* (VerifyIdentity after Check).
LEMMA MeterVerification ==
    ASSUME IInv, NEW c \in Calls,
           Unsupported(c) \/ NoProvider(c) \/ CallProvider(c) \/ Respond(c)
    PROVE  Meter!Reach(c) \/ Meter!Release(c) \/ UNCHANGED Meter!vars
<1>t. /\ pc \in [Calls -> Labels] /\ answer \in [Calls -> Statuses]
    BY DEF IInv, TypeOK, Labels, Statuses
<1>1. /\ pc[c] \in {"verify", "waiting"} /\ UNCHANGED <<who, table, faults>>
      /\ Handle(c) /\ pc[c] # "done"
    BY DEF Unsupported, NoProvider, CallProvider, Respond, Refuse, Handle
<1>2. Stages[c] = "open"
    BY <1>1, StageNow
<1>3. answer[c] \notin Refusals
    BY <1>1 DEF IInv, CallsInOrder, Refusals, None
<1>4. CASE Unsupported(c)
    <2>1. pc'[c] = "done" /\ answer'[c] \notin Refusals /\ reached' = reached
        BY <1>4, <1>t DEF Unsupported, Refuse, Goto, Answer, Refusals
    <2>2. Used' = Used /\ Stages' = [Stages EXCEPT ![c] = "free"]
        BY <1>1, <2>1, HandlerMove
    <2> QED
        BY <1>1, <1>2, <2>1, <2>2 DEF Meter!Release, Meter!Moves, Meter!MayBreakDown
<1>5. CASE NoProvider(c) \/ CallProvider(c) \/ Respond(c)
    <2>1. /\ pc'[c] \in {"waiting", "record"} /\ answer'[c] \notin Refusals
          /\ reached' \in {reached, reached \cup {c}}
        <3>1. CASE NoProvider(c)
            BY <1>t, <3>1 DEF NoProvider, Goto, Answer, Refusals
        <3>2. CASE CallProvider(c)
            BY <1>t, <1>3, <3>2 DEF CallProvider, Goto
        <3>3. CASE Respond(c)
            <4>1. PICK r \in Replies : \E status \in StatusOf(r) : Answer(c, status)
                BY <3>3 DEF Respond
            <4>2. answer'[c] \in StatusOf(r)
                BY <1>t, <4>1 DEF Answer
            <4>3. answer'[c] \notin Refusals
                BY <4>1, <4>2 DEF StatusOf, Replies, Refusals
            <4> QED
                BY <1>t, <3>3, <4>3 DEF Respond, Goto
        <3> QED
            BY <1>5, <3>1, <3>2, <3>3
    <2>2. Used' = Used /\ Stages' = [Stages EXCEPT ![c] = "open"]
        BY <1>1, <2>1, HandlerMove
    <2>3. Stages' = Stages
        BY <1>2, <2>2 DEF Stages
    <2> QED
        BY <1>1, <1>2, <2>1, <2>2, <2>3 DEF Meter!Reach, Meter!vars
<1> QED
    BY <1>4, <1>5

\* A row with evidence charges its call's subscriber for one call more; any other leaves
\* all counts alone (Record, CountVerifyVendorCallsBySubscriber).
LEMMA UsedStep ==
    ASSUME IInv, NEW c \in Calls, NEW x \in Callers, NEW row, row.call = c, row.subscriber = x,
           pc[c] = "record", table' = table \cup {row}
    PROVE  /\ row.evidence => Used' = [Used EXCEPT ![x] = @ + 1]
           /\ ~row.evidence => Used' = Used
<1>1. \A r \in table : r.call # c
    BY DEF IInv, RowsBacked
<1>2. ASSUME NEW y \in Callers, y # x \/ ~row.evidence
      PROVE  Used'[y] = Used[y]
    <2>1. Counted(y)' = Counted(y)
        BY <1>2 DEF Counted
    <2> QED
        BY <2>1 DEF Used
<1>3. ASSUME row.evidence
      PROVE  Used'[x] = Used[x] + 1
    <2> DEFINE before == Counted(x)
    <2>1. before \subseteq table
        BY DEF Counted
    <2>2. IsFiniteSet(before) /\ row \notin before
        BY <1>1, <2>1, FS_Subset DEF IInv
    <2>3. Counted(x)' = before \cup {row}
        BY <1>3 DEF Counted
    <2>4. Used'[x] = Cardinality(before \cup {row}) /\ Used[x] = Cardinality(before)
        BY <2>3 DEF Used
    <2> HIDE DEF before
    <2>5. Cardinality(before \cup {row}) = Cardinality(before) + 1
        BY <2>2, FS_AddElement
    <2> QED
        BY <2>4, <2>5
<1>4. /\ Used = [y \in Callers |-> Used[y]] /\ Used' = [y \in Callers |-> Used'[y]]
    BY DEF Used
<1> QED
    BY <1>2, <1>3, <1>4

\* The logger charges a call that reached a provider, or lets it go (Record).
LEMMA MeterRecord ==
    ASSUME IInv, NEW c \in Calls, Record(c)
    PROVE  Meter!Charge(c) \/ Meter!Release(c)
<1> DEFINE row == [call |-> c, subscriber |-> who[c], verified |-> entry[c] = "verified",
                   evidence |-> Evidenced(entry[c])]
<1>1. /\ pc[c] = "record" /\ pc' = [pc EXCEPT ![c] = "done"] /\ UNCHANGED <<who, answer, reached>>
      /\ \/ Marshalled(entry[c]) /\ table' = table \cup {row} /\ faults' = faults
         \/ table' = table /\ faults' \in {faults, faults + 1}
    BY DEF Record, Goto
<1>2. /\ pc \in [Calls -> Labels] /\ who[c] \in Callers /\ \A r \in table : r.call # c
      /\ answer[c] \notin Refusals
      /\ Evidenced(entry[c]) /\ Marshalled(entry[c]) => c \in reached
    BY <1>1 DEF IInv, TypeOK, RowsBacked, EntriesBacked, Labels
<1>3. Stages[c] = "open" /\ pc'[c] = "done" /\ \A d \in Calls \ {c} : pc'[d] = pc[d]
    BY <1>1, <1>2, StageNow
<1>4. row.call = c /\ row.subscriber = who[c] /\ row.evidence = Evidenced(entry[c])
    OBVIOUS
<1> HIDE DEF row
<1>5. CASE table' = table \cup {row} /\ row.evidence /\ Marshalled(entry[c]) /\ faults' = faults
    <2>1. Stage(c)' = "charged"
        BY <1>4, <1>5 DEF Stage, Charged
    <2>2. Stages' = [Stages EXCEPT ![c] = "charged"]
        BY <1>1, <1>3, <1>4, <1>5, <2>1, StageMove
    <2>3. Used' = [Used EXCEPT ![who[c]] = @ + 1]
        BY <1>1, <1>2, <1>4, <1>5, UsedStep
    <2> QED
        BY <1>1, <1>2, <1>3, <1>4, <1>5, <2>2, <2>3 DEF Meter!Charge, Meter!Moves
<1>6. CASE table' = table \/ (table' = table \cup {row} /\ ~row.evidence)
    <2>1. c \notin Charged'
        BY <1>2, <1>6 DEF Charged
    <2>2. Stage(c)' = "free"
        BY <1>1, <1>2, <1>3, <2>1 DEF Stage
    <2>3. Stages' = [Stages EXCEPT ![c] = "free"]
        BY <1>1, <1>3, <1>4, <1>6, <2>2, StageMove
    <2>4. Used' = Used
        <3>1. CASE table' = table
            BY <3>1 DEF Used, Counted
        <3>2. CASE table' = table \cup {row} /\ ~row.evidence
            BY <1>1, <1>2, <1>4, <3>2, UsedStep
        <3> QED
            BY <1>6, <3>1, <3>2
    <2> QED
        BY <1>1, <1>3, <2>3, <2>4 DEF Meter!Release, Meter!Moves, Meter!MayBreakDown
<1> QED
    BY <1>1, <1>4, <1>5, <1>6

\* When the process ends, calls in flight are over for the meter too (App.Start).
LEMMA MeterStop ==
    ASSUME IInv, Crash
    PROVE  Meter!Stop
<1>1. /\ \A c \in Calls : pc'[c] = IF pc[c] \in {"new", "done"} THEN pc[c] ELSE "lost"
      /\ UNCHANGED <<who, answer, table, reached, faults>>
    BY DEF Crash
<1>2. Used' = Used /\ Charged' = Charged
    BY <1>1 DEF Used, Counted, Charged
<1>3. ASSUME NEW c \in Calls
      PROVE  Stage(c)' = IF Stages[c] \in {"asked", "open"} THEN "free" ELSE Stages[c]
    <2>1. pc[c] \in Labels /\ Stages[c] = Stage(c)
        BY DEF IInv, TypeOK, Labels, Stages
    <2>2. answer'[c] = answer[c] /\ (c \in Charged' <=> c \in Charged)
        BY <1>1, <1>2
    <2> QED
        BY <1>1, <2>1, <2>2 DEF Stage, Labels
<1> QED
    BY <1>1, <1>2, <1>3 DEF Meter!Stop, Stages

\* Every step of the endpoint is one of the meter, or none.
LEMMA MeterStep ==
    ASSUME IInv, [Next]_vars
    PROVE  [Meter!Next]_(Meter!vars)
<1>1. ASSUME NEW c \in Calls, Receive(c) \/ Handle(c)
      PROVE  [Meter!Next]_(Meter!vars)
    <2>1. CASE Receive(c) \/ Admit(c) \/ RefuseAnonymous(c) \/ RefuseExceeded(c) \/ CountFails(c)
        BY <2>1, MeterAdmission DEF Meter!Next
    <2>2. CASE Unsupported(c) \/ NoProvider(c) \/ CallProvider(c) \/ Respond(c)
        BY <2>2, MeterVerification DEF Meter!Next
    <2>3. CASE Record(c)
        BY <2>3, MeterRecord DEF Meter!Next
    <2> QED
        BY <1>1, <2>1, <2>2, <2>3 DEF Handle
<1>2. CASE Crash
    BY <1>2, MeterStop DEF Meter!Next
<1>3. CASE UNCHANGED vars
    <2>1. UNCHANGED <<who, reached, faults, pc, answer, table>>
        BY <1>3 DEF vars
    <2>2. Used' = Used /\ Charged' = Charged
        BY <2>1 DEF Used, Counted, Charged
    <2>3. Stages' = Stages
        BY <2>1, <2>2 DEF Stages, Stage
    <2> QED
        BY <2>1, <2>2, <2>3 DEF Meter!vars
<1> QED
    BY <1>1, <1>2, <1>3 DEF Next, Finished

\* An endpoint nobody has called is a meter nobody has used.
LEMMA MeterInit == Init => Meter!Init
<1> SUFFICES ASSUME Init PROVE Meter!Init
    OBVIOUS
<1>1. /\ who \in [Calls -> Callers] /\ reached = {} /\ faults = 0
      /\ table = {} /\ \A c \in Calls : pc[c] = "new" /\ answer[c] = None
    BY DEF Init, Callers
<1>2. Charged = {} /\ \A x : Counted(x) = {}
    BY <1>1 DEF Charged, Counted
<1>3. Stages = [c \in Calls |-> "new"]
    BY <1>1, <1>2 DEF Stages, Stage, Refusals, None
<1>4. Used = [x \in Callers |-> 0]
    BY <1>2, FS_EmptySet DEF Used
<1> QED
    BY <1>1, <1>3, <1>4 DEF Meter!Init

\* To its callers the endpoint is a meter: whatever lands late, fails, is lost or stops,
\* calls are granted, refused and charged as UsageMeter says (VerifyIdentity, Check,
\* Record), for any limit and any number of calls and subscribers.
THEOREM KeepsMeterHolds == Spec => KeepsMeter
    BY MeterInit, MeterStep, Invariance, PTL DEF Spec, KeepsMeter, Meter!Spec

=============================================================================
