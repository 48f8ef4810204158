----------------------- MODULE CredentialCountProofs -----------------------
(***************************************************************************)
(* How many copies of an id, and so how many credentials and how many      *)
(* verifications, one request can lead to.  What a row has to spare of     *)
(* each never decreases: a retry that is recorded, a failed call or a      *)
(* restart pays for what is added.  Also how many verified rows are left   *)
(* without a credential.                                                   *)
(***************************************************************************)
EXTENDS CredentialPipelineProofs, CredentialAttempts, FunctionTheorems, FiniteSetTheorems

\* The copy the worker is about to add.  The process is up, or RecordFailure fails.
Added(i) == IF cur = i /\ (wpc = "requeue" \/ (wpc = "reopen" /\ mode = "up")) THEN 1 ELSE 0

\* The worker has the row in hand, or a poll would find it: it is processed once more
\* without any copy.
Due(i) == IF cur = i \/ rows[i].status = "PENDING" THEN 1 ELSE 0

SpareCopies(i) == 1 + rows[i].retries + faults - Queued(i) - Added(i)
SpareCredentials(i) ==
    2 + rows[i].retries + faults - rows[i].issued - Queued(i) - Added(i) - Due(i)

IssueVerified == wpc = "issue" => rows[cur].status = "VERIFIED"

CountInv ==
    /\ IssueVerified
    /\ \A i \in RowIds : SpareCopies(i) >= 0 /\ SpareCredentials(i) >= 0

-----------------------------------------------------------------------------
(* What a step does to the number of copies.                                 *)

LEMMA QueuedType ==
    ASSUME TypeOK, NEW i
    PROVE  /\ IsFiniteSet(OnChan(i)) /\ Cardinality(OnChan(i)) \in Nat
           /\ IsFiniteSet(ToSend(i)) /\ Cardinality(ToSend(i)) \in Nat
           /\ Queued(i) \in Nat
<1>1. chan \in Seq(RowIds) /\ DOMAIN chan = 1..Len(chan) /\ Len(chan) \in Nat
    BY DEF TypeOK
<1>2. IsFiniteSet(DOMAIN chan)
    BY <1>1, FS_Interval
<1>3. IsFiniteSet(OnChan(i)) /\ IsFiniteSet(ToSend(i))
    BY <1>2, FinitenessAssumption, FS_Subset DEF OnChan, ToSend
<1> QED
    BY <1>3, FS_CardinalityType DEF Queued

\* A send adds at most one copy, of the id that is sent (the select in SubmitCredentials
\* and in handleVerificationFailure).
LEMMA SendCount ==
    ASSUME TypeOK, NEW j, TrySend(j), NEW i
    PROVE  /\ Cardinality(OnChan(i)') \in Nat
           /\ Cardinality(OnChan(i)') <= Cardinality(OnChan(i)) + (IF i = j THEN 1 ELSE 0)
<1>1. chan \in Seq(RowIds) /\ Len(chan) \in Nat
    BY DEF TypeOK
<1>2. IsFiniteSet(OnChan(i)) /\ Cardinality(OnChan(i)) \in Nat
    BY QueuedType
<1>3. CASE chan' = chan
    BY <1>2, <1>3 DEF OnChan
<1>4. CASE chan' = Append(chan, j)
    <2> DEFINE new == Len(chan) + 1
    <2>1. /\ DOMAIN chan' = DOMAIN chan \cup {new}
          /\ chan'[new] = j
          /\ \A k \in DOMAIN chan : chan'[k] = chan[k]
        BY <1>1, <1>4
    <2>2. CASE i = j
        <3>1. OnChan(i)' \subseteq OnChan(i) \cup {new}
            BY <2>1, <2>2 DEF OnChan
        <3>2. /\ IsFiniteSet(OnChan(i) \cup {new})
              /\ Cardinality(OnChan(i) \cup {new}) <= Cardinality(OnChan(i)) + 1
              /\ Cardinality(OnChan(i) \cup {new}) \in Nat
            <4> HIDE DEF new
            <4>1. /\ IsFiniteSet(OnChan(i) \cup {new})
                  /\ Cardinality(OnChan(i) \cup {new})
                        = IF new \in OnChan(i) THEN Cardinality(OnChan(i))
                          ELSE Cardinality(OnChan(i)) + 1
                BY <1>2, FS_AddElement
            <4> QED
                BY <1>2, <4>1
        <3>3. /\ Cardinality(OnChan(i)') <= Cardinality(OnChan(i) \cup {new})
              /\ Cardinality(OnChan(i)') \in Nat
            BY <3>1, <3>2, FS_Subset, FS_CardinalityType
        <3> QED
            BY <1>2, <2>2, <3>2, <3>3
    <2>3. CASE i # j
        <3>1. OnChan(i)' = OnChan(i)
            BY <2>1, <2>3 DEF OnChan
        <3> QED
            BY <1>2, <2>3, <3>1
    <2> QED
        BY <2>2, <2>3
<1> QED
    BY <1>3, <1>4 DEF TrySend

\* Receiving from the channel takes one copy away.
LEMMA TakeCount ==
    ASSUME TypeOK, chan # <<>>, chan' = Tail(chan), NEW i
    PROVE  /\ Cardinality(OnChan(i)') \in Nat
           /\ Cardinality(OnChan(i)') <= Cardinality(OnChan(i)) - (IF i = Head(chan) THEN 1 ELSE 0)
<1> DEFINE rest == OnChan(i) \ {1}
           shift == [k \in OnChan(i)' |-> k + 1]
<1>1. /\ chan \in Seq(RowIds) /\ Len(chan) \in Nat /\ Len(chan) >= 1
      /\ DOMAIN chan = 1..Len(chan) /\ Head(chan) = chan[1]
    BY DEF TypeOK
<1>2. /\ DOMAIN chan' = 1..(Len(chan) - 1)
      /\ \A k \in 1..(Len(chan) - 1) : chan'[k] = chan[k + 1]
    BY <1>1
<1>3. IsFiniteSet(OnChan(i)) /\ Cardinality(OnChan(i)) \in Nat
    BY QueuedType
<1>4. /\ IsFiniteSet(rest) /\ Cardinality(rest) \in Nat
      /\ Cardinality(rest) = IF 1 \in OnChan(i) THEN Cardinality(OnChan(i)) - 1
                             ELSE Cardinality(OnChan(i))
    BY <1>3, FS_RemoveElement, FS_CardinalityType
<1>5. OnChan(i)' \subseteq 1..(Len(chan) - 1)
    BY <1>2 DEF OnChan
<1>6. shift \in Injection(OnChan(i)', rest)
    <2>1. ASSUME NEW k \in OnChan(i)'
          PROVE  k + 1 \in rest
        BY <1>1, <1>2, <1>5, <2>1 DEF OnChan
    <2>2. \A k, l \in OnChan(i)' : k + 1 = l + 1 => k = l
        BY <1>5
    <2> QED
        BY <2>1, <2>2 DEF Injection, IsInjective
<1>7. Cardinality(OnChan(i)') <= Cardinality(rest) /\ Cardinality(OnChan(i)') \in Nat
    BY <1>4, <1>6, FS_Injection, FS_CardinalityType
<1>8. 1 \in OnChan(i) <=> i = Head(chan)
    BY <1>1 DEF OnChan
<1> QED
    BY <1>3, <1>4, <1>7, <1>8

-----------------------------------------------------------------------------
(* No step of a row's life leaves it less to spare.                          *)

\* The counts of a row are numbers.
LEMMA CountTypes ==
    ASSUME TypeOK, NEW i \in RowIds
    PROVE  /\ rows[i] \in Row /\ rows[i].retries \in Nat /\ rows[i].issued \in Nat
           /\ faults \in Nat /\ Queued(i) \in Nat /\ i # NoRow
           /\ Added(i) \in {0, 1} /\ Due(i) \in {0, 1}
<1>1. rows \in Seq(Row) /\ RowIds = 1..Len(rows) /\ faults \in 0..MaxFaults
    BY DEF TypeOK, RowIds
<1>2. rows[i] \in Row /\ i # NoRow
    BY <1>1 DEF NoRow
<1>3. rows[i].retries \in Nat /\ rows[i].issued \in Nat
    BY <1>2 DEF Row
<1>4. faults \in Nat
    BY <1>1, BoundAssumption
<1>5. Added(i) \in {0, 1} /\ Due(i) \in {0, 1}
    BY DEF Added, Due
<1> QED
    BY <1>2, <1>3, <1>4, <1>5, QueuedType

\* A step after which no more copies of a row are ahead and no more is due, and that
\* leaves what was counted of it alone.
LEMMA SpareKept ==
    ASSUME TypeOK, NEW i \in RowIds, SpareCopies(i) >= 0, SpareCredentials(i) >= 0,
           rows'[i].retries = rows[i].retries, rows'[i].issued = rows[i].issued,
           faults' \in Nat, faults' >= faults, Queued(i)' \in Nat,
           Queued(i)' + Added(i)' <= Queued(i) + Added(i),
           Queued(i)' + Added(i)' + Due(i)' <= Queued(i) + Added(i) + Due(i)
    PROVE  SpareCopies(i)' >= 0 /\ SpareCredentials(i)' >= 0
<1>1. Added(i)' \in {0, 1} /\ Due(i)' \in {0, 1}
    BY DEF Added, Due
<1> HIDE DEF Added, Due, Queued
<1> QED
    BY <1>1, CountTypes DEF SpareCopies, SpareCredentials

\* A submission adds rows with one copy each, which it then moves to the channel.
LEMMA SubmitQueued ==
    ASSUME IInv, NEW s \in Submissions, Submit(s)
    PROVE  /\ UNCHANGED <<mode, worker, restarts>>
           /\ faults \in Nat /\ faults' \in Nat /\ faults' >= faults
           /\ RowIds \subseteq RowIds'
           /\ \A i \in RowIds :
                rows'[i] = rows[i] /\ Queued(i)' \in Nat /\ Queued(i)' <= Queued(i)
           /\ \A i \in RowIds' \ RowIds :
                /\ rows'[i].retries = 0 /\ rows'[i].issued = 0
                /\ Queued(i)' \in {0, 1} /\ i # cur
<1>1. TypeOK
    BY DEF IInv
<1>2. /\ UNCHANGED <<mode, worker, restarts>>
      /\ faults' \in Nat /\ faults' >= faults /\ faults \in Nat
    BY <1>1 DEF TypeOK, Submit, Arrive, Abort, AcquireDedupLock, ReuseInFlight, FindNoneInFlight,
                CommitBatch, SendJob, Respond, Fault, worker, bounds
<1>3. CASE UNCHANGED <<rows, chan, outbox>>
    <2>1. RowIds' = RowIds
        BY <1>3 DEF RowIds
    <2>2. \A i : Queued(i)' = Queued(i)
        BY <1>3 DEF Queued, OnChan, ToSend
    <2> QED
        BY <1>1, <1>2, <1>3, <2>1, <2>2, CountTypes
<1>4. CASE SendJob(s)
    <2>1. PICK j \in outbox[s] : TrySend(j) /\ outbox' = [outbox EXCEPT ![s] = @ \ {j}]
        BY <1>4 DEF SendJob
    <2>2. UNCHANGED rows /\ RowIds' = RowIds
        BY <1>4 DEF SendJob, database, RowIds
    <2>3. ASSUME NEW i \in RowIds
          PROVE  Queued(i)' <= Queued(i) /\ Queued(i)' \in Nat
        <3>1. /\ Cardinality(OnChan(i)') \in Nat
              /\ Cardinality(OnChan(i)') <= Cardinality(OnChan(i)) + (IF i = j THEN 1 ELSE 0)
            BY <1>1, <2>1, SendCount
        <3>2. ToSend(i)' = IF i = j THEN ToSend(i) \ {s} ELSE ToSend(i)
            BY <1>1, <2>1 DEF ToSend, TypeOK
        <3>3. i = j => s \in ToSend(i)
            BY <2>1 DEF ToSend
        <3>4. /\ Cardinality(ToSend(i)') \in Nat
              /\ Cardinality(ToSend(i)') = Cardinality(ToSend(i)) - (IF i = j THEN 1 ELSE 0)
            <4>1. /\ IsFiniteSet(ToSend(i) \ {s})
                  /\ Cardinality(ToSend(i) \ {s})
                        = IF s \in ToSend(i) THEN Cardinality(ToSend(i)) - 1
                          ELSE Cardinality(ToSend(i))
                BY <1>1, QueuedType, FS_RemoveElement
            <4>2. Cardinality(ToSend(i) \ {s}) \in Nat /\ Cardinality(ToSend(i)) \in Nat
                BY <1>1, <4>1, QueuedType, FS_CardinalityType
            <4> QED
                BY <3>2, <3>3, <4>1, <4>2
        <3> QED
            BY <1>1, <3>1, <3>4, QueuedType DEF Queued
    <2> QED
        BY <1>2, <2>2, <2>3
<1>5. CASE CommitBatch(s)
    <2>1. PICK p \in Payloads : p = payload[s]
        BY <1>1 DEF TypeOK
    <2>2. rows \in Seq(Row) /\ rows' = rows \o Batch(p, Len(rows) + 1)
        BY <1>1, <1>5, <2>1 DEF CommitBatch, TypeOK
    <2>3. /\ RowIds \subseteq RowIds'
          /\ \A i \in RowIds : rows'[i] = rows[i]
          /\ \A i \in RowIds' \ RowIds : rows'[i].retries = 0 /\ rows'[i].issued = 0
        <3>1. /\ RowIds \subseteq RowIds'
              /\ \A i \in RowIds : rows'[i] = rows[i]
              /\ \A i \in RowIds' \ RowIds :
                    rows'[i] = [request |-> Len(rows) + 1, payload |-> p, status |-> "PENDING",
                                retries |-> 0, errors |-> FALSE, evidence |-> FALSE, issued |-> 0]
            BY <2>2, CommitEffect
        <3> QED
            BY <3>1
    <2>4. /\ chan' = chan
          /\ outbox' = outbox \/ outbox' = [outbox EXCEPT ![s] = NewIds(p)]
        BY <1>5, <2>1 DEF CommitBatch
    <2>5. ASSUME NEW i
          PROVE  ToSend(i)' \subseteq IF i \in RowIds THEN ToSend(i) ELSE {s}
        <3>1. outbox \in [Submissions -> SUBSET RowIds]
            BY <1>1 DEF TypeOK
        <3>2. i \in RowIds => i \notin NewIds(p)
            BY <2>2 DEF RowIds, NewIds
        <3> QED
            BY <2>4, <3>1, <3>2 DEF ToSend
    <2>6. ASSUME NEW i \in RowIds
          PROVE  Queued(i)' <= Queued(i) /\ Queued(i)' \in Nat
        <3>1. OnChan(i)' = OnChan(i) /\ ToSend(i)' \in SUBSET ToSend(i)
            BY <2>4, <2>5 DEF OnChan
        <3>2. /\ IsFiniteSet(ToSend(i)') /\ Cardinality(ToSend(i)') <= Cardinality(ToSend(i))
              /\ Cardinality(ToSend(i)') \in Nat
            BY <1>1, <3>1, QueuedType, FS_Subset, FS_CardinalityType
        <3> QED
            BY <1>1, <3>1, <3>2, QueuedType DEF Queued
    <2>7. ASSUME NEW i \in RowIds' \ RowIds
          PROVE  Queued(i)' \in {0, 1} /\ i # cur
        <3>1. OnChan(i)' = {}
            <4>1. \A k \in DOMAIN chan : chan[k] \in RowIds
                BY <1>1 DEF TypeOK
            <4> QED
                BY <2>4, <2>7, <4>1 DEF OnChan
        <3>2. /\ Cardinality(ToSend(i)') \in Nat /\ Cardinality(ToSend(i)') <= 1
              /\ Cardinality(OnChan(i)') = 0
            <4>1. ToSend(i)' \in SUBSET {s}
                BY <2>5, <2>7
            <4>2. IsFiniteSet({s}) /\ Cardinality({s}) = 1
                BY FS_Singleton
            <4>3. IsFiniteSet(ToSend(i)') /\ Cardinality(ToSend(i)') <= 1
                BY <4>1, <4>2, FS_Subset
            <4>4. Cardinality(ToSend(i)') \in Nat
                BY <4>3, FS_CardinalityType
            <4>5. Cardinality(OnChan(i)') = 0
                BY <3>1, FS_EmptySet
            <4> QED
                BY <4>3, <4>4, <4>5
        <3>3. i # cur
            <4>1. rows' \in Seq(Row)
                BY <2>2, CommitEffect
            <4>2. i # NoRow
                BY <2>7, <4>1 DEF RowIds, NoRow
            <4> QED
                BY <1>1, <2>7, <4>2 DEF TypeOK
        <3> QED
            BY <3>2, <3>3 DEF Queued
    <2> QED
        BY <1>2, <2>3, <2>6, <2>7
<1> QED
    BY <1>3, <1>4, <1>5
    DEF Submit, Arrive, Abort, AcquireDedupLock, ReuseInFlight, FindNoneInFlight, Respond, database

LEMMA SubmitCounts ==
    ASSUME IInv, CountInv, NEW s \in Submissions, Submit(s)
    PROVE  CountInv'
<1>1. TypeOK /\ WorkerInHand /\ wpc' = wpc /\ cur' = cur /\ mode' = mode
    BY SubmitQueued DEF IInv, worker
<1>2. ASSUME NEW i \in RowIds
      PROVE  SpareCopies(i)' >= 0 /\ SpareCredentials(i)' >= 0
    <2>1. rows'[i] = rows[i] /\ Queued(i)' \in Nat /\ Queued(i)' <= Queued(i)
        BY SubmitQueued
    <2>2. Added(i)' = Added(i) /\ Due(i)' = Due(i)
        BY <1>1, <2>1 DEF Added, Due
    <2>3. faults' \in Nat /\ faults' >= faults
        BY SubmitQueued
    <2> QED
        BY <1>1, <2>1, <2>2, <2>3, SpareKept, CountTypes DEF CountInv
<1>3. ASSUME NEW i \in RowIds' \ RowIds
      PROVE  SpareCopies(i)' >= 0 /\ SpareCredentials(i)' >= 0
    <2>1. /\ rows'[i].retries = 0 /\ rows'[i].issued = 0
          /\ Queued(i)' \in {0, 1} /\ i # cur /\ faults' \in Nat
        BY SubmitQueued
    <2>2. Added(i)' = 0 /\ Due(i)' \in {0, 1}
        BY <1>1, <2>1 DEF Added, Due
    <2> QED
        BY <2>1, <2>2 DEF SpareCopies, SpareCredentials
<1>4. IssueVerified'
    <2>1. \A i \in RowIds : rows'[i] = rows[i]
        BY SubmitQueued
    <2> QED
        BY <1>1, <2>1 DEF CountInv, IssueVerified, WorkerInHand
<1> QED
    BY <1>2, <1>3, <1>4 DEF CountInv

\* A worker that goes on to its next row leaves the one in hand, and any row the poll
\* found is PENDING still.
LEMMA NextJobCounts ==
    ASSUME IInv, NextJob, NEW i \in RowIds
    PROVE  /\ Added(i)' = 0 /\ wpc' # "issue"
           /\ i # cur /\ rows'[i] = rows[i] => Due(i)' <= Due(i)
           /\ i = cur => (Due(i)' = IF rows'[i].status = "PENDING" THEN 1 ELSE 0)
<1>1. /\ TypeOK /\ cur \notin todo /\ \A j \in todo : rows[j].status = "PENDING"
      /\ i # NoRow
    BY CountTypes DEF IInv, WorkerInHand, SnapshotStillPending
<1>2. /\ wpc' \in {"select", "find"}
      /\ cur' = NoRow \/ cur' \in todo
    BY DEF NextJob
<1> QED
    BY <1>1, <1>2 DEF Added, Due

\* The worker's steps that make no database call.
LEMMA WorkCounts ==
    ASSUME IInv, CountInv, TakeJob \/ Verify \/ Requeue \/ WorkerReturns
    PROVE  CountInv'
<1>1. TypeOK /\ WorkerInHand
    BY DEF IInv
<1>2. UNCHANGED <<rows, outbox, faults, mode>>
    BY DEF TakeJob, Verify, Requeue, WorkerReturns, database, handlers, bounds
<1>3. wpc' # "issue"
    BY DEF TakeJob, Verify, Requeue, WorkerReturns, Step, NextJob
<1>4. ASSUME NEW i \in RowIds
      PROVE  /\ Queued(i)' \in Nat
             /\ Queued(i)' + Added(i)' <= Queued(i) + Added(i)
             /\ Queued(i)' + Added(i)' + Due(i)' <= Queued(i) + Added(i) + Due(i)
    <2>1. /\ Queued(i) \in Nat /\ Added(i) \in {0, 1} /\ Due(i) \in {0, 1} /\ i # NoRow
          /\ Cardinality(OnChan(i)) \in Nat /\ Cardinality(ToSend(i)) \in Nat
        BY <1>1, CountTypes, QueuedType
    <2>2. ToSend(i)' = ToSend(i)
        BY <1>2 DEF ToSend
    <2>3. CASE TakeJob
        <3>1. /\ Cardinality(OnChan(i)') \in Nat
              /\ Cardinality(OnChan(i)') <= Cardinality(OnChan(i)) - (IF i = Head(chan) THEN 1 ELSE 0)
            BY <1>1, <2>3, TakeCount DEF TakeJob
        <3>2. Added(i)' = 0 /\ Added(i) = 0
            BY <2>3 DEF TakeJob, Added
        <3>3. Due(i)' <= Due(i) + (IF i = Head(chan) THEN 1 ELSE 0) /\ Due(i)' \in {0, 1}
            BY <1>2, <2>3 DEF TakeJob, Due
        <3> QED
            BY <2>1, <2>2, <3>1, <3>2, <3>3 DEF Queued
    <2>4. CASE Verify \/ WorkerReturns
        <3>1. OnChan(i)' = OnChan(i)
            BY <2>4 DEF Verify, WorkerReturns, OnChan
        <3>2. Added(i)' = 0 /\ Due(i)' = Due(i)
            BY <1>2, <2>4 DEF Verify, WorkerReturns, Step, Added, Due
        <3> QED
            BY <2>1, <2>2, <3>1, <3>2 DEF Queued
    <2>5. CASE Requeue
        <3>1. wpc = "requeue" /\ TrySend(cur) /\ NextJob
            BY <2>5 DEF Requeue
        <3>2. /\ Cardinality(OnChan(i)') \in Nat
              /\ Cardinality(OnChan(i)') <= Cardinality(OnChan(i)) + (IF i = cur THEN 1 ELSE 0)
            BY <1>1, <3>1, SendCount
        <3>3. /\ Added(i)' = 0 /\ Added(i) = IF i = cur THEN 1 ELSE 0
              /\ Due(i)' <= Due(i) /\ Due(i)' \in {0, 1}
            <4>1. Added(i) = IF i = cur THEN 1 ELSE 0
                BY <3>1 DEF Added
            <4>2. i = cur => Due(i) = 1
                BY DEF Due
            <4>3. Due(i)' \in {0, 1}
                BY DEF Due
            <4> QED
                BY <1>2, <3>1, <4>1, <4>2, <4>3, NextJobCounts
        <3> QED
            BY <2>1, <2>2, <3>2, <3>3 DEF Queued
    <2> QED
        BY <2>3, <2>4, <2>5
<1>5. ASSUME NEW i \in RowIds
      PROVE  SpareCopies(i)' >= 0 /\ SpareCredentials(i)' >= 0
    <2>1. faults' \in Nat /\ faults' >= faults
        BY <1>1, <1>2, CountTypes
    <2> QED
        BY <1>1, <1>2, <1>4, <2>1, SpareKept DEF CountInv
<1> QED
    BY <1>2, <1>3, <1>5 DEF CountInv, IssueVerified, RowIds

\* The worker's database calls.  A recorded retry, or a failed call, pays for the copy
\* that ReopenPending leads to.
LEMMA DBCounts ==
    ASSUME IInv, CountInv, NEW ok \in BOOLEAN, DBStep(ok)
    PROVE  CountInv'
<1>1. TypeOK /\ WorkerInHand
    BY DEF IInv
<1>2. /\ UNCHANGED <<chan, outbox, mode>>
      /\ DBCall(ok)
    BY DEF DBStep, Poll, Find, StoreVerified, IssueCredential, RecordRetry, ReopenPending,
           RecordFailed, database, handlers
<1>3. /\ faults \in Nat /\ faults' \in Nat /\ faults' >= faults
      /\ ok => mode = "up"
      /\ ~ok /\ mode = "up" => faults' = faults + 1
      /\ mode \in {"up", "stopping"}
    BY <1>1, <1>2, BoundAssumption DEF DBCall, Fault, TypeOK
<1>4. ASSUME NEW i
      PROVE  Queued(i)' = Queued(i)
    BY <1>2 DEF Queued, OnChan, ToSend
<1>5. CASE Poll(ok) \/ Find(ok)
    <2>1. /\ UNCHANGED rows /\ wpc' # "issue"
          /\ wpc \in {"select", "find"} /\ wpc' \in {"select", "find", "verify"}
          /\ \/ cur' = cur
             \/ cur' \in AllPending
             \/ NextJob
        BY <1>5 DEF Poll, Find, NextJob, Step, database
    <2>2. ASSUME NEW i \in RowIds
          PROVE  Added(i)' = 0 /\ Due(i)' <= Due(i)
        <3>1. CASE NextJob
            <4>1. i = cur => Due(i) = 1 /\ Due(i)' \in {0, 1}
                BY DEF Due
            <4>2. Due(i)' \in {0, 1}
                BY DEF Due
            <4> QED
                BY <2>1, <3>1, <4>1, <4>2, NextJobCounts
        <3>2. CASE cur' = cur \/ cur' \in AllPending
            BY <2>1, <3>2 DEF Added, Due, AllPending
        <3> QED
            BY <2>1, <3>1, <3>2
    <2>3. ASSUME NEW i \in RowIds
          PROVE  SpareCopies(i)' >= 0 /\ SpareCredentials(i)' >= 0
        <3>1. Added(i) \in {0, 1} /\ Due(i) \in {0, 1} /\ Due(i)' \in {0, 1} /\ Queued(i) \in Nat
            BY <1>1, CountTypes DEF Due
        <3> QED
            BY <1>1, <1>3, <1>4, <2>1, <2>2, <3>1, SpareKept DEF CountInv
    <2> QED
        BY <2>1, <2>3 DEF CountInv, IssueVerified, RowIds
<1>6. CASE StoreVerified(ok) \/ IssueCredential(ok) \/ RecordRetry(ok) \/ ReopenPending(ok) \/ RecordFailed(ok)
    <2>1. /\ cur \in RowIds /\ rows \in Seq(Row) /\ rows[cur] \in Row
          /\ RowIds' = RowIds /\ \A i \in RowIds : i # cur => rows'[i] = rows[i]
        <3>1. cur \in RowIds /\ rows[cur] \in Row
            BY <1>1, <1>6 DEF WorkerInHand, StoreVerified, IssueCredential, RecordRetry,
                              ReopenPending, RecordFailed, TypeOK, RowIds
        <3> QED
            BY <1>1, <1>6, <3>1 DEF StoreVerified, IssueCredential, RecordRetry, ReopenPending,
                                    RecordFailed, Update, RowIds, TypeOK
    <2>2. NextJob \/ cur' = cur
        BY <1>6 DEF StoreVerified, IssueCredential, RecordRetry, ReopenPending, RecordFailed, Step
    <2>3. ASSUME NEW i \in RowIds, i # cur
          PROVE  SpareCopies(i)' >= 0 /\ SpareCredentials(i)' >= 0
        <3>1. Added(i)' = 0 /\ Due(i)' <= Due(i)
            <4>1. CASE NextJob
                BY <2>1, <2>3, <4>1, NextJobCounts
            <4>2. CASE cur' = cur
                BY <2>1, <2>3, <4>2 DEF Added, Due
            <4> QED
                BY <2>2, <4>1, <4>2
        <3>2. Added(i) \in {0, 1} /\ Due(i) \in {0, 1} /\ Due(i)' \in {0, 1} /\ Queued(i) \in Nat
            BY <1>1, CountTypes DEF Due
        <3> QED
            BY <1>1, <1>3, <1>4, <2>1, <2>3, <3>1, <3>2, SpareKept DEF CountInv
    <2>0. PICK c : c = cur
        OBVIOUS
    <2>4. /\ SpareCopies(c) >= 0 /\ SpareCredentials(c) >= 0
          /\ Due(c) = 1 /\ Due(c)' \in {0, 1} /\ Added(c) \in {0, 1}
          /\ rows[c].retries \in Nat /\ rows[c].issued \in Nat /\ Queued(c) \in Nat
        BY <1>1, <2>0, <2>1, CountTypes DEF CountInv, Due
    <2>5. SpareCopies(c)' >= 0 /\ SpareCredentials(c)' >= 0
        <3>1. CASE StoreVerified(ok) \/ RecordFailed(ok)
            <4>1. /\ Added(c)' = 0
                  /\ rows'[c].retries = rows[c].retries /\ rows'[c].issued = rows[c].issued
                <5>1. rows'[c] \in {rows[c], [rows[c] EXCEPT !.status = "VERIFIED", !.evidence = TRUE],
                                    [rows[c] EXCEPT !.status = "FAILED", !.errors = TRUE]}
                    BY <2>0, <2>1, <3>1 DEF StoreVerified, RecordFailed, Update, RowIds
                <5>2. wpc' \in {"issue", "select", "find"}
                    BY <3>1 DEF StoreVerified, RecordFailed, Step, NextJob
                <5> QED
                    BY <2>0, <2>1, <5>1, <5>2 DEF Added, Row
            <4> QED
                BY <1>3, <1>4, <2>0, <2>4, <4>1 DEF SpareCopies, SpareCredentials
        <3>2. CASE IssueCredential(ok)
            <4>1. rows'[c] \in {rows[c], [rows[c] EXCEPT !.issued = @ + 1]} /\ NextJob /\ wpc = "issue"
                BY <2>0, <2>1, <3>2 DEF IssueCredential, Update, RowIds
            <4>2. /\ rows'[c].status = "VERIFIED" /\ rows'[c].retries = rows[c].retries
                  /\ rows'[c].issued \in {rows[c].issued, rows[c].issued + 1}
                BY <2>0, <2>1, <4>1 DEF Row, CountInv, IssueVerified
            <4>3. Added(c)' = 0 /\ Due(c)' = 0
                BY <2>0, <2>1, <4>1, <4>2, NextJobCounts
            <4> QED
                BY <1>3, <1>4, <2>0, <2>4, <4>2, <4>3 DEF SpareCopies, SpareCredentials
        <3>3. CASE RecordRetry(ok)
            <4>1. /\ rows'[c] \in {rows[c], [rows[c] EXCEPT !.retries = @ + 1]}
                  /\ ok => rows'[c] = [rows[c] EXCEPT !.retries = @ + 1]
                  /\ wpc = "retry" /\ wpc' = "reopen"
                BY <2>0, <2>1, <3>3 DEF RecordRetry, Update, RowIds, Step
            <4>2. /\ rows'[c].retries \in {rows[c].retries, rows[c].retries + 1}
                  /\ ok => rows'[c].retries = rows[c].retries + 1
                  /\ rows'[c].issued = rows[c].issued
                BY <2>0, <2>1, <4>1 DEF Row
            <4>3. Added(c) = 0 /\ Added(c)' \in {0, 1} /\ (mode # "up" => Added(c)' = 0)
                BY <1>2, <4>1 DEF Added
            <4> QED
                BY <1>3, <1>4, <2>0, <2>4, <4>2, <4>3 DEF SpareCopies, SpareCredentials
        <3>4. CASE ReopenPending(ok)
            <4>1. /\ rows'[c] \in {rows[c], [rows[c] EXCEPT !.status = "PENDING", !.errors = TRUE]}
                  /\ wpc = "reopen"
                  /\ IF ok THEN wpc' = "requeue" /\ cur' = cur ELSE NextJob
                BY <2>0, <2>1, <3>4 DEF ReopenPending, Update, RowIds, Step
            <4>2. rows'[c].retries = rows[c].retries /\ rows'[c].issued = rows[c].issued
                BY <2>0, <2>1, <4>1 DEF Row
            <4>3. Added(c)' <= Added(c) /\ Added(c)' \in {0, 1}
                <5>1. CASE ok
                    BY <1>3, <4>1, <5>1 DEF Added
                <5>2. CASE ~ok
                    BY <2>0, <2>1, <2>4, <4>1, <5>2, NextJobCounts
                <5> QED
                    BY <5>1, <5>2
            <4> QED
                BY <1>3, <1>4, <2>0, <2>4, <4>2, <4>3 DEF SpareCopies, SpareCredentials
        <3> QED
            BY <1>6, <3>1, <3>2, <3>3, <3>4
    <2>7. IssueVerified'
        <3>1. wpc' = "issue" => StoreVerified(ok) /\ ok /\ cur' = cur
            BY <1>6 DEF StoreVerified, IssueCredential, RecordRetry, ReopenPending, RecordFailed,
                        Step, NextJob
        <3>2. StoreVerified(ok) /\ ok => rows'[cur].status = "VERIFIED"
            BY <2>1 DEF StoreVerified, Update, RowIds, Row
        <3> QED
            BY <3>1, <3>2 DEF IssueVerified
    <2> QED
        BY <2>0, <2>1, <2>3, <2>5, <2>7 DEF CountInv
<1> QED
    BY <1>5, <1>6 DEF DBStep

\* What ends a process takes copies away, and none of the rows.
LEMMA ProcessCounts ==
    ASSUME IInv, CountInv, Signal \/ Terminate \/ Restart
    PROVE  CountInv'
<1>1. TypeOK /\ WorkerInHand /\ OffWhenDown
    BY DEF IInv
<1>2. UNCHANGED <<rows, faults>>
    BY DEF Signal, Terminate, Restart, database, bounds
<1>3. ASSUME NEW i \in RowIds
      PROVE  SpareCopies(i)' >= 0 /\ SpareCredentials(i)' >= 0
    <2>1. /\ Queued(i) \in Nat /\ Added(i) \in {0, 1} /\ Due(i) \in {0, 1} /\ i # NoRow
          /\ faults \in Nat
        BY <1>1, CountTypes
    <2>2. CASE Signal \/ Restart
        <3>1. Queued(i)' = Queued(i)
            BY <2>2 DEF Signal, Restart, handlers, Queued, OnChan, ToSend
        <3>2. Added(i)' <= Added(i) /\ Added(i)' \in {0, 1} /\ Due(i)' = Due(i)
            BY <1>2, <2>2 DEF Signal, Restart, worker, Added, Due
        <3> QED
            BY <1>1, <1>2, <2>1, <3>1, <3>2, SpareKept DEF CountInv
    <2>3. CASE Terminate
        <3>1. OnChan(i)' = {} /\ ToSend(i)' = {}
            BY <2>3 DEF Terminate, OnChan, ToSend
        <3>2. Queued(i)' = 0
            BY <3>1, FS_EmptySet DEF Queued
        <3>3. Added(i)' = 0 /\ Due(i)' <= Due(i) /\ Due(i)' \in {0, 1}
            BY <1>2, <2>1, <2>3 DEF Terminate, Added, Due
        <3> QED
            BY <1>1, <1>2, <2>1, <3>2, <3>3, SpareKept DEF CountInv
    <2> QED
        BY <2>2, <2>3
<1>4. IssueVerified'
    BY <1>2 DEF Signal, Terminate, Restart, worker, CountInv, IssueVerified
<1> QED
    BY <1>2, <1>3, <1>4 DEF CountInv, RowIds

LEMMA CountStep ==
    ASSUME IInv, CountInv, [Next]_vars
    PROVE  CountInv'
<1>1. CASE UNCHANGED vars
    <2>1. /\ RowIds' = RowIds /\ IssueVerified'
          /\ \A i \in RowIds : SpareCopies(i)' = SpareCopies(i) /\ SpareCredentials(i)' = SpareCredentials(i)
        BY <1>1 DEF vars, database, handlers, worker, bounds, RowIds, SpareCopies, SpareCredentials,
                    Queued, OnChan, ToSend, Added, Due, CountInv, IssueVerified
    <2> QED
        BY <2>1 DEF CountInv
<1>2. CASE Next
    BY <1>2, SubmitCounts, WorkCounts, DBCounts, ProcessCounts DEF Next, Work
<1> QED
    BY <1>1, <1>2

\* Every row has something to spare, in every reachable state.
THEOREM CountInvariance == Spec => []CountInv
<1>1. Init => CountInv
    BY DEF Init, CountInv, IssueVerified, RowIds
<1> QED
    BY <1>1, CountStep, Invariance, PTL DEF Spec

\* However the channel, the poll and the retries race, no more copies of an id are on
\* their way than its submission, its recorded retries and the failed calls account for.
THEOREM CopiesAccountedHolds == Spec => []CopiesAccounted
<1>1. IInv /\ CountInv => CopiesAccounted
    <2> SUFFICES ASSUME IInv, CountInv, NEW i \in RowIds
                 PROVE  Copies(i) <= 1 + rows[i].retries + faults
        BY DEF CopiesAccounted
    <2>1. /\ TypeOK /\ SpareCopies(i) >= 0
        BY DEF IInv, CountInv
    <2>2. rows[i].retries \in Nat /\ faults \in Nat /\ Queued(i) \in Nat
        BY <2>1, CountTypes
    <2>3. Copies(i) = Queued(i) + (IF cur = i /\ wpc = "requeue" THEN 1 ELSE 0)
        BY DEF Copies
    <2> QED
        BY <2>1, <2>2, <2>3 DEF SpareCopies, Added
<1> QED
    BY <1>1, Invariance, CountInvariance, PTL

\* A request leads to at most two credentials, and one more for each recorded retry and
\* each failed call, however often its id is queued or polled.
THEOREM CredentialsBoundedHolds == Spec => []CredentialsBounded
<1>1. IInv /\ CountInv => CredentialsBounded
    <2> SUFFICES ASSUME IInv, CountInv, NEW i \in RowIds
                 PROVE  rows[i].issued <= 2 + rows[i].retries + faults
        BY DEF CredentialsBounded
    <2>1. TypeOK /\ SpareCredentials(i) >= 0
        BY DEF IInv, CountInv
    <2>2. /\ rows[i].retries \in Nat /\ rows[i].issued \in Nat /\ faults \in Nat
          /\ Queued(i) \in Nat /\ Added(i) \in {0, 1} /\ Due(i) \in {0, 1}
        BY <2>1, CountTypes
    <2> QED
        BY <2>1, <2>2 DEF SpareCredentials
<1> QED
    BY <1>1, Invariance, CountInvariance, PTL

-----------------------------------------------------------------------------
(* Verified rows without a credential.                                       *)

\* The batch of a submission is PENDING, and what the other steps of one leave alone is
\* all that Unissued looks at.
LEMMA UnissuedSubmit ==
    ASSUME TypeOK, NEW s \in Submissions, Submit(s)
    PROVE  /\ UNCHANGED <<mode, restarts, wpc, cur>>
           /\ faults' \in Nat /\ faults' >= faults
           /\ Unissued' \subseteq Unissued
<1> USE DEF database, worker, bounds
<1>1. /\ UNCHANGED <<mode, restarts, wpc, cur>>
      /\ faults' \in Nat /\ faults' >= faults
    BY DEF TypeOK, Submit, Arrive, Abort, AcquireDedupLock, ReuseInFlight, FindNoneInFlight,
           CommitBatch, SendJob, Respond, Fault
<1>2. CASE UNCHANGED rows
    BY <1>1, <1>2 DEF Unissued, RowIds
<1>3. CASE CommitBatch(s)
    <2>1. PICK p \in Payloads : p = payload[s]
        BY DEF TypeOK
    <2>2. rows \in Seq(Row) /\ rows' = rows \o Batch(p, Len(rows) + 1)
        BY <1>3, <2>1 DEF TypeOK, CommitBatch
    <2>3. /\ \A i \in RowIds : rows'[i] = rows[i]
          /\ \A i \in RowIds' \ RowIds : rows'[i].status = "PENDING"
        <3>1. /\ \A i \in RowIds : rows'[i] = rows[i]
              /\ \A i \in RowIds' \ RowIds :
                    rows'[i] = [request |-> Len(rows) + 1, payload |-> p, status |-> "PENDING",
                                retries |-> 0, errors |-> FALSE, evidence |-> FALSE, issued |-> 0]
            BY <2>2, CommitEffect
        <3> QED
            BY <3>1
    <2> QED
        BY <1>1, <2>3 DEF Unissued
<1> QED
    BY <1>1, <1>2, <1>3
    DEF Submit, Arrive, Abort, AcquireDedupLock, ReuseInFlight, FindNoneInFlight, SendJob, Respond

\* What a write of the worker does to the row in its hands: only StoreVerified verifies
\* it, and only a credential adds to what it was issued.
LEMMA UnissuedWrite ==
    ASSUME IInv, NEW ok \in BOOLEAN,
           RecordRetry(ok) \/ ReopenPending(ok) \/ RecordFailed(ok)
               \/ StoreVerified(ok) \/ IssueCredential(ok)
    PROVE  /\ RowIds' = RowIds /\ cur \in RowIds
           /\ \A i \in RowIds : i # cur => rows'[i] = rows[i]
           /\ wpc \notin {"store", "issue"} /\ rows'[cur].status = "VERIFIED"
                => rows[cur].status = "VERIFIED" /\ rows[cur].issued = rows'[cur].issued
           /\ wpc = "issue" /\ ok => rows'[cur].issued > 0
<1>1. TypeOK /\ cur \in RowIds /\ rows[cur] \in Row
    BY DEF IInv, WorkerInHand, TypeOK, RowIds, RecordRetry, ReopenPending, RecordFailed,
           StoreVerified, IssueCredential
<1>2. /\ rows \in Seq(Row) /\ RowIds = 1..Len(rows)
    BY <1>1 DEF TypeOK, RowIds
<1>3. ASSUME NEW row, rows' = rows \/ rows' = [rows EXCEPT ![cur] = row]
      PROVE  /\ RowIds' = RowIds
             /\ \A i \in RowIds : i # cur => rows'[i] = rows[i]
             /\ rows'[cur] \in {rows[cur], row}
    BY <1>1, <1>2, <1>3 DEF RowIds
<1>4. CASE RecordRetry(ok)
    <2> DEFINE row == [rows[cur] EXCEPT !.retries = @ + 1]
    <2>1. wpc = "retry" /\ (rows' = rows \/ rows' = [rows EXCEPT ![cur] = row])
        BY <1>4 DEF RecordRetry, Update
    <2>2. row.status = rows[cur].status /\ row.issued = rows[cur].issued
        BY <1>1 DEF Row
    <2> HIDE DEF row
    <2> QED
        BY <1>1, <1>3, <2>1, <2>2
<1>5. CASE ReopenPending(ok) \/ RecordFailed(ok)
    <2>1. PICK st \in {"PENDING", "FAILED"} :
            /\ wpc \in {"reopen", "fail"}
            /\ \/ rows' = rows
               \/ rows' = [rows EXCEPT ![cur] = [rows[cur] EXCEPT !.status = st, !.errors = TRUE]]
        BY <1>5 DEF ReopenPending, RecordFailed, Update
    <2> DEFINE row == [rows[cur] EXCEPT !.status = st, !.errors = TRUE]
    <2>2. row.status = st
        BY <1>1 DEF Row
    <2>3. rows' = rows \/ rows' = [rows EXCEPT ![cur] = row]
        BY <2>1
    <2> HIDE DEF row
    <2> QED
        BY <1>1, <1>3, <2>1, <2>2, <2>3
<1>6. CASE StoreVerified(ok)
    <2> DEFINE row == [rows[cur] EXCEPT !.status = "VERIFIED", !.evidence = TRUE]
    <2>1. wpc = "store" /\ (rows' = rows \/ rows' = [rows EXCEPT ![cur] = row])
        BY <1>6 DEF StoreVerified, Update
    <2> HIDE DEF row
    <2> QED
        BY <1>1, <1>3, <2>1
<1>7. CASE IssueCredential(ok)
    <2> DEFINE row == [rows[cur] EXCEPT !.issued = @ + 1]
    <2>1. /\ wpc = "issue" /\ (rows' = rows \/ rows' = [rows EXCEPT ![cur] = row])
          /\ ok => rows' = [rows EXCEPT ![cur] = row]
        BY <1>7 DEF IssueCredential, Update
    <2>2. row.issued = rows[cur].issued + 1 /\ rows[cur].issued \in Nat
        BY <1>1 DEF Row
    <2>3. ok => rows'[cur] = row
        BY <1>1, <1>2, <2>1
    <2> HIDE DEF row
    <2> QED
        BY <1>1, <1>3, <2>1, <2>2, <2>3
<1> QED
    BY <1>4, <1>5, <1>6, <1>7

\* The database calls of the worker (DBCall: those of a stopping process fail and write
\* nothing).
LEMMA UnissuedDBStep ==
    ASSUME IInv, NEW ok \in BOOLEAN, DBStep(ok)
    PROVE  /\ Breakdowns' >= Breakdowns
           /\ \A i \in Unissued' \ Unissued :
                i = cur /\ wpc \in {"store", "issue"} /\ Breakdowns' > Breakdowns
<1>1. /\ TypeOK /\ faults \in Nat /\ restarts \in Nat
      /\ RowIds = 1..Len(rows)
    BY DEF IInv, TypeOK, RowIds
<1>2. /\ UNCHANGED <<mode, restarts>>
      /\ \/ mode = "up" /\ ok /\ faults' = faults
         \/ mode = "up" /\ ~ok /\ faults' = faults + 1
         \/ mode = "stopping" /\ ~ok /\ faults' = faults
    BY DEF DBStep, DBCall, Fault, Poll, Find, StoreVerified, IssueCredential, RecordRetry,
           ReopenPending, RecordFailed
<1>3. wpc' = "issue" => wpc = "store" /\ ok
    BY DEF DBStep, Step, NextJob, Poll, Find, StoreVerified, IssueCredential, RecordRetry,
           ReopenPending, RecordFailed
<1>4. wpc = "store" /\ ok => wpc' = "issue" /\ cur' = cur
    BY DEF DBStep, Step, Poll, Find, StoreVerified, IssueCredential, RecordRetry,
           ReopenPending, RecordFailed
<1>5. ~ok /\ mode = "stopping" => UNCHANGED rows
    BY DEF DBStep, Update, Poll, Find, StoreVerified, IssueCredential, RecordRetry,
           ReopenPending, RecordFailed, database
<1>6. /\ Breakdowns' >= Breakdowns
      /\ ~ok /\ (mode = "up" \/ wpc = "issue") => Breakdowns' > Breakdowns
    BY <1>1, <1>2, <1>3 DEF Breakdowns
<1>7. ASSUME NEW i \in Unissued', i \notin Unissued
      PROVE  i = cur /\ wpc \in {"store", "issue"} /\ ~ok /\ (mode = "up" \/ wpc = "issue")
    <2>1. /\ i \in RowIds' /\ rows'[i].status = "VERIFIED" /\ rows'[i].issued = 0
          /\ ~(wpc' = "issue" /\ cur' = i)
        BY <1>7 DEF Unissued
    <2>2. CASE UNCHANGED rows
        <3>1. i \in RowIds /\ rows[i].status = "VERIFIED" /\ rows[i].issued = 0
            BY <2>1, <2>2 DEF RowIds
        <3>2. wpc = "issue" /\ cur = i
            BY <1>7, <3>1 DEF Unissued
        <3>3. ok => rows'[cur].issued > 0
            BY <3>2, UnissuedWrite DEF DBStep, Poll, Find
        <3> QED
            BY <2>1, <3>2, <3>3
    <2>3. CASE ~UNCHANGED rows
        <3>1. RecordRetry(ok) \/ ReopenPending(ok) \/ RecordFailed(ok)
                \/ StoreVerified(ok) \/ IssueCredential(ok)
            BY <2>3 DEF DBStep, Poll, Find, database
        <3>2. /\ RowIds' = RowIds /\ cur \in RowIds
              /\ \A j \in RowIds : j # cur => rows'[j] = rows[j]
              /\ wpc \notin {"store", "issue"} /\ rows'[cur].status = "VERIFIED"
                   => rows[cur].status = "VERIFIED" /\ rows[cur].issued = rows'[cur].issued
              /\ wpc = "issue" /\ ok => rows'[cur].issued > 0
            BY <3>1, UnissuedWrite
        <3>3. i = cur
            BY <1>7, <2>1, <3>2 DEF Unissued
        <3>4. wpc \in {"store", "issue"}
            BY <1>7, <2>1, <3>2, <3>3 DEF Unissued
        <3>5. ~ok
            BY <1>4, <2>1, <3>2, <3>3, <3>4
        <3>6. mode = "up" \/ wpc = "issue"
            BY <1>2, <1>5, <2>3, <3>5
        <3> QED
            BY <3>3, <3>4, <3>5, <3>6
    <2> QED
        BY <2>2, <2>3
<1> QED
    BY <1>6, <1>7

\* Every step of the pipeline: a row is left without a credential only in the hands of a
\* worker that breaks down.
LEMMA UnissuedStep ==
    ASSUME IInv, [Next]_vars
    PROVE  /\ Breakdowns' >= Breakdowns
           /\ \A i \in Unissued' \ Unissued :
                i = cur /\ wpc \in {"store", "issue"} /\ Breakdowns' > Breakdowns
<1> USE DEF database, handlers, worker, bounds
<1>1. TypeOK /\ faults \in Nat /\ restarts \in Nat
    BY DEF IInv, TypeOK
<1>2. CASE UNCHANGED vars
    BY <1>1, <1>2 DEF vars, Unissued, RowIds, Breakdowns
<1>3. ASSUME NEW s \in Submissions, Submit(s)
      PROVE  Breakdowns' >= Breakdowns /\ Unissued' \subseteq Unissued
    BY <1>1, <1>3, UnissuedSubmit DEF Breakdowns
<1>4. CASE TakeJob \/ Verify \/ Requeue \/ WorkerReturns
    <2>1. /\ UNCHANGED <<rows, mode, faults, restarts>>
          /\ wpc # "issue" /\ wpc' # "issue"
        BY <1>4 DEF TakeJob, Verify, Requeue, WorkerReturns, Step, NextJob
    <2> QED
        BY <1>1, <2>1 DEF Unissued, RowIds, Breakdowns
<1>5. ASSUME NEW ok \in BOOLEAN, DBStep(ok)
      PROVE  /\ Breakdowns' >= Breakdowns
             /\ \A i \in Unissued' \ Unissued :
                  i = cur /\ wpc \in {"store", "issue"} /\ Breakdowns' > Breakdowns
    BY <1>5, UnissuedDBStep
<1>6. CASE Signal
    BY <1>1, <1>6 DEF Signal, Unissued, RowIds, Breakdowns
<1>7. CASE Terminate
    BY <1>1, <1>7 DEF Terminate, Unissued, RowIds, Breakdowns
<1>8. CASE Restart
    <2>1. wpc = "off"
        BY <1>8 DEF Restart, IInv, OffWhenDown
    <2> QED
        BY <1>1, <1>8, <2>1 DEF Restart, Unissued, RowIds, Breakdowns
<1> QED
    BY <1>2, <1>3, <1>4, <1>5, <1>6, <1>7, <1>8 DEF Next, Work

\* So no step adds more of them than breakdowns.
LEMMA UnissuedCountedStep ==
    ASSUME IInv, IInv', [Next]_vars, UnissuedCounted
    PROVE  UnissuedCounted'
<1> USE DEF UnissuedCounted
<1>1. /\ Breakdowns \in Nat /\ Breakdowns' \in Nat
      /\ rows \in Seq(Row) /\ rows' \in Seq(Row)
    <2>1. /\ faults \in Nat /\ restarts \in Nat
          /\ rows \in Seq(Row) /\ rows' \in Seq(Row)
          /\ faults' \in 0..MaxFaults /\ restarts' \in 0..MaxRestarts
        BY DEF IInv, TypeOK
    <2>2. PICK f \in 0..MaxFaults, r \in 0..MaxRestarts : faults' = f /\ restarts' = r
        BY <2>1
    <2>3. Breakdowns' \in {f + r, f + r + 1} /\ Breakdowns \in {faults + restarts, faults + restarts + 1}
        BY <2>1, <2>2 DEF Breakdowns
    <2> QED
        BY <2>1, <2>2, <2>3
<1>2. /\ IsFiniteSet(Unissued) /\ Cardinality(Unissued) \in Nat
      /\ IsFiniteSet(Unissued') /\ Cardinality(Unissued') \in Nat
    <2>1. Unissued \subseteq 1..Len(rows) /\ Unissued' \subseteq 1..Len(rows')
        BY <1>1 DEF Unissued, RowIds
    <2>2. IsFiniteSet(1..Len(rows)) /\ IsFiniteSet(1..Len(rows'))
        BY <1>1, FS_Interval
    <2> QED
        BY <2>1, <2>2, FS_Subset, FS_CardinalityType
<1>3. /\ Breakdowns' >= Breakdowns
      /\ \A i \in Unissued' \ Unissued : i = cur /\ Breakdowns' > Breakdowns
    BY UnissuedStep
<1>4. CASE Unissued' \subseteq Unissued
    BY <1>1, <1>2, <1>3, <1>4, FS_Subset
<1>5. CASE ~(Unissued' \subseteq Unissued)
    <2>1. Breakdowns' >= Breakdowns + 1 /\ Unissued' \subseteq Unissued \cup {cur}
        BY <1>1, <1>3, <1>5
    <2>2. /\ IsFiniteSet(Unissued \cup {cur})
          /\ Cardinality(Unissued \cup {cur})
                = IF cur \in Unissued THEN Cardinality(Unissued) ELSE Cardinality(Unissued) + 1
        BY <1>2, FS_AddElement
    <2>3. Cardinality(Unissued') <= Cardinality(Unissued \cup {cur})
        BY <2>1, <2>2, FS_Subset
    <2>4. Cardinality(Unissued \cup {cur}) <= Cardinality(Unissued) + 1
        BY <1>2, <2>2
    <2> QED
        BY <1>1, <1>2, <2>1, <2>2, <2>3, <2>4
<1> QED
    BY <1>4, <1>5

\* A verified request is left without a credential only in the hands of a worker that a
\* breakdown stops between or in handleVerificationSuccess's two writes, and there are
\* never more of them than breakdowns, for any number of rows, failures and stops.
THEOREM UnissuedByBreakdownHolds == Spec => UnissuedByBreakdown
<1>1. Init => UnissuedCounted
    <2>1. Init => Unissued = {} /\ Breakdowns = 0
        BY DEF Init, Unissued, RowIds, Breakdowns
    <2> QED
        BY <2>1, FS_EmptySet DEF UnissuedCounted
<1>2. IInv /\ IInv' /\ [Next]_vars /\ UnissuedCounted => UnissuedCounted'
    BY UnissuedCountedStep
<1>3. IInv /\ [Next]_vars =>
        [\A i \in Unissued' \ Unissued :
            i = cur /\ wpc \in {"store", "issue"} /\ Breakdowns' > Breakdowns]_vars
    BY UnissuedStep
<1> QED
    BY <1>1, <1>2, <1>3, Invariance, PTL DEF Spec, UnissuedByBreakdown

-----------------------------------------------------------------------------
(* How often a row is verified.  CredentialAttempts counts what               *)
(* CredentialPipeline does, so all that is proved above holds of it.          *)

LEMMA CountedSteps == CountedSpec => Spec
<1>1. Next /\ CountAttempts => Next
    OBVIOUS
<1>2. [Next /\ CountAttempts]_<<vars, attempts>> => [Next]_vars
    OBVIOUS
<1> QED
    BY <1>2, PTL DEF CountedSpec, Spec

LEMMA AttemptTypes ==
    ASSUME TypeOK, AttemptInv, NEW i \in RowIds
    PROVE  /\ attempts[i] \in Nat /\ Ahead(i) \in Nat /\ Queued(i) \in Nat
           /\ rows[i].retries \in Nat /\ faults \in Nat /\ restarts \in Nat
           /\ i # NoRow
           /\ attempts[i] + Ahead(i) <= Allowed(i) /\ PendingUntried(i)
<1>1. /\ rows[i].retries \in Nat /\ faults \in Nat /\ Queued(i) \in Nat /\ i # NoRow
    BY CountTypes
<1>2. restarts \in Nat
    BY BoundAssumption DEF TypeOK
<1>3. attempts[i] \in Nat /\ attempts[i] + Ahead(i) <= Allowed(i) /\ PendingUntried(i)
    BY DEF AttemptInv
<1>4. Ahead(i) \in Nat
    BY <1>1 DEF Ahead, Coming
<1> QED
    BY <1>1, <1>2, <1>3, <1>4

\* What must hold of one row's count.
Held(i) == attempts[i] + Ahead(i) <= Allowed(i) /\ PendingUntried(i)

\* A step that starts no verification of a row, and after which no more are ahead.
LEMMA AttemptsKept ==
    ASSUME TypeOK, AttemptInv, NEW i \in RowIds,
           attempts'[i] = attempts[i], rows'[i].retries = rows[i].retries,
           faults' \in Nat, faults' >= faults, restarts' = restarts,
           Ahead(i)' \in Nat, Ahead(i)' <= Ahead(i),
           rows'[i].status = "PENDING" =>
               /\ rows[i].status = "PENDING"
               /\ Underway(i) \/ mode = "stopping" => Underway(i)' \/ mode' = "stopping"
    PROVE  Held(i)'
<1> HIDE DEF Ahead, Underway
<1>1. (attempts[i] + Ahead(i) <= Allowed(i))'
    BY AttemptTypes DEF Allowed
<1>2. PendingUntried(i)'
    <2> SUFFICES ASSUME restarts = 0, rows'[i].status = "PENDING"
                 PROVE  attempts[i] <= 2 * rows[i].retries + 2 * faults'
                                        + (IF Underway(i)' \/ mode' = "stopping" THEN 1 ELSE 0)
        BY DEF PendingUntried
    <2>1. attempts[i] <= 2 * rows[i].retries + 2 * faults
                           + (IF Underway(i) \/ mode = "stopping" THEN 1 ELSE 0)
        BY AttemptTypes DEF PendingUntried
    <2> QED
        BY <2>1, AttemptTypes
<1> QED
    BY <1>1, <1>2 DEF Held

\* The counts of the rows that were there change only as the worker starts on one, and
\* rows that were not start from none.
LEMMA CountEffect ==
    ASSUME TypeOK, AttemptInv, CountAttempts, RowIds \subseteq RowIds'
    PROVE  /\ attempts' \in [RowIds' -> Nat]
           /\ \A i \in RowIds : attempts'[i] = attempts[i] + (IF Attempted(i) THEN 1 ELSE 0)
           /\ \A i \in RowIds' \ RowIds : ~Attempted(i) => attempts'[i] = 0
<1> DEFINE count(i) == (IF i \in RowIds THEN attempts[i] ELSE 0) + (IF Attempted(i) THEN 1 ELSE 0)
<1>1. attempts' = [i \in RowIds' |-> count(i)]
    BY DEF CountAttempts
<1>2. \A i \in RowIds' : count(i) \in Nat
    BY DEF AttemptInv
<1>3. \A i \in RowIds : attempts[i] \in Nat
    BY DEF AttemptInv
<1>4. \A i \in RowIds' \ RowIds : ~Attempted(i) => count(i) = 0
    OBVIOUS
<1>5. \A i \in RowIds : count(i) = attempts[i] + (IF Attempted(i) THEN 1 ELSE 0)
    OBVIOUS
<1> HIDE DEF count
<1> QED
    BY <1>1, <1>2, <1>4, <1>5

LEMMA SubmitAttempts ==
    ASSUME IInv, AttemptInv, CountAttempts, NEW s \in Submissions, Submit(s)
    PROVE  AttemptInv'
<1>1. /\ TypeOK /\ UNCHANGED <<mode, wpc, cur, restarts>>
      /\ faults \in Nat /\ faults' \in Nat /\ faults' >= faults /\ restarts \in Nat
      /\ RowIds \subseteq RowIds'
    BY SubmitQueued, BoundAssumption DEF IInv, TypeOK, worker
<1>2. \A i : ~Attempted(i)
    BY <1>1 DEF Attempted
<1>3. attempts' \in [RowIds' -> Nat]
    BY <1>1, CountEffect
<1>4. ASSUME NEW i \in RowIds
      PROVE  Held(i)'
    <2>1. rows'[i] = rows[i] /\ Queued(i)' \in Nat /\ Queued(i)' <= Queued(i)
        BY SubmitQueued
    <2>2. attempts'[i] = attempts[i]
        BY <1>1, <1>2, CountEffect, AttemptTypes
    <2>3. Underway(i)' = Underway(i)
        BY <1>1 DEF Underway
    <2>4. Ahead(i)' \in Nat /\ Ahead(i)' <= Ahead(i)
        BY <1>1, <2>1, <2>3, CountTypes DEF Ahead, Coming
    <2> QED
        BY <1>1, <2>1, <2>2, <2>3, <2>4, AttemptsKept
<1>5. ASSUME NEW i \in RowIds' \ RowIds
      PROVE  Held(i)'
    <2>1. rows'[i].retries = 0 /\ Queued(i)' \in {0, 1} /\ i # cur
        BY SubmitQueued
    <2>2. attempts'[i] = 0
        BY <1>1, <1>2, CountEffect
    <2>3. Ahead(i)' \in {0, 1, 2}
        BY <1>1, <2>1 DEF Ahead, Coming, Underway
    <2>4. Allowed(i)' \in Nat /\ Allowed(i)' >= 2
        <3>1. PICK spared \in Nat : /\ spared = IF restarts' = 0 THEN 2 ELSE 1 + restarts'
                                    /\ spared >= 2
            BY <1>1
        <3>2. PICK failed \in Nat : failed = faults'
            BY <1>1
        <3>3. Allowed(i)' = 2 * 0 + 2 * failed + spared
            BY <2>1, <3>1, <3>2 DEF Allowed
        <3> QED
            BY <3>1, <3>3
    <2>5. PendingUntried(i)'
        <3>1. PICK one \in {0, 1} : one = IF Underway(i)' \/ mode' = "stopping" THEN 1 ELSE 0
            OBVIOUS
        <3>2. PICK failed \in Nat : failed = faults'
            BY <1>1
        <3>3. 0 <= 2 * 0 + 2 * failed + one
            BY <3>1
        <3> QED
            BY <2>1, <2>2, <3>1, <3>2, <3>3 DEF PendingUntried
    <2> QED
        BY <2>2, <2>3, <2>4, <2>5 DEF Held
<1> QED
    BY <1>3, <1>4, <1>5 DEF AttemptInv, Held

\* A worker that goes on to its next row leaves the one in hand as far ahead as its status
\* says, and all others as they were.
LEMMA NextJobAhead ==
    ASSUME IInv, NextJob, NEW i \in RowIds, mode' = mode, Queued(i) \in Nat, Queued(i)' \in Nat
    PROVE  /\ ~Underway(i)'
           /\ mode # "stopping" =>
                Ahead(i)' = Queued(i)' + (IF cur' = i \/ rows'[i].status = "PENDING" THEN 1 ELSE 0)
           /\ cur' = i => i # cur /\ rows[i].status = "PENDING"
           /\ i # cur /\ rows'[i] = rows[i] /\ Queued(i)' <= Queued(i) => Ahead(i)' <= Ahead(i)
<1>1. /\ TypeOK /\ cur \notin todo /\ \A j \in todo : rows[j].status = "PENDING"
      /\ i # NoRow
    BY CountTypes DEF IInv, WorkerInHand, SnapshotStillPending
<1>2. \/ wpc' = "select" /\ cur' = NoRow
      \/ wpc' = "find" /\ cur' \in todo
    BY DEF NextJob
<1>3. ~Underway(i)'
    BY <1>1, <1>2 DEF Underway
<1>4. cur' = i => i # cur /\ rows[i].status = "PENDING"
    BY <1>1, <1>2
<1>5. Coming(i)' = IF cur' = i \/ rows'[i].status = "PENDING" THEN 1 ELSE 0
    BY <1>3 DEF Coming
<1>6. Coming(i)' \in {0, 1}
    BY <1>5
<1>7. ASSUME mode # "stopping"
      PROVE  Ahead(i)' = Queued(i)' + Coming(i)'
    BY <1>7 DEF Ahead
<1>8. ASSUME i # cur, rows'[i] = rows[i]
      PROVE  Coming(i)' = Coming(i)
    <2>1. Coming(i) = IF rows[i].status = "PENDING" THEN 1 ELSE 0
        BY <1>8 DEF Coming, Underway
    <2> QED
        BY <1>4, <1>5, <1>8, <2>1
<1>9. ASSUME i # cur, rows'[i] = rows[i], Queued(i)' <= Queued(i)
      PROVE  Ahead(i)' <= Ahead(i)
    BY <1>6, <1>8, <1>9 DEF Ahead
<1> QED
    BY <1>3, <1>4, <1>5, <1>7, <1>9

\* A step that starts no verification of a row that had two ahead, and adds none.
LEMMA AttemptsLeft ==
    ASSUME TypeOK, AttemptInv, NEW i \in RowIds,
           attempts'[i] = attempts[i], rows'[i].retries = rows[i].retries,
           faults' \in Nat, faults' >= faults, restarts' = restarts,
           Ahead(i)' \in Nat, Ahead(i)' <= Ahead(i), Ahead(i) >= 2
    PROVE  Held(i)'
<1> HIDE DEF Ahead, Underway
<1>1. PICK failed \in Nat : failed = faults'
    OBVIOUS
<1>2. (attempts[i] + Ahead(i) <= Allowed(i))'
    BY AttemptTypes DEF Allowed
<1>3. ASSUME restarts = 0
      PROVE  attempts[i] <= 2 * rows[i].retries + 2 * failed
    BY <1>1, <1>3, AttemptTypes DEF Allowed
<1>4. PICK one \in {0, 1} : one = IF Underway(i)' \/ mode' = "stopping" THEN 1 ELSE 0
    OBVIOUS
<1>5. restarts = 0 => attempts[i] <= 2 * rows[i].retries + 2 * failed + one
    BY <1>3, <1>4, AttemptTypes
<1> QED
    BY <1>1, <1>2, <1>4, <1>5 DEF Held, PendingUntried

\* A recorded retry or a failed call pays for two more verifications.
LEMMA AttemptsPaid ==
    ASSUME TypeOK, AttemptInv, NEW i \in RowIds, NEW failed \in Nat, NEW retries \in Nat,
           attempts'[i] = attempts[i], restarts' = restarts,
           rows'[i].retries = retries, faults' = failed,
           retries + failed >= rows[i].retries + faults + 1,
           Ahead(i)' \in Nat, Ahead(i)' <= Ahead(i) + 2
    PROVE  Held(i)'
<1> HIDE DEF Ahead, Underway
<1>1. PICK spared \in Nat : /\ spared = IF restarts = 0 THEN 2 ELSE 1 + restarts
                            /\ restarts = 0 => spared = 2
    BY AttemptTypes
<1>2. Allowed(i) = 2 * rows[i].retries + 2 * faults + spared
    BY <1>1 DEF Allowed
<1>3. Allowed(i)' = 2 * retries + 2 * failed + spared
    BY <1>1 DEF Allowed
<1>4. (attempts[i] + Ahead(i) <= Allowed(i))'
    <2>1. attempts[i] + Ahead(i) <= 2 * rows[i].retries + 2 * faults + spared
        BY <1>2, AttemptTypes
    <2>2. attempts[i] + Ahead(i) + 2 <= 2 * retries + 2 * failed + spared
        BY <1>1, <2>1, AttemptTypes
    <2>3. PICK ahead \in Nat : ahead = Ahead(i)'
        OBVIOUS
    <2>4. attempts[i] + ahead <= 2 * retries + 2 * failed + spared
        BY <1>1, <2>2, <2>3, AttemptTypes
    <2> QED
        BY <1>3, <2>3, <2>4
<1>5. PICK one \in {0, 1} : one = IF Underway(i)' \/ mode' = "stopping" THEN 1 ELSE 0
    OBVIOUS
<1>6. restarts = 0 => attempts[i] <= 2 * retries + 2 * failed + one
    BY <1>1, <1>2, <1>5, AttemptTypes
<1> QED
    BY <1>4, <1>5, <1>6 DEF Held, PendingUntried

\* The worker's steps that make no database call.
LEMMA WorkAttempts ==
    ASSUME IInv, AttemptInv, CountAttempts, TakeJob \/ Verify \/ Requeue \/ WorkerReturns
    PROVE  AttemptInv'
<1>1. TypeOK /\ WorkerInHand
    BY DEF IInv
<1>2. /\ UNCHANGED <<rows, outbox, faults, mode, restarts>> /\ RowIds' = RowIds
      /\ faults' \in Nat /\ faults' >= faults
    BY <1>1, BoundAssumption DEF TakeJob, Verify, Requeue, WorkerReturns, database, handlers, bounds,
                                 RowIds, TypeOK
<1>3. attempts' \in [RowIds' -> Nat] /\ \A i \in RowIds : attempts'[i] = attempts[i]
    <2>1. wpc # "find"
        BY DEF TakeJob, Verify, Requeue, WorkerReturns
    <2> QED
        BY <1>1, <1>2, <2>1, CountEffect, AttemptTypes DEF Attempted
<1>4. ASSUME NEW i \in RowIds
      PROVE  Held(i)'
    <2>1. /\ Cardinality(ToSend(i)') = Cardinality(ToSend(i)) /\ i # NoRow
          /\ Cardinality(ToSend(i)) \in Nat /\ Cardinality(OnChan(i)) \in Nat
          /\ Queued(i) = Cardinality(OnChan(i)) + Cardinality(ToSend(i))
          /\ Queued(i)' = Cardinality(OnChan(i)') + Cardinality(ToSend(i))
        BY <1>1, <1>2, CountTypes, QueuedType DEF ToSend, Queued
    <2>2. CASE TakeJob
        <3>1. /\ Queued(i)' \in Nat
              /\ Queued(i)' <= Queued(i) - (IF i = Head(chan) THEN 1 ELSE 0)
            BY <1>1, <2>1, <2>2, TakeCount DEF TakeJob
        <3>2. ~Underway(i) /\ ~Underway(i)'
            BY <1>1, <2>1, <2>2 DEF TakeJob, Underway, WorkerInHand
        <3>3. /\ Coming(i) = IF rows[i].status = "PENDING" THEN 1 ELSE 0
              /\ Coming(i)' = IF i = Head(chan) \/ rows[i].status = "PENDING" THEN 1 ELSE 0
            BY <1>1, <1>2, <2>1, <2>2, <3>2 DEF TakeJob, Coming, WorkerInHand
        <3>4. Ahead(i)' \in Nat /\ Ahead(i)' <= Ahead(i)
            BY <1>2, <2>1, <3>1, <3>3 DEF Ahead
        <3> QED
            BY <1>1, <1>2, <1>3, <3>2, <3>4, AttemptsKept
    <2>3. CASE Verify \/ WorkerReturns
        <3>1. Queued(i)' = Queued(i) /\ Queued(i) \in Nat
            BY <1>1, <2>1, <2>3, QueuedType DEF Verify, WorkerReturns, OnChan
        <3>2. Underway(i)' = Underway(i) /\ Ahead(i)' = Ahead(i)
            <4>1. CASE Verify
                BY <1>2, <3>1, <4>1 DEF Verify, Step, Ahead, Coming, Underway
            <4>2. CASE WorkerReturns
                BY <1>1, <1>2, <2>1, <3>1, <4>2 DEF WorkerReturns, Step, Ahead, Underway, WorkerInHand
            <4> QED
                BY <2>3, <4>1, <4>2
        <3> QED
            BY <1>1, <1>2, <1>3, <3>2, AttemptsKept, AttemptTypes
    <2>4. CASE Requeue
        <3>1. /\ Queued(i)' \in Nat
              /\ Queued(i)' <= Queued(i) + (IF i = cur THEN 1 ELSE 0)
            BY <1>1, <2>1, <2>4, SendCount DEF Requeue
        <3>2. NextJob /\ wpc = "requeue" /\ Queued(i) \in Nat
            BY <2>1, <2>4 DEF Requeue
        <3>3. CASE i # cur
            <4>1. Ahead(i)' <= Ahead(i) /\ ~Underway(i)
                BY <1>2, <3>1, <3>2, <3>3, NextJobAhead DEF Underway
            <4>2. Ahead(i)' \in Nat
                BY <3>1 DEF Ahead, Coming
            <4> QED
                BY <1>1, <1>2, <1>3, <4>1, <4>2, AttemptsKept
        <3>4. CASE i = cur /\ mode = "stopping"
            BY <1>1, <1>2, <1>3, <3>4, AttemptsKept DEF Ahead
        <3>5. CASE i = cur /\ mode # "stopping"
            <4>1. Ahead(i) = Queued(i) + 2
                BY <3>2, <3>5 DEF Ahead, Coming, Underway
            <4>2. Ahead(i)' \in {Queued(i)', Queued(i)' + 1}
                BY <1>2, <3>1, <3>2, <3>5, NextJobAhead
            <4>3. Ahead(i)' \in Nat /\ Ahead(i)' <= Ahead(i) /\ Ahead(i) >= 2
                BY <3>1, <3>2, <3>5, <4>1, <4>2
            <4> QED
                BY <1>1, <1>2, <1>3, <4>3, AttemptsLeft
        <3> QED
            BY <3>3, <3>4, <3>5
    <2> QED
        BY <2>2, <2>3, <2>4
<1> QED
    BY <1>2, <1>3, <1>4 DEF AttemptInv, Held

\* The worker's database calls: one that succeeds leaves a row no more ahead of it, or is
\* the verification it was ahead of, or records a retry; one that fails is paid for.
LEMMA DBAttempts ==
    ASSUME IInv, IssueVerified, AttemptInv, CountAttempts, NEW ok \in BOOLEAN, DBStep(ok)
    PROVE  AttemptInv'
<1>1. TypeOK /\ WorkerInHand
    BY DEF IInv
<1>2. /\ UNCHANGED <<chan, outbox, mode, restarts>> /\ RowIds' = RowIds
      /\ \A i : Queued(i)' = Queued(i)
    BY <1>1 DEF DBStep, Poll, Find, StoreVerified, IssueCredential, RecordRetry, ReopenPending,
                RecordFailed, Update, database, handlers, RowIds, TypeOK, Queued, OnChan, ToSend
<1>3. DBCall(ok) /\ faults \in Nat
    BY <1>1, BoundAssumption DEF TypeOK, DBStep, Poll, Find, StoreVerified, IssueCredential,
                                 RecordRetry, ReopenPending, RecordFailed
<1>4. /\ faults' \in Nat /\ faults' >= faults
      /\ \/ mode = "up" /\ ok
         \/ mode = "up" /\ ~ok /\ faults' = faults + 1
         \/ mode = "stopping" /\ ~ok
    BY <1>3 DEF DBCall, Fault
<1>5. attempts' \in [RowIds' -> Nat]
    BY <1>1, <1>2, CountEffect
<1>6. ASSUME ~(Find(ok) /\ ok), NEW i \in RowIds
      PROVE  attempts'[i] = attempts[i]
    <2>1. ~Attempted(i)
        BY <1>6 DEF DBStep, Poll, Find, StoreVerified, IssueCredential, RecordRetry, ReopenPending,
                    RecordFailed, Attempted, NextJob, Step
    <2> QED
        BY <1>1, <1>2, <2>1, CountEffect, AttemptTypes
<1>7. ASSUME NEW i \in RowIds, rows'[i] # rows[i]
      PROVE  /\ i = cur /\ ~Poll(ok) /\ ~Find(ok) /\ mode = "up"
             /\ rows'[i].retries \in {rows[i].retries, rows[i].retries + 1}
    <2>1. i = cur /\ ~Poll(ok) /\ ~Find(ok) /\ (ok \/ mode = "up")
        BY <1>1, <1>7 DEF DBStep, Poll, Find, StoreVerified, IssueCredential, RecordRetry,
                          ReopenPending, RecordFailed, Update, database, TypeOK, RowIds
    <2>2. rows'[i] \in {[rows[i] EXCEPT !.status = "VERIFIED", !.evidence = TRUE],
                        [rows[i] EXCEPT !.issued = @ + 1],
                        [rows[i] EXCEPT !.retries = @ + 1],
                        [rows[i] EXCEPT !.status = "PENDING", !.errors = TRUE],
                        [rows[i] EXCEPT !.status = "FAILED", !.errors = TRUE]}
        BY <1>1, <1>7, <2>1 DEF DBStep, StoreVerified, IssueCredential, RecordRetry,
                                ReopenPending, RecordFailed, Update, TypeOK, RowIds
    <2>3. rows'[i].retries \in {rows[i].retries, rows[i].retries + 1}
        BY <1>1, <2>2, CountTypes DEF Row
    <2> QED
        BY <1>4, <2>1, <2>3
<1>8. ASSUME NEW i \in RowIds
      PROVE  Held(i)'
    <2>1. /\ Queued(i) \in Nat /\ Queued(i)' = Queued(i) /\ rows[i].retries \in Nat
          /\ i # NoRow /\ rows[i] \in Row
          /\ Coming(i) \in {0, 1, 2} /\ Coming(i)' \in {0, 1, 2}
          /\ rows'[i].retries \in Nat /\ rows'[i].retries >= rows[i].retries
        BY <1>1, <1>2, <1>7, CountTypes DEF Coming
    <2>2. /\ Ahead(i) \in Nat /\ Ahead(i)' \in Nat
          /\ mode # "stopping" => Ahead(i) = Queued(i) + Coming(i)
          /\ mode # "stopping" => Ahead(i)' = Queued(i) + Coming(i)'
          /\ mode = "stopping" => Ahead(i) = 0 /\ Ahead(i)' = 0
        BY <1>2, <2>1 DEF Ahead
    <2>3. CASE mode = "stopping"
        <3>1. rows'[i] = rows[i] /\ attempts'[i] = attempts[i]
            BY <1>4, <1>6, <1>7, <2>3
        <3> QED
            BY <1>1, <1>2, <1>4, <2>2, <2>3, <3>1, AttemptsKept
    <2>4. CASE ~ok /\ mode = "up"
        <3>1. attempts'[i] = attempts[i]
            BY <1>6, <2>4
        <3>2. PICK failed \in Nat, retries \in Nat :
                 /\ faults' = failed /\ failed = faults + 1
                 /\ rows'[i].retries = retries /\ retries >= rows[i].retries
            BY <1>3, <1>4, <2>1, <2>4
        <3>3. retries + failed >= rows[i].retries + faults + 1
            BY <1>3, <2>1, <3>2
        <3>4. Ahead(i)' \in Nat /\ Ahead(i)' <= Ahead(i) + 2
            BY <2>1, <2>2, <2>4
        <3> QED
            BY <1>1, <1>2, <3>1, <3>2, <3>3, <3>4, AttemptsPaid
    <2>5. CASE ok /\ Poll(ok)
        <3>1. attempts'[i] = attempts[i] /\ rows'[i] = rows[i] /\ mode = "up"
            <4>1. ~Find(ok)
                BY <2>5 DEF Poll, Find
            <4> QED
                BY <1>4, <1>6, <1>7, <2>5, <4>1
        <3>2. cur = NoRow /\ (wpc' = "find" \/ cur' = NoRow) /\ (cur' = i => rows[i].status = "PENDING")
            BY <1>1, <2>1, <2>5 DEF Poll, WorkerInHand, AllPending
        <3>3. ~Underway(i) /\ ~Underway(i)' /\ Coming(i)' = Coming(i)
            BY <2>1, <3>1, <3>2 DEF Underway, Coming
        <3> QED
            BY <1>1, <1>2, <1>4, <2>2, <3>1, <3>3, AttemptsKept
    <2>6. CASE ok /\ Find(ok) /\ i = cur
        <3>1. /\ wpc = "find" /\ wpc' = "verify" /\ cur' = cur /\ UNCHANGED rows
              /\ mode = "up" /\ faults' = faults
            BY <1>3, <1>4, <2>6 DEF Find, DBCall, database
        <3>2. attempts'[i] = attempts[i] + 1 /\ attempts[i] \in Nat
            BY <1>1, <1>2, <2>6, <3>1, CountEffect, AttemptTypes DEF Attempted
        <3>3. ~Underway(i) /\ Underway(i)' /\ Coming(i) = 1 /\ Coming(i)' = 0
            BY <2>6, <3>1 DEF Underway, Coming
        <3>4. Allowed(i)' = Allowed(i)
            BY <1>2, <3>1 DEF Allowed
        <3>5. PICK allowed : allowed = Allowed(i) /\ attempts[i] + Ahead(i) <= allowed
            BY <1>1, AttemptTypes
        <3>6. attempts[i] + 1 + Ahead(i)' <= allowed
            <4>1. Ahead(i) = Queued(i) + 1 /\ Ahead(i)' = Queued(i)
                BY <2>1, <2>2, <3>1, <3>3
            <4>2. attempts[i] + 1 + Queued(i) = attempts[i] + (Queued(i) + 1)
                BY <2>1, <3>2
            <4> QED
                BY <3>5, <4>1, <4>2
        <3>7. PendingUntried(i)'
            <4>1. PendingUntried(i) /\ faults \in Nat
                BY <1>1, AttemptTypes
            <4>2. restarts = 0 /\ rows[i].status = "PENDING" =>
                     attempts[i] <= 2 * rows[i].retries + 2 * faults
                BY <2>1, <3>1, <3>2, <3>3, <4>1 DEF PendingUntried
            <4>3. restarts = 0 /\ rows[i].status = "PENDING" =>
                     attempts[i] + 1 <= 2 * rows[i].retries + 2 * faults + 1
                BY <2>1, <3>2, <4>1, <4>2
            <4> QED
                BY <1>2, <3>1, <3>2, <3>3, <4>3 DEF PendingUntried
        <3> QED
            BY <3>2, <3>4, <3>5, <3>6, <3>7 DEF Held
    <2>7. CASE ok /\ ~Poll(ok) /\ i # cur
        <3>1. rows'[i] = rows[i] /\ mode = "up" /\ ~Underway(i)
            BY <1>4, <1>7, <2>7 DEF Underway
        <3>2. attempts'[i] = attempts[i]
            <4>1. ~Attempted(i)
                BY <2>7 DEF Attempted
            <4> QED
                BY <1>1, <1>2, <4>1, CountEffect, AttemptTypes
        <3>3. NextJob \/ cur' = cur
            BY <2>7 DEF DBStep, Find, StoreVerified, IssueCredential, RecordRetry, ReopenPending,
                        RecordFailed, Step
        <3>4. Ahead(i)' <= Ahead(i)
            <4>1. CASE NextJob
                BY <1>2, <2>1, <2>7, <3>1, <4>1, NextJobAhead
            <4>2. CASE cur' = cur
                <5>1. Coming(i)' = Coming(i)
                    BY <2>7, <3>1, <4>2 DEF Coming, Underway
                <5> QED
                    BY <2>1, <2>2, <3>1, <5>1
            <4> QED
                BY <3>3, <4>1, <4>2
        <3> QED
            BY <1>1, <1>2, <1>4, <2>2, <3>1, <3>2, <3>4, AttemptsKept
    <2>8. CASE ok /\ i = cur /\ (StoreVerified(ok) \/ IssueCredential(ok) \/ RecordFailed(ok))
        <3>1. attempts'[i] = attempts[i] /\ mode = "up"
            <4>1. ~Find(ok)
                BY <2>8 DEF StoreVerified, IssueCredential, RecordFailed, Find
            <4> QED
                BY <1>4, <1>6, <2>8, <4>1
        <3>2. rows'[i].status # "PENDING" /\ rows'[i].retries = rows[i].retries
            <4>1. rows'[i] \in {[rows[i] EXCEPT !.status = "VERIFIED", !.evidence = TRUE],
                                [rows[i] EXCEPT !.status = "FAILED", !.errors = TRUE]}
                    \/ (rows'[i] = [rows[i] EXCEPT !.issued = @ + 1] /\ rows[i].status = "VERIFIED")
                BY <1>1, <2>8 DEF StoreVerified, IssueCredential, RecordFailed, Update, TypeOK,
                                  RowIds, IssueVerified
            <4> QED
                BY <2>1, <4>1 DEF Row
        <3>3. Coming(i)' = 0
            <4>1. (wpc' = "issue" /\ cur' = cur) \/ NextJob
                BY <2>8 DEF StoreVerified, IssueCredential, RecordFailed, Step
            <4>2. (wpc' = "issue" /\ cur' = cur) \/ cur' # i
                BY <1>2, <2>1, <2>8, <4>1, NextJobAhead
            <4> QED
                BY <2>8, <3>2, <4>2 DEF Coming, Underway
        <3>4. Ahead(i)' <= Ahead(i)
            BY <2>1, <2>2, <3>1, <3>3
        <3> QED
            BY <1>1, <1>2, <1>4, <2>2, <3>1, <3>2, <3>4, AttemptsKept
    <2>9. CASE ok /\ i = cur /\ RecordRetry(ok)
        <3>1. attempts'[i] = attempts[i] /\ mode = "up"
            <4>1. ~Find(ok)
                BY <2>9 DEF RecordRetry, Find
            <4> QED
                BY <1>4, <1>6, <2>9, <4>1
        <3>2. rows'[i].retries = rows[i].retries + 1
            <4>1. rows'[i] = [rows[i] EXCEPT !.retries = @ + 1]
                BY <1>1, <2>9, <3>1 DEF RecordRetry, Update, TypeOK, RowIds
            <4> QED
                BY <2>1, <4>1 DEF Row
        <3>3. PICK failed \in Nat, retries \in Nat :
                 /\ faults' = failed /\ failed >= faults
                 /\ rows'[i].retries = retries /\ retries = rows[i].retries + 1
            BY <1>4, <2>1, <3>2
        <3>4. retries + failed >= rows[i].retries + faults + 1
            BY <1>3, <2>1, <3>3
        <3>5. Ahead(i)' <= Ahead(i) + 2
            BY <2>1, <2>2, <3>1
        <3> QED
            BY <1>1, <1>2, <2>2, <3>1, <3>3, <3>4, <3>5, AttemptsPaid
    <2>10. CASE ok /\ i = cur /\ ReopenPending(ok)
        <3>1. /\ attempts'[i] = attempts[i] /\ mode = "up"
              /\ wpc = "reopen" /\ wpc' = "requeue" /\ cur' = cur
            <4>1. ~Find(ok)
                BY <2>10 DEF ReopenPending, Find
            <4>2. wpc = "reopen" /\ wpc' = "requeue" /\ cur' = cur
                BY <2>10 DEF ReopenPending, Step
            <4> QED
                BY <1>4, <1>6, <2>10, <4>1, <4>2
        <3>2. rows'[i].retries = rows[i].retries
            <4>1. rows'[i] = [rows[i] EXCEPT !.status = "PENDING", !.errors = TRUE]
                BY <1>1, <2>10, <3>1 DEF ReopenPending, Update, TypeOK, RowIds
            <4> QED
                BY <2>1, <4>1 DEF Row
        <3>3. Coming(i) = 2 /\ Coming(i)' = 2
            BY <2>10, <3>1 DEF Coming, Underway
        <3>4. Ahead(i)' <= Ahead(i) /\ Ahead(i) >= 2
            BY <2>1, <2>2, <3>1, <3>3
        <3> QED
            BY <1>1, <1>2, <1>4, <2>2, <3>1, <3>2, <3>4, AttemptsLeft
    <2> QED
        BY <1>4, <2>3, <2>4, <2>5, <2>6, <2>7, <2>8, <2>9, <2>10 DEF DBStep
<1> QED
    BY <1>2, <1>5, <1>8 DEF AttemptInv, Held

\* The first restart takes up what the channel or the poll would have; each one after it
\* is paid for.
LEMMA ProcessAttempts ==
    ASSUME IInv, AttemptInv, CountAttempts, Signal \/ Terminate \/ Restart
    PROVE  AttemptInv'
<1>1. TypeOK /\ WorkerInHand /\ OffWhenDown
    BY DEF IInv
<1>2. UNCHANGED <<rows, faults>> /\ RowIds' = RowIds /\ faults \in Nat
    BY <1>1, BoundAssumption DEF Signal, Terminate, Restart, database, bounds, RowIds, TypeOK
<1>3. attempts' \in [RowIds' -> Nat] /\ \A i \in RowIds : attempts'[i] = attempts[i]
    <2>1. wpc' # "verify" \/ wpc' = wpc
        BY DEF Signal, Terminate, Restart, worker
    <2> QED
        BY <1>1, <1>2, <2>1, CountEffect, AttemptTypes DEF Attempted
<1>4. ASSUME NEW i \in RowIds
      PROVE  Held(i)'
    <2>1. /\ Queued(i) \in Nat /\ Ahead(i) \in Nat /\ attempts[i] \in Nat /\ restarts \in Nat
          /\ rows[i].retries \in Nat /\ i # NoRow
          /\ attempts[i] + Ahead(i) <= Allowed(i) /\ PendingUntried(i)
        BY <1>1, AttemptTypes
    <2>2. CASE Signal
        <3>1. /\ Ahead(i)' = 0 /\ mode' = "stopping" /\ restarts' = restarts
            BY <2>2 DEF Signal, Ahead, bounds
        <3> QED
            BY <1>1, <1>2, <1>3, <2>1, <3>1, AttemptsKept
    <2>3. CASE Restart
        <3>1. Queued(i)' = Queued(i)
            BY <2>3 DEF Restart, handlers, Queued, OnChan, ToSend
        <3>2. cur = NoRow /\ cur' = NoRow /\ mode = "down" /\ mode' = "up" /\ restarts' = restarts
            BY <1>1, <2>3 DEF Restart, OffWhenDown, WorkerInHand, bounds
        <3>3. ~Underway(i) /\ ~Underway(i)' /\ Coming(i)' = Coming(i)
            BY <1>2, <2>1, <3>2 DEF Underway, Coming
        <3>4. Ahead(i)' = Ahead(i)
            BY <3>1, <3>2, <3>3 DEF Ahead
        <3> QED
            BY <1>1, <1>2, <1>3, <2>1, <3>2, <3>3, <3>4, AttemptsKept
    <2>4. CASE Terminate
        <3>1. OnChan(i)' = {} /\ ToSend(i)' = {}
            BY <2>4 DEF Terminate, OnChan, ToSend
        <3>2. Queued(i)' = 0
            BY <3>1, FS_EmptySet DEF Queued
        <3>3. PICK due \in {0, 1} : due = IF rows[i].status = "PENDING" THEN 1 ELSE 0
            OBVIOUS
        <3>4. Ahead(i)' = due /\ restarts' = restarts + 1
            BY <1>2, <2>1, <2>4, <3>2, <3>3 DEF Terminate, Ahead, Coming, Underway
        <3>5. Allowed(i)' = 2 * rows[i].retries + 2 * faults + (1 + (restarts + 1))
            BY <1>2, <2>1, <3>4 DEF Allowed
        <3>6. attempts[i] + due <= 2 * rows[i].retries + 2 * faults + (1 + (restarts + 1))
            <4>1. CASE restarts = 0 /\ due = 1
                <5>1. attempts[i] <= 2 * rows[i].retries + 2 * faults + 1
                    <6>1. PICK one \in {0, 1} : one = IF Underway(i) \/ mode = "stopping" THEN 1 ELSE 0
                        OBVIOUS
                    <6>2. attempts[i] <= 2 * rows[i].retries + 2 * faults + one
                        BY <2>1, <3>3, <4>1, <6>1 DEF PendingUntried
                    <6> QED
                        BY <1>2, <2>1, <6>1, <6>2
                <5> QED
                    BY <1>2, <2>1, <4>1, <5>1
            <4>2. CASE restarts # 0 \/ due = 0
                <5>1. attempts[i] <= 2 * rows[i].retries + 2 * faults
                                       + (IF restarts = 0 THEN 2 ELSE 1 + restarts)
                    BY <1>2, <2>1 DEF Allowed
                <5> QED
                    BY <1>2, <2>1, <3>3, <4>2, <5>1
            <4> QED
                BY <3>3, <4>1, <4>2
        <3>7. (attempts[i] + Ahead(i) <= Allowed(i))'
            BY <1>3, <3>4, <3>5, <3>6
        <3>8. PendingUntried(i)'
            BY <2>1, <3>4 DEF PendingUntried
        <3> QED
            BY <3>7, <3>8 DEF Held
    <2> QED
        BY <2>2, <2>3, <2>4
<1> QED
    BY <1>2, <1>3, <1>4 DEF AttemptInv, Held

LEMMA AttemptStep ==
    ASSUME IInv, CountInv, AttemptInv, [Next /\ CountAttempts]_<<vars, attempts>>
    PROVE  AttemptInv'
<1>1. CASE UNCHANGED <<vars, attempts>>
    <2>1. /\ RowIds' = RowIds /\ attempts' = attempts
          /\ \A i \in RowIds : Ahead(i)' = Ahead(i) /\ Allowed(i)' = Allowed(i)
                               /\ PendingUntried(i)' = PendingUntried(i)
        BY <1>1 DEF vars, database, handlers, worker, bounds, RowIds, Ahead, Coming, Underway, Queued,
                    OnChan, ToSend, Allowed, PendingUntried
    <2> QED
        BY <2>1 DEF AttemptInv
<1>2. CASE Next /\ CountAttempts
    <2>1. IssueVerified
        BY DEF CountInv
    <2> QED
        BY <1>2, <2>1, SubmitAttempts, WorkAttempts, DBAttempts, ProcessAttempts DEF Next, Work
<1> QED
    BY <1>1, <1>2

\* No row ever comes to more verifications than its retries, the failed calls and the
\* restarts pay for, what is queued or PENDING counted in.
THEOREM AttemptInvariance == CountedSpec => []AttemptInv
<1>1. Init /\ attempts = <<>> => AttemptInv
    BY DEF Init, AttemptInv, RowIds
<1> QED
    BY <1>1, AttemptStep, CountedSteps, Invariance, CountInvariance, PTL DEF CountedSpec

\* The verifications of a row are bounded in every reachable state: two, and two more for
\* each recorded retry and each failed call, and one for each restart but the first.
THEOREM AttemptsBoundedHolds == CountedSpec => []AttemptsBounded
<1>1. IInv /\ AttemptInv => AttemptsBounded
    <2> SUFFICES ASSUME IInv, AttemptInv, NEW i \in RowIds
                 PROVE  attempts[i] <= Allowed(i)
        BY DEF AttemptsBounded
    <2>1. /\ attempts[i] \in Nat /\ Ahead(i) \in Nat /\ attempts[i] + Ahead(i) <= Allowed(i)
          /\ rows[i].retries \in Nat /\ faults \in Nat /\ restarts \in Nat
        BY AttemptTypes DEF IInv
    <2>2. PICK spared \in Nat : spared = IF restarts = 0 THEN 2 ELSE 1 + restarts
        BY <2>1
    <2>3. Allowed(i) = 2 * rows[i].retries + 2 * faults + spared
        BY <2>2 DEF Allowed
    <2> QED
        BY <2>1, <2>2, <2>3
<1> QED
    BY <1>1, CountedSteps, Invariance, AttemptInvariance, PTL

-----------------------------------------------------------------------------
(* The pipeline is a RequestBoard: what each of its steps is to a client.    *)

\* While the process is up, no item goes back before a retry was counted or failed to be.
ReopenPaid == wpc = "reopen" /\ mode = "up" => rows[cur].retries + faults > 0

LEMMA ReopenPaidStep ==
    ASSUME IInv, ReopenPaid, [Next]_vars
    PROVE  ReopenPaid'
<1>1. TypeOK /\ WorkerInHand
    BY DEF IInv
<1>2. CASE UNCHANGED vars
    BY <1>2 DEF vars, worker, bounds, database, ReopenPaid
<1>3. ASSUME NEW s \in Submissions, Submit(s)
      PROVE  ReopenPaid'
    <2>1. /\ wpc' = wpc /\ cur' = cur /\ mode' = mode
          /\ faults \in Nat /\ faults' \in Nat /\ faults' >= faults
        BY <1>3, SubmitQueued DEF worker
    <2>2. CASE wpc = "reopen" /\ mode = "up"
        <3>1. rows'[cur] = rows[cur] /\ rows[cur].retries \in Nat
            BY <1>1, <1>3, <2>2, SubmitQueued, CountTypes DEF WorkerInHand
        <3> QED
            BY <2>1, <2>2, <3>1 DEF ReopenPaid
    <2> QED
        BY <2>1, <2>2 DEF ReopenPaid
<1>4. ASSUME NEW ok \in BOOLEAN, RecordRetry(ok)
      PROVE  ReopenPaid'
    <2> SUFFICES ASSUME mode' = "up"
                 PROVE  rows'[cur].retries + faults' > 0
        BY <1>4 DEF RecordRetry, Step, ReopenPaid
    <2>1. cur \in RowIds /\ rows[cur] \in Row /\ rows[cur].retries \in Nat /\ faults \in Nat
        BY <1>1, <1>4, CountTypes DEF RecordRetry, WorkerInHand
    <2>2. CASE ok
        <3>1. rows'[cur] = [rows[cur] EXCEPT !.retries = @ + 1] /\ faults' = faults
            BY <1>1, <1>4, <2>1, <2>2 DEF RecordRetry, Update, DBCall, TypeOK, RowIds
        <3>2. rows'[cur].retries = rows[cur].retries + 1
            BY <2>1, <3>1 DEF Row
        <3> QED
            BY <2>1, <3>1, <3>2
    <2>3. CASE ~ok
        <3>1. /\ rows'[cur] \in {rows[cur], [rows[cur] EXCEPT !.retries = @ + 1]}
              /\ faults' = faults + 1
            BY <1>1, <1>4, <2>1, <2>3 DEF RecordRetry, Update, DBCall, Fault, TypeOK, RowIds
        <3>2. rows'[cur].retries \in {rows[cur].retries, rows[cur].retries + 1}
            BY <2>1, <3>1 DEF Row
        <3> QED
            BY <2>1, <3>1, <3>2
    <2> QED
        BY <2>2, <2>3
<1>5. ASSUME Work, \A ok \in BOOLEAN : ~RecordRetry(ok)
      PROVE  ReopenPaid'
    <2>1. wpc' # "reopen"
        BY <1>5 DEF Work, TakeJob, Verify, Requeue, WorkerReturns, DBStep, Poll, Find, StoreVerified,
                    IssueCredential, ReopenPending, RecordFailed, NextJob, Step
    <2> QED
        BY <2>1 DEF ReopenPaid
<1>6. CASE Signal \/ Terminate \/ Restart
    BY <1>6 DEF Signal, Terminate, Restart, ReopenPaid
<1> QED
    BY <1>2, <1>3, <1>4, <1>5, <1>6 DEF Next

LEMMA BoardSubmit ==
    ASSUME IInv, NEW s \in Submissions, Submit(s)
    PROVE  [Board!Next]_(Board!vars)
<1>1. TypeOK /\ CheckNotStale
    BY DEF IInv
<1>2. Owed' = Owed
    BY DEF Submit, Arrive, Abort, AcquireDedupLock, ReuseInFlight, FindNoneInFlight, CommitBatch,
           SendJob, Respond, worker, Owed
<1>3. CASE CommitBatch(s)
    <2>1. PICK p \in Payloads : p = payload[s]
        BY <1>1 DEF TypeOK
    <2>2. \A i \in RowIds : rows[i].payload = p => ~Untouched(i)
        BY <1>1, <1>3, <2>1 DEF CommitBatch, CheckNotStale
    <2>3. rows' = rows \o Batch(p, Len(rows) + 1) /\ faults' \in {faults, faults + 1}
        BY <1>3, <2>1 DEF CommitBatch, Fault
    <2>4. Board!Post(p)
        BY <1>2, <2>2, <2>3 DEF Board!Post, Board!Items, Board!Untouched, Board!Batch,
                                Board!MayBreakDown, Untouched, Batch, RowIds
    <2> QED
        BY <2>4 DEF Board!Next
<1>4. CASE Abort(s)
    <2>1. Board!BreakDown
        BY <1>2, <1>4 DEF Abort, Fault, Board!BreakDown
    <2> QED
        BY <2>1 DEF Board!Next
<1>5. CASE UNCHANGED <<rows, faults>>
    BY <1>2, <1>5 DEF Board!vars
<1> QED
    BY <1>3, <1>4, <1>5 DEF Submit, Arrive, AcquireDedupLock, ReuseInFlight, FindNoneInFlight,
                            SendJob, Respond, database, bounds

\* A step to which the worker's success in hand is neither new nor lost, and that changes
\* no row, is nothing to the board, or a call that broke down.
LEMMA BoardQuiet ==
    ASSUME UNCHANGED rows, faults' \in {faults, faults + 1}, Owed' = Owed
    PROVE  [Board!Next]_(Board!vars)
<1>1. CASE faults' = faults
    BY <1>1 DEF Board!vars
<1>2. CASE faults' = faults + 1
    <2>1. Board!BreakDown
        BY <1>2 DEF Board!BreakDown
    <2> QED
        BY <2>1 DEF Board!Next
<1> QED
    BY <1>1, <1>2

\* The writes of the worker, when they reach the table.
LEMMA BoardWrite ==
    ASSUME IInv, CountInv, ReopenPaid, NEW ok \in BOOLEAN, DBStep(ok), rows' # rows
    PROVE  Board!Next
<1> DEFINE i == cur
<1>1. TypeOK /\ WorkerInHand /\ CopyCurrent /\ IssueBacked
    BY DEF IInv
<1>2. /\ StoreVerified(ok) \/ IssueCredential(ok) \/ RecordRetry(ok) \/ ReopenPending(ok)
           \/ RecordFailed(ok)
      /\ i \in RowIds
    BY <1>1 DEF DBStep, Poll, Find, StoreVerified, IssueCredential, RecordRetry, ReopenPending,
                RecordFailed, database, WorkerInHand
<1>3. /\ mode = "up" /\ faults' \in {faults, faults + 1}
      /\ ok => faults' = faults
      /\ ~ok => faults' = faults + 1
    BY <1>2 DEF StoreVerified, IssueCredential, RecordRetry, ReopenPending, RecordFailed, DBCall,
                Update, Fault
<1>4. ASSUME wpc # "issue", wpc' # "issue"
      PROVE  Owed = {} /\ Owed' = {}
    BY <1>4 DEF Owed
<1>5. NextJob => wpc' # "issue"
    BY DEF NextJob
<1>6. CASE StoreVerified(ok)
    <2>1. /\ rows' = [rows EXCEPT ![i] = [rows[i] EXCEPT !.status = "VERIFIED", !.evidence = TRUE]]
          /\ Owed = {} /\ Owed' = IF ok THEN {i} ELSE {}
        BY <1>5, <1>6 DEF StoreVerified, Update, Step, Owed
    <2>2. Board!Succeed(i)
        BY <1>3, <2>1 DEF Board!Succeed, Board!Becomes
    <2> QED
        BY <1>2, <2>2 DEF Board!Next, Board!Items, RowIds
<1>7. CASE IssueCredential(ok)
    <2>1. /\ rows' = [rows EXCEPT ![i] = [rows[i] EXCEPT !.issued = @ + 1]]
          /\ wpc = "issue" /\ Owed = {i} /\ Owed' = {}
        BY <1>5, <1>7 DEF IssueCredential, Update, Owed
    <2>2. rows[i].status = "VERIFIED" /\ rows[i].evidence
        BY <1>1, <2>1 DEF CountInv, IssueVerified, IssueBacked
    <2>3. rows[i].issued < 2 + rows[i].retries + faults
        <3>0. PICK c : c = i
            OBVIOUS
        <3>1. SpareCredentials(c) >= 0 /\ Due(c) = 1
            BY <1>2, <3>0 DEF CountInv, Due
        <3>2. /\ rows[c].retries \in Nat /\ rows[c].issued \in Nat /\ faults \in Nat
              /\ Queued(c) \in Nat /\ Added(c) \in {0, 1}
            BY <1>1, <1>2, <3>0, CountTypes
        <3>3. rows[c].issued < 2 + rows[c].retries + faults
            BY <3>1, <3>2 DEF SpareCredentials
        <3> QED
            BY <3>0, <3>3
    <2>4. Board!Issue(i)
        BY <1>3, <2>1, <2>2, <2>3 DEF Board!Issue, Board!Becomes, Board!MayBreakDown
    <2> QED
        BY <1>2, <2>4 DEF Board!Next, Board!Items, RowIds
<1>8. CASE RecordRetry(ok)
    <2>1. /\ rows' = [rows EXCEPT ![i] = [rows[i] EXCEPT !.retries = @ + 1]]
          /\ wpc = "retry" /\ Owed = {} /\ Owed' = {}
        BY <1>4, <1>8 DEF RecordRetry, Update, Step
    <2>2. rows[i].retries < MaxRetries
        BY <1>1, <2>1 DEF CopyCurrent
    <2>3. Board!CountRetry(i)
        BY <1>3, <2>1, <2>2 DEF Board!CountRetry, Board!Becomes, Board!MayBreakDown
    <2> QED
        BY <1>2, <2>3 DEF Board!Next, Board!Items, RowIds
<1>9. CASE ReopenPending(ok)
    <2>1. /\ rows' = [rows EXCEPT ![i] = [rows[i] EXCEPT !.status = "PENDING", !.errors = TRUE]]
          /\ wpc = "reopen" /\ Owed = {} /\ Owed' = {}
        BY <1>4, <1>5, <1>9 DEF ReopenPending, Update, Step
    <2>2. rows[i].retries + faults > 0
        BY <1>3, <2>1 DEF ReopenPaid
    <2>3. Board!Reopen(i)
        BY <1>3, <2>1, <2>2 DEF Board!Reopen, Board!Becomes, Board!MayBreakDown
    <2> QED
        BY <1>2, <2>3 DEF Board!Next, Board!Items, RowIds
<1>10. CASE RecordFailed(ok)
    <2>1. /\ rows' = [rows EXCEPT ![i] = [rows[i] EXCEPT !.status = "FAILED", !.errors = TRUE]]
          /\ Owed = {} /\ Owed' = {}
        BY <1>4, <1>5, <1>10 DEF RecordFailed, Update
    <2>2. Board!Fail(i)
        BY <1>3, <2>1 DEF Board!Fail, Board!Becomes, Board!MayBreakDown
    <2> QED
        BY <1>2, <2>2 DEF Board!Next, Board!Items, RowIds
<1> QED
    BY <1>2, <1>6, <1>7, <1>8, <1>9, <1>10

LEMMA BoardWork ==
    ASSUME IInv, CountInv, ReopenPaid, Work
    PROVE  [Board!Next]_(Board!vars)
<1>1. CASE TakeJob \/ Verify \/ Requeue \/ WorkerReturns
    <2>1. /\ UNCHANGED rows /\ faults' \in {faults, faults + 1}
          /\ wpc # "issue" /\ wpc' # "issue"
        BY <1>1 DEF TakeJob, Verify, Requeue, WorkerReturns, database, bounds, NextJob, Step
    <2> QED
        BY <2>1, BoardQuiet DEF Owed
<1>2. ASSUME NEW ok \in BOOLEAN, DBStep(ok)
      PROVE  [Board!Next]_(Board!vars)
    <2>1. CASE rows' # rows
        BY <1>2, <2>1, BoardWrite
    <2>2. CASE rows' = rows
        <3>1. /\ DBCall(ok)
              /\ IssueCredential(ok) => NextJob
              /\ ~ok => NextJob \/ wpc' = wpc \/ wpc' = "reopen"
              /\ ok => ~StoreVerified(ok) \/ wpc' = "issue"
            BY <1>2 DEF DBStep, Poll, Find, StoreVerified, IssueCredential, RecordRetry,
                        ReopenPending, RecordFailed, Step
        <3>2. NextJob => Owed' = {}
            BY DEF NextJob, Owed
        <3>3. faults' \in {faults, faults + 1}
            BY <3>1 DEF DBCall, Fault
        <3>4. CASE StoreVerified(ok) /\ ok
            <4>1. /\ Owed = {} /\ Owed' = {cur} /\ UNCHANGED faults
                  /\ rows' = [rows EXCEPT ![cur] = [rows[cur] EXCEPT !.status = "VERIFIED",
                                                                      !.evidence = TRUE]]
                BY <3>4 DEF StoreVerified, DBCall, Update, Step, Owed
            <4>2. Board!Succeed(cur) /\ cur \in RowIds
                BY <3>4, <4>1 DEF Board!Succeed, Board!Becomes, StoreVerified, IInv, WorkerInHand
            <4> QED
                BY <4>2 DEF Board!Next, Board!Items, RowIds
        <3>5. CASE IssueCredential(ok)
            <4>1. Owed' = {} /\ Owed = {cur}
                BY <3>1, <3>2, <3>5 DEF IssueCredential, Owed
            <4>2. CASE faults' = faults + 1
                <5>1. Board!BreakDown
                    BY <2>2, <4>1, <4>2 DEF Board!BreakDown
                <5> QED
                    BY <5>1 DEF Board!Next
            <4>3. CASE faults' = faults
                <5>1. Board!Stop
                    BY <2>2, <4>1, <4>3 DEF Board!Stop
                <5> QED
                    BY <5>1 DEF Board!Next
            <4> QED
                BY <3>3, <4>2, <4>3
        <3>6. CASE ~(StoreVerified(ok) /\ ok) /\ ~IssueCredential(ok)
            <4>1. wpc # "issue" /\ wpc' # "issue"
                BY <1>2, <3>6 DEF DBStep, Poll, Find, StoreVerified, RecordRetry, ReopenPending,
                                  RecordFailed, NextJob, Step
            <4> QED
                BY <2>2, <3>3, <4>1, BoardQuiet DEF Owed
        <3> QED
            BY <3>4, <3>5, <3>6
    <2> QED
        BY <2>1, <2>2
<1> QED
    BY <1>1, <1>2 DEF Work

LEMMA BoardStep ==
    ASSUME IInv, CountInv, ReopenPaid, [Next]_vars
    PROVE  [Board!Next]_(Board!vars)
<1>1. CASE UNCHANGED vars
    BY <1>1 DEF vars, database, worker, bounds, Owed, Board!vars
<1>2. CASE Terminate
    <2>1. UNCHANGED <<rows, faults>> /\ Owed' = {}
        BY <1>2 DEF Terminate, Owed
    <2>2. CASE Owed = {}
        BY <2>1, <2>2 DEF Board!vars
    <2>3. CASE Owed # {}
        <3>1. Board!Stop
            BY <2>1, <2>3 DEF Board!Stop
        <3> QED
            BY <3>1 DEF Board!Next
    <2> QED
        BY <2>2, <2>3
<1>3. CASE Signal \/ Restart
    <2>1. UNCHANGED <<rows, faults>> /\ Owed' = Owed
        BY <1>3 DEF Signal, Restart, database, worker, bounds, Owed, IInv, OffWhenDown
    <2> QED
        BY <2>1 DEF Board!vars
<1> QED
    BY <1>1, <1>2, <1>3, BoardSubmit, BoardWork DEF Next

\* To its clients the pipeline is a RequestBoard: however many submissions, retries,
\* failures and stops there are, each of its steps is one that RequestBoard allows, or
\* nothing a client can see.
THEOREM KeepsBoardHolds == Spec => KeepsBoard
<1>1. Init => Board!Init /\ ReopenPaid
    BY DEF Init, Board!Init, Owed, ReopenPaid
<1>2. IInv /\ CountInv /\ ReopenPaid /\ [Next]_vars => ReopenPaid' /\ [Board!Next]_(Board!vars)
    BY ReopenPaidStep, BoardStep
<1> QED
    BY <1>1, <1>2, Invariance, CountInvariance, PTL DEF Spec, KeepsBoard, Board!Spec

=============================================================================
