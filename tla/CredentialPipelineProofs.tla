---------------------- MODULE CredentialPipelineProofs ----------------------
(***************************************************************************)
(* TLAPS proofs about CredentialPipeline.  IInv is shown inductive in      *)
(* three layers: types and the row the worker holds (TypeInv), then, given *)
(* those, the submission side (DedupInv) and the worker side (WorkInv).    *)
(***************************************************************************)
EXTENDS CredentialPipeline, TLAPS

TypeInv  == TypeOK /\ WorkerInHand /\ OffWhenDown
DedupInv == LockHeld /\ CheckNotStale /\ NoDoubleInsert
WorkInv  == CopyCurrent /\ IssueBacked /\ RetryBudget /\ SnapshotStillPending /\ EvidenceFirst

-----------------------------------------------------------------------------
(* What a step does to the table.                                            *)

\* n copies of x, and their concatenation behind another sequence.
LEMMA Replicate ==
    ASSUME NEW S, NEW x \in S, NEW n \in Nat, NEW b, b = [k \in 1..n |-> x]
    PROVE  b \in Seq(S) /\ Len(b) = n /\ \A k \in 1..n : b[k] = x
<1>1. b \in Seq(S)
  OBVIOUS
<1>2. Len(b) = n
  OBVIOUS
<1> QED
  BY <1>1, <1>2

LEMMA Concatenation ==
    ASSUME NEW S, NEW a \in Seq(S), NEW b \in Seq(S)
    PROVE  /\ a \o b \in Seq(S)
           /\ Len(a \o b) = Len(a) + Len(b)
           /\ \A i \in 1..(Len(a) + Len(b)) :
                 (a \o b)[i] = IF i <= Len(a) THEN a[i] ELSE b[i - Len(a)]
OBVIOUS

\* An UPDATE by id touches one row, or none when it fails.
LEMMA UpdateEffect ==
    ASSUME rows \in Seq(Row), cur \in RowIds, NEW row \in Row, NEW ok \in BOOLEAN,
           Update(ok, row)
    PROVE  /\ rows' \in Seq(Row)
           /\ RowIds' = RowIds
           /\ \A i \in RowIds : i # cur => rows'[i] = rows[i]
           /\ rows'[cur] \in {rows[cur], row}
BY DEF Update, RowIds

\* A commit adds the payload's rows, PENDING and untouched, under a new request.
LEMMA CommitEffect ==
    ASSUME rows \in Seq(Row), NEW p \in Payloads, rows' = rows \o Batch(p, Len(rows) + 1)
    PROVE  /\ rows' \in Seq(Row)
           /\ RowIds \subseteq RowIds'
           /\ NewIds(p) \subseteq RowIds'
           /\ RowIds' \subseteq RowIds \cup NewIds(p)
           /\ \A i \in RowIds : rows'[i] = rows[i]
           /\ \A i \in RowIds' \ RowIds :
                rows'[i] = [request |-> Len(rows) + 1, payload |-> p, status |-> "PENDING",
                            retries |-> 0, errors |-> FALSE, evidence |-> FALSE, issued |-> 0]
<1> DEFINE new == [request |-> Len(rows) + 1, payload |-> p, status |-> "PENDING",
                   retries |-> 0, errors |-> FALSE, evidence |-> FALSE, issued |-> 0]
<1>1. Len(rows) \in Nat /\ RowIds = 1..Len(rows)
  BY DEF RowIds
<1>2. new \in Row
  BY <1>1 DEF Row, Statuses
<1>3. BatchSize[p] \in Nat \ {0} /\ Batch(p, Len(rows) + 1) = [k \in 1..BatchSize[p] |-> new]
  BY BatchAssumption DEF Batch
<1> HIDE DEF new
<1>4. PICK b : b = Batch(p, Len(rows) + 1)
  OBVIOUS
<1>5. /\ b \in Seq(Row) /\ Len(b) = BatchSize[p]
      /\ \A k \in 1..BatchSize[p] : b[k] = new
  BY <1>2, <1>3, <1>4, Replicate
<1>6. rows' = rows \o b
  BY <1>4
<1>7. /\ rows' \in Seq(Row)
       /\ Len(rows') = Len(rows) + BatchSize[p]
       /\ \A i \in 1..(Len(rows) + BatchSize[p]) :
             rows'[i] = IF i <= Len(rows) THEN rows[i] ELSE b[i - Len(rows)]
  <2>1. /\ rows \o b \in Seq(Row)
        /\ Len(rows \o b) = Len(rows) + Len(b)
        /\ \A i \in 1..(Len(rows) + Len(b)) :
              (rows \o b)[i] = IF i <= Len(rows) THEN rows[i] ELSE b[i - Len(rows)]
    BY <1>5, Concatenation, Zenon
  <2> QED
    BY <1>5, <1>6, <2>1, Zenon
<1>8. RowIds' = 1..(Len(rows) + BatchSize[p])
  BY <1>7 DEF RowIds
<1>9. \A i \in RowIds' \ RowIds : i - Len(rows) \in 1..BatchSize[p] /\ ~(i <= Len(rows))
  BY <1>1, <1>3, <1>8
<1>10. \A i \in RowIds' \ RowIds : rows'[i] = new
  BY <1>1, <1>3, <1>5, <1>7, <1>8, <1>9
<1>11. \A i \in RowIds : rows'[i] = rows[i]
  BY <1>1, <1>3, <1>7, <1>8
<1>12. /\ RowIds \subseteq RowIds'
       /\ NewIds(p) \subseteq RowIds'
       /\ RowIds' \subseteq RowIds \cup NewIds(p)
  BY <1>1, <1>3, <1>8 DEF NewIds
<1> QED
  BY <1>7, <1>10, <1>11, <1>12 DEF new

\* The channel send keeps the channel's type and its capacity.
LEMMA SendEffect ==
    ASSUME chan \in Seq(RowIds), Len(chan) <= ChanCap, NEW i \in RowIds, TrySend(i)
    PROVE  chan' \in Seq(RowIds) /\ Len(chan') <= ChanCap
BY BoundAssumption DEF TrySend

\* Going on to the next job keeps the worker's hands as they must be.
LEMMA NextJobEffect ==
    ASSUME TypeInv, NextJob, RowIds' = RowIds
    PROVE  /\ wpc' \in {"select", "find"} /\ WorkerInHand'
           /\ cur' \in RowIds' \cup {NoRow} /\ todo' \subseteq todo /\ seen' \in Nat
BY DEF TypeInv, TypeOK, WorkerInHand, NextJob, Least, RowIds, NoRow

-----------------------------------------------------------------------------
(* Types, and the row the worker holds.                                      *)

LEMMA TypeInvInit == Init => TypeInv
<1> SUFFICES ASSUME Init PROVE TypeInv
  OBVIOUS
<1>1. rows \in Seq(Row) /\ RowIds = {} /\ chan \in Seq(RowIds) /\ Len(chan) <= ChanCap
  BY BoundAssumption DEF Init, RowIds
<1> QED
  BY <1>1, BoundAssumption DEF Init, TypeInv, TypeOK, WorkerInHand, OffWhenDown, NoRow

\* The submission handlers: they extend the table and fill the channel.
LEMMA TypeInvSubmit ==
    ASSUME TypeInv, NEW s \in Submissions, Submit(s)
    PROVE  TypeInv'
<1>1. CASE Arrive(s)
  BY <1>1 DEF Arrive, Goto, TypeInv, TypeOK, WorkerInHand, OffWhenDown, database, handlers, worker, bounds, RowIds
<1>2. CASE Abort(s)
  BY <1>2, BoundAssumption DEF Abort, Goto, Fault, TypeInv, TypeOK, WorkerInHand, OffWhenDown, database, handlers, worker, bounds, RowIds
<1>3. CASE AcquireDedupLock(s)
  BY <1>3 DEF AcquireDedupLock, Goto, TypeInv, TypeOK, WorkerInHand, OffWhenDown, database, handlers, worker, bounds, RowIds
<1>4. CASE ReuseInFlight(s)
  BY <1>4 DEF ReuseInFlight, Goto, Unlock, Pending, TypeInv, TypeOK, WorkerInHand, OffWhenDown, database, handlers, worker, bounds, RowIds
<1>5. CASE FindNoneInFlight(s)
  BY <1>5 DEF FindNoneInFlight, Goto, TypeInv, TypeOK, WorkerInHand, OffWhenDown, database, handlers, worker, bounds, RowIds
<1>6. CASE CommitBatch(s)
  <2>1. payload[s] \in Payloads /\ rows \in Seq(Row)
    BY DEF TypeInv, TypeOK
  <2>2. rows' \in Seq(Row) /\ RowIds \subseteq RowIds' /\ NewIds(payload[s]) \subseteq RowIds'
    BY <1>6, <2>1, CommitEffect DEF CommitBatch
  <2>3. chan' \in Seq(RowIds') /\ Len(chan') <= ChanCap
    BY <1>6, <2>2 DEF CommitBatch, TypeInv, TypeOK
  <2>4. WorkerInHand' /\ cur' \in RowIds' \cup {NoRow} /\ todo' \subseteq RowIds'
    BY <1>6, <2>2 DEF CommitBatch, TypeInv, TypeOK, WorkerInHand, OffWhenDown, worker
  <2>5. outbox' \in [Submissions -> SUBSET RowIds'] /\ reply' \in [Submissions -> SUBSET RowIds']
    BY <1>6, <2>2 DEF CommitBatch, TypeInv, TypeOK
  <2>6. faults' \in 0..MaxFaults
    BY <1>6, BoundAssumption DEF CommitBatch, Fault, TypeInv, TypeOK
  <2> QED
    BY <1>6, <2>2, <2>3, <2>4, <2>5, <2>6
    DEF CommitBatch, Goto, Unlock, TypeInv, TypeOK, OffWhenDown, worker
<1>7. CASE SendJob(s)
  <2>1. RowIds' = RowIds
    BY <1>7 DEF SendJob, database, RowIds
  <2>2. chan' \in Seq(RowIds') /\ Len(chan') <= ChanCap
    BY <1>7, <2>1, SendEffect DEF SendJob, Least, TypeInv, TypeOK
  <2>3. outbox' \in [Submissions -> SUBSET RowIds']
    BY <1>7, <2>1 DEF SendJob, TypeInv, TypeOK
  <2> QED
    BY <1>7, <2>1, <2>2, <2>3
    DEF SendJob, Goto, TypeInv, TypeOK, WorkerInHand, OffWhenDown, database, worker, bounds
<1>8. CASE Respond(s)
  BY <1>8 DEF Respond, Goto, TypeInv, TypeOK, WorkerInHand, OffWhenDown, database, handlers, worker, bounds, RowIds
<1> QED
  BY <1>1, <1>2, <1>3, <1>4, <1>5, <1>6, <1>7, <1>8 DEF Submit

\* A worker's UPDATE keeps the types, whether or not it is applied.
LEMMA TypeInvUpdate ==
    ASSUME TypeInv, cur \in RowIds, NEW row \in Row, NEW ok \in BOOLEAN,
           Update(ok, row), DBCall(ok),
           UNCHANGED <<lock, mode, chan, handlers, restarts>>,
           \/ NextJob
           \/ /\ UNCHANGED <<cur, todo, seen>>
              /\ wpc' \in {"issue", "reopen", "requeue"}
    PROVE  TypeInv'
<1>1. rows' \in Seq(Row) /\ RowIds' = RowIds
  BY UpdateEffect DEF TypeInv, TypeOK
<1>2. faults' \in 0..MaxFaults
  BY BoundAssumption DEF DBCall, Fault, TypeInv, TypeOK
<1>3. mode' # "down"
  BY DEF DBCall
<1>4. CASE NextJob
  <2>1. /\ wpc' \in {"select", "find"} /\ WorkerInHand'
        /\ cur' \in RowIds' \cup {NoRow} /\ todo' \subseteq todo /\ seen' \in Nat
    BY <1>1, <1>4, NextJobEffect
  <2> QED
    BY <1>1, <1>2, <1>3, <2>1 DEF TypeInv, TypeOK, OffWhenDown, handlers
<1>5. CASE /\ UNCHANGED <<cur, todo, seen>>
           /\ wpc' \in {"issue", "reopen", "requeue"}
  BY <1>1, <1>2, <1>3, <1>5 DEF TypeInv, TypeOK, WorkerInHand, OffWhenDown, handlers
<1> QED
  BY <1>4, <1>5

\* Every row the worker's writes may leave behind is a row.
LEMMA RowUpdates ==
    ASSUME TypeOK, cur \in RowIds
    PROVE  /\ [rows[cur] EXCEPT !.status = "VERIFIED", !.evidence = TRUE] \in Row
           /\ [rows[cur] EXCEPT !.issued = @ + 1] \in Row
           /\ [rows[cur] EXCEPT !.retries = @ + 1] \in Row
           /\ [rows[cur] EXCEPT !.status = "PENDING", !.errors = TRUE] \in Row
           /\ [rows[cur] EXCEPT !.status = "FAILED", !.errors = TRUE] \in Row
<1>1. rows[cur] \in Row
  BY DEF TypeOK, RowIds
<1>2. rows[cur].retries + 1 \in Nat /\ rows[cur].issued + 1 \in Nat
  BY <1>1 DEF Row
<1>3. /\ [rows[cur] EXCEPT !.issued = @ + 1] \in Row
      /\ [rows[cur] EXCEPT !.retries = @ + 1] \in Row
  BY <1>1, <1>2 DEF Row
<1>4. [rows[cur] EXCEPT !.status = "VERIFIED", !.evidence = TRUE] \in Row
  BY <1>1 DEF Row, Statuses
<1>5. [rows[cur] EXCEPT !.status = "PENDING", !.errors = TRUE] \in Row
  BY <1>1 DEF Row, Statuses
<1>6. [rows[cur] EXCEPT !.status = "FAILED", !.errors = TRUE] \in Row
  BY <1>1 DEF Row, Statuses
<1> QED
  BY <1>3, <1>4, <1>5, <1>6

LEMMA TypeInvDBStep ==
    ASSUME TypeInv, NEW ok \in BOOLEAN, DBStep(ok)
    PROVE  TypeInv'
<1>1. CASE Poll(ok)
  <2>1. rows' = rows /\ RowIds' = RowIds
    BY <1>1 DEF Poll, database, RowIds
  <2>2. faults' \in 0..MaxFaults
    BY <1>1, BoundAssumption DEF Poll, DBCall, Fault, TypeInv, TypeOK
  <2>3. /\ cur' \in RowIds' \cup {NoRow} /\ todo' \subseteq RowIds'
        /\ wpc' \in {"select", "find"} /\ WorkerInHand'
    BY <1>1, <2>1 DEF Poll, AllPending, Oldest, Least, TypeInv, TypeOK, WorkerInHand, OffWhenDown
  <2> QED
    BY <1>1, <2>1, <2>2, <2>3 DEF Poll, TypeInv, TypeOK, OffWhenDown, database, handlers
<1>2. CASE Find(ok)
  <2>1. rows' = rows /\ RowIds' = RowIds /\ cur \in RowIds
    BY <1>2 DEF Find, database, RowIds, TypeInv, WorkerInHand
  <2>2. faults' \in 0..MaxFaults
    BY <1>2, BoundAssumption DEF Find, DBCall, Fault, TypeInv, TypeOK
  <2>3. rows[cur].retries \in Nat
    <3>1. rows[cur] \in Row
      BY <2>1 DEF TypeInv, TypeOK, RowIds
    <3> QED
      BY <3>1 DEF Row
  <2>4. /\ cur' \in RowIds' \cup {NoRow} /\ todo' \subseteq RowIds' /\ seen' \in Nat
        /\ wpc' \in {"select", "find", "verify"} /\ WorkerInHand'
    <3>1. CASE ok
      BY <1>2, <2>1, <2>3, <3>1 DEF Find, TypeInv, TypeOK, WorkerInHand, OffWhenDown
    <3>2. CASE ~ok
      BY <1>2, <2>1, <3>2, NextJobEffect DEF Find, TypeInv, TypeOK
    <3> QED
      BY <3>1, <3>2
  <2> QED
    BY <1>2, <2>1, <2>2, <2>4 DEF Find, TypeInv, TypeOK, OffWhenDown, database, handlers
<1>3. ASSUME StoreVerified(ok) \/ IssueCredential(ok) \/ RecordRetry(ok)
             \/ ReopenPending(ok) \/ RecordFailed(ok)
      PROVE  TypeInv'
  <2>1. cur \in RowIds /\ TypeOK
    BY <1>3 DEF StoreVerified, IssueCredential, RecordRetry, ReopenPending, RecordFailed,
                TypeInv, WorkerInHand
  <2>2. \E row \in Row : Update(ok, row)
    BY <1>3, <2>1, RowUpdates
    DEF StoreVerified, IssueCredential, RecordRetry, ReopenPending, RecordFailed
  <2>3. /\ DBCall(ok)
        /\ UNCHANGED <<lock, mode, chan, handlers, restarts>>
        /\ \/ NextJob
           \/ /\ UNCHANGED <<cur, todo, seen>>
              /\ wpc' \in {"issue", "reopen", "requeue"}
    BY <1>3
    DEF StoreVerified, IssueCredential, RecordRetry, ReopenPending, RecordFailed, Step
  <2> QED
    BY <2>1, <2>2, <2>3, TypeInvUpdate
<1> QED
  BY <1>1, <1>2, <1>3 DEF DBStep

LEMMA TypeInvWork ==
    ASSUME TypeInv, Work
    PROVE  TypeInv'
<1>1. CASE TakeJob
  <2>1. RowIds' = RowIds
    BY <1>1 DEF TakeJob, database, RowIds
  <2>2. Head(chan) \in RowIds /\ Tail(chan) \in Seq(RowIds) /\ Len(Tail(chan)) <= ChanCap
    BY <1>1, BoundAssumption DEF TakeJob, TypeInv, TypeOK
  <2> QED
    BY <1>1, <2>1, <2>2
    DEF TakeJob, TypeInv, TypeOK, WorkerInHand, OffWhenDown, database, handlers, bounds
<1>2. CASE Verify
  BY <1>2
  DEF Verify, Step, TypeInv, TypeOK, WorkerInHand, OffWhenDown, database, handlers, bounds, RowIds
<1>3. CASE Requeue
  <2>1. RowIds' = RowIds /\ cur \in RowIds
    BY <1>3 DEF Requeue, database, RowIds, TypeInv, WorkerInHand
  <2>2. chan' \in Seq(RowIds') /\ Len(chan') <= ChanCap
    BY <1>3, <2>1, SendEffect DEF Requeue, TypeInv, TypeOK
  <2>3. /\ wpc' \in {"select", "find"} /\ WorkerInHand'
        /\ cur' \in RowIds' \cup {NoRow} /\ todo' \subseteq RowIds' /\ seen' \in Nat
    BY <1>3, <2>1, NextJobEffect DEF Requeue, TypeInv, TypeOK
  <2> QED
    BY <1>3, <2>1, <2>2, <2>3 DEF Requeue, TypeInv, TypeOK, OffWhenDown, database, handlers, bounds
<1>4. CASE WorkerReturns
  BY <1>4
  DEF WorkerReturns, Step, TypeInv, TypeOK, WorkerInHand, OffWhenDown, database, handlers, bounds, RowIds
<1>5. CASE \E ok \in BOOLEAN : DBStep(ok)
  BY <1>5, TypeInvDBStep
<1> QED
  BY <1>1, <1>2, <1>3, <1>4, <1>5 DEF Work

LEMMA TypeInvProcess ==
    ASSUME TypeInv, Signal \/ Terminate \/ Restart
    PROVE  TypeInv'
<1>1. CASE Signal
  BY <1>1
  DEF Signal, TypeInv, TypeOK, WorkerInHand, OffWhenDown, database, handlers, worker, bounds, RowIds
<1>2. CASE Terminate
  <2>1. RowIds' = RowIds /\ chan' \in Seq(RowIds') /\ Len(chan') <= ChanCap
    BY <1>2, BoundAssumption DEF Terminate, RowIds
  <2>2. restarts' \in 0..MaxRestarts
    BY <1>2, BoundAssumption DEF Terminate, TypeInv, TypeOK
  <2>3. spc' \in [Submissions ->
            {"new", "lock", "check", "insert", "send", "respond", "done", "failed"}]
    BY <1>2 DEF Terminate, TypeInv, TypeOK
  <2>4. NoRow \notin RowIds
    BY DEF NoRow, RowIds, TypeInv, TypeOK
  <2> QED
    BY <1>2, <2>1, <2>2, <2>3, <2>4 DEF Terminate, TypeInv, TypeOK, WorkerInHand, OffWhenDown
<1>3. CASE Restart
  BY <1>3
  DEF Restart, TypeInv, TypeOK, WorkerInHand, OffWhenDown, database, handlers, bounds, RowIds
<1> QED
  BY <1>1, <1>2, <1>3

LEMMA TypeInvStep == TypeInv /\ [Next]_vars => TypeInv'
<1> SUFFICES ASSUME TypeInv, [Next]_vars PROVE TypeInv'
  OBVIOUS
<1>1. CASE UNCHANGED vars
  BY <1>1
  DEF vars, TypeInv, TypeOK, WorkerInHand, OffWhenDown, database, handlers, worker, bounds, RowIds
<1> QED
  BY <1>1, TypeInvSubmit, TypeInvWork, TypeInvProcess DEF Next

\* Type correctness, for every number of submissions, every batch size, channel
\* capacity, poll limit, retry limit and number of failures and restarts.
THEOREM TypeCorrect == Spec => []TypeOK
<1>1. TypeInv => TypeOK
  BY DEF TypeInv
<1> QED
  BY <1>1, TypeInvInit, TypeInvStep, PTL DEF Spec

-----------------------------------------------------------------------------
(* The submission side.  Only a commit adds untouched rows, only the holder  *)
(* of a payload's lock commits rows of the payload, and its check saw none;  *)
(* the worker may reopen a row in the meantime, but never an untouched one.  *)

\* Steps that add no row and make none untouched again, and that leave every
\* checking handler its lock, keep the submission side's invariant.
LEMMA DedupFrame ==
    ASSUME DedupInv, RowIds' = RowIds,
           \A i \in RowIds : /\ rows'[i].payload = rows[i].payload
                             /\ rows'[i].request = rows[i].request
                             /\ Untouched(i)' => Untouched(i),
           payload' = payload, LockHeld',
           \A s \in Submissions : spc'[s] = "insert" => spc[s] = "insert"
    PROVE  DedupInv'
BY DEF DedupInv, LockHeld, CheckNotStale, NoDoubleInsert

\* The same with an unchanged table.
LEMMA DedupFrameRows ==
    ASSUME DedupInv, rows' = rows, payload' = payload, LockHeld',
           \A s \in Submissions : spc'[s] = "insert" => spc[s] = "insert"
    PROVE  DedupInv'
BY DEF DedupInv, LockHeld, CheckNotStale, NoDoubleInsert, RowIds, Untouched

\* A worker's UPDATE touches the row it writes.
LEMMA DedupUpdate ==
    ASSUME TypeInv, DedupInv, NEW ok \in BOOLEAN,
           StoreVerified(ok) \/ IssueCredential(ok) \/ RecordRetry(ok)
           \/ ReopenPending(ok) \/ RecordFailed(ok)
    PROVE  DedupInv'
<1>1. cur \in RowIds /\ TypeOK /\ rows[cur] \in Row
  BY DEF StoreVerified, IssueCredential, RecordRetry, ReopenPending, RecordFailed,
         TypeInv, WorkerInHand, TypeOK, RowIds
<1>2. PICK row \in Row :
        /\ Update(ok, row)
        /\ row.payload = rows[cur].payload /\ row.request = rows[cur].request
        /\ \/ row.status # "PENDING" \/ row.retries # 0 \/ row.errors
           \/ /\ row.status = rows[cur].status /\ row.retries = rows[cur].retries
              /\ row.errors = rows[cur].errors /\ row.evidence = rows[cur].evidence
  <2>1. rows[cur].retries + 1 # 0
    BY <1>1 DEF Row
  <2> QED
    BY <1>1, <2>1, RowUpdates
    DEF StoreVerified, IssueCredential, RecordRetry, ReopenPending, RecordFailed, Row
<1>3. /\ RowIds' = RowIds
      /\ \A i \in RowIds : i # cur => rows'[i] = rows[i]
      /\ rows'[cur] \in {rows[cur], row}
  BY <1>1, <1>2, UpdateEffect DEF TypeOK
<1>4. \A i \in RowIds : /\ rows'[i].payload = rows[i].payload
                        /\ rows'[i].request = rows[i].request
                        /\ Untouched(i)' => Untouched(i)
  BY <1>2, <1>3 DEF Untouched
<1>5. UNCHANGED <<lock, spc, payload>>
  BY DEF StoreVerified, IssueCredential, RecordRetry, ReopenPending, RecordFailed, handlers
<1>6. LockHeld'
  BY <1>5 DEF DedupInv, LockHeld
<1> QED
  BY <1>3, <1>4, <1>5, <1>6, DedupFrame

\* Of all the handlers' steps the commit is the one that could insert twice.
LEMMA DedupCommit ==
    ASSUME TypeInv, DedupInv, NEW s \in Submissions, CommitBatch(s)
    PROVE  DedupInv'
<1> DEFINE p == payload[s]
<1>1. p \in Payloads /\ rows \in Seq(Row) /\ lock[p] = s /\ spc[s] = "insert"
  BY DEF CommitBatch, TypeInv, TypeOK, DedupInv, LockHeld
<1>2. /\ RowIds \subseteq RowIds'
      /\ \A i \in RowIds : rows'[i] = rows[i]
      /\ \A i \in RowIds' \ RowIds : rows'[i].payload = p /\ rows'[i].request = Len(rows) + 1
  <2>1. rows' = rows \o Batch(p, Len(rows) + 1)
    BY DEF CommitBatch
  <2> HIDE DEF p
  <2>2. /\ RowIds \subseteq RowIds'
        /\ \A i \in RowIds : rows'[i] = rows[i]
        /\ \A i \in RowIds' \ RowIds :
             rows'[i] = [request |-> Len(rows) + 1, payload |-> p, status |-> "PENDING",
                         retries |-> 0, errors |-> FALSE, evidence |-> FALSE, issued |-> 0]
    BY <1>1, <2>1, CommitEffect
  <2> QED
    BY <2>2
<1>3. payload' = payload /\ spc'[s] # "insert"
      /\ \A t \in Submissions \ {s} : spc'[t] = spc[t]
  BY DEF CommitBatch, Goto, TypeInv, TypeOK
<1>4. \A t \in Submissions \ {s} : spc[t] \in {"check", "insert"} => payload[t] # p
  BY <1>1 DEF DedupInv, LockHeld
<1>5. LockHeld'
  BY <1>3, <1>4 DEF CommitBatch, Goto, Unlock, DedupInv, LockHeld, TypeInv, TypeOK
<1>6. CheckNotStale'
  BY <1>2, <1>3, <1>4 DEF DedupInv, CheckNotStale, Untouched
<1>7. \A i \in RowIds : rows[i].payload = p => ~Untouched(i)
  BY <1>1 DEF DedupInv, CheckNotStale
<1>8. NoDoubleInsert'
  BY <1>2, <1>7 DEF DedupInv, NoDoubleInsert, Untouched
<1> QED
  BY <1>5, <1>6, <1>8 DEF DedupInv

LEMMA DedupSubmit ==
    ASSUME TypeInv, DedupInv, NEW s \in Submissions, Submit(s)
    PROVE  DedupInv'
<1>1. CASE FindNoneInFlight(s)
  <2>1. rows' = rows /\ payload' = payload /\ LockHeld'
    BY <1>1 DEF FindNoneInFlight, Goto, database, DedupInv, LockHeld, TypeInv, TypeOK
  <2>2. CheckNotStale'
    BY <1>1, <2>1 DEF FindNoneInFlight, Goto, Pending, Untouched, RowIds,
                      DedupInv, CheckNotStale, TypeInv, TypeOK
  <2> QED
    BY <2>1, <2>2 DEF DedupInv, NoDoubleInsert, RowIds, Untouched
<1>2. CASE CommitBatch(s)
  BY <1>2, DedupCommit
<1>3. ASSUME Arrive(s) \/ Abort(s) \/ AcquireDedupLock(s) \/ ReuseInFlight(s)
             \/ SendJob(s) \/ Respond(s)
      PROVE  DedupInv'
  <2>1. rows' = rows /\ payload' = payload
    BY <1>3 DEF Arrive, Abort, AcquireDedupLock, ReuseInFlight, SendJob, Respond, database
  <2>2. \A t \in Submissions : spc'[t] = "insert" => spc[t] = "insert"
    <3>1. spc' = spc \/ \E pc \in {"lock", "failed", "check", "respond", "done"} : Goto(s, pc)
      BY <1>3 DEF Arrive, Abort, AcquireDedupLock, ReuseInFlight, SendJob, Respond
    <3> QED
      BY <3>1 DEF Goto, TypeInv, TypeOK
  <2>3. LockHeld'
    <3>1. CASE Abort(s) \/ ReuseInFlight(s)
      BY <3>1 DEF Abort, ReuseInFlight, Goto, Unlock, DedupInv, LockHeld, TypeInv, TypeOK
    <3>2. CASE AcquireDedupLock(s)
      BY <3>2, SubmissionsAssumption
      DEF AcquireDedupLock, Goto, DedupInv, LockHeld, TypeInv, TypeOK
    <3>3. CASE Arrive(s) \/ SendJob(s) \/ Respond(s)
      BY <3>3 DEF Arrive, SendJob, Respond, Goto, database, DedupInv, LockHeld, TypeInv, TypeOK
    <3> QED
      BY <1>3, <3>1, <3>2, <3>3
  <2> QED
    BY <2>1, <2>2, <2>3, DedupFrameRows
<1> QED
  BY <1>1, <1>2, <1>3 DEF Submit

LEMMA DedupInvStep == TypeInv /\ DedupInv /\ [Next]_vars => DedupInv'
<1> SUFFICES ASSUME TypeInv, DedupInv, [Next]_vars PROVE DedupInv'
  OBVIOUS
<1>1. ASSUME NEW ok \in BOOLEAN, DBStep(ok) PROVE DedupInv'
  <2>1. CASE Poll(ok) \/ Find(ok)
    <3>1. rows' = rows /\ UNCHANGED <<lock, spc, payload>>
      BY <2>1 DEF Poll, Find, database, handlers
    <3> QED
      BY <3>1, DedupFrameRows DEF DedupInv, LockHeld
  <2> QED
    BY <1>1, <2>1, DedupUpdate DEF DBStep
<1>2. CASE TakeJob \/ Verify \/ Requeue \/ WorkerReturns \/ Signal \/ Restart \/ UNCHANGED vars
  <2>1. rows' = rows /\ UNCHANGED <<lock, spc, payload>>
    BY <1>2 DEF TakeJob, Verify, Requeue, WorkerReturns, Signal, Restart, vars,
                database, handlers
  <2> QED
    BY <2>1, DedupFrameRows DEF DedupInv, LockHeld
<1>3. CASE Terminate
  <2>1. /\ rows' = rows /\ payload' = payload
        /\ \A s \in Submissions : spc'[s] \notin {"check", "insert"}
    BY <1>3 DEF Terminate
  <2> QED
    BY <2>1, DedupFrameRows DEF LockHeld
<1> QED
  BY <1>1, <1>2, <1>3, DedupSubmit DEF Next, Work

-----------------------------------------------------------------------------
(* The worker side.  Nothing but the worker changes a row once it exists, so *)
(* what it read stays true, and it changes only the row in its hand, which   *)
(* is never one of the rows the poll has yet to reach.                       *)

RowsOK == RetryBudget /\ EvidenceFirst

\* Steps of other processes: the worker stands still and rows are only added.
LEMMA WorkFrame ==
    ASSUME TypeInv, WorkInv, UNCHANGED worker, RowIds \subseteq RowIds',
           \A i \in RowIds : rows'[i] = rows[i],
           \A i \in RowIds' \ RowIds :
              /\ rows'[i].status = "PENDING"
              /\ rows'[i].retries = 0 /\ rows'[i].issued = 0
    PROVE  WorkInv'
<1>1. CopyCurrent' /\ IssueBacked' /\ SnapshotStillPending'
  BY DEF WorkInv, CopyCurrent, IssueBacked, SnapshotStillPending, worker,
         TypeInv, TypeOK, WorkerInHand
<1>2. RetryBudget' /\ EvidenceFirst'
  BY BoundAssumption DEF WorkInv, RetryBudget, EvidenceFirst
<1> QED
  BY <1>1, <1>2 DEF WorkInv

LEMMA WorkSubmit ==
    ASSUME TypeInv, WorkInv, NEW s \in Submissions, Submit(s)
    PROVE  WorkInv'
<1>1. UNCHANGED worker
  BY DEF Submit, Arrive, Abort, AcquireDedupLock, ReuseInFlight, FindNoneInFlight,
         CommitBatch, SendJob, Respond
<1>2. CASE CommitBatch(s)
  <2>1. payload[s] \in Payloads /\ rows \in Seq(Row)
    BY DEF TypeInv, TypeOK
  <2>2. rows' = rows \o Batch(payload[s], Len(rows) + 1)
    BY <1>2 DEF CommitBatch
  <2>3. /\ RowIds \subseteq RowIds'
        /\ \A i \in RowIds : rows'[i] = rows[i]
        /\ \A i \in RowIds' \ RowIds :
             rows'[i] = [request |-> Len(rows) + 1, payload |-> payload[s],
                         status |-> "PENDING", retries |-> 0,
                         errors |-> FALSE, evidence |-> FALSE, issued |-> 0]
    BY <2>1, <2>2, CommitEffect
  <2>4. \A i \in RowIds' \ RowIds :
              /\ rows'[i].status = "PENDING"
              /\ rows'[i].retries = 0 /\ rows'[i].issued = 0
    BY <2>3
  <2> QED
    BY <1>1, <2>3, <2>4, WorkFrame
<1>3. CASE ~CommitBatch(s)
  <2>1. rows' = rows
    BY <1>3 DEF Submit, Arrive, Abort, AcquireDedupLock, ReuseInFlight, FindNoneInFlight,
                SendJob, Respond, database
  <2> QED
    BY <1>1, <2>1, WorkFrame DEF RowIds
<1> QED
  BY <1>2, <1>3

\* Going on to the next job with a table that is still in order.
LEMMA WorkNextJob ==
    ASSUME TypeInv, NextJob, RowsOK', SnapshotStillPending, RowIds' = RowIds,
           \A i \in RowIds : i # cur => rows'[i] = rows[i]
    PROVE  WorkInv'
<1>1. wpc' \in {"select", "find"} /\ todo' \subseteq todo
  BY NextJobEffect
<1>2. SnapshotStillPending'
  BY <1>1 DEF SnapshotStillPending, TypeInv, TypeOK, WorkerInHand
<1> QED
  BY <1>1, <1>2 DEF WorkInv, RowsOK, CopyCurrent, IssueBacked

\* The table stays in order if the row written is.
LEMMA RowsOKUpdate ==
    ASSUME TypeOK, RowsOK, cur \in RowIds, NEW row \in Row, NEW ok \in BOOLEAN, Update(ok, row),
           row.retries <= MaxRetries,
           row.issued > 0 => row.evidence,
           row.status = "VERIFIED" => row.evidence,
           row.status = "FAILED" => row.errors
    PROVE  RowsOK'
<1>1. /\ RowIds' = RowIds
      /\ \A i \in RowIds : i # cur => rows'[i] = rows[i]
      /\ rows'[cur] \in {rows[cur], row}
  BY UpdateEffect DEF TypeOK
<1> QED
  BY <1>1 DEF RowsOK, RetryBudget, EvidenceFirst

LEMMA WorkDBStep ==
    ASSUME TypeInv, WorkInv, NEW ok \in BOOLEAN, DBStep(ok)
    PROVE  WorkInv'
<1>1. CASE Poll(ok)
  <2>1. rows' = rows /\ RowIds' = RowIds /\ wpc' \in {"select", "find"}
    BY <1>1 DEF Poll, database, RowIds
  <2>2. SnapshotStillPending'
    BY <1>1, <2>1 DEF Poll, AllPending, Oldest, SnapshotStillPending, WorkInv
  <2> QED
    BY <2>1, <2>2
    DEF WorkInv, CopyCurrent, IssueBacked, RetryBudget, EvidenceFirst
<1>2. CASE Find(ok)
  <2>1. rows' = rows /\ RowIds' = RowIds
    BY <1>2 DEF Find, database, RowIds
  <2>2. RowsOK'
    BY <2>1 DEF WorkInv, RowsOK, RetryBudget, EvidenceFirst
  <2>3. CASE ok
    BY <1>2, <2>1, <2>2, <2>3
    DEF Find, WorkInv, RowsOK, CopyCurrent, IssueBacked, SnapshotStillPending
  <2>4. CASE ~ok
    BY <1>2, <2>1, <2>2, <2>4, WorkNextJob DEF Find, WorkInv
  <2> QED
    BY <2>3, <2>4
<1>3. ASSUME StoreVerified(ok) \/ IssueCredential(ok) \/ RecordRetry(ok)
             \/ ReopenPending(ok) \/ RecordFailed(ok)
      PROVE  WorkInv'
  <2>1. cur \in RowIds /\ TypeOK /\ rows[cur] \in Row /\ RowsOK
    BY <1>3 DEF StoreVerified, IssueCredential, RecordRetry, ReopenPending, RecordFailed,
                TypeInv, TypeOK, WorkerInHand, WorkInv, RowsOK, RowIds
  <2>2. /\ rows[cur].retries <= MaxRetries
        /\ rows[cur].issued > 0 => rows[cur].evidence
        /\ rows[cur].status = "VERIFIED" => rows[cur].evidence
        /\ rows[cur].status = "FAILED" => rows[cur].errors
    BY <2>1 DEF RowsOK, RetryBudget, EvidenceFirst
  <2>3. PICK row \in Row :
          /\ Update(ok, row)
          /\ row.retries <= MaxRetries
          /\ row.issued > 0 => row.evidence
          /\ row.status = "VERIFIED" => row.evidence
          /\ row.status = "FAILED" => row.errors
          /\ StoreVerified(ok) => row.evidence
    <3>1. CASE StoreVerified(ok)
      BY <2>1, <2>2, <3>1, RowUpdates DEF StoreVerified, Row
    <3>2. CASE IssueCredential(ok)
      BY <2>1, <2>2, <3>2, RowUpdates
      DEF IssueCredential, StoreVerified, WorkInv, IssueBacked, Row
    <3>3. CASE RecordRetry(ok)
      <4>1. rows[cur].retries + 1 <= MaxRetries
        BY <2>1, <3>3, BoundAssumption DEF RecordRetry, WorkInv, CopyCurrent, Row
      <4> QED
        BY <2>1, <2>2, <3>3, <4>1, RowUpdates DEF RecordRetry, StoreVerified, Row
    <3>4. CASE ReopenPending(ok)
      BY <2>1, <2>2, <3>4, RowUpdates DEF ReopenPending, StoreVerified, Row
    <3>5. CASE RecordFailed(ok)
      BY <2>1, <2>2, <3>5, RowUpdates DEF RecordFailed, StoreVerified, Row
    <3> QED
      BY <1>3, <3>1, <3>2, <3>3, <3>4, <3>5
  <2>4. RowsOK'
    BY <2>1, <2>3, RowsOKUpdate
  <2>5. /\ RowIds' = RowIds
        /\ \A i \in RowIds : i # cur => rows'[i] = rows[i]
        /\ rows'[cur] \in {rows[cur], row}
    BY <2>1, <2>3, UpdateEffect DEF TypeOK
  <2>6. CASE NextJob
    BY <2>4, <2>5, <2>6, WorkNextJob DEF WorkInv
  <2>7. CASE ~NextJob
    <3>1. /\ UNCHANGED <<cur, todo, seen>>
          /\ wpc' \in {"issue", "reopen", "requeue"}
          /\ wpc' = "issue" => StoreVerified(ok) /\ ok
      BY <1>3, <2>7
      DEF StoreVerified, IssueCredential, RecordRetry, ReopenPending, RecordFailed, Step
    <3>2. SnapshotStillPending'
      BY <2>5, <3>1 DEF SnapshotStillPending, WorkInv, TypeInv, TypeOK, WorkerInHand
    <3>3. IssueBacked'
      <4>1. CASE wpc' = "issue"
        <5>1. rows' = [rows EXCEPT ![cur] =
                         [rows[cur] EXCEPT !.status = "VERIFIED", !.evidence = TRUE]]
          BY <3>1, <4>1 DEF StoreVerified, Update
        <5>2. rows'[cur] = [rows[cur] EXCEPT !.status = "VERIFIED", !.evidence = TRUE]
          BY <2>1, <5>1 DEF TypeOK, RowIds
        <5>3. rows'[cur].evidence
          BY <2>1, <5>2 DEF Row
        <5> QED
          BY <3>1, <5>3 DEF IssueBacked
      <4> QED
        BY <4>1 DEF IssueBacked
    <3> QED
      BY <2>4, <3>1, <3>2, <3>3 DEF WorkInv, RowsOK, CopyCurrent
  <2> QED
    BY <2>6, <2>7
<1> QED
  BY <1>1, <1>2, <1>3 DEF DBStep

LEMMA WorkInvStep == TypeInv /\ WorkInv /\ [Next]_vars => WorkInv'
<1> SUFFICES ASSUME TypeInv, WorkInv, [Next]_vars PROVE WorkInv'
  OBVIOUS
<1>1. ASSUME NEW s \in Submissions, Submit(s) PROVE WorkInv'
  BY <1>1, WorkSubmit
<1>2. CASE TakeJob \/ WorkerReturns \/ Restart \/ Terminate
  <2>1. rows' = rows /\ wpc' \in {"find", "off", "select"} /\ todo' \subseteq todo
    BY <1>2 DEF TakeJob, WorkerReturns, Restart, Terminate, Step, database
  <2> QED
    BY <2>1 DEF WorkInv, CopyCurrent, IssueBacked, RetryBudget, SnapshotStillPending,
                EvidenceFirst, RowIds
<1>3. CASE Verify
  <2>1. /\ rows' = rows /\ UNCHANGED <<cur, todo, seen>>
        /\ wpc' \in {"store", "retry", "fail"}
        /\ wpc' = "retry" => seen < MaxRetries
    BY <1>3 DEF Verify, Step, database
  <2>2. seen = rows[cur].retries
    BY <1>3 DEF Verify, WorkInv, CopyCurrent
  <2> QED
    BY <2>1, <2>2 DEF WorkInv, CopyCurrent, IssueBacked, RetryBudget, SnapshotStillPending,
                      EvidenceFirst, RowIds
<1>4. CASE Requeue
  <2>1. rows' = rows /\ RowIds' = RowIds /\ NextJob
    BY <1>4 DEF Requeue, database, RowIds
  <2>2. RowsOK'
    BY <2>1 DEF WorkInv, RowsOK, RetryBudget, EvidenceFirst
  <2> QED
    BY <2>1, <2>2, WorkNextJob DEF WorkInv
<1>5. CASE Signal \/ UNCHANGED vars
  <2>1. rows' = rows /\ UNCHANGED worker
    BY <1>5 DEF Signal, vars, database
  <2> QED
    BY <2>1, WorkFrame DEF RowIds
<1> QED
  BY <1>1, <1>2, <1>3, <1>4, <1>5, WorkDBStep DEF Next, Work

-----------------------------------------------------------------------------
(* The theorems.                                                             *)

LEMMA IInvInit == Init => IInv
<1> SUFFICES ASSUME Init PROVE IInv
  OBVIOUS
<1>1. RowIds = {}
  BY DEF Init, RowIds
<1>2. DedupInv
  BY <1>1 DEF Init, DedupInv, LockHeld, CheckNotStale, NoDoubleInsert
<1>3. WorkInv
  BY <1>1 DEF Init, WorkInv, CopyCurrent, IssueBacked, RetryBudget, SnapshotStillPending,
              EvidenceFirst
<1> QED
  BY <1>2, <1>3, TypeInvInit DEF IInv, TypeInv, DedupInv, WorkInv

\* The inductive invariant holds for every value of the constants.
THEOREM Invariance == Spec => []IInv
<1>1. IInv <=> TypeInv /\ DedupInv /\ WorkInv
  BY DEF IInv, TypeInv, DedupInv, WorkInv
<1>2. IInv /\ [Next]_vars => IInv'
  BY TypeInvStep, DedupInvStep, WorkInvStep DEF IInv, TypeInv, DedupInv, WorkInv
<1> QED
  BY <1>2, IInvInit, PTL DEF Spec

\* Racing identical submissions never both insert a batch: the untouched rows of
\* a payload belong to one request (CreateManyIfNotInFlight's advisory lock).
THEOREM NoDoubleInsertHolds == Spec => []NoDoubleInsert
<1>1. IInv => NoDoubleInsert
  BY DEF IInv
<1> QED
  BY <1>1, Invariance, PTL

\* handleVerificationFailure never spends more than max_retries on a row.
THEOREM RetryBudgetHolds == Spec => []RetryBudget
<1>1. IInv => RetryBudget
  BY DEF IInv
<1> QED
  BY <1>1, Invariance, PTL

\* pollPending never reaches a row of its result that has been decided since.
THEOREM SnapshotStillPendingHolds == Spec => []SnapshotStillPending
<1>1. IInv => SnapshotStillPending
  BY DEF IInv
<1> QED
  BY <1>1, Invariance, PTL

\* No credential and no VERIFIED row without evidence, no FAILED row without errors.
THEOREM EvidenceFirstHolds == Spec => []EvidenceFirst
<1>1. IInv => EvidenceFirst
  BY DEF IInv
<1> QED
  BY <1>1, Invariance, PTL

\* What GetResults shows of a decided row always says why.
THEOREM ItemsExplainedHolds == Spec => []ItemsExplained
<1>1. IInv => ItemsExplained
  <2> SUFFICES ASSUME IInv, NEW r \in RowIds, NEW verbose \in BOOLEAN,
                      NEW item \in GetResults(r, verbose)
               PROVE  /\ item.status = "FAILED" => item.errors \/ item.response
                      /\ item.status = "VERIFIED" /\ verbose => item.response
    BY DEF ItemsExplained
  <2>1. PICK i \in RowIds : item = Item(i, verbose)
    BY DEF GetResults
  <2>2. /\ rows[i].status = "FAILED" => rows[i].errors
        /\ rows[i].status = "VERIFIED" => rows[i].evidence
    BY DEF IInv, EvidenceFirst
  <2> QED
    BY <2>1, <2>2 DEF Item
<1> QED
  BY <1>1, Invariance, PTL

=============================================================================
