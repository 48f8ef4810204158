------------------------- MODULE CredentialPipeline -------------------------
(***************************************************************************)
(* The asynchronous POST /credential flow: SubmitCredentials persists a    *)
(* batch of credential_requests rows and queues their ids on the in-memory *)
(* job channel; one CredentialWorker per process takes ids off the channel *)
(* or off its 30 s poll of PENDING rows and verifies them; Postgres keeps  *)
(* the rows over a restart of the process, which loses everything else.    *)
(*                                                                         *)
(* A row is named by its position in creation order, so the position also  *)
(* stands for created_at.  A request_id is named by its first row.  A      *)
(* payload stands for one participant_id and one computePayloadHash.       *)
(***************************************************************************)
EXTENDS Naturals, Sequences, FiniteSets, VerificationOutcome

CONSTANTS
    Submissions,  \* POST /credential calls; each is made at most once
    Payloads,     \* what a call may submit, told apart by participant and hash
    BatchSize,    \* the number of credentials in each payload
    MaxRetries,   \* credential_requests.max_retries (3 in the code)
    ChanCap,      \* capacity of jobCh (100 in the code)
    PollLimit,    \* rows one poll fetches (50 in the code)
    MaxFaults,    \* bound: database calls that fail while the process is up
    MaxRestarts   \* bound: times the process stops or crashes

NoSubmission == "no submission"   \* the advisory lock is free
NoRow == 0                        \* the worker has no row in hand

ASSUME SubmissionsAssumption == NoSubmission \notin Submissions
ASSUME FinitenessAssumption == IsFiniteSet(Submissions)
ASSUME BatchAssumption == BatchSize \in [Payloads -> Nat \ {0}]
ASSUME BoundAssumption ==
    /\ MaxRetries \in Nat /\ ChanCap \in Nat /\ PollLimit \in Nat \ {0}
    /\ MaxFaults \in Nat /\ MaxRestarts \in Nat

VARIABLES
    rows,      \* the credential_requests table (and the credentials it led to)
    lock,      \* pg_advisory_xact_lock holder of each payload's key
    mode,      \* of the process: "up", "stopping" (signal received) or "down"
    chan,      \* jobCh
    spc,       \* where each submission's handler is
    payload,   \* what each submission submits
    outbox,    \* ids its handler has yet to send on jobCh
    reply,     \* ids its handler answers with
    wpc,       \* where the worker is
    cur,       \* the row the worker is processing
    todo,      \* the rest of the poll's result
    seen,      \* retry_count of the copy of cur the worker read
    faults,    \* database failures so far
    restarts   \* stops and crashes so far

database == <<rows, lock>>
handlers == <<spc, payload, outbox, reply>>
worker   == <<wpc, cur, todo, seen>>
bounds   == <<faults, restarts>>
vars     == <<rows, lock, mode, chan, handlers, worker, bounds>>

Statuses == {"PENDING", "VERIFIED", "FAILED"}
Terminal == {"VERIFIED", "FAILED"}
RowIds   == DOMAIN rows

\* issued counts the credentials-table rows created out of this request: that
\* table has no column that says so, and no constraint that limits it.
Row == [request  : Nat \ {0},
        payload  : Payloads,
        status   : Statuses,
        retries  : Nat,
        errors   : BOOLEAN,    \* verification_errors is not null
        evidence : BOOLEAN,    \* evidences is not null
        issued   : Nat]

Pending(p) == {i \in RowIds : rows[i].payload = p /\ rows[i].status = "PENDING"}
\* Mutant of AllPending: the poll does not ask for the status.
AnyStatus == RowIds

AllPending == {i \in RowIds : rows[i].status = "PENDING"}

Least(i, S) == i \in S /\ \A j \in S : i <= j

\* ORDER BY created_at ASC LIMIT n
Oldest(S, n) == {i \in S : Cardinality({j \in S : j < i}) < n}

\* The rows build() makes for payload p when first is the next position.
Batch(p, first) ==
    [k \in 1..BatchSize[p] |->
        [request |-> first, payload |-> p, status |-> "PENDING", retries |-> 0,
         errors |-> FALSE, evidence |-> FALSE, issued |-> 0]]

NewIds(p) == Len(rows) + 1 .. Len(rows) + BatchSize[p]

Init ==
    /\ rows = <<>>
    /\ lock = [p \in Payloads |-> NoSubmission]
    /\ mode = "up"
    /\ chan = <<>>
    /\ spc = [s \in Submissions |-> "new"]
    /\ payload \in [Submissions -> Payloads]
    /\ outbox = [s \in Submissions |-> {}]
    /\ reply = [s \in Submissions |-> {}]
    /\ wpc = "select"
    /\ cur = NoRow
    /\ todo = {}
    /\ seen = 0
    /\ faults = 0
    /\ restarts = 0

\* Mutant of TrySend: the channel has no capacity.
SendUnbounded(i) == chan' = Append(chan, i)

\* The channel send of submitter and worker: select { case jobCh <- id: default: }.
TrySend(i) == chan' = IF Len(chan) < ChanCap THEN Append(chan, i) ELSE chan

Fault == faults < MaxFaults /\ faults' = faults + 1

-----------------------------------------------------------------------------
(* SubmitCredentials.  Its context is the HTTP request's, which shutdown     *)
(* does not cancel; a payload that fails validation changes no state, so     *)
(* every submission here has passed validation.                              *)

Goto(s, pc) == spc' = [spc EXCEPT ![s] = pc]
Unlock(s) == lock' = [lock EXCEPT ![payload[s]] = NoSubmission]

Arrive(s) ==
    /\ spc[s] = "new" /\ mode # "down"
    /\ Goto(s, "lock")
    /\ UNCHANGED <<database, mode, chan, payload, outbox, reply, worker, bounds>>

\* Mutant of Abort: the transaction is left open.
AbortLeavesLock(s) ==
    /\ spc[s] \in {"lock", "check", "insert"}
    /\ Fault
    /\ Goto(s, "failed")
    /\ UNCHANGED <<rows, lock, mode, chan, payload, outbox, reply, worker, restarts>>

\* Any error inside the transaction rolls it back, which frees the lock.
Abort(s) ==
    /\ spc[s] \in {"lock", "check", "insert"}
    /\ Fault
    /\ lock' = IF lock[payload[s]] = s THEN [lock EXCEPT ![payload[s]] = NoSubmission]
                                       ELSE lock
    /\ Goto(s, "failed")
    /\ UNCHANGED <<rows, mode, chan, payload, outbox, reply, worker, restarts>>

\* Mutant of AcquireDedupLock: nobody waits for the lock.
SkipDedupLock(s) ==
    /\ spc[s] = "lock"
    /\ lock' = [lock EXCEPT ![payload[s]] = s]
    /\ Goto(s, "check")
    /\ UNCHANGED <<rows, mode, chan, payload, outbox, reply, worker, bounds>>

AcquireDedupLock(s) ==
    /\ spc[s] = "lock"
    /\ lock[payload[s]] = NoSubmission
    /\ lock' = [lock EXCEPT ![payload[s]] = s]
    /\ Goto(s, "check")
    /\ UNCHANGED <<rows, mode, chan, payload, outbox, reply, worker, bounds>>

\* Rows of the payload are in flight: the transaction ends and they are the answer.
ReuseInFlight(s) ==
    /\ spc[s] = "check"
    /\ Pending(payload[s]) # {}
    /\ reply' = [reply EXCEPT ![s] = Pending(payload[s])]
    /\ Unlock(s)
    /\ Goto(s, "respond")
    /\ UNCHANGED <<rows, mode, chan, payload, outbox, worker, bounds>>

FindNoneInFlight(s) ==
    /\ spc[s] = "check"
    /\ Pending(payload[s]) = {}
    /\ Goto(s, "insert")
    /\ UNCHANGED <<database, mode, chan, payload, outbox, reply, worker, bounds>>

\* The commit makes the whole batch visible and frees the lock.  A commit whose
\* acknowledgement is lost reports an error, and nothing is queued.
CommitBatch(s) ==
    /\ spc[s] = "insert"
    /\ rows' = rows \o Batch(payload[s], Len(rows) + 1)
    /\ Unlock(s)
    /\ \/ /\ Goto(s, "send")
          /\ outbox' = [outbox EXCEPT ![s] = NewIds(payload[s])]
          /\ reply' = [reply EXCEPT ![s] = NewIds(payload[s])]
          /\ UNCHANGED faults
       \/ /\ Fault
          /\ Goto(s, "failed")
          /\ UNCHANGED <<outbox, reply>>
    /\ UNCHANGED <<mode, chan, payload, worker, restarts>>

SendJob(s) ==
    /\ spc[s] = "send"
    /\ \E i \in outbox[s] :
        /\ Least(i, outbox[s])
        /\ TrySend(i)
        /\ outbox' = [outbox EXCEPT ![s] = @ \ {i}]
        /\ IF outbox[s] = {i} THEN Goto(s, "respond") ELSE UNCHANGED spc
    /\ UNCHANGED <<database, mode, payload, reply, worker, bounds>>

Respond(s) ==
    /\ spc[s] = "respond"
    /\ Goto(s, "done")
    /\ reply' = [reply EXCEPT ![s] = {}]
    /\ UNCHANGED <<database, mode, chan, payload, outbox, worker, bounds>>

Submit(s) ==
    \/ Arrive(s) \/ Abort(s) \/ AcquireDedupLock(s) \/ ReuseInFlight(s)
    \/ FindNoneInFlight(s) \/ CommitBatch(s) \/ SendJob(s) \/ Respond(s)

-----------------------------------------------------------------------------
(* The worker: run, processOne, pollPending and ProcessCredentialRequest.    *)
(* Its context is cancelled when the process stops, after which every        *)
(* database call of the worker fails.                                        *)

DBCall(ok) ==
    \/ mode = "up" /\ ok /\ UNCHANGED faults
    \/ mode = "up" /\ ~ok /\ Fault
    \/ mode = "stopping" /\ ~ok /\ UNCHANGED faults

\* UPDATE ... WHERE id = cur, whatever the row's status is by then.  A call
\* that fails while the process is up may have been applied all the same.
Update(ok, row) ==
    \/ (ok \/ mode = "up") /\ rows' = [rows EXCEPT ![cur] = row]
    \/ ~ok /\ UNCHANGED rows

\* ProcessCredentialRequest returns (its error is only logged): the poll goes
\* on to its next row, or the worker is back at its select.
NextJob ==
    /\ \/ todo = {} /\ wpc' = "select" /\ cur' = NoRow /\ UNCHANGED todo
       \/ \E i \in todo :
            /\ Least(i, todo)
            /\ wpc' = "find" /\ cur' = i /\ todo' = todo \ {i}
    /\ seen' = 0

Step(pc) == wpc' = pc /\ UNCHANGED <<cur, todo, seen>>

TakeJob ==
    /\ wpc = "select" /\ chan # <<>>
    /\ cur' = Head(chan) /\ chan' = Tail(chan)
    /\ wpc' = "find"
    /\ UNCHANGED <<database, mode, handlers, todo, seen, bounds>>

\* Mutant of Poll: it looks for a status no row has.
PollNothing(ok) ==
    /\ wpc = "select"
    /\ DBCall(ok)
    /\ UNCHANGED <<database, mode, chan, handlers, worker, restarts>>

\* The select may take a tick even when jobs are waiting; so may a stopping
\* process, whose FindPending then fails.
Poll(ok) ==
    /\ wpc = "select"
    /\ DBCall(ok)
    /\ IF ok /\ AllPending # {}
       THEN \E i \in AllPending :
              /\ Least(i, AllPending)
              /\ cur' = i
              /\ todo' = Oldest(AllPending, PollLimit) \ {i}
              /\ wpc' = "find"
       ELSE UNCHANGED <<wpc, cur, todo>>
    /\ UNCHANGED <<database, mode, chan, handlers, seen, restarts>>

\* Mutant of Find: the retry count of the copy is not read.
FindUncounted(ok) ==
    /\ wpc = "find"
    /\ DBCall(ok)
    /\ IF ok THEN Step("verify") ELSE NextJob
    /\ UNCHANGED <<database, mode, chan, handlers, restarts>>

\* FindByID: the copy's retry_count is used later, its status never.
Find(ok) ==
    /\ wpc = "find"
    /\ DBCall(ok)
    /\ IF ok THEN wpc' = "verify" /\ seen' = rows[cur].retries /\ UNCHANGED <<cur, todo>>
             ELSE NextJob
    /\ UNCHANGED <<database, mode, chan, handlers, restarts>>

\* IdentityService.VerifyIdentity, and which handler its ending is given to.
Verify ==
    /\ wpc = "verify"
    /\ \E ending \in NotCalled \cup Replies :
        \/ ending = "verified" /\ Step("store")
        \/ ending \in GoErrors /\ Step("fail")
        \/ /\ ending \notin GoErrors \cup {"verified"}
           /\ Step(IF seen < MaxRetries THEN "retry" ELSE "fail")
    /\ UNCHANGED <<database, mode, chan, handlers, bounds>>

\* Mutant of StoreVerified: its error is logged and the credential is issued.
StoreIgnoringError(ok) ==
    /\ wpc = "store"
    /\ DBCall(ok)
    /\ Update(ok, [rows[cur] EXCEPT !.status = "VERIFIED", !.evidence = TRUE])
    /\ Step("issue")
    /\ UNCHANGED <<lock, mode, chan, handlers, restarts>>

\* Mutant of StoreVerified: a success after a retry is not issued.
StoreIssuingFirstTry(ok) ==
    /\ wpc = "store"
    /\ DBCall(ok)
    /\ Update(ok, [rows[cur] EXCEPT !.status = "VERIFIED", !.evidence = TRUE])
    /\ IF ok /\ seen = 0 THEN Step("issue") ELSE NextJob
    /\ UNCHANGED <<lock, mode, chan, handlers, restarts>>

\* UpdateVerificationResult: it leaves verification_errors as they were.
StoreVerified(ok) ==
    /\ wpc = "store"
    /\ DBCall(ok)
    /\ Update(ok, [rows[cur] EXCEPT !.status = "VERIFIED", !.evidence = TRUE])
    /\ IF ok THEN Step("issue") ELSE NextJob
    /\ UNCHANGED <<lock, mode, chan, handlers, restarts>>

\* CredentialRepository.Create, outside the transaction of StoreVerified.
IssueCredential(ok) ==
    /\ wpc = "issue"
    /\ DBCall(ok)
    /\ Update(ok, [rows[cur] EXCEPT !.issued = @ + 1])
    /\ NextJob
    /\ UNCHANGED <<lock, mode, chan, handlers, restarts>>

\* Mutant of RecordRetry: the retry is not counted.
RetryUncounted(ok) ==
    /\ wpc = "retry"
    /\ DBCall(ok)
    /\ Step("reopen")
    /\ UNCHANGED <<database, mode, chan, handlers, restarts>>

\* RecordRetry: its failure is logged and the retry goes on.
RecordRetry(ok) ==
    /\ wpc = "retry"
    /\ DBCall(ok)
    /\ Update(ok, [rows[cur] EXCEPT !.retries = @ + 1])
    /\ Step("reopen")
    /\ UNCHANGED <<lock, mode, chan, handlers, restarts>>

\* RecordFailure(PENDING): evidences are left as they were.
ReopenPending(ok) ==
    /\ wpc = "reopen"
    /\ DBCall(ok)
    /\ Update(ok, [rows[cur] EXCEPT !.status = "PENDING", !.errors = TRUE])
    /\ IF ok THEN Step("requeue") ELSE NextJob
    /\ UNCHANGED <<lock, mode, chan, handlers, restarts>>

Requeue ==
    /\ wpc = "requeue"
    /\ TrySend(cur)
    /\ NextJob
    /\ UNCHANGED <<database, mode, handlers, bounds>>

\* RecordFailure(FAILED), for the last retry and for a Go error alike.
RecordFailed(ok) ==
    /\ wpc = "fail"
    /\ DBCall(ok)
    /\ Update(ok, [rows[cur] EXCEPT !.status = "FAILED", !.errors = TRUE])
    /\ NextJob
    /\ UNCHANGED <<lock, mode, chan, handlers, restarts>>

\* stopCh is closed and the context is done; run returns at its next select,
\* unless the select picks a ready job or tick instead.
WorkerReturns ==
    /\ wpc = "select" /\ mode = "stopping"
    /\ Step("off")
    /\ UNCHANGED <<database, mode, chan, handlers, bounds>>

DBStep(ok) ==
    \/ Poll(ok) \/ Find(ok) \/ StoreVerified(ok) \/ IssueCredential(ok)
    \/ RecordRetry(ok) \/ ReopenPending(ok) \/ RecordFailed(ok)

Work == TakeJob \/ Verify \/ Requeue \/ WorkerReturns \/ \E ok \in BOOLEAN : DBStep(ok)

-----------------------------------------------------------------------------
(* GET /credential: what a reader sees of the rows, at any time.             *)

\* Mutant of Item: the errors give way to evidence that is not shown.
ItemHidingErrors(i, verbose) ==
    [status   |-> rows[i].status,
     response |-> verbose /\ rows[i].evidence,
     errors   |-> rows[i].errors /\ ~rows[i].evidence]

\* buildCredentialResultItems: the provider's response takes the place of the errors.
Item(i, verbose) ==
    [status   |-> rows[i].status,
     response |-> verbose /\ rows[i].evidence,
     errors   |-> rows[i].errors /\ ~(verbose /\ rows[i].evidence)]

GetResults(request, verbose) ==
    {Item(i, verbose) : i \in {j \in RowIds : rows[j].request = request}}

-----------------------------------------------------------------------------
(* The process (bootstrap.App.Start) and its container's restart policy.     *)

\* SIGINT or SIGTERM: worker.Stop(), cancel(), then Fiber drains the requests.
Signal ==
    /\ mode = "up" /\ restarts < MaxRestarts
    /\ mode' = "stopping"
    /\ UNCHANGED <<database, chan, handlers, worker, bounds>>

\* The process ends, drained or not, or crashes: what it held in memory is
\* gone and its open transactions roll back.
Terminate ==
    /\ mode \in {"up", "stopping"} /\ restarts < MaxRestarts
    /\ mode' = "down"
    /\ restarts' = restarts + 1
    /\ lock' = [p \in Payloads |-> NoSubmission]
    /\ chan' = <<>>
    /\ spc' = [s \in Submissions |-> IF spc[s] \in {"new", "done"} THEN spc[s] ELSE "failed"]
    /\ outbox' = [s \in Submissions |-> {}]
    /\ reply' = [s \in Submissions |-> {}]
    /\ wpc' = "off" /\ cur' = NoRow /\ todo' = {} /\ seen' = 0
    /\ UNCHANGED <<rows, payload, faults>>

Restart ==
    /\ mode = "down"
    /\ mode' = "up"
    /\ wpc' = "select"
    /\ UNCHANGED <<database, chan, handlers, cur, todo, seen, bounds>>

Next ==
    \/ \E s \in Submissions : Submit(s)
    \/ Work
    \/ Signal \/ Terminate \/ Restart

\* Every goroutine that can go on does; a stopping process ends (Shutdown's
\* context expires after 10 s) and its container starts it again.
Fairness ==
    /\ \A s \in Submissions :
        WF_vars(Abort(s) \/ AcquireDedupLock(s) \/ ReuseInFlight(s) \/ FindNoneInFlight(s)
                \/ CommitBatch(s) \/ SendJob(s) \/ Respond(s))
    /\ WF_vars(TakeJob)
    /\ WF_vars(\E ok \in BOOLEAN : Poll(ok))
    /\ WF_vars(Verify \/ Requeue \/ \E ok \in BOOLEAN : Find(ok) \/ StoreVerified(ok)
               \/ IssueCredential(ok) \/ RecordRetry(ok) \/ ReopenPending(ok) \/ RecordFailed(ok))
    /\ WF_vars(mode = "stopping" /\ Terminate)
    /\ WF_vars(Restart)

Spec == Init /\ [][Next]_vars
FairSpec == Spec /\ Fairness

-----------------------------------------------------------------------------
(* What must hold.                                                           *)

TypeOK ==
    /\ rows \in Seq(Row)
    /\ lock \in [Payloads -> Submissions \cup {NoSubmission}]
    /\ mode \in {"up", "stopping", "down"}
    /\ chan \in Seq(RowIds) /\ Len(chan) <= ChanCap
    /\ spc \in [Submissions ->
                {"new", "lock", "check", "insert", "send", "respond", "done", "failed"}]
    /\ payload \in [Submissions -> Payloads]
    /\ outbox \in [Submissions -> SUBSET RowIds]
    /\ reply \in [Submissions -> SUBSET RowIds]
    /\ wpc \in {"select", "find", "verify", "store", "issue",
                "retry", "reopen", "requeue", "fail", "off"}
    /\ cur \in RowIds \cup {NoRow}
    /\ todo \subseteq RowIds
    /\ seen \in Nat
    /\ faults \in 0..MaxFaults
    /\ restarts \in 0..MaxRestarts

\* A row no worker has recorded anything on yet.
Untouched(i) ==
    /\ rows[i].status = "PENDING" /\ rows[i].retries = 0
    /\ ~rows[i].errors /\ ~rows[i].evidence

\* Identical submissions that race never both insert a batch: the untouched rows
\* of one payload all belong to one request (CreateManyIfNotInFlight's promise,
\* which rests on the advisory lock held from the check to the commit).
NoDoubleInsert ==
    \A i, j \in RowIds :
        Untouched(i) /\ Untouched(j) /\ rows[i].payload = rows[j].payload
            => rows[i].request = rows[j].request

\* handleVerificationFailure compares the retry_count of a copy read before the
\* provider was called, and still never spends more than max_retries.
RetryBudget == \A i \in RowIds : rows[i].retries <= MaxRetries

\* Whenever it is asked for, a decided credential's item says why: a failure shows its
\* errors, or in verbose mode the reply of a provider, also when the row was verified
\* before it was processed once more; a verbose success shows the reply.
ItemsExplained ==
    \A r \in RowIds, verbose \in BOOLEAN : \A item \in GetResults(r, verbose) :
        /\ item.status = "FAILED" => item.errors \/ item.response
        /\ item.status = "VERIFIED" /\ verbose => item.response

\* What pollPending has yet to process is still PENDING when its turn comes,
\* although the rows were read before the ones ahead of them were processed: only
\* ids from the channel can be stale.
SnapshotStillPending == \A i \in todo : rows[i].status = "PENDING"

\* A credential exists only for a request whose row carries the evidence of the
\* success, and the result a row reports always has something behind it.
EvidenceFirst ==
    \A i \in RowIds :
        /\ rows[i].issued > 0 => rows[i].evidence
        /\ rows[i].status = "VERIFIED" => rows[i].evidence
        /\ rows[i].status = "FAILED" => rows[i].errors

\* The VERIFIED rows without a credential, but for the one the worker is about to issue
\* (nothing in the code repairs such a row: it is not PENDING).
Unissued ==
    {i \in RowIds : /\ rows[i].status = "VERIFIED" /\ rows[i].issued = 0
                    /\ ~(wpc = "issue" /\ cur = i)}

\* Failed calls and stops.  A stopping process fails one credential at most, the one it
\* was about to issue: it counts from then on.
Breakdowns == faults + restarts + (IF mode = "stopping" /\ wpc # "issue" THEN 1 ELSE 0)

UnissuedCounted == Cardinality(Unissued) <= Breakdowns

\* A verified request is left without a credential only by a breakdown that comes
\* between handleVerificationSuccess's two writes, or in one of them, and each breakdown
\* leaves the row in the worker's hands so and no other: there are never more of them
\* than breakdowns, however often rows are verified, reopened and verified again.
UnissuedByBreakdown ==
    /\ []UnissuedCounted
    /\ [][\A i \in Unissued' \ Unissued :
            i = cur /\ wpc \in {"store", "issue"} /\ Breakdowns' > Breakdowns]_vars

OnChan(i) == {k \in DOMAIN chan : chan[k] = i}
ToSend(i) == {s \in Submissions : i \in outbox[s]}

\* The copies of an id on the channel and on their way to it.
Queued(i) == Cardinality(OnChan(i)) + Cardinality(ToSend(i))
Copies(i) == Queued(i) + (IF cur = i /\ wpc = "requeue" THEN 1 ELSE 0)

\* The channel never holds more copies of one id than its submission and its
\* recorded retries account for, plus one for each RecordRetry that failed.
CopiesAccounted == \A i \in RowIds : Copies(i) <= 1 + rows[i].retries + faults

\* An id that is both on the channel and in a poll's result is processed twice
\* and may be issued twice.  The excess is bounded: two credentials, and one more
\* for each retry.
CredentialsBounded == \A i \in RowIds : rows[i].issued <= 2 + rows[i].retries + faults

\* The credential of a success that was just stored.
Owed == IF wpc = "issue" THEN {cur} ELSE {}

Board == INSTANCE RequestBoard WITH board <- rows, owed <- Owed, breakdowns <- faults

\* To those who use it the pipeline is a board of requests: batches go up whole and one
\* at a time, and whatever the channel, the poll, the retries, the failures and the stops
\* do to an item is one of the things RequestBoard allows, when it allows it.
KeepsBoard == Board!Spec

\* Whatever is dropped by a full channel, failed or lost with the process, every
\* request is decided in the end, and no row is processed for ever.
EventuallySettled == <>[](AllPending = {} /\ chan = <<>> /\ cur = NoRow)

\* A submission that got as far as asking for the dedup lock is answered: no
\* handler keeps the lock, and a full channel does not block one.
EverySubmissionEnds ==
    \A s \in Submissions : spc[s] = "lock" ~> spc[s] \in {"done", "failed"}

\* "credential request failed permanently" (handleVerificationFailure's log, for
\* a row it has just set to FAILED).
FailedIsPermanent ==
    [][\A i \in RowIds : rows[i].status = "FAILED" => rows'[i].status = "FAILED"]_vars

\* What a submission is answered with is one batch, the one it inserted or "an
\* identical in-flight batch ... returned instead of inserting again" (the
\* dashboard's description of credential_submission_reused).
AnswerIsOneBatch ==
    \A s \in Submissions :
        spc[s] = "respond" =>
            \E r \in RowIds : reply[s] = {i \in RowIds : rows[i].request = r}

-----------------------------------------------------------------------------
(* The inductive invariant: the safety properties above, and what each       *)
(* handler and the worker know at each point.                                *)

\* The transaction of a submission that checked holds its key's lock.
LockHeld == \A s \in Submissions :
    spc[s] \in {"check", "insert"} => lock[payload[s]] = s

\* What the check found still holds of untouched rows when the insert runs; rows
\* that were touched may have been reopened by the worker in the meantime.
CheckNotStale == \A s \in Submissions :
    spc[s] = "insert" => \A i \in RowIds : rows[i].payload = payload[s] => ~Untouched(i)

WorkerInHand ==
    /\ wpc \in {"select", "off"} => cur = NoRow /\ todo = {}
    /\ wpc \notin {"select", "off"} => cur \in RowIds
    /\ cur \notin todo

OffWhenDown == mode = "down" => wpc = "off"

\* Only the worker writes retry_count, so its copy is current while it decides.
CopyCurrent ==
    /\ wpc = "verify" => seen = rows[cur].retries
    /\ wpc = "retry" => rows[cur].retries < MaxRetries

IssueBacked == wpc = "issue" => rows[cur].evidence

IInv ==
    /\ TypeOK
    /\ LockHeld /\ CheckNotStale /\ NoDoubleInsert
    /\ WorkerInHand /\ OffWhenDown /\ CopyCurrent /\ IssueBacked
    /\ RetryBudget /\ SnapshotStillPending /\ EvidenceFirst

=============================================================================
