--------------------------- MODULE VerifyEndpoint ---------------------------
(***************************************************************************)
(* POST /verify: the handler, the limiter that counts a subscriber's past  *)
(* calls before any provider is called, and the logger that writes one row *)
(* per call after the response has been sent, from a goroutine of its own. *)
(* Calls run concurrently and share nothing but the table, so the limiter  *)
(* works from rows that land late or, if the write fails or the process    *)
(* ends first, never.                                                      *)
(***************************************************************************)
EXTENDS Naturals, FiniteSets, VerificationOutcome

CONSTANTS
    Calls,        \* POST /verify calls; each is made at most once
    Subscribers,  \* subscriber_ids of the Authorization keyId
    Limit,        \* CREDENTIAL_SERVICE_VERIFY_LIMIT; 0 is no limit
    MaxFaults,    \* bound: database calls that fail
    MaxCrashes    \* bound: times the process ends under its calls

Anonymous == "no subscriber"      \* the header names no subscriber_id
None == "none"                    \* not answered yet
Callers == Subscribers \cup {Anonymous}

ASSUME AnonymousAssumption == Anonymous \notin Subscribers
ASSUME FinitenessAssumption == IsFiniteSet(Calls) /\ IsFiniteSet(Subscribers)
ASSUME LimitAssumption == Limit \in Nat /\ MaxFaults \in Nat /\ MaxCrashes \in Nat

VARIABLES
    pc,        \* where each call's handler is
    who,       \* ClaimedIdentity(c).SubscriberID
    answer,    \* the HTTP status sent to the caller
    entry,     \* the log entry the handler hands to the logger's goroutine
    table,     \* the /verify rows of credential_requests
    reached,   \* history: calls whose request reached a provider
    peak,      \* history: most calls a subscriber had in flight at an admission
    faults,
    crashes

vars == <<pc, who, answer, entry, table, reached, peak, faults, crashes>>

Row == [call : Calls, subscriber : Callers, verified : BOOLEAN, evidence : BOOLEAN]

\* CountVerifyVendorCallsBySubscriber: the rows with evidences.
Counted(x) == {r \in table : r.subscriber = x /\ r.evidence}

\* Admitted calls whose row may still land.
InFlight(x) == {c \in Calls : who[c] = x /\ pc[c] \in {"verify", "waiting", "record"}}

Init ==
    /\ pc = [c \in Calls |-> "new"]
    /\ who = [c \in Calls |-> Anonymous]
    /\ answer = [c \in Calls |-> None]
    /\ entry = [c \in Calls |-> None]
    /\ table = {}
    /\ reached = {}
    /\ peak = [x \in Callers |-> 0]
    /\ faults = 0
    /\ crashes = 0

Goto(c, l) == pc' = [pc EXCEPT ![c] = l]
Answer(c, status) == answer' = [answer EXCEPT ![c] = status]

\* Refused without a log row.
Refuse(c, status) ==
    /\ Answer(c, status) /\ Goto(c, "done")
    /\ UNCHANGED <<who, entry, table, reached, peak, crashes>>

\* BodyParser and Validate come before anything that costs or counts.
Receive(c) ==
    /\ pc[c] = "new"
    /\ \E x \in Callers : who' = [who EXCEPT ![c] = x]
    /\ \/ Goto(c, "check") /\ UNCHANGED answer
       \/ Goto(c, "done") /\ Answer(c, "400")
    /\ UNCHANGED <<entry, table, reached, peak, faults, crashes>>

\* Mutant of Admit: one call above the limit.
AdmitOneMore(c) ==
    /\ pc[c] = "check"
    /\ Limit > 0 => who[c] # Anonymous /\ Cardinality(Counted(who[c])) <= Limit
    /\ Goto(c, "verify")
    /\ peak' = [peak EXCEPT ![who[c]] =
                  IF @ > Cardinality(InFlight(who[c])) THEN @
                  ELSE Cardinality(InFlight(who[c])) + 1]
    /\ UNCHANGED <<who, answer, entry, table, reached, faults, crashes>>

\* Check lets the call through: nothing is reserved for it.
Admit(c) ==
    /\ pc[c] = "check"
    /\ Limit > 0 => who[c] # Anonymous /\ Cardinality(Counted(who[c])) < Limit
    /\ Goto(c, "verify")
    /\ peak' = [peak EXCEPT ![who[c]] =
                  IF @ > Cardinality(InFlight(who[c])) THEN @
                  ELSE Cardinality(InFlight(who[c])) + 1]
    /\ UNCHANGED <<who, answer, entry, table, reached, faults, crashes>>

RefuseAnonymous(c) ==
    /\ pc[c] = "check" /\ Limit > 0 /\ who[c] = Anonymous
    /\ Refuse(c, "401") /\ UNCHANGED faults

\* Mutant of RefuseExceeded: refused calls are logged like the others.
RefuseLogged(c) ==
    /\ pc[c] = "check" /\ Limit > 0 /\ who[c] # Anonymous
    /\ Cardinality(Counted(who[c])) >= Limit
    /\ Answer(c, "429") /\ Goto(c, "record")
    /\ entry' = [entry EXCEPT ![c] = "rejected"]
    /\ UNCHANGED <<who, table, reached, peak, faults, crashes>>

\* Mutant of RefuseExceeded: calls in flight are taken for calls that count.
RefuseReserving(c) ==
    /\ pc[c] = "check" /\ Limit > 0 /\ who[c] # Anonymous
    /\ Cardinality(Counted(who[c])) + Cardinality(InFlight(who[c])) >= Limit
    /\ Refuse(c, "429") /\ UNCHANGED faults

RefuseExceeded(c) ==
    /\ pc[c] = "check" /\ Limit > 0 /\ who[c] # Anonymous
    /\ Cardinality(Counted(who[c])) >= Limit
    /\ Refuse(c, "429") /\ UNCHANGED faults

CountFails(c) ==
    /\ pc[c] = "check" /\ Limit > 0 /\ who[c] # Anonymous
    /\ faults < MaxFaults /\ faults' = faults + 1
    /\ Refuse(c, "500")

\* Mutant of Unsupported: the call is handed to the logger, with no result.
UnsupportedLogged(c) ==
    /\ pc[c] = "verify"
    /\ Answer(c, "400") /\ Goto(c, "record")
    /\ UNCHANGED <<who, entry, table, reached, peak, faults, crashes>>

\* Resolve knows no such type: there is no enum row to log under either.
Unsupported(c) ==
    /\ pc[c] = "verify"
    /\ Refuse(c, "400") /\ UNCHANGED faults

\* Process ends before any provider: validateFn's refusal has no evidences and is
\* answered 400; a request that cannot be built is a Go error, answered 502.
NoProvider(c) ==
    /\ pc[c] = "verify"
    /\ \E r \in NotCalled :
        /\ entry' = [entry EXCEPT ![c] = r]
        /\ Answer(c, IF r = "rejected" THEN "400" ELSE "502")
    /\ Goto(c, "record")
    /\ UNCHANGED <<who, table, reached, peak, faults, crashes>>

\* Process invokes providers; a request that cannot be sent reaches none of them.
CallProvider(c) ==
    /\ pc[c] = "verify"
    /\ Goto(c, "waiting")
    /\ reached' \in {reached, reached \cup {c}}
    /\ UNCHANGED <<who, answer, entry, table, peak, faults, crashes>>

\* Without evidences the handler answers 400; a Go error is a 502, and so is a raw
\* body that is not JSON when ?verbose=true wants it embedded.
StatusOf(r) ==
    CASE r = "unanswered" -> {"400"}
      [] r = "unreadable" -> {"502"}
      [] r = "failed"     -> {"200"}
      [] r = "garbled"    -> {"200", "502"}
      [] r = "verified"   -> {"200"}

\* The reply, or the timeout; the response is written, then the entry is handed over.
Respond(c) ==
    /\ pc[c] = "waiting"
    /\ \E r \in Replies :
        /\ c \notin reached => r = "unanswered"
        /\ entry' = [entry EXCEPT ![c] = r]
        /\ \E status \in StatusOf(r) : Answer(c, status)
    /\ Goto(c, "record")
    /\ UNCHANGED <<who, table, reached, peak, faults, crashes>>

\* Mutant of Record: every result is stored with evidences, a refusal's too.
RecordEvidenceAlways(c) ==
    /\ pc[c] = "record"
    /\ Goto(c, "done")
    /\ table' = table \cup {[call       |-> c,
                             subscriber |-> who[c],
                             verified   |-> entry[c] = "verified",
                             evidence   |-> entry[c] \notin GoErrors]}
    /\ UNCHANGED <<who, answer, entry, reached, peak, faults, crashes>>

\* VerifyIdentityLogger.Record, in its own goroutine; evidences that cannot be
\* marshalled or a failed write are only logged, and leave no row.
Record(c) ==
    /\ pc[c] = "record"
    /\ Goto(c, "done")
    /\ \/ /\ Marshalled(entry[c])
          /\ table' = table \cup {[call       |-> c,
                                   subscriber |-> who[c],
                                   verified   |-> entry[c] = "verified",
                                   evidence   |-> Evidenced(entry[c])]}
          /\ UNCHANGED faults
       \/ ~Marshalled(entry[c]) /\ UNCHANGED <<table, faults>>
       \/ /\ faults < MaxFaults /\ faults' = faults + 1
          /\ UNCHANGED table
    /\ UNCHANGED <<who, answer, entry, reached, peak, crashes>>

\* The process ends and is started again: Shutdown waits for connections, not for
\* the logger's goroutines.
Crash ==
    /\ crashes < MaxCrashes
    /\ crashes' = crashes + 1
    /\ pc' = [c \in Calls |-> IF pc[c] \in {"new", "done"} THEN pc[c] ELSE "lost"]
    /\ UNCHANGED <<who, answer, entry, table, reached, peak, faults>>

Handle(c) ==
    \/ Admit(c) \/ RefuseAnonymous(c) \/ RefuseExceeded(c) \/ CountFails(c)
    \/ Unsupported(c) \/ NoProvider(c) \/ CallProvider(c) \/ Respond(c) \/ Record(c)

\* All calls made and handled is the end of a behaviour.
Finished == (\A c \in Calls : pc[c] \in {"done", "lost"}) /\ UNCHANGED vars

Next == (\E c \in Calls : Receive(c) \/ Handle(c)) \/ Crash \/ Finished

Spec == Init /\ [][Next]_vars

-----------------------------------------------------------------------------
(* What must hold.                                                           *)

TypeOK ==
    /\ pc \in [Calls -> {"new", "check", "verify", "waiting", "record", "done", "lost"}]
    /\ who \in [Calls -> Callers]
    /\ answer \in [Calls -> {None, "200", "400", "401", "429", "500", "502"}]
    /\ entry \in [Calls -> {None} \cup NotCalled \cup Replies]
    /\ \A c \in Calls : pc[c] = "record" => entry[c] \in NotCalled \cup Replies
    /\ table \subseteq Row
    /\ reached \subseteq Calls
    /\ peak \in [Callers -> Nat]
    /\ faults \in 0..MaxFaults
    /\ crashes \in 0..MaxCrashes

\* The cap is overshot by at most the number in flight: what is counted against a
\* subscriber, and what may still be, stays within the limit plus the other calls
\* it had in flight when one was let through (VerifyLimiter's comment); a
\* subscriber that waits for each row to land never exceeds the limit.
OvershootWithinInFlight ==
    \A x \in Subscribers :
        Limit > 0 /\ peak[x] > 0
            => Cardinality(Counted(x)) + Cardinality(InFlight(x)) <= Limit + peak[x] - 1

\* Only calls that reached the verification source count, against the subscriber
\* that made them and once; 400 responses do not (README, "Stop on 429").
ChargedOnlyIfReached ==
    \A r \in table :
        /\ r.subscriber = who[r.call]
        /\ r.evidence => r.call \in reached /\ answer[r.call] = "200"
        /\ \A q \in table : q.call = r.call => q = r

\* The limit is used up for good: after a 429 no later call of that subscriber is
\* let through, whatever other subscribers do and whatever rows are lost.
ExhaustedForGood ==
    [][\A c, d \in Calls :
         pc[c] = "check" /\ pc'[c] = "verify" /\ answer[d] = "429" => who[d] # who[c]]_vars

Refusals == {"401", "429", "500"}

\* The calls a row counts against their callers.
Charged == {c \in Calls : \E r \in table : r.call = c /\ r.evidence}

\* How far a call got, to its caller.
Stage(c) ==
    IF c \in Charged THEN "charged"
    ELSE IF answer[c] \in Refusals THEN "refused"
    ELSE IF pc[c] = "new" THEN "new"
    ELSE IF pc[c] = "check" THEN "asked"
    ELSE IF pc[c] \in {"verify", "waiting", "record"} THEN "open"
    ELSE "free"

Stages == [c \in Calls |-> Stage(c)]
Used == [x \in Callers |-> Cardinality(Counted(x))]

Meter == INSTANCE UsageMeter
    WITH caller <- who, stage <- Stages, used <- Used, breakdowns <- faults

\* To its callers the endpoint is a meter: rows that land late, in any order or never,
\* counts that fail and restarts grant, refuse and charge nothing that UsageMeter does
\* not; above all, a call is refused only when its subscriber's rows have used up the
\* limit, and after that none is granted.
KeepsMeter == Meter!Spec

\* A refused request costs nothing: it reaches no provider and leaves no row.
RefusedCostNothing ==
    \A c \in Calls :
        answer[c] \in {"401", "429", "500"}
            => c \notin reached /\ \A r \in table : r.call # c

\* "No evidences means validateFn rejected the input before any provider call", so
\* it is answered 400 (VerifyIdentity's comment).
BadRequestNeverReached == \A c \in Calls : answer[c] = "400" => c \notin reached

\* A call answered 200 leaves its row once the logger has run, if the database did
\* not fail it ("VerifyIdentityLogger persists one credential_requests row per /verify
\* call"; a provider replied, so the limit counts it).
EveryAnsweredCallLogged ==
    \A c \in Calls :
        pc[c] = "done" /\ answer[c] = "200" /\ faults = 0 => \E r \in table : r.call = c

-----------------------------------------------------------------------------
(* The inductive invariant: what is known of a call at each point, of a row  *)
(* that has landed, and of a limit that was found exhausted.                 *)

CallsInOrder ==
    \A c \in Calls :
        /\ pc[c] \in {"new", "check", "verify", "waiting"} => answer[c] = None
        /\ pc[c] \in {"new", "check", "verify"} => c \notin reached
        /\ c \in reached => answer[c] \notin Refusals

EntriesBacked ==
    \A c \in Calls : pc[c] = "record" =>
        /\ answer[c] \notin Refusals
        /\ Evidenced(entry[c]) /\ Marshalled(entry[c]) => c \in reached /\ answer[c] = "200"

RowsBacked ==
    \A r \in table :
        pc[r.call] = "done" /\ answer[r.call] \notin Refusals

LimitReached ==
    \A c \in Calls : answer[c] = "429" => Limit > 0 /\ Cardinality(Counted(who[c])) >= Limit

IInv ==
    /\ TypeOK /\ IsFiniteSet(table)
    /\ CallsInOrder /\ EntriesBacked /\ RowsBacked /\ LimitReached
    /\ ChargedOnlyIfReached /\ RefusedCostNothing

=============================================================================
