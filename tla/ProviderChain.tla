--------------------------- MODULE ProviderChain ---------------------------
(***************************************************************************)
(* ConfigVerifier.Process: one verification, which tries the credential    *)
(* type's providers in the order its YAML lists them.                      *)
(***************************************************************************)
EXTENDS Naturals, Sequences, VerificationOutcome

CONSTANTS
    N,              \* the providers of the type; the loader demands one
    Nil             \* the nil *VerificationResult

VARIABLES
    at,       \* "validate", "build", "loop", "await" or "returned"
    heard,    \* what each provider invoked so far came to, in order
    invoked,  \* the number of providers invoked
    last,     \* lastResult
    result    \* what Process returned

vars == <<at, heard, invoked, last, result>>

\* What one invocation comes to.
Fallible == {"transport_error", "http_error", "soft_failure"}
Outcomes == Fallible \cup {"parse_error", "success"}

\* What Evidences hold: nothing, a body that is JSON, a body that is not; and the
\* provider whose reply that body is (0 for none).
Bodies == {"none", "json", "raw"}
Evidence == [of : Nat, body : Bodies]
NoEvidence == [of |-> 0, body |-> "none"]

\* VerificationResult: Provider (0 for none) and Evidences; or a Go error, which
\* carries neither.
Result == [error : BOOLEAN, success : BOOLEAN, provider : Nat, evidence : Evidence]

ASSUME ProvidersAssumption == N \in Nat \ {0}
ASSUME NilAssumption == Nil \notin Result

Failure(provider, evidence) ==
    [error |-> FALSE, success |-> FALSE, provider |-> provider, evidence |-> evidence]
Success(provider, evidence) ==
    [error |-> FALSE, success |-> TRUE, provider |-> provider, evidence |-> evidence]
GoError == [error |-> TRUE, success |-> FALSE, provider |-> 0, evidence |-> NoEvidence]

Init ==
    /\ at = "validate"
    /\ heard = <<>>
    /\ invoked = 0
    /\ last = Nil
    /\ result = Nil

Return(r) == at' = "returned" /\ result' = r

\* Mutant of Validate: a refused input is returned with evidences.
ValidateWithEvidence ==
    /\ at = "validate"
    /\ \/ Return(Failure(0, [of |-> 0, body |-> "json"]))
       \/ at' = "build" /\ UNCHANGED result
    /\ UNCHANGED <<heard, invoked, last>>

Validate ==
    /\ at = "validate"
    /\ \/ Return(Failure(0, NoEvidence))
       \/ at' = "build" /\ UNCHANGED result
    /\ UNCHANGED <<heard, invoked, last>>

\* buildRequestFn and the marshalling of its payload.
Build ==
    /\ at = "build"
    /\ \/ Return(GoError)
       \/ at' = "loop" /\ UNCHANGED result
    /\ UNCHANGED <<heard, invoked, last>>

\* Mutant of Invoke: one provider too many.
InvokeOneMore ==
    /\ at = "loop" /\ invoked <= N
    /\ at' = "await"
    /\ invoked' = invoked + 1
    /\ UNCHANGED <<heard, last, result>>

Invoke ==
    /\ at = "loop" /\ invoked < N
    /\ at' = "await"
    /\ invoked' = invoked + 1
    /\ UNCHANGED <<heard, last, result>>

Hear(o) == at = "await" /\ heard' = Append(heard, o) /\ UNCHANGED invoked

\* evidences: the reply just heard, from the provider that was invoked last.
Heard(body) == [of |-> invoked, body |-> body]

\* continue: the next provider is tried, and this failure is remembered.
FallBack(failure) == at' = "loop" /\ last' = failure /\ UNCHANGED result

TransportError ==
    Hear("transport_error") /\ FallBack(Failure(invoked, NoEvidence))

\* Mutant of HTTPError: evidences that are there already are kept.
HTTPErrorKeepingEvidence ==
    \E body \in {"json", "raw"} :
        /\ Hear("http_error")
        /\ FallBack(Failure(invoked, IF last # Nil /\ last.evidence # NoEvidence
                                     THEN last.evidence ELSE Heard(body)))

\* The body of an error status is kept as it came, JSON or not.
HTTPError ==
    \E body \in {"json", "raw"} :
        Hear("http_error") /\ FallBack(Failure(invoked, Heard(body)))

\* Mutant of SoftFailure: it ends the chain.
SoftFailureReturned ==
    Hear("soft_failure") /\ Return(Failure(invoked, Heard("json"))) /\ UNCHANGED last

SoftFailure ==
    Hear("soft_failure") /\ FallBack(Failure(invoked, Heard("json")))

\* Not fallback-eligible: the error surfaces at once.
ParseError ==
    Hear("parse_error") /\ Return(GoError) /\ UNCHANGED last

Verified ==
    Hear("success") /\ Return(Success(invoked, Heard("json"))) /\ UNCHANGED last

\* Every provider failed: the last attempt's failure is the result.
Exhausted ==
    /\ at = "loop" /\ invoked = N
    /\ Return(last)
    /\ UNCHANGED <<heard, invoked, last>>

Step ==
    \/ Validate \/ Build \/ Invoke
    \/ TransportError \/ HTTPError \/ SoftFailure \/ ParseError \/ Verified
    \/ Exhausted

Finished == at = "returned" /\ UNCHANGED vars

Next == Step \/ Finished

\* Every provider call returns: its HTTP client has a timeout.
Spec == Init /\ [][Next]_vars /\ WF_vars(Step)

-----------------------------------------------------------------------------
TypeOK ==
    /\ at \in {"validate", "build", "loop", "await", "returned"}
    /\ heard \in Seq(Outcomes)
    /\ invoked \in 0..N
    /\ last \in Result \cup {Nil}
    /\ result \in Result \cup {Nil}

Final == heard[Len(heard)]

\* Providers are tried in order and the first success wins (README); a transport
\* error, a status >= 400 and a soft failure advance to the next provider, the
\* last failure is what a failed chain reports, and an unreadable reply is a Go
\* error at once, whoever is left (Process's comment).
FirstSuccessWins ==
    at = "returned" /\ invoked > 0 =>
        /\ Len(heard) = invoked
        /\ \A k \in 1..(Len(heard) - 1) : heard[k] \in Fallible
        /\ result.success <=> Final = "success"
        /\ result.error <=> Final = "parse_error"
        /\ ~result.error => result.provider = Len(heard)
        /\ Final \in Fallible => Len(heard) = N

\* The result carries evidences exactly when the last provider invoked replied with an
\* error status or something that was parsed, and they are that provider's reply: none
\* of what the providers before it replied is kept, although the result of each of them
\* was in lastResult, and only an error status leaves a body that is not JSON.
EvidenceOfLastOnly ==
    at = "returned" =>
        LET kept == result.evidence # NoEvidence IN
        /\ kept <=> invoked > 0 /\ Final \notin {"transport_error", "parse_error"}
        /\ kept => result.evidence.of = Len(heard) /\ result.evidence.body # "none"
        /\ result.evidence.body = "raw" => Final = "http_error"

\* How Process ended, as its callers see it.
Ending ==
    IF at # "returned" THEN Running
    ELSE IF result.error THEN (IF invoked = 0 THEN "unbuilt" ELSE "unreadable")
    ELSE IF result.success THEN "verified"
    ELSE IF result.evidence.body = "json" THEN "failed"
    ELSE IF result.evidence.body = "raw" THEN "garbled"
    ELSE IF result.provider # 0 THEN "unanswered" ELSE "rejected"

Promise == INSTANCE Verification WITH ending <- Ending

\* Process keeps the promise its callers are modelled on.
KeepsPromise == Promise!Spec

=============================================================================
