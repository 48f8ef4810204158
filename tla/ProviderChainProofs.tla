------------------------ MODULE ProviderChainProofs ------------------------
(* TLAPS proofs about ProviderChain, for a chain of any length.              *)
EXTENDS ProviderChain, TLAPS

\* What a provider's failure leaves: nothing of a provider that did not reply, and the
\* reply of one that did.
EvidenceAfter(outcome, provider, evidence) ==
    /\ evidence \in Evidence
    /\ IF outcome = "transport_error" THEN evidence = NoEvidence
       ELSE evidence.of = provider /\ evidence.body # "none"
    /\ evidence.body = "raw" => outcome = "http_error"

\* r reports the latest failure heard.
LatestFailure(r) == \E evidence \in Evidence :
    /\ r = Failure(Len(heard), evidence)
    /\ EvidenceAfter(Final, Len(heard), evidence)

\* What Process knows at each point: every provider invoked has been heard, but
\* the one it waits for; whoever is behind it failed; last is the latest failure.
IInv ==
    /\ TypeOK
    /\ at \in {"validate", "build"} => invoked = 0
    /\ at = "await" => invoked = Len(heard) + 1
    /\ at # "await" => invoked = Len(heard)
    /\ at # "returned" => /\ \A k \in 1..Len(heard) : heard[k] \in Fallible
                          /\ result = Nil
    /\ Len(heard) > 0 /\ at \in {"loop", "await"} => LatestFailure(last)
    /\ at = "returned" =>
          /\ result \in Result
          /\ invoked = 0 => result.evidence = NoEvidence /\ ~result.success /\ result.provider = 0
    /\ FirstSuccessWins /\ EvidenceOfLastOnly

LEMMA ResultTypes ==
    /\ NoEvidence \in Evidence
    /\ \A k \in Nat, e \in Evidence : Failure(k, e) \in Result /\ Success(k, e) \in Result
    /\ GoError \in Result
BY DEF Failure, Success, GoError, Result, Evidence, NoEvidence, Bodies

\* An outcome heard is appended to the ones before it.
LEMMA HearEffect ==
    ASSUME TypeOK, NEW o \in Outcomes, Hear(o)
    PROVE  /\ heard' \in Seq(Outcomes)
           /\ Len(heard') = Len(heard) + 1
           /\ Final' = o
           /\ \A k \in 1..Len(heard) : heard'[k] = heard[k]
BY DEF TypeOK, Hear, Final

LEMMA IInvInit == Init => IInv
BY ProvidersAssumption
DEF Init, IInv, TypeOK, FirstSuccessWins, EvidenceOfLastOnly

\* A failed provider: the chain goes on, and the failure is remembered.
LEMMA FallBackKeepsIInv ==
    ASSUME IInv, TransportError \/ HTTPError \/ SoftFailure
    PROVE  IInv'
<1>0. TypeOK /\ invoked \in Nat
  BY DEF IInv, TypeOK
<1>1. PICK o \in Fallible, evidence \in Evidence :
        /\ Hear(o)
        /\ FallBack(Failure(invoked, evidence))
        /\ EvidenceAfter(o, invoked, evidence)
  <2>1. \A body \in {"json", "raw"} :
          Heard(body) \in Evidence /\ Heard(body).of = invoked /\ Heard(body).body = body
    BY <1>0 DEF Heard, Evidence, Bodies
  <2>2. CASE TransportError
    BY <2>2, ResultTypes DEF TransportError, Fallible, EvidenceAfter, NoEvidence
  <2>3. CASE HTTPError
    <3>1. PICK body \in {"json", "raw"} :
            Hear("http_error") /\ FallBack(Failure(invoked, Heard(body)))
      BY <2>3 DEF HTTPError
    <3>2. EvidenceAfter("http_error", invoked, Heard(body))
      BY <2>1 DEF EvidenceAfter
    <3> QED
      BY <2>1, <3>1, <3>2 DEF Fallible
  <2>4. CASE SoftFailure
    <3>1. EvidenceAfter("soft_failure", invoked, Heard("json"))
      BY <2>1 DEF EvidenceAfter
    <3> QED
      BY <2>1, <2>4, <3>1 DEF SoftFailure, Fallible
  <2> QED
    BY <2>2, <2>3, <2>4
<1>2. o \in Outcomes
  BY DEF Outcomes
<1>3. /\ heard' \in Seq(Outcomes)
      /\ Len(heard') = Len(heard) + 1
      /\ Final' = o
      /\ \A k \in 1..Len(heard) : heard'[k] = heard[k]
  BY <1>0, <1>1, <1>2, HearEffect
<1>4. /\ at = "await" /\ at' = "loop" /\ invoked' = invoked
      /\ last' = Failure(invoked, evidence) /\ result' = result
  BY <1>1 DEF Hear, FallBack
<1>5. invoked = Len(heard) + 1 /\ result = Nil
      /\ \A k \in 1..Len(heard) : heard[k] \in Fallible
  BY <1>4 DEF IInv
<1>6. TypeOK'
  BY <1>0, <1>1, <1>3, <1>4, ResultTypes DEF TypeOK
<1>7. Len(heard) \in Nat
  BY DEF IInv, TypeOK
<1>8. \A k \in 1..Len(heard') : heard'[k] \in Fallible
  BY <1>1, <1>3, <1>5, <1>7 DEF Final
<1>9. LatestFailure(last)'
  BY <1>1, <1>3, <1>4, <1>5 DEF LatestFailure
<1> QED
  BY <1>3, <1>4, <1>5, <1>6, <1>7, <1>8, <1>9 DEF IInv, FirstSuccessWins, EvidenceOfLastOnly

\* An unreadable reply or a success ends the chain at once.
LEMMA ReplyEndsKeepsIInv ==
    ASSUME IInv, ParseError \/ Verified
    PROVE  IInv'
<1>1. PICK o \in {"parse_error", "success"} :
        /\ Hear(o)
        /\ Return(IF o = "success" THEN Success(invoked, Heard("json")) ELSE GoError)
        /\ last' = last
  BY DEF ParseError, Verified
<1>2. o \in Outcomes /\ TypeOK /\ invoked \in Nat /\ Len(heard) \in Nat
  BY DEF Outcomes, IInv, TypeOK
<1>3. /\ heard' \in Seq(Outcomes)
      /\ Len(heard') = Len(heard) + 1
      /\ Final' = o
      /\ \A k \in 1..Len(heard) : heard'[k] = heard[k]
  BY <1>1, <1>2, HearEffect
<1>4. /\ at = "await" /\ at' = "returned" /\ invoked' = invoked
      /\ result' = IF o = "success" THEN Success(invoked, Heard("json")) ELSE GoError
  BY <1>1 DEF Hear, Return
<1>5. invoked = Len(heard) + 1 /\ \A k \in 1..Len(heard) : heard[k] \in Fallible
  BY <1>4 DEF IInv
<1>6. result' \in Result
  <2>1. Heard("json") \in Evidence
    BY <1>2 DEF Heard, Evidence, Bodies
  <2> QED
    BY <1>2, <1>4, <2>1, ResultTypes
<1>7. TypeOK'
  BY <1>1, <1>2, <1>3, <1>4, <1>6 DEF TypeOK
<1>8. \A k \in 1..(Len(heard') - 1) : heard'[k] \in Fallible
  BY <1>2, <1>3, <1>5
<1>9. /\ result'.success <=> o = "success"
      /\ result'.error <=> o = "parse_error"
      /\ result'.evidence = (IF o = "success" THEN Heard("json") ELSE NoEvidence)
      /\ o = "success" => result'.provider = invoked
  BY <1>4 DEF Success, GoError, Heard
<1>10. FirstSuccessWins'
  BY <1>1, <1>2, <1>3, <1>4, <1>5, <1>8, <1>9 DEF FirstSuccessWins, Fallible
<1>11. EvidenceOfLastOnly'
  BY <1>1, <1>2, <1>3, <1>4, <1>5, <1>9 DEF EvidenceOfLastOnly, Heard, NoEvidence
<1> QED
  BY <1>2, <1>3, <1>4, <1>5, <1>6, <1>7, <1>10, <1>11 DEF IInv

\* The last failure is returned when no provider is left.
LEMMA ExhaustedKeepsIInv ==
    ASSUME IInv, Exhausted
    PROVE  IInv'
<1>1. /\ at = "loop" /\ invoked = N /\ at' = "returned" /\ result' = last
      /\ heard' = heard /\ invoked' = invoked /\ last' = last
  BY DEF Exhausted, Return
<1>2. TypeOK /\ Len(heard) = N /\ N \in Nat \ {0}
      /\ \A k \in 1..Len(heard) : heard[k] \in Fallible
  BY <1>1, ProvidersAssumption DEF IInv
<1>3. PICK evidence \in Evidence :
        last = Failure(N, evidence) /\ EvidenceAfter(Final, N, evidence)
  BY <1>1, <1>2 DEF IInv, LatestFailure
<1>4. last \in Result
  BY <1>2, <1>3, ResultTypes
<1>5. /\ ~result'.success /\ ~result'.error /\ result'.provider = N
      /\ EvidenceAfter(Final, N, result'.evidence)
  BY <1>1, <1>3 DEF Failure
<1>6. Final \in Fallible /\ Final' = Final
  BY <1>1, <1>2 DEF Final
<1> QED
  BY <1>1, <1>2, <1>4, <1>5, <1>6
  DEF IInv, TypeOK, FirstSuccessWins, EvidenceOfLastOnly, EvidenceAfter, NoEvidence, Fallible

\* Before a provider is called, Process goes on or ends without one.
LEMMA EarlyEndKeepsIInv ==
    ASSUME IInv, Validate \/ Build
    PROVE  IInv'
<1>1. PICK r \in {Failure(0, NoEvidence), GoError} : at' = "returned" => result' = r
  <2>1. CASE Validate
    BY <2>1 DEF Validate, Return
  <2>2. CASE Build
    BY <2>2 DEF Build, Return
  <2> QED
    BY <2>1, <2>2
<1>2. r \in Result /\ r.evidence = NoEvidence /\ ~r.success /\ r.provider = 0
  <2>1. r \in Result
    BY ResultTypes
  <2>2. r = Failure(0, NoEvidence) => r.evidence = NoEvidence /\ ~r.success /\ r.provider = 0
    BY DEF Failure
  <2>3. r = GoError => r.evidence = NoEvidence /\ ~r.success /\ r.provider = 0
    BY DEF GoError
  <2> QED
    BY <2>1, <2>2, <2>3
<1>3. /\ at' \in {"returned", "build", "loop"}
      /\ at' # "returned" => result' = result
      /\ heard' = heard /\ invoked' = invoked /\ last' = last
      /\ invoked = 0 /\ Len(heard) = 0 /\ result = Nil /\ TypeOK
  BY DEF Validate, Build, Return, IInv
<1>4. TypeOK'
  BY <1>1, <1>2, <1>3 DEF TypeOK
<1>5. FirstSuccessWins' /\ EvidenceOfLastOnly'
  BY <1>1, <1>2, <1>3 DEF FirstSuccessWins, EvidenceOfLastOnly, NoEvidence
<1>6. at' = "returned" => /\ result' \in Result
                          /\ result'.evidence = NoEvidence /\ ~result'.success /\ result'.provider = 0
  BY <1>1, <1>2
<1> QED
  BY <1>3, <1>4, <1>5, <1>6 DEF IInv

LEMMA IInvStep == IInv /\ [Next]_vars => IInv'
<1> SUFFICES ASSUME IInv, [Next]_vars PROVE IInv'
  OBVIOUS
<1>1. CASE Invoke
  BY <1>1, ProvidersAssumption
  DEF Invoke, IInv, TypeOK, FirstSuccessWins, EvidenceOfLastOnly, LatestFailure, Final
<1>2. CASE UNCHANGED vars
  BY <1>2 DEF vars, IInv, TypeOK, FirstSuccessWins, EvidenceOfLastOnly, LatestFailure, Final
<1> QED
  BY <1>1, <1>2, EarlyEndKeepsIInv, FallBackKeepsIInv, ReplyEndsKeepsIInv, ExhaustedKeepsIInv
  DEF Next, Step, Finished

THEOREM Invariance == Spec => []IInv
BY IInvInit, IInvStep, PTL DEF Spec

\* For a chain of any length: the first success wins, the last failure is what a
\* failed chain reports, and an unreadable reply stops it.
THEOREM FirstSuccessWinsHolds == Spec => []FirstSuccessWins
<1>1. IInv => FirstSuccessWins
  BY DEF IInv
<1> QED
  BY <1>1, Invariance, PTL

\* For a chain of any length: the evidences returned are the reply of the last provider
\* that was invoked, whatever the ones before it replied, and there are none exactly
\* when it did not reply or its reply could not be parsed (Process's loop).
THEOREM EvidenceOfLastOnlyHolds == Spec => []EvidenceOfLastOnly
<1>1. IInv => EvidenceOfLastOnly
  BY DEF IInv
<1> QED
  BY <1>1, Invariance, PTL

-----------------------------------------------------------------------------
(* Refinement, the safety part of KeepsPromise: initial states map to        *)
(* initial states and steps to steps or stutters.                            *)

\* Process starts as the promise does.
LEMMA PromiseInit == Init => Promise!Init
BY DEF Init, Promise!Init, Ending, Running, Promise!Running

\* Every step of Process is a step its callers were promised, or none.
LEMMA PromiseStep ==
    IInv /\ IInv' /\ [Next]_vars => [Promise!Invoke \/ Promise!Conclude]_Promise!vars
<1> SUFFICES ASSUME IInv, IInv', [Next]_vars
             PROVE  (Promise!Invoke \/ Promise!Conclude) \/ UNCHANGED Promise!vars
  OBVIOUS
<1>1. CASE UNCHANGED vars
  <2>1. Ending' = Ending /\ invoked' = invoked
    BY <1>1 DEF vars, Ending
  <2> QED
    BY <2>1 DEF Promise!vars
<1>2. CASE Invoke
  BY <1>2 DEF Invoke, Promise!Invoke, Ending, Running, Promise!Running
<1>3. CASE at # "returned" /\ at' # "returned" /\ invoked' = invoked
  BY <1>3 DEF Promise!vars, Ending
<1>4. CASE at # "returned" /\ at' = "returned" /\ invoked' = invoked
  <2>1. Ending = Running
    BY <1>4 DEF Ending
  <2>2. CASE invoked = 0
    <3>1. ~result'.success /\ result'.evidence = NoEvidence /\ result'.provider = 0
      BY <1>4, <2>2 DEF IInv
    <3>2. Ending' \in NotCalled
      BY <1>4, <2>2, <3>1 DEF Ending, NotCalled, NoEvidence
    <3> QED
      BY <1>4, <2>1, <2>2, <3>2 DEF Promise!Conclude, Running, Promise!Running, NotCalled, Promise!NotCalled
  <2>3. CASE invoked # 0
    <3>1. invoked' \in Nat /\ invoked' > 0
      BY <1>4, <2>3 DEF IInv, TypeOK
    <3>2. ~result'.error => result'.provider # 0
      BY <1>4, <3>1 DEF IInv, FirstSuccessWins
    <3>3. Ending' \in Replies
      BY <1>4, <3>1, <3>2 DEF Ending, Replies
    <3> QED
      BY <1>4, <2>1, <2>3, <3>3 DEF Promise!Conclude, Running, Promise!Running, Replies, Promise!Replies
  <2> QED
    BY <2>2, <2>3
<1>5. CASE Step /\ ~Invoke
  <2>1. at # "returned" /\ invoked' = invoked
    BY <1>5 DEF Step, Validate, Build, TransportError, HTTPError, SoftFailure, ParseError,
                Verified, Exhausted, Hear
  <2> QED
    BY <1>3, <1>4, <2>1
<1> QED
  BY <1>1, <1>2, <1>5 DEF Next, Finished

\* Process refines what its callers are modelled on (its termination, which is
\* liveness, is model-checked as part of KeepsPromise).
THEOREM KeepsPromiseSafety ==
    Spec => Promise!Init /\ [][Promise!Invoke \/ Promise!Conclude]_Promise!vars
BY Invariance, PromiseInit, PromiseStep, PTL DEF Spec

=============================================================================
