------------------------- MODULE CredentialAttempts -------------------------
(***************************************************************************)
(* CredentialPipeline with a history variable: how often the worker has    *)
(* started to verify each row, that is, how often                          *)
(* ProcessCredentialRequest called VerifyIdentity with it, which calls the *)
(* providers of its type, each at most once (ProviderChain).  Nothing else *)
(* is added: every behaviour of the pipeline is counted, and no other.     *)
(***************************************************************************)
EXTENDS CredentialPipeline

VARIABLE attempts   \* history: verifications started for each row

\* FindByID gave the worker its copy of the row, and VerifyIdentity is next.
Attempted(i) == cur = i /\ wpc = "find" /\ wpc' = "verify"

CountAttempts ==
    attempts' = [i \in RowIds' |-> (IF i \in RowIds THEN attempts[i] ELSE 0)
                                    + (IF Attempted(i) THEN 1 ELSE 0)]

CountedSpec ==
    /\ Init /\ attempts = <<>>
    /\ [][Next /\ CountAttempts]_<<vars, attempts>>

\* Under the fairness of the pipeline, which counting does not touch.
FairCountedSpec == CountedSpec /\ Fairness

-----------------------------------------------------------------------------
(* What must hold.                                                           *)

\* What retries, failed calls and restarts may have added, on top of a verification from
\* the channel and one from the poll.
Allowed(i) ==
    2 * rows[i].retries + 2 * faults + (IF restarts = 0 THEN 2 ELSE 1 + restarts)

\* max_retries bounds the retries that are recorded, not the verifications: an id is on
\* the channel and its row in the table, so each retry can lead to two more of them, and
\* so can each failed call; each restart but the first can lead to one.  There are no
\* more, however the channel, the poll, the failures and the restarts follow each other.
AttemptsBounded == \A i \in RowIds : attempts[i] <= Allowed(i)

-----------------------------------------------------------------------------
(* The inductive invariant.                                                  *)

\* The worker has the row in hand and has started to verify it.
Underway(i) == cur = i /\ wpc # "find"

\* The verifications a row may come to without another retry, failure or restart.  One
\* that is to be reopened comes to two; a stopping process starts none.
Coming(i) ==
    IF Underway(i) THEN (IF wpc \in {"reopen", "requeue"} THEN 2 ELSE 0)
                   ELSE (IF cur = i \/ rows[i].status = "PENDING" THEN 1 ELSE 0)

Ahead(i) == IF mode = "stopping" THEN 0 ELSE Queued(i) + Coming(i)

\* Before the first restart, a PENDING row was not verified since its last retry or
\* failure, unless it is now, or the process stopped while it was.
PendingUntried(i) ==
    restarts = 0 /\ rows[i].status = "PENDING" =>
        attempts[i] <= 2 * rows[i].retries + 2 * faults
                         + (IF Underway(i) \/ mode = "stopping" THEN 1 ELSE 0)

AttemptInv ==
    /\ attempts \in [RowIds -> Nat]
    /\ \A i \in RowIds : attempts[i] + Ahead(i) <= Allowed(i) /\ PendingUntried(i)
=============================================================================
