---------------------------- MODULE Verification ----------------------------
(***************************************************************************)
(* What Process promises its callers (POST /verify and the worker): it     *)
(* calls at most N providers and comes to one ending, which is one of      *)
(* NotCalled exactly when it called none, and which it never takes back.   *)
(***************************************************************************)
EXTENDS Naturals, VerificationOutcome

CONSTANT N          \* the providers listed for the credential type

VARIABLES invoked, ending
vars == <<invoked, ending>>

Init == invoked = 0 /\ ending = Running

Invoke ==
    /\ ending = Running /\ invoked < N
    /\ invoked' = invoked + 1
    /\ UNCHANGED ending

Conclude ==
    /\ ending = Running
    /\ ending' \in IF invoked = 0 THEN NotCalled ELSE Replies
    /\ UNCHANGED invoked

\* It always comes to an ending.
Spec == Init /\ [][Invoke \/ Conclude]_vars /\ WF_vars(Invoke \/ Conclude)
=============================================================================
