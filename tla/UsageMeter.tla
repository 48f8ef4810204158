------------------------------ MODULE UsageMeter ------------------------------
(***************************************************************************)
(* What the limit on POST /verify promises a subscriber, without the       *)
(* table, the goroutines that write it and the answers: a meter on which a *)
(* call is granted while its subscriber has not used up the limit, and     *)
(* charged afterwards, once and only if it reached a provider, or never.   *)
(* A call that is refused stays so: it is not passed on, and not charged.  *)
(***************************************************************************)
EXTENDS Naturals

CONSTANTS Calls, Callers, Subscribers, Limit

VARIABLES
    caller,     \* who made each call
    stage,      \* how far each call got
    reached,    \* the calls that were passed on to a provider
    used,       \* what each caller has been charged for
    breakdowns  \* calls of the meter's own that failed so far

vars == <<caller, stage, reached, used, breakdowns>>

Init ==
    /\ caller \in [Calls -> Callers]
    /\ stage = [c \in Calls |-> "new"]
    /\ reached = {} /\ used = [x \in Callers |-> 0] /\ breakdowns = 0

\* Without a limit anyone is served; with one, who has a name and something left.
Within(x) == Limit > 0 => x \in Subscribers /\ used[x] < Limit

Moves(c, from, to) == stage[c] = from /\ stage' = [stage EXCEPT ![c] = to]
MayBreakDown == breakdowns' \in {breakdowns, breakdowns + 1}

Ask(c) ==
    /\ Moves(c, "new", "asked") \/ Moves(c, "new", "free")
    /\ \E x \in Callers : caller' = [caller EXCEPT ![c] = x]
    /\ UNCHANGED <<reached, used, breakdowns>>

Grant(c) ==
    /\ Moves(c, "asked", "open") /\ Within(caller[c])
    /\ UNCHANGED <<caller, reached, used, breakdowns>>

\* Nobody is refused who is within the limit, unless that could not be found out.
Refuse(c) ==
    /\ Limit > 0 /\ Moves(c, "asked", "refused")
    /\ \/ ~Within(caller[c]) /\ UNCHANGED breakdowns
       \/ breakdowns' = breakdowns + 1
    /\ UNCHANGED <<caller, reached, used>>

Reach(c) ==
    /\ stage[c] = "open" /\ reached' = reached \cup {c}
    /\ UNCHANGED <<caller, stage, used, breakdowns>>

Charge(c) ==
    /\ Moves(c, "open", "charged") /\ c \in reached
    /\ used' = [used EXCEPT ![caller[c]] = @ + 1]
    /\ UNCHANGED <<caller, reached, breakdowns>>

\* The call is over and costs nothing: it came to nothing, or its charge was lost.
Release(c) ==
    /\ Moves(c, "open", "free")
    /\ MayBreakDown /\ UNCHANGED <<caller, reached, used>>

\* The service stops: what was not charged yet never is.
Stop ==
    /\ stage' = [c \in Calls |-> IF stage[c] \in {"asked", "open"} THEN "free" ELSE stage[c]]
    /\ UNCHANGED <<caller, reached, used, breakdowns>>

Next ==
    \/ \E c \in Calls : Ask(c) \/ Grant(c) \/ Refuse(c) \/ Reach(c) \/ Charge(c) \/ Release(c)
    \/ Stop

Spec == Init /\ [][Next]_vars
=============================================================================
