---------------------------- MODULE RequestBoard ----------------------------
(***************************************************************************)
(* What POST and GET /credential promise to those who use them, without    *)
(* the lock, the channel, the poll and the process behind them: a board of *)
(* items, put up one batch at a time, each of which is decided, perhaps    *)
(* after counted retries and perhaps again, and may lead to credentials.   *)
(* An item is a row of credential_requests as CredentialPipeline has it.   *)
(* A call that breaks down may have had its effect all the same.           *)
(***************************************************************************)
EXTENDS Naturals, Sequences

CONSTANTS Payloads, BatchSize, MaxRetries

VARIABLES
    board,      \* the items, in the order in which they were put up
    owed,       \* the item whose success is known and whose credential is next
    breakdowns  \* calls that failed so far

vars == <<board, owed, breakdowns>>

Items == DOMAIN board

Init == board = <<>> /\ owed = {} /\ breakdowns = 0

\* Nothing has been recorded on the item yet.
Untouched(i) ==
    /\ board[i].status = "PENDING" /\ board[i].retries = 0
    /\ ~board[i].errors /\ ~board[i].evidence

Batch(p, first) ==
    [k \in 1..BatchSize[p] |->
        [request |-> first, payload |-> p, status |-> "PENDING", retries |-> 0,
         errors |-> FALSE, evidence |-> FALSE, issued |-> 0]]

MayBreakDown == breakdowns' \in {breakdowns, breakdowns + 1}
Becomes(i, item) == board' = [board EXCEPT ![i] = item]

\* A batch goes up whole, and not next to an identical one that nobody has worked on.
Post(p) ==
    /\ \A i \in Items : board[i].payload = p => ~Untouched(i)
    /\ board' = board \o Batch(p, Len(board) + 1)
    /\ MayBreakDown /\ UNCHANGED owed

\* An item is verified, with the evidence; its credential is next, unless the call broke down.
Succeed(i) ==
    /\ owed = {}
    /\ Becomes(i, [board[i] EXCEPT !.status = "VERIFIED", !.evidence = TRUE])
    /\ \/ owed' = {i} /\ UNCHANGED breakdowns
       \/ owed' = {} /\ breakdowns' = breakdowns + 1

\* A credential, for an item that is verified and shows why.
Issue(i) ==
    /\ owed = {i} /\ board[i].status = "VERIFIED" /\ board[i].evidence
    /\ board[i].issued < 2 + board[i].retries + breakdowns
    /\ Becomes(i, [board[i] EXCEPT !.issued = @ + 1])
    /\ owed' = {} /\ MayBreakDown

CountRetry(i) ==
    /\ owed = {} /\ board[i].retries < MaxRetries
    /\ Becomes(i, [board[i] EXCEPT !.retries = @ + 1])
    /\ MayBreakDown /\ UNCHANGED owed

\* No item goes back before a retry was counted, or should have been.
Reopen(i) ==
    /\ owed = {} /\ board[i].retries + breakdowns > 0
    /\ Becomes(i, [board[i] EXCEPT !.status = "PENDING", !.errors = TRUE])
    /\ MayBreakDown /\ UNCHANGED owed

Fail(i) ==
    /\ owed = {}
    /\ Becomes(i, [board[i] EXCEPT !.status = "FAILED", !.errors = TRUE])
    /\ MayBreakDown /\ UNCHANGED owed

\* A call fails without an effect.
BreakDown ==
    /\ breakdowns' = breakdowns + 1
    /\ owed' \in {owed, {}}
    /\ UNCHANGED board

\* The service stops, and forgets what it owed.
Stop == owed # {} /\ owed' = {} /\ UNCHANGED <<board, breakdowns>>

Next ==
    \/ \E p \in Payloads : Post(p)
    \/ \E i \in Items : Succeed(i) \/ Issue(i) \/ CountRetry(i) \/ Reopen(i) \/ Fail(i)
    \/ BreakDown \/ Stop

Spec == Init /\ [][Next]_vars
=============================================================================
