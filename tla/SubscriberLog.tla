---------------------------- MODULE SubscriberLog ----------------------------
(***************************************************************************)
(* GET /subscriber/:id: one subscriber's /verify rows, newest first, in    *)
(* pages.  A client walks the pages from the first one on while rows keep  *)
(* landing: the logger takes created_at when it creates a row, which       *)
(* becomes visible only with its commit.  Each request counts the rows of  *)
(* its time window and then lists one page of them, in two queries that    *)
(* share no transaction.                                                   *)
(*                                                                         *)
(* A row is named by its id, which breaks ties between equal timestamps.   *)
(***************************************************************************)
EXTENDS Integers, FiniteSets

CONSTANTS
    Calls,      \* the /verify calls that are logged, each under its row's id
    Limit,      \* rows of a page (1 to 200)
    Window,     \* defaultLogWindow (24 hours)
    MaxWindow,  \* maxLogWindow (31 days)
    MaxInt,     \* the largest int (2^63 - 1)
    Asks,       \* inputs: the from and to a client may put into its requests
    MaxTime,    \* bound: ticks
    MaxFaults   \* bound: queries that fail

Never == -1     \* not created yet
Default == -1   \* a query parameter that is not given, which is no time

ASSUME CallsAssumption == Calls \subseteq Nat /\ IsFiniteSet(Calls)
ASSUME LimitAssumption == Limit \in Nat \ {0}
ASSUME WindowAssumption == Window \in Nat \ {0} /\ MaxWindow \in Nat /\ Window <= MaxWindow
\* The rows are fewer than half of what an int counts.
ASSUME IntAssumption == MaxInt \in Nat /\ 2 * Cardinality(Calls) <= MaxInt
ASSUME AsksAssumption == Asks \subseteq [from : Int, to : Int]
ASSUME BoundsAssumption == MaxTime \in Nat /\ MaxFaults \in Nat

VARIABLES
    now,      \* time.Now()
    created,  \* created_at of each row
    visible,  \* the rows that are committed
    asked,    \* the from and to the client puts into every request of its walk
    pc,       \* where the walk is
    page,     \* the page that is asked for
    filter,   \* the From and To of the current request
    counted,  \* the rows its count found
    late,     \* history: the rows its list saw and its count did not
    began,    \* history: the filter of the walk's first page
    start,    \* history: the rows in the window when the walk began
    shown,    \* the rows shown so far
    repeats,  \* history: the number of times a row was shown again
    faults    \* failed queries so far

table   == <<now, created, visible>>
walk    == <<asked, pc, page, filter>>
reading == <<counted, late, began, start, shown, repeats>>
vars    == <<table, walk, reading, faults>>

Time == 0..MaxTime
Filter == [from : Int, to : Int]

\* Between two requests, before the count, before the list; then a page with room
\* left ended the walk, the client stopped at total_pages, or it was answered 400.
Reading == {"ready", "counting", "listing"}
Ended == {"complete", "stopped", "refused"}

Min2(a, b) == IF a < b THEN a ELSE b

Init ==
    /\ now = 0
    /\ created = [c \in Calls |-> Never] /\ visible = {}
    /\ asked \in Asks
    /\ pc = "ready" /\ page = 1
    /\ filter = [from |-> 0, to |-> 0] /\ began = [from |-> 0, to |-> 0]
    /\ counted = {} /\ late = {}
    /\ start = {} /\ shown = {} /\ repeats = 0
    /\ faults = 0

-----------------------------------------------------------------------------
(* The logger's rows.                                                        *)

Tick ==
    /\ now < MaxTime
    /\ now' = now + 1
    /\ UNCHANGED <<created, visible, walk, reading, faults>>

Create(c) ==
    /\ created[c] = Never
    /\ created' = [created EXCEPT ![c] = now]
    /\ UNCHANGED <<now, visible, walk, reading, faults>>

Land(c) ==
    /\ created[c] # Never /\ c \notin visible
    /\ visible' = visible \cup {c}
    /\ UNCHANGED <<now, created, walk, reading, faults>>

\* ORDER BY created_at DESC, id DESC: c comes before d.
Newer(c, d) == created[c] > created[d] \/ (created[c] = created[d] /\ c > d)

\* Mutant of Selected: rows are seen before they are committed.
SelectedUncommitted(f) == {c \in Calls : f.from <= created[c] /\ created[c] < f.to}

\* subscriberLogQuery: from is inside the window, to is not.
Selected(f) == {c \in visible : f.from <= created[c] /\ created[c] < f.to}

\* Mutant of First: nothing orders rows of one timestamp, which each query may then
\* return in another order.
FirstUntied(F, n, S) ==
    /\ Cardinality(F) = Min2(n, Cardinality(S))
    /\ \A c \in F, d \in S \ F : created[c] >= created[d]

\* F is the first n of S in that order, or all of S when it has no more.
First(F, n, S) ==
    /\ Cardinality(F) = Min2(n, Cardinality(S))
    /\ \A c \in F, d \in S \ F : Newer(c, d)

-----------------------------------------------------------------------------
(* SubscriberLogHandler.List.                                                *)

\* buildFilter: the window ends now and is Window long unless the request says so.
BuildFilter ==
    LET to == IF asked.to = Default THEN now ELSE asked.to
    IN  [from |-> IF asked.from = Default THEN to - Window ELSE asked.from, to |-> to]

Acceptable(f) == f.from < f.to /\ f.to - f.from <= MaxWindow

\* The first page begins the walk.
Ask ==
    /\ pc = "ready" /\ Acceptable(BuildFilter)
    /\ pc' = "counting" /\ filter' = BuildFilter
    /\ IF page = 1 THEN began' = BuildFilter /\ start' = Selected(BuildFilter)
                   ELSE UNCHANGED <<began, start>>
    /\ UNCHANGED <<table, asked, page, counted, late, shown, repeats, faults>>

\* A window that slid past its fixed end, or grew too long, is refused like one
\* that never was acceptable.
Refuse ==
    /\ pc = "ready" /\ ~Acceptable(BuildFilter)
    /\ pc' = "refused"
    /\ UNCHANGED <<table, asked, page, filter, reading, faults>>

\* CountBySubscriber.
Count ==
    /\ pc = "counting"
    /\ pc' = "listing" /\ counted' = Selected(filter)
    /\ UNCHANGED <<table, asked, page, filter, late, began, start, shown, repeats, faults>>

\* Mutant of TotalPages: the last page is forgotten unless it is full.
WholePages(total) == total \div Limit

TotalPages(total) == (total + Limit - 1) \div Limit

\* n as an int whose largest value is max.
Wrap(n, max) == ((n + max + 1) % (2 * max + 2)) - (max + 1)

\* How many rows the pages before page p have room for.
RowsBefore(p) == (p - 1) * Limit

\* Mutant of Offset: it skips as many rows as there are pages.
OffsetInPages(p) == p - 1

\* Mutant of Offset: it is an int of fewer bits.
OffsetNarrow(p) == Wrap(RowsBefore(p), MaxInt \div 4)

Offset(p) == Wrap(RowsBefore(p), MaxInt)

\* gorm leaves out an OFFSET that is not above zero.
Skip(p) == IF Offset(p) > 0 THEN Offset(p) ELSE 0

\* ListBySubscriber skips the rows of the pages before and shows the next ones.  The
\* client goes on to the next page, until a page has room left or, if it goes by
\* total_pages, until it has seen that many.
List ==
    /\ pc = "listing"
    /\ \E skipped \in SUBSET Selected(filter) :
        /\ First(skipped, Skip(page), Selected(filter))
        /\ \E items \in SUBSET (Selected(filter) \ skipped) :
            /\ First(items, Limit, Selected(filter) \ skipped)
            /\ shown' = shown \cup items
            /\ repeats' = repeats + Cardinality(items \cap shown)
            /\ late' = Selected(filter) \ counted
            /\ \/ Cardinality(items) < Limit /\ pc' = "complete" /\ UNCHANGED page
               \/ /\ Cardinality(items) = Limit
                  /\ page >= TotalPages(Cardinality(counted))
                  /\ pc' = "stopped" /\ UNCHANGED page
               \/ Cardinality(items) = Limit /\ pc' = "ready" /\ page' = page + 1
    /\ UNCHANGED <<table, asked, filter, counted, began, start, faults>>

\* Either query fails: 500, and the client asks for the page again.
Fail ==
    /\ pc \in {"counting", "listing"} /\ faults < MaxFaults
    /\ pc' = "ready" /\ faults' = faults + 1
    /\ UNCHANGED <<table, asked, page, filter, reading>>

Serve == Ask \/ Refuse \/ Count \/ List \/ Fail

Next == Tick \/ Serve \/ \E c \in Calls : Create(c) \/ Land(c)

Spec == Init /\ [][Next]_vars

-----------------------------------------------------------------------------
(* What must hold.                                                           *)

TypeOK ==
    /\ now \in Time
    /\ created \in [Calls -> Time \cup {Never}]
    /\ visible \subseteq {c \in Calls : created[c] # Never}
    /\ asked \in Asks
    /\ pc \in Reading \cup Ended
    /\ page \in Nat \ {0}
    /\ filter \in Filter /\ began \in Filter
    /\ counted \subseteq visible /\ late \subseteq visible
    /\ start \subseteq visible /\ shown \subseteq visible
    /\ repeats \in Nat
    /\ faults \in 0..MaxFaults

Missed == (start \cap Selected(filter)) \ shown

\* A walk that reads on to a page with room left has shown every row that was there
\* when it began and is still in the window, whatever landed or left in the meantime.
NoneMissed == pc = "complete" => Missed = {}

\* A walk that stops at total_pages may miss rows, but no more of them than landed
\* between the count and the list of its last page.
MissedByLateOnly == pc = "stopped" => Cardinality(Missed) <= Cardinality(late)

\* The rows that came into the window after the walk began.
Newcomers == {c \in visible \ start : began.from <= created[c]}

\* A row is shown again only because a newer one pushed it down the pages: there are
\* no more repeats than newcomers, and none in a window that stays as it is.
RepeatsPushedDown == repeats <= Cardinality(Newcomers)

\* A page that a walk comes to, however many rows it was shown again, and a page that
\* total_pages names, is never so far that its offset wraps: the rows it skips are
\* those of the pages before.
PagesInReach ==
    /\ pc \in Reading => Skip(page) = RowsBefore(page)
    /\ \A p \in 1..TotalPages(Cardinality(counted)) : Skip(p) = RowsBefore(p)

-----------------------------------------------------------------------------
(* The inductive invariant.                                                  *)

\* The window of a walk only moves forward.
WindowMovesOn ==
    /\ asked.to = Default => filter.to <= now
    /\ page > 1 \/ pc \in {"counting", "listing"} \cup {"complete", "stopped"} =>
        /\ began.from <= filter.from /\ began.to <= filter.to
        /\ asked.to = Default => filter.from <= now
        /\ asked.to # Default => filter.to = asked.to
        /\ asked.from # Default => filter.from = asked.from
        /\ asked.from = Default => filter.from = filter.to - Window
        /\ start \subseteq {c \in visible : began.from <= created[c] /\ created[c] < began.to}

\* A row that was there and is yet to be shown is behind the pages read so far.
Above(c, f) == {d \in Selected(f) : Newer(d, c)}

BehindPagesRead ==
    pc \in Reading =>
        \A c \in (start \cap Selected(filter)) \ shown :
            Cardinality(Above(c, filter)) >= RowsBefore(page)

\* Every page read so far was full.
PagesFull == pc \in Reading => Cardinality(shown) + repeats = RowsBefore(page)

IInv ==
    /\ TypeOK
    /\ WindowMovesOn /\ BehindPagesRead /\ PagesFull
    /\ NoneMissed /\ MissedByLateOnly /\ RepeatsPushedDown

=============================================================================
