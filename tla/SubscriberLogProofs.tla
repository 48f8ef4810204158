------------------------- MODULE SubscriberLogProofs -------------------------
(***************************************************************************)
(* IInv is an inductive invariant of SubscriberLog, so a walk through the  *)
(* pages misses nothing but what total_pages hides from it and repeats no  *)
(* more than what was pushed down, for any rows, page size and window.     *)
(***************************************************************************)
EXTENDS SubscriberLog, FiniteSetTheorems, TLAPS

\* The pages before the last one hold fewer rows than the total (totalPages).
LEMMA PagesCoverTotal ==
    ASSUME NEW n \in Nat, NEW p \in Nat, p >= TotalPages(n)
    PROVE  p * Limit >= n
<1> DEFINE q == TotalPages(n)
<1> USE LimitAssumption
<1>1. q \in Int /\ n + Limit - 1 < Limit * (q + 1)
    BY DEF TotalPages
<1>2. Limit * (q + 1) = q * Limit + Limit
    BY <1>1
<1>3. q * Limit >= n
    BY <1>1, <1>2
<1>4. p * Limit >= q * Limit
    BY <1>1
<1> QED
    BY <1>1, <1>3, <1>4

\* One page further means Limit rows further (buildFilter).
LEMMA RowsBeforeStep ==
    ASSUME NEW p \in Nat \ {0}
    PROVE  /\ RowsBefore(p) \in Nat
           /\ RowsBefore(p + 1) = RowsBefore(p) + Limit
           /\ RowsBefore(p + 1) = p * Limit
           /\ RowsBefore(1) = 0
BY LimitAssumption DEF RowsBefore

\* An int that is large enough for a number holds that number.
LEMMA WrapExact ==
    ASSUME NEW n \in Nat, n <= MaxInt
    PROVE  Wrap(n, MaxInt) = n
<1>1. \A x, y \in Nat : x < y => x % y = x
    OBVIOUS
<1>2. /\ n + MaxInt + 1 \in Nat /\ 2 * MaxInt + 2 \in Nat
      /\ n + MaxInt + 1 < 2 * MaxInt + 2
    BY IntAssumption
<1>3. (n + MaxInt + 1) % (2 * MaxInt + 2) = n + MaxInt + 1
    BY <1>1, <1>2
<1> QED
    BY <1>2, <1>3, IntAssumption DEF Wrap

LEMMA SkipExact ==
    ASSUME NEW p, RowsBefore(p) \in Nat, RowsBefore(p) <= MaxInt
    PROVE  Skip(p) = RowsBefore(p)
BY WrapExact DEF Skip, Offset

\* The order of a page: no two rows are each before the other.
LEMMA NewerAsymmetric ==
    ASSUME TypeOK, NEW c \in Calls, NEW d \in Calls, Newer(c, d)
    PROVE  ~Newer(d, c)
BY CallsAssumption, BoundsAssumption DEF TypeOK, Newer, Time, Never

\* Everything a query sees is finite.
LEMMA SelectedFinite ==
    ASSUME TypeOK, NEW f
    PROVE  /\ IsFiniteSet(visible) /\ IsFiniteSet(Selected(f))
           /\ Selected(f) \subseteq visible
<1>1. visible \in SUBSET Calls
    BY DEF TypeOK
<1>2. IsFiniteSet(visible)
    BY <1>1, CallsAssumption, FS_Subset
<1>3. Selected(f) \in SUBSET visible
    BY DEF Selected
<1> QED
    BY <1>2, <1>3, FS_Subset

\* Every step preserves the types (the actions of SubscriberLog).
LEMMA TypeStep ==
    ASSUME TypeOK, [Next]_vars
    PROVE  TypeOK'
<1> USE LimitAssumption, WindowAssumption, AsksAssumption, BoundsAssumption
    DEF TypeOK, Time, Filter, Never, Default, Reading, Ended, table, walk, reading
<1>1. CASE Tick
    BY <1>1 DEF Tick
<1>2. ASSUME NEW c \in Calls, Create(c)
      PROVE  TypeOK'
    BY <1>2 DEF Create
<1>3. ASSUME NEW c \in Calls, Land(c)
      PROVE  TypeOK'
    BY <1>3 DEF Land
<1>4. CASE Ask
    BY <1>4 DEF Ask, BuildFilter, Selected
<1>5. CASE Refuse
    BY <1>5 DEF Refuse
<1>6. CASE Count
    BY <1>6 DEF Count, Selected
<1>7. CASE List
    <2>1. PICK items \in SUBSET Selected(filter) :
            /\ shown' = shown \cup items
            /\ repeats' = repeats + Cardinality(items \cap shown)
            /\ late' = Selected(filter) \ counted
        BY <1>7 DEF List
    <2>2. items \subseteq visible /\ Selected(filter) \subseteq visible
        BY <2>1 DEF Selected
    <2>3. items \cap shown \in SUBSET visible
        BY <2>2
    <2>4. Cardinality(items \cap shown) \in Nat
        BY <2>3, SelectedFinite, FS_Subset, FS_CardinalityType
    <2>5. page' \in Nat \ {0} /\ pc' \in Reading \cup Ended
        BY <1>7 DEF List
    <2> QED
        BY <1>7, <2>1, <2>2, <2>4, <2>5 DEF List
<1>8. CASE Fail
    BY <1>8 DEF Fail
<1>9. CASE UNCHANGED vars
    BY <1>9 DEF vars
<1> QED
    BY <1>1, <1>2, <1>3, <1>4, <1>5, <1>6, <1>7, <1>8, <1>9 DEF Next, Serve

\* A page in a walk's reach: what it was shown, again or not, is all that its offset is
\* made of, and there are too few rows for that to be more than an int holds.
LEMMA WalkInReach ==
    ASSUME TypeOK, PagesFull, RepeatsPushedDown, pc \in Reading
    PROVE  Skip(page) = RowsBefore(page)
<1>1. RowsBefore(page) \in Nat /\ Cardinality(shown) + repeats = RowsBefore(page)
    BY RowsBeforeStep DEF TypeOK, PagesFull
<1>2. shown \in SUBSET Calls /\ Newcomers \in SUBSET Calls
    BY DEF TypeOK, Newcomers
<1>3. /\ IsFiniteSet(shown) /\ Cardinality(shown) <= Cardinality(Calls)
      /\ IsFiniteSet(Newcomers) /\ Cardinality(Newcomers) <= Cardinality(Calls)
    BY <1>2, CallsAssumption, FS_Subset
<1>4. Cardinality(shown) \in Nat /\ Cardinality(Newcomers) \in Nat /\ Cardinality(Calls) \in Nat
    BY <1>3, CallsAssumption, FS_CardinalityType
<1>5. RowsBefore(page) <= MaxInt
    BY <1>1, <1>3, <1>4, IntAssumption DEF TypeOK, RepeatsPushedDown
<1> QED
    BY <1>1, <1>5, SkipExact

\* A page that total_pages names begins with a row that was counted.
LEMMA NamedInReach ==
    ASSUME TypeOK, NEW p \in 1..TotalPages(Cardinality(counted))
    PROVE  Skip(p) = RowsBefore(p)
<1> DEFINE n == Cardinality(counted)
           q == TotalPages(n)
<1>1. counted \in SUBSET Calls
    BY DEF TypeOK
<1>2. n \in Nat /\ Cardinality(Calls) \in Nat /\ n <= Cardinality(Calls)
    BY <1>1, CallsAssumption, FS_Subset, FS_CardinalityType
<1> HIDE DEF n
<1>3. q \in Int /\ Limit * q <= n + Limit - 1
    BY <1>2, LimitAssumption DEF TotalPages
<1>4. p \in Nat /\ p >= 1 /\ p <= q
    BY <1>3 DEF n
<1> HIDE DEF q
<1>5. Limit * p <= Limit * q
    BY <1>3, <1>4, LimitAssumption
<1>6. RowsBefore(p) \in Nat /\ RowsBefore(p) = Limit * p - Limit
    BY <1>4, LimitAssumption DEF RowsBefore
<1>7. RowsBefore(p) <= MaxInt
    BY <1>2, <1>3, <1>4, <1>5, <1>6, LimitAssumption, IntAssumption
<1> QED
    BY <1>6, <1>7, SkipExact

\* Init of the induction.
LEMMA InitIInv ==
    ASSUME Init
    PROVE  IInv
<1>1. TypeOK
    BY BoundsAssumption DEF Init, TypeOK, Time, Filter, Reading, Ended, Never, Default
<1>2. WindowMovesOn
    BY BoundsAssumption DEF Init, WindowMovesOn
<1>3. BehindPagesRead /\ NoneMissed /\ MissedByLateOnly
    BY DEF Init, BehindPagesRead, NoneMissed, MissedByLateOnly
<1>4. PagesFull
    BY RowsBeforeStep, FS_EmptySet DEF Init, PagesFull
<1>5. RepeatsPushedDown
    <2>1. Newcomers = {}
        BY DEF Init, Newcomers
    <2> QED
        BY <2>1, FS_EmptySet DEF Init, RepeatsPushedDown
<1> QED
    BY <1>1, <1>2, <1>3, <1>4, <1>5 DEF IInv

\* What a table that only grows leaves of a walk: the clock, new rows and commits
\* (the logger's Create) change nothing the walk has established.
LEMMA GrowthStep ==
    ASSUME IInv, TypeOK', Tick \/ \E c \in Calls : Create(c) \/ Land(c)
    PROVE  IInv'
<1> USE DEF table, walk, reading
<1>0. TypeOK
    BY DEF IInv
<1>1. /\ UNCHANGED <<walk, reading, faults>>
      /\ now <= now' /\ now \in Int /\ now' \in Int
      /\ visible \subseteq visible'
      /\ \A c \in visible : created'[c] = created[c]
    <2> USE <1>0, BoundsAssumption DEF TypeOK, Time, Never
    <2>1. CASE Tick
        BY <2>1 DEF Tick
    <2>2. CASE \E c \in Calls : Create(c)
        BY <2>2 DEF Create
    <2>3. CASE \E c \in Calls : Land(c)
        BY <2>3 DEF Land
    <2> QED
        BY <2>1, <2>2, <2>3
<1>2. /\ start \subseteq visible /\ visible \subseteq Calls
      /\ Selected(filter) \subseteq Selected(filter)'
      /\ start \cap Selected(filter)' = start \cap Selected(filter)
    BY <1>0, <1>1 DEF Selected, TypeOK
<1>3. WindowMovesOn'
    BY <1>0, <1>1, <1>2 DEF IInv, WindowMovesOn, TypeOK, Filter
<1>4. BehindPagesRead'
    <2> SUFFICES ASSUME pc \in Reading,
                        NEW c \in (start \cap Selected(filter)) \ shown
                 PROVE  Cardinality(Above(c, filter)') >= RowsBefore(page)
        BY <1>1, <1>2 DEF BehindPagesRead, Above
    <2>1. Above(c, filter) \in SUBSET (Above(c, filter)')
        BY <1>1, <1>2 DEF Above, Newer, Selected
    <2>2. Cardinality(Above(c, filter)) >= RowsBefore(page)
        BY DEF IInv, BehindPagesRead
    <2>3. Above(c, filter)' \in SUBSET visible'
        BY DEF Above, Selected
    <2>4. IsFiniteSet(visible')
        <3>1. visible' \in SUBSET Calls
            BY DEF TypeOK
        <3> QED
            BY <3>1, CallsAssumption, FS_Subset
    <2>5. IsFiniteSet(Above(c, filter)')
        BY <2>3, <2>4, FS_Subset
    <2>6. Cardinality(Above(c, filter)) <= Cardinality(Above(c, filter)')
        BY <2>1, <2>5, FS_Subset
    <2>7. Cardinality(Above(c, filter)) \in Nat /\ Cardinality(Above(c, filter)') \in Nat
        BY <2>1, <2>5, FS_Subset, FS_CardinalityType
    <2> QED
        BY <1>0, <2>2, <2>6, <2>7, RowsBeforeStep DEF TypeOK
<1>5. PagesFull'
    BY <1>1 DEF IInv, PagesFull
<1>6. NoneMissed' /\ MissedByLateOnly'
    <2>1. Missed' = Missed
        BY <1>1, <1>2 DEF Missed
    <2> QED
        BY <1>1, <2>1 DEF IInv, NoneMissed, MissedByLateOnly
<1>7. RepeatsPushedDown'
    <2>1. Newcomers \in SUBSET (Newcomers')
        BY <1>1 DEF Newcomers
    <2>2. Newcomers' \in SUBSET Calls
        BY DEF Newcomers, TypeOK
    <2>3. IsFiniteSet(Newcomers') /\ Cardinality(Newcomers) <= Cardinality(Newcomers')
        BY <2>1, <2>2, CallsAssumption, FS_Subset
    <2>4. Cardinality(Newcomers) \in Nat /\ Cardinality(Newcomers') \in Nat
        BY <2>1, <2>3, FS_Subset, FS_CardinalityType
    <2> QED
        BY <1>0, <1>1, <2>3, <2>4 DEF IInv, RepeatsPushedDown, TypeOK
<1> QED
    BY <1>3, <1>4, <1>5, <1>6, <1>7 DEF IInv

\* Asking for a page begins the walk or moves its window on (buildFilter).
LEMMA AskStep ==
    ASSUME IInv, TypeOK', Ask
    PROVE  IInv'
<1> USE AsksAssumption DEF table, walk, reading
<1>0. TypeOK /\ pc = "ready" /\ pc' = "counting" /\ page' = page /\ page \in Nat \ {0}
    BY DEF IInv, Ask, TypeOK
<1>1. /\ UNCHANGED <<now, created, visible, asked, counted, late, shown, repeats>>
      /\ filter' = BuildFilter /\ filter'.from < filter'.to
      /\ filter' \in Filter /\ filter \in Filter /\ began \in Filter
    BY <1>0 DEF Ask, Acceptable, TypeOK
<1>2. WindowMovesOn'
    <2> USE <1>0, <1>1, BoundsAssumption, WindowAssumption
        DEF TypeOK, Filter, Time, Default, BuildFilter, Ask
    <2>1. CASE page = 1
        BY <2>1 DEF WindowMovesOn, Selected
    <2>2. CASE page > 1
        BY <2>2 DEF IInv, WindowMovesOn
    <2> QED
        BY <2>1, <2>2
<1>3. PagesFull'
    BY <1>0, <1>1 DEF IInv, PagesFull, Reading
<1>4. CASE page = 1
    <2>1. Cardinality(shown) + repeats = 0
        BY <1>0, <1>4, RowsBeforeStep DEF IInv, PagesFull, Reading
    <2>2. \A c \in visible : Cardinality(Above(c, filter')) \in Nat /\ Above(c, filter') = Above(c, filter)'
        <3> TAKE c \in visible
        <3>1. Above(c, filter') \in SUBSET visible
            BY DEF Above, Selected
        <3> QED
            BY <1>0, <1>1, <3>1, SelectedFinite, FS_Subset, FS_CardinalityType
            DEF Above, Selected, Newer
    <2>3. BehindPagesRead'
        BY <1>0, <1>1, <1>4, <2>2, RowsBeforeStep DEF BehindPagesRead, TypeOK
    <2>4. Cardinality(shown) \in Nat /\ repeats \in Nat
        <3>1. shown \in SUBSET visible
            BY <1>0 DEF TypeOK
        <3> QED
            BY <1>0, <3>1, SelectedFinite, FS_Subset, FS_CardinalityType DEF TypeOK
    <2>5. repeats = 0
        BY <2>1, <2>4
    <2>6. Newcomers' \in SUBSET visible
        BY <1>1 DEF Newcomers
    <2>7. Cardinality(Newcomers') \in Nat
        BY <1>0, <2>6, SelectedFinite, FS_Subset, FS_CardinalityType
    <2>8. RepeatsPushedDown'
        BY <1>1, <2>5, <2>7 DEF RepeatsPushedDown
    <2> QED
        BY <1>0, <1>2, <1>3, <2>3, <2>8 DEF IInv, NoneMissed, MissedByLateOnly
<1>5. CASE page > 1
    <2>1. began' = began /\ start' = start
        BY <1>5 DEF Ask
    <2>2. filter.from <= filter'.from /\ filter.to <= filter'.to /\ began.to <= filter.to
        BY <1>0, <1>1, <1>5, BoundsAssumption, WindowAssumption
        DEF IInv, WindowMovesOn, BuildFilter, TypeOK, Filter, Time, Default
    <2>3. BehindPagesRead'
        <3> SUFFICES ASSUME NEW c \in (start \cap Selected(filter')) \ shown
                     PROVE  Cardinality(Above(c, filter')) >= RowsBefore(page)
            BY <1>0, <1>1, <2>1 DEF BehindPagesRead, Above, Selected, Newer
        <3> USE <1>0, BoundsAssumption DEF TypeOK, Filter, Time, Never
        <3>1. c \in Selected(filter)
            BY <1>1, <1>5, <2>2 DEF IInv, WindowMovesOn, Selected
        <3>2. Above(c, filter) \in SUBSET Above(c, filter')
            BY <1>1, <2>2 DEF Above, Selected, Newer
        <3>3. Above(c, filter') \in SUBSET visible
            BY DEF Above, Selected
        <3>4. IsFiniteSet(Above(c, filter'))
            BY <3>3, SelectedFinite, FS_Subset
        <3>5. Cardinality(Above(c, filter)) <= Cardinality(Above(c, filter'))
            BY <3>2, <3>4, FS_Subset
        <3>6. Cardinality(Above(c, filter)) \in Nat /\ Cardinality(Above(c, filter')) \in Nat
            BY <3>2, <3>4, FS_Subset, FS_CardinalityType
        <3>7. Cardinality(Above(c, filter)) >= RowsBefore(page)
            BY <3>1 DEF IInv, BehindPagesRead, Reading
        <3> QED
            BY <3>5, <3>6, <3>7, RowsBeforeStep
    <2>4. RepeatsPushedDown'
        BY <1>1, <2>1 DEF IInv, RepeatsPushedDown, Newcomers
    <2> QED
        BY <1>0, <1>2, <1>3, <2>3, <2>4 DEF IInv, NoneMissed, MissedByLateOnly
<1> QED
    BY <1>0, <1>4, <1>5

\* What one page is made of, in rows: what is skipped, and what is shown after it
\* (ListBySubscriber's OFFSET and LIMIT).
LEMMA PageRows ==
    ASSUME TypeOK, Skip(page) = RowsBefore(page),
           NEW skipped \in SUBSET Selected(filter),
           NEW items \in SUBSET (Selected(filter) \ skipped),
           First(skipped, Skip(page), Selected(filter)),
           First(items, Limit, Selected(filter) \ skipped)
    PROVE  /\ IsFiniteSet(skipped) /\ IsFiniteSet(items)
           /\ Cardinality(skipped) \in Nat /\ Cardinality(items) \in Nat
           /\ Cardinality(skipped) <= RowsBefore(page)
           /\ Cardinality(Selected(filter)) \in Nat
           /\ Cardinality(skipped \cup items) = Cardinality(skipped) + Cardinality(items)
           /\ items # {} => Cardinality(skipped) = RowsBefore(page)
           /\ Cardinality(items) < Limit => items = Selected(filter) \ skipped
<1> DEFINE S == Selected(filter)
<1> HIDE DEF S
<1>1. IsFiniteSet(S) /\ Cardinality(S) \in Nat
    BY SelectedFinite, FS_CardinalityType DEF S
<1>2. RowsBefore(page) \in Nat
    BY RowsBeforeStep DEF TypeOK
<1>3. skipped \in SUBSET S /\ items \in SUBSET (S \ skipped) /\ items \in SUBSET S
    BY DEF S
<1>4. IsFiniteSet(skipped) /\ Cardinality(skipped) \in Nat
    BY <1>1, <1>3, FS_Subset, FS_CardinalityType
<1>5. IsFiniteSet(S \ skipped) /\ Cardinality(S \ skipped) \in Nat
    BY <1>1, FS_Difference, FS_CardinalityType
<1>6. IsFiniteSet(items) /\ Cardinality(items) \in Nat
    BY <1>3, <1>5, FS_Subset, FS_CardinalityType
<1>7. Cardinality(skipped) = Min2(RowsBefore(page), Cardinality(S))
    BY DEF First, S
<1>8. Cardinality(items) = Min2(Limit, Cardinality(S \ skipped))
    BY DEF First, S
<1>9. Cardinality(skipped) <= RowsBefore(page)
    BY <1>1, <1>2, <1>7 DEF Min2
<1>10. items # {} => Cardinality(skipped) = RowsBefore(page)
    <2>1. CASE Cardinality(skipped) = Cardinality(S)
        <3>1. S = skipped
            BY <1>1, <1>3, <2>1, FS_Subset
        <3> QED
            BY <1>3, <3>1
    <2>2. CASE Cardinality(skipped) # Cardinality(S)
        BY <1>7, <2>2 DEF Min2
    <2> QED
        BY <2>1, <2>2
<1>11. Cardinality(items) < Limit => items = S \ skipped
    <2> SUFFICES ASSUME Cardinality(items) < Limit
                 PROVE  items = S \ skipped
        OBVIOUS
    <2>1. Cardinality(items) = Cardinality(S \ skipped)
        BY <1>5, <1>6, <1>8, LimitAssumption DEF Min2
    <2> QED
        BY <1>3, <1>5, <2>1, FS_Subset
<1>12. Cardinality(skipped \cup items) = Cardinality(skipped) + Cardinality(items)
    <2>1. skipped \cap items = {}
        BY <1>3
    <2>2. Cardinality(skipped \cup items)
            = Cardinality(skipped) + Cardinality(items) - Cardinality(skipped \cap items)
        BY <1>4, <1>6, FS_Union
    <2> QED
        BY <1>4, <1>6, <2>1, <2>2, FS_EmptySet
<1> QED
    BY <1>1, <1>4, <1>6, <1>9, <1>10, <1>11, <1>12 DEF S

\* A row that was there and is yet to be shown is not among the skipped ones: too many
\* rows are before it.
LEMMA UnshownNotSkipped ==
    ASSUME IInv, pc = "listing",
           NEW skipped \in SUBSET Selected(filter),
           First(skipped, Skip(page), Selected(filter)),
           IsFiniteSet(skipped), Cardinality(skipped) \in Nat,
           Cardinality(skipped) <= RowsBefore(page),
           NEW c \in (start \cap Selected(filter)) \ shown
    PROVE  c \notin skipped
<1> SUFFICES ASSUME c \in skipped
             PROVE  FALSE
    OBVIOUS
<1>0. TypeOK /\ RowsBefore(page) \in Nat
    BY RowsBeforeStep DEF IInv, TypeOK
<1>1. Above(c, filter) \in SUBSET (skipped \ {c})
    <2> SUFFICES ASSUME NEW d \in Above(c, filter)
                 PROVE  d \in skipped /\ d # c
        OBVIOUS
    <2>1. c \in Calls /\ d \in Calls /\ d \in Selected(filter) /\ Newer(d, c)
        BY <1>0 DEF Above, Selected, TypeOK
    <2>2. ~Newer(c, d)
        BY <1>0, <2>1, NewerAsymmetric
    <2> QED
        BY <2>1, <2>2 DEF First
<1>2. IsFiniteSet(skipped \ {c}) /\ Cardinality(skipped \ {c}) = Cardinality(skipped) - 1
    BY FS_RemoveElement
<1>3. Cardinality(Above(c, filter)) <= Cardinality(skipped) - 1
    BY <1>1, <1>2, FS_Subset
<1>4. Cardinality(Above(c, filter)) \in Nat
    BY <1>1, <1>2, FS_Subset, FS_CardinalityType
<1>5. Cardinality(Above(c, filter)) >= RowsBefore(page)
    BY DEF IInv, BehindPagesRead, Reading
<1> QED
    BY <1>0, <1>3, <1>4, <1>5

\* Showing a page keeps what the walk has established (List).
LEMMA ListStep ==
    ASSUME IInv, TypeOK', List
    PROVE  IInv'
<1> USE DEF table, walk, reading
<1>0. /\ TypeOK /\ pc = "listing" /\ page \in Nat \ {0} /\ repeats \in Nat
      /\ UNCHANGED <<now, created, visible, asked, filter, counted, began, start, faults>>
    BY DEF IInv, List, TypeOK
<1> DEFINE S == Selected(filter)
<1>1. PICK skipped \in SUBSET S :
        /\ First(skipped, Skip(page), S)
        /\ \E items \in SUBSET (S \ skipped) :
            /\ First(items, Limit, S \ skipped)
            /\ shown' = shown \cup items
            /\ repeats' = repeats + Cardinality(items \cap shown)
            /\ late' = S \ counted
            /\ \/ Cardinality(items) < Limit /\ pc' = "complete" /\ page' = page
               \/ /\ Cardinality(items) = Limit
                  /\ page >= TotalPages(Cardinality(counted))
                  /\ pc' = "stopped" /\ page' = page
               \/ Cardinality(items) = Limit /\ pc' = "ready" /\ page' = page + 1
    BY DEF List
<1>2. PICK items \in SUBSET (S \ skipped) :
        /\ First(items, Limit, S \ skipped)
        /\ shown' = shown \cup items
        /\ repeats' = repeats + Cardinality(items \cap shown)
        /\ late' = S \ counted
        /\ \/ Cardinality(items) < Limit /\ pc' = "complete" /\ page' = page
           \/ /\ Cardinality(items) = Limit
              /\ page >= TotalPages(Cardinality(counted))
              /\ pc' = "stopped" /\ page' = page
           \/ Cardinality(items) = Limit /\ pc' = "ready" /\ page' = page + 1
    BY <1>1
<1>3. /\ IsFiniteSet(skipped) /\ IsFiniteSet(items) /\ IsFiniteSet(S)
      /\ Cardinality(skipped) \in Nat /\ Cardinality(items) \in Nat /\ Cardinality(S) \in Nat
      /\ Cardinality(skipped) <= RowsBefore(page)
      /\ Cardinality(skipped \cup items) = Cardinality(skipped) + Cardinality(items)
      /\ items # {} => Cardinality(skipped) = RowsBefore(page)
      /\ Cardinality(items) < Limit => items = S \ skipped
    <2>1. Skip(page) = RowsBefore(page)
        BY <1>0, WalkInReach DEF IInv, Reading
    <2> QED
        BY <1>0, <1>1, <1>2, <2>1, PageRows, SelectedFinite
<1>4. \A c \in (start \cap S) \ shown : c \notin skipped
    BY <1>0, <1>1, <1>3, UnshownNotSkipped
<1>5. /\ RowsBefore(page) \in Nat /\ RowsBefore(page + 1) = RowsBefore(page) + Limit
      /\ RowsBefore(page + 1) = page * Limit
    BY <1>0, RowsBeforeStep
<1>6. Cardinality(items) = Limit => items # {}
    BY LimitAssumption, FS_EmptySet
<1>7. /\ IsFiniteSet(shown) /\ Cardinality(shown) \in Nat
      /\ IsFiniteSet(items \cap shown) /\ Cardinality(items \cap shown) \in Nat
    <2>1. shown \in SUBSET visible
        BY <1>0 DEF TypeOK
    <2> QED
        BY <1>0, <1>3, <2>1, SelectedFinite, FS_Subset, FS_Intersection, FS_CardinalityType
<1>8. S' = S /\ (Missed' = (start \cap S) \ shown')
    BY <1>0 DEF Selected, Missed
<1>9. WindowMovesOn'
    BY <1>0, <1>2 DEF IInv, WindowMovesOn
<1>10. BehindPagesRead'
    <2> SUFFICES ASSUME pc' = "ready", NEW c \in (start \cap S) \ shown'
                 PROVE  Cardinality(Above(c, filter)) >= RowsBefore(page')
        BY <1>0, <1>2, <1>8 DEF BehindPagesRead, Above, Newer, Selected, Reading
    <2>1. Cardinality(items) = Limit /\ page' = page + 1
        BY <1>2
    <2>2. c \notin skipped /\ c \notin items
        BY <1>2, <1>4
    <2>3. (skipped \cup items) \in SUBSET Above(c, filter)
        BY <1>1, <1>2, <2>2 DEF First, Above
    <2>4. Above(c, filter) \in SUBSET S
        BY DEF Above
    <2>5. IsFiniteSet(Above(c, filter)) /\ Cardinality(Above(c, filter)) \in Nat
        BY <1>3, <2>4, FS_Subset, FS_CardinalityType
    <2>6. Cardinality(skipped \cup items) <= Cardinality(Above(c, filter))
        BY <2>3, <2>5, FS_Subset
    <2> QED
        BY <1>3, <1>5, <1>6, <2>1, <2>5, <2>6, LimitAssumption
<1>11. PagesFull'
    <2> SUFFICES ASSUME pc' = "ready"
                 PROVE  Cardinality(shown') + repeats' = RowsBefore(page')
        BY <1>2 DEF PagesFull, Reading
    <2>1. Cardinality(shown \cup items)
            = Cardinality(shown) + Cardinality(items) - Cardinality(shown \cap items)
        BY <1>3, <1>7, FS_Union
    <2>2. Cardinality(shown \cap items) = Cardinality(items \cap shown)
        <3>1. shown \cap items = items \cap shown
            OBVIOUS
        <3> QED
            BY <3>1
    <2>3. Cardinality(shown) + repeats = RowsBefore(page)
        BY <1>0 DEF IInv, PagesFull, Reading
    <2>4. Cardinality(items) = Limit /\ page' = page + 1
        BY <1>2, <1>3, LimitAssumption
    <2>5. /\ Cardinality(shown') = Cardinality(shown) + Limit - Cardinality(items \cap shown)
          /\ repeats' = repeats + Cardinality(items \cap shown)
        BY <1>2, <2>1, <2>2, <2>4
    <2>6. RowsBefore(page') = RowsBefore(page) + Limit
        BY <1>5, <2>4
    <2> HIDE DEF S
    <2> QED
        BY <1>0, <1>5, <1>7, <2>3, <2>5, <2>6, LimitAssumption
<1>12. NoneMissed'
    <2> SUFFICES ASSUME pc' = "complete", NEW c \in (start \cap S) \ shown'
                 PROVE  FALSE
        BY <1>8 DEF NoneMissed
    <2>1. items = S \ skipped
        BY <1>2, <1>3
    <2> QED
        BY <1>2, <1>4, <2>1
<1>13. MissedByLateOnly'
    <2> SUFFICES ASSUME pc' = "stopped"
                 PROVE  Cardinality((start \cap S) \ shown') <= Cardinality(S \ counted)
        BY <1>2, <1>8 DEF MissedByLateOnly
    <2> DEFINE rest == S \ (skipped \cup items)
    <2>1. Cardinality(items) = Limit /\ page >= TotalPages(Cardinality(counted))
        BY <1>2
    <2>2. ((start \cap S) \ shown') \in SUBSET rest
        BY <1>2, <1>4
    <2>3. S \cap (skipped \cup items) = skipped \cup items
        BY <1>1, <1>2
    <2>4. /\ IsFiniteSet(rest)
          /\ Cardinality(rest) = Cardinality(S) - (RowsBefore(page) + Limit)
        <3>1. /\ IsFiniteSet(rest)
              /\ Cardinality(rest) = Cardinality(S) - Cardinality(S \cap (skipped \cup items))
            BY <1>3, FS_Difference
        <3>2. Cardinality(S \cap (skipped \cup items)) = RowsBefore(page) + Limit
            BY <1>3, <1>6, <2>1, <2>3
        <3> QED
            BY <3>1, <3>2
    <2>5. counted \in SUBSET visible /\ IsFiniteSet(counted) /\ Cardinality(counted) \in Nat
        <3>1. counted \in SUBSET visible
            BY <1>0 DEF TypeOK
        <3> QED
            BY <1>0, <3>1, SelectedFinite, FS_Subset, FS_CardinalityType
    <2>6. page * Limit >= Cardinality(counted)
        BY <1>0, <2>1, <2>5, PagesCoverTotal
    <2>7. /\ Cardinality(S \ counted) = Cardinality(S) - Cardinality(S \cap counted)
          /\ Cardinality(S \cap counted) <= Cardinality(counted)
          /\ Cardinality(S \cap counted) \in Nat
        BY <1>3, <2>5, FS_Difference, FS_Intersection, FS_CardinalityType
    <2>8. /\ Cardinality((start \cap S) \ shown') <= Cardinality(rest)
          /\ Cardinality((start \cap S) \ shown') \in Nat
        BY <2>2, <2>4, FS_Subset, FS_CardinalityType
    <2> HIDE DEF S, rest
    <2>9. page * Limit \in Nat
        BY <1>0, LimitAssumption
    <2> QED
        BY <1>3, <1>5, <2>4, <2>5, <2>6, <2>7, <2>8, <2>9, LimitAssumption
<1>14. RepeatsPushedDown'
    <2>1. Newcomers' = Newcomers
        BY <1>0 DEF Newcomers
    <2>2. IsFiniteSet(Newcomers) /\ Cardinality(Newcomers) \in Nat
        <3>1. Newcomers \in SUBSET visible
            BY DEF Newcomers
        <3> QED
            BY <1>0, <3>1, SelectedFinite, FS_Subset, FS_CardinalityType
    <2>3. CASE items = {}
        <3>1. Cardinality(items \cap shown) = 0
            BY <2>3, FS_EmptySet
        <3> QED
            BY <1>0, <1>2, <2>1, <3>1 DEF IInv, RepeatsPushedDown
    <2>4. CASE items # {}
        <3> DEFINE D == shown \ skipped
        <3>1. IsFiniteSet(D) /\ Cardinality(D) = Cardinality(shown) - Cardinality(shown \cap skipped)
            BY <1>7, FS_Difference
        <3>2. /\ IsFiniteSet(skipped \ shown)
              /\ Cardinality(skipped \ shown) = Cardinality(skipped) - Cardinality(skipped \cap shown)
            BY <1>3, FS_Difference
        <3>3. Cardinality(shown \cap skipped) = Cardinality(skipped \cap shown)
            <4>1. shown \cap skipped = skipped \cap shown
                OBVIOUS
            <4> QED
                BY <4>1
        <3>4. (items \cap shown) \in SUBSET D
            BY <1>2
        <3>5. Cardinality(items \cap shown) <= Cardinality(D) /\ Cardinality(D) \in Nat
            BY <3>1, <3>4, FS_Subset, FS_CardinalityType
        <3>6. (skipped \ shown) \in SUBSET Newcomers
            <4> SUFFICES ASSUME NEW c \in skipped \ shown
                         PROVE  c \in Newcomers
                OBVIOUS
            <4>1. c \in visible /\ filter.from <= created[c]
                BY <1>1 DEF Selected
            <4>2. c \notin start
                BY <1>1, <1>4
            <4>3. began.from <= filter.from
                BY <1>0 DEF IInv, WindowMovesOn
            <4>4. began.from \in Int /\ filter.from \in Int /\ created[c] \in Int
                BY <1>0, <4>1, BoundsAssumption DEF TypeOK, Filter, Time, Never
            <4> QED
                BY <4>1, <4>2, <4>3, <4>4 DEF Newcomers
        <3>7. Cardinality(skipped \ shown) <= Cardinality(Newcomers)
            BY <2>2, <3>6, FS_Subset
        <3>8. Cardinality(skipped \cap shown) \in Nat /\ Cardinality(skipped \ shown) \in Nat
            BY <1>3, <3>2, FS_Intersection, FS_CardinalityType
        <3>9. Cardinality(skipped) = Cardinality(shown) + repeats
            BY <1>0, <1>3, <2>4 DEF IInv, PagesFull, Reading
        <3>10. Cardinality(items \cap shown) + repeats <= Cardinality(Newcomers)
            <4>1. Cardinality(D) = Cardinality(shown) - Cardinality(skipped \cap shown)
                BY <3>1, <3>3
            <4>2. Cardinality(skipped \ shown) = repeats + Cardinality(D)
                BY <1>0, <1>3, <1>7, <3>2, <3>8, <3>9, <4>1
            <4> HIDE DEF S, D
            <4> QED
                BY <1>0, <1>7, <2>2, <3>5, <3>7, <3>8, <4>2
        <3> QED
            BY <1>0, <1>2, <1>7, <2>1, <3>10 DEF RepeatsPushedDown
    <2> QED
        BY <2>3, <2>4
<1> QED
    BY <1>9, <1>10, <1>11, <1>12, <1>13, <1>14 DEF IInv

\* The steps of a request that show nothing (Refuse, Count, Fail).
LEMMA QuietStep ==
    ASSUME IInv, TypeOK', Refuse \/ Count \/ Fail \/ UNCHANGED vars
    PROVE  IInv'
<1> USE DEF table, walk, reading, vars
<1>1. /\ UNCHANGED <<now, created, visible, asked, page, filter, late, began, start, shown, repeats>>
      /\ pc' = pc \/ (pc \in Reading /\ pc' \in Reading) \/ pc' = "refused"
      /\ pc' \in Reading => pc \in Reading
      /\ page > 1 \/ pc' \in {"counting", "listing"} \cup {"complete", "stopped"}
           => page > 1 \/ pc \in {"counting", "listing"} \cup {"complete", "stopped"}
    BY DEF Refuse, Count, Fail, Reading
<1>2. WindowMovesOn'
    BY <1>1 DEF IInv, WindowMovesOn
<1>3. BehindPagesRead' /\ PagesFull'
    BY <1>1 DEF IInv, BehindPagesRead, PagesFull, Above, Newer, Selected
<1>4. NoneMissed' /\ MissedByLateOnly'
    BY <1>1 DEF IInv, NoneMissed, MissedByLateOnly, Missed, Selected, Reading
<1>5. RepeatsPushedDown'
    BY <1>1 DEF IInv, RepeatsPushedDown, Newcomers
<1> QED
    BY <1>2, <1>3, <1>4, <1>5 DEF IInv

\* IInv holds in every reachable state: the induction (SubscriberLog's Spec).
THEOREM Invariance == Spec => []IInv
<1>1. IInv /\ [Next]_vars => IInv'
    <2> SUFFICES ASSUME IInv, [Next]_vars
                 PROVE  IInv'
        OBVIOUS
    <2>1. TypeOK'
        BY TypeStep DEF IInv
    <2> QED
        BY <2>1, GrowthStep, AskStep, ListStep, QuietStep DEF Next, Serve
<1> QED
    BY InitIInv, <1>1, PTL DEF Spec

\* The read API is type correct: nothing is shown or counted that is not committed.
THEOREM TypeCorrect == Spec => []TypeOK
<1>1. IInv => TypeOK
    BY DEF IInv
<1> QED
    BY <1>1, Invariance, PTL

\* A walk to the end misses no row that was there (ListBySubscriber's offsets).
THEOREM NoneMissedHolds == Spec => []NoneMissed
<1>1. IInv => NoneMissed
    BY DEF IInv
<1> QED
    BY <1>1, Invariance, PTL

\* A walk that goes by total_pages misses what landed between two queries at most.
THEOREM MissedByLateOnlyHolds == Spec => []MissedByLateOnly
<1>1. IInv => MissedByLateOnly
    BY DEF IInv
<1> QED
    BY <1>1, Invariance, PTL

\* No more rows are shown again than came into the window after the walk began.
THEOREM RepeatsPushedDownHolds == Spec => []RepeatsPushedDown
<1>1. IInv => RepeatsPushedDown
    BY DEF IInv
<1> QED
    BY <1>1, Invariance, PTL

\* No page that a walk comes to or total_pages names has an offset that wraps.
THEOREM PagesInReachHolds == Spec => []PagesInReach
<1>1. IInv => PagesInReach
    BY WalkInReach, NamedInReach DEF IInv, PagesInReach
<1> QED
    BY <1>1, Invariance, PTL
=============================================================================
