----------------------------- MODULE MCKeyLookup -----------------------------
(* A small instance of KeyLookup.                                             *)
EXTENDS KeyLookup, TLC

CONSTANTS h1, h2, a, b, k1, k2

TwoHandlers == {h1, h2}
TwoIds == {a, b}
TwoKeys == {k1, k2}

\* Headers that begin after their lookup can have ended, that have their whole life before
\* them, that end with the tick they arrive in, and that have ended.
SomeLags == {-2, 0, 1, 2}

AnyHandlerAnyId == Permutations(TwoHandlers) \cup Permutations(TwoIds)

\* A key that ends, its successor that is yet to begin, a key that is revoked.
Listing(k, s, f, u) == [key |-> k, subscribed |-> s, from |-> f, until |-> u]
SomeEntries == {Listing(k1, TRUE, 0, 1), Listing(k2, TRUE, 1, 9), Listing(k1, FALSE, 0, 9)}
=============================================================================
