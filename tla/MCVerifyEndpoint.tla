-------------------------- MODULE MCVerifyEndpoint --------------------------
(* Small instances of VerifyEndpoint.                                        *)
EXTENDS VerifyEndpoint, TLC

CONSTANTS c1, c2, c3, a, b

ThreeCalls == {c1, c2, c3}
OneSubscriber == {a}
TwoSubscribers == {a, b}

AnyCallAnySubscriber == Permutations(Calls) \cup Permutations(Subscribers)
=============================================================================
