------------------------ MODULE MCCredentialPipeline ------------------------
(* Small instances of CredentialPipeline.                                    *)
EXTENDS CredentialPipeline, TLC

CONSTANTS s1, s2, p, q

OneSubmission == {s1}
TwoSubmissions == {s1, s2}
OnePayload == {p}
TwoPayloads == {p, q}

Singles == [x \in Payloads |-> 1]     \* every submission is one credential
Pairs   == [x \in Payloads |-> 2]     \* every submission is two

AnySubmission == Permutations(Submissions)
=============================================================================
