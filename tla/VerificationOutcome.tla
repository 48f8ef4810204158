------------------------ MODULE VerificationOutcome ------------------------
(* How ConfigVerifier.Process can end, as its callers tell the endings apart. *)

Running == "running"    \* it has not ended

\* No provider was called: validateFn refused the input, or the provider request
\* could not be built.
NotCalled == {"rejected", "unbuilt"}

\* What the last provider called came to: no reply (transport error), a reply that
\* cannot be parsed, a failure (HTTP status >= 400 or a soft failure), a failure
\* (HTTP status >= 400) whose body is not JSON, a success.
Replies == {"unanswered", "unreadable", "failed", "garbled", "verified"}

\* The endings Process returns as a Go error, with no VerificationResult.
GoErrors == {"unbuilt", "unreadable"}

\* The endings whose VerificationResult carries evidences.
Evidenced(ending) == ending \in {"failed", "garbled", "verified"}

\* json.Marshal refuses evidences whose json.RawMessage is not JSON.
Marshalled(ending) == ending # "garbled"
=============================================================================
