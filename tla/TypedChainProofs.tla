-------------------------- MODULE TypedChainProofs --------------------------
(***************************************************************************)
(* TLAPS proofs about TypedChain: it implements ProviderChain, and what    *)
(* its credential types accept, send and read holds for any definitions,   *)
(* ids and replies.                                                        *)
(***************************************************************************)
EXTENDS TypedChain, ProviderChainProofs

\* Every step of a verifier made from a definition is a step of Process.
LEMMA TypedStepIsStep == [TypedNext]_typed => [Next]_vars
BY DEF TypedNext, TypedStep, typed, TypedValidate, TypedBuild, TypedInvoke, Unanswered, Answered,
       TypedExhausted, Next, Step, vars

\* A definition cannot make Process do anything else (NewVerifierFromDefinition): what is
\* proved of ProviderChain holds of every credential type.
THEOREM TypedImplementsChain == TypedSpec => Init /\ [][Next]_vars
<1>1. TypedInit => Init
  BY DEF TypedInit
<1> QED
  BY <1>1, TypedStepIsStep, PTL DEF TypedSpec

LEMMA ChainInvariance == TypedSpec => []IInv
BY TypedImplementsChain, IInvInit, IInvStep, PTL

-----------------------------------------------------------------------------
(* What is sent.                                                             *)

\* Normalization yields a text, trimmed, and leaves the core.
LEMMA NormalizedText ==
    ASSUME NEW t \in Text, NEW rules
    PROVE  /\ NormalizeID(t, rules) \in Text
           /\ NormalizeID(t, rules).core = t.core
           /\ {"trim", "remove_spaces"} \cap rules # {} => ~NormalizeID(t, rules).padded
           /\ NormalizeID(t, rules).lower = (t.lower /\ "uppercase" \notin rules)
           /\ NormalizeID(t, rules).gaps =
                IF "remove_spaces" \in rules /\ t.gaps = "spaces" THEN "none" ELSE t.gaps
BY DEF NormalizeID, TrimSpace, ToUpper, RemoveSpaces, Text

LEMMA CanonicalText ==
    ASSUME NEW t \in Text
    PROVE  Canonical(t) \in Text /\ Canonical(t).core = t.core /\ TrimSpace(t) \in Text
BY DEF Canonical, TrimSpace, ToUpper, Text, UdyamCores, NoCore

\* What has been sent is the request of data that was accepted.
SentAccepted ==
    /\ def \in Definitions /\ data \in Data
    /\ at \in {"validate", "build"} => sent = Nil
    /\ at = "build" => Accepts(def, data)
    /\ sent # Nil => Accepts(def, data) /\ sent = Request(def, data)

LEMMA SentAcceptedStep == SentAccepted /\ [TypedNext]_typed => SentAccepted'
<1> SUFFICES ASSUME SentAccepted, [TypedNext]_typed
             PROVE  SentAccepted'
  OBVIOUS
<1>1. CASE TypedValidate
  BY <1>1 DEF SentAccepted, TypedValidate, Validate, Return
<1>2. CASE TypedBuild
  BY <1>2 DEF SentAccepted, TypedBuild, Build, Return
<1>3. CASE TypedInvoke
  BY <1>3 DEF SentAccepted, TypedInvoke, Invoke
<1>4. CASE Unanswered
  BY <1>4 DEF SentAccepted, Unanswered, TransportError, HTTPError, FallBack
<1>5. CASE Answered
  BY <1>5 DEF SentAccepted, Answered, ParseError, SoftFailure, Verified, FallBack, Return
<1>6. CASE TypedExhausted
  BY <1>6 DEF SentAccepted, TypedExhausted, Exhausted, Return
<1>7. CASE UNCHANGED typed
  BY <1>7 DEF SentAccepted, typed, vars
<1> QED
  BY <1>1, <1>2, <1>3, <1>4, <1>5, <1>6, <1>7 DEF TypedNext, TypedStep

LEMMA SentAcceptedInvariance == TypedSpec => []SentAccepted
<1>1. TypedInit => SentAccepted
  BY DEF TypedInit, Init, SentAccepted
<1> QED
  BY <1>1, SentAcceptedStep, PTL DEF TypedSpec

\* Each text of a request has the core of the field it is made from.
LEMMA RequestTexts ==
    ASSUME NEW d \in Definitions, NEW x \in Data, NEW field \in DOMAIN Request(d, x)
    PROVE  /\ field \in {"id_no", "name"}
           /\ Request(d, x)[field] \in Text
           /\ Request(d, x)[field].core = x[field].core
<1>1. x.id_no \in Text /\ x.name \in Text /\ d.fields \subseteq {"id_no", "name"}
  BY DataAssumption, DefinitionsAssumption DEF Definition
<1>2. NormalizeID(x.id_no, d.normalization) \in Text
      /\ NormalizeID(x.id_no, d.normalization).core = x.id_no.core
  BY <1>1, NormalizedText
<1>3. CASE d.canonical
  BY <1>1, <1>2, <1>3, CanonicalText DEF Request
<1>4. CASE ~d.canonical
  <2>1. field \in d.fields
        /\ Request(d, x)[field] = IF field = "id_no" THEN NormalizeID(x.id_no, d.normalization)
                                                     ELSE TrimSpace(x[field])
    BY <1>4 DEF Request
  <2>2. field = "name" => TrimSpace(x[field]) \in Text /\ TrimSpace(x[field]).core = x[field].core
    BY <1>1, CanonicalText DEF TrimSpace, Text
  <2> QED
    BY <1>1, <1>2, <2>1, <2>2
<1> QED
  BY <1>3, <1>4

\* The reply last parsed is one a provider may give.
ReplyTyped == reply \in Answers \cup {Nil}

LEMMA ReplyStep == ReplyTyped /\ [TypedNext]_typed => ReplyTyped'
BY DEF ReplyTyped, TypedNext, TypedStep, TypedValidate, TypedBuild, TypedInvoke, Unanswered, Answered, Reply,
       TypedExhausted, typed

\* The verifier's definition and data stay what they were made of, what it sends is text,
\* and what it reads is a provider's (Process).
THEOREM TypeCorrect == TypedSpec => []WellTyped
<1>1. TypedInit => ReplyTyped
  BY DEF TypedInit, ReplyTyped
<1>2. IInv /\ SentAccepted /\ ReplyTyped => WellTyped
  <2> SUFFICES ASSUME IInv, SentAccepted, ReplyTyped PROVE WellTyped
    OBVIOUS
  <2>1. ASSUME sent # Nil, NEW field \in DOMAIN sent PROVE sent[field] \in Text
    BY <2>1, RequestTexts DEF SentAccepted
  <2> QED
    BY <2>1 DEF IInv, SentAccepted, ReplyTyped, WellTyped
<1> QED
  BY <1>1, <1>2, ReplyStep, ChainInvariance, SentAcceptedInvariance, PTL DEF TypedSpec

\* A field that is required is not blank in the request (makeValidateFn,
\* makeBuildRequestFn).
THEOREM NothingBlankSentHolds == TypedSpec => []NothingBlankSent
<1>1. SentAccepted => NothingBlankSent
  <2> SUFFICES ASSUME SentAccepted, sent # Nil, NEW field \in def.required \cap DOMAIN sent
               PROVE  sent[field].core # NoCore
    BY DEF NothingBlankSent
  <2>1. /\ def \in Definitions /\ data \in Data /\ sent = Request(def, data)
        /\ FieldValue(def, data, field) # Empty
    BY DEF SentAccepted, Accepts
  <2>2. field \in {"id_no", "name"} /\ sent[field].core = data[field].core
    BY <2>1, RequestTexts
  <2>3. data[field] \in Text /\ {"trim", "remove_spaces"} \cap def.normalization # {}
    BY <2>1, <2>2, DataAssumption, TrimAssumption
  <2>4. /\ FieldValue(def, data, field) \in Text
        /\ FieldValue(def, data, field).core = data[field].core
        /\ ~FieldValue(def, data, field).padded
    <3>1. CASE field = "id_no"
      BY <2>3, <3>1, NormalizedText DEF FieldValue
    <3>2. CASE field = "name"
      BY <2>3, <3>2 DEF FieldValue, TrimSpace, Text
    <3> QED
      BY <2>2, <3>1, <3>2
  <2>5. ASSUME NEW t \in Text, t.core = NoCore, ~t.padded
        PROVE  t = Empty
    BY <2>5 DEF Text, Empty
  <2> QED
    BY <2>1, <2>2, <2>4, <2>5
<1> QED
  BY <1>1, SentAcceptedInvariance, PTL

\* Two texts are one when they agree in everything.
LEMMA SameText ==
    ASSUME NEW t \in Text, NEW u \in Text,
           t.core = u.core, t.padded = u.padded, t.lower = u.lower, t.gaps = u.gaps
    PROVE  t = u
BY DEF Text

\* However an id is written, the providers are asked the same (NormalizeID,
\* toCanonicalUdyam).
THEOREM SentAlikeHolds == TypedSpec => []SentAlike
<1>1. SentAccepted => SentAlike
  <2> SUFFICES ASSUME SentAccepted, sent # Nil, NEW x \in Data,
                      x.name = data.name, WrittenAlike(def, x.id_no, data.id_no)
               PROVE  Request(def, x) = Request(def, data)
    BY DEF SentAlike, SentAccepted
  <2> DEFINE t == x.id_no
             u == data.id_no
             nt == NormalizeID(t, def.normalization)
             nu == NormalizeID(u, def.normalization)
  <2>1. /\ t \in Text /\ u \in Text /\ def \in Definitions
        /\ {"trim", "remove_spaces"} \cap def.normalization # {}
    BY DataAssumption, TrimAssumption DEF SentAccepted
  <2>2. /\ nt \in Text /\ nu \in Text /\ ~nt.padded /\ ~nu.padded
        /\ nt.core = t.core /\ nu.core = u.core /\ t.core = u.core /\ nt.lower = nu.lower
    BY <2>1, NormalizedText DEF WrittenAlike, Text
  <2>3. CASE def.canonical
    <3>1. Canonical(nt).gaps = Canonical(nu).gaps
      BY <2>1, <2>2, NormalizedText DEF WrittenAlike, Canonical, ToUpper, TrimSpace, Text
    <3>2. /\ ~Canonical(nt).padded /\ ~Canonical(nu).padded
          /\ ~Canonical(nt).lower /\ ~Canonical(nu).lower
      BY <2>2 DEF Canonical, ToUpper, TrimSpace, Text
    <3>3. Canonical(nt) = Canonical(nu)
      BY <2>2, <3>1, <3>2, CanonicalText, SameText DEF Text
    <3> QED
      BY <2>3, <3>3 DEF Request
  <2>4. CASE ~def.canonical
    <3>1. nt.gaps = nu.gaps
      BY <2>1, <2>4, NormalizedText DEF WrittenAlike, Text
    <3>2. nt = nu
      BY <2>2, <3>1, SameText DEF Text
    <3>3. \A field \in def.fields : field \in {"id_no", "name"}
      BY <2>1, DefinitionsAssumption DEF Definition
    <3> QED
      BY <2>4, <3>2, <3>3 DEF Request
  <2> QED
    BY <2>3, <2>4
<1> QED
  BY <1>1, SentAcceptedInvariance, PTL

-----------------------------------------------------------------------------
(* What is read.                                                             *)

\* What the parsers call a success.
LEMMA ParsedSuccess ==
    ASSUME NEW d \in Definitions, NEW r \in Answers, Parse(d, r) = "success"
    PROVE  /\ r.readable
           /\ d.transformer = "none" => ~Holds(r, d.soft, {"text"})
           /\ d.transformer = "gst_parse" => ~Holds(r, "error_message", {"text"})
           /\ d.transformer = "fssai_parse" => Has(r, "Status") \/ Holds(r, "fssai_details", {"text"})
           /\ d.transformer = "udyam_parse" => \E f \in Numbers : Holds(r, f, {"text", "blank"})
BY DEF Parse, ReadFields, GstParse, FssaiParse, UdyamParse, Holds

\* A verdict of success is that of the reply at hand (makeParseResponseFn, Process).
LEMMA VerifiedStep ==
    ASSUME IInv, SentAccepted, VerifiedOnReply, [TypedNext]_typed
    PROVE  VerifiedOnReply'
<1>1. CASE TypedValidate \/ TypedBuild \/ TypedInvoke \/ Unanswered
  BY <1>1 DEF VerifiedOnReply, TypedValidate, Validate, Return, Failure, TypedBuild, Build,
              TypedInvoke, Invoke, Unanswered, TransportError, HTTPError, FallBack
<1>2. CASE Answered
  <2>1. PICK r \in Answers :
            /\ Reply(r)
            /\ \/ Parse(def, r) = "parse_error" /\ ParseError
               \/ Parse(def, r) = "soft_failure" /\ SoftFailure
               \/ Parse(def, r) = "success" /\ Verified
    BY <1>2 DEF Answered
  <2>2. CASE ParseError \/ SoftFailure
    BY <2>2 DEF VerifiedOnReply, ParseError, SoftFailure, FallBack, Return, GoError
  <2>3. CASE Parse(def, r) = "success" /\ Verified
    <3>1. reply' = r /\ def' = def /\ invoked' = invoked /\ r # Nil
      BY <1>2, <2>1, <2>3, AnswersAssumption DEF Answered, Reply, Verified, Hear
    <3>2. Provider = "mock" => Has(r, "pan")
      BY <2>1 DEF Reply, Has
    <3> QED
      BY <2>3, <3>1, <3>2, ParsedSuccess DEF VerifiedOnReply, SentAccepted, Provider
  <2> QED
    BY <2>1, <2>2, <2>3
<1>3. CASE TypedExhausted
  <2>1. result' = last /\ ~last.success
    BY <1>3, ProvidersAssumption DEF TypedExhausted, Exhausted, Return, IInv, LatestFailure, Failure
  <2> QED
    BY <2>1 DEF VerifiedOnReply
<1>4. CASE UNCHANGED typed
  BY <1>4 DEF VerifiedOnReply, typed, vars, Provider
<1> QED
  BY <1>1, <1>2, <1>3, <1>4 DEF TypedNext, TypedStep

\* No credential type takes a complaint, or a reply without what it looks for, for a
\* verification.
THEOREM VerifiedOnReplyHolds == TypedSpec => []VerifiedOnReply
<1>1. TypedInit => VerifiedOnReply
  BY DEF TypedInit, Init, VerifiedOnReply
<1> QED
  BY <1>1, VerifiedStep, ChainInvariance, SentAcceptedInvariance, PTL DEF TypedSpec

=============================================================================
