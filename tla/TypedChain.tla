----------------------------- MODULE TypedChain -----------------------------
(***************************************************************************)
(* ProviderChain with the functions a credential type's YAML definition    *)
(* gives it: which cred_data it accepts, what it sends to the providers,   *)
(* and how it reads their replies.                                         *)
(*                                                                         *)
(* An id is not a string but what the code can tell of one: its core, and  *)
(* how that is written.  A reply is what each field of interest holds.     *)
(***************************************************************************)
EXTENDS ProviderChain

CONSTANTS
    Definitions,  \* the credential types
    Data,         \* the cred_data that is verified
    Answers       \* the bodies of status < 400 a provider may answer with

VARIABLES
    def,    \* the definition the verifier was made from
    data,   \* the cred_data
    sent,   \* the request built from it, or Nil
    reply   \* the last body that was parsed, or Nil

typed == <<vars, def, data, sent, reply>>

-----------------------------------------------------------------------------
(* Ids and how they are normalized.                                          *)

NoCore == "none"             \* nothing but spaces, if that
UdyamCores == {"udyam"}      \* those of the form of a Udyam number
Cores == {NoCore, "other"} \cup UdyamCores

\* padded: spaces around it.  lower: not in upper case.  gaps: between its parts.
Text ==
    {t \in [core : Cores, padded : BOOLEAN, lower : BOOLEAN, gaps : {"none", "spaces", "hyphens"}] :
        t.core = NoCore => ~t.lower /\ t.gaps = "none"}

Empty == [core |-> NoCore, padded |-> FALSE, lower |-> FALSE, gaps |-> "none"]

TrimSpace(t) == [t EXCEPT !.padded = FALSE]
ToUpper(t) == [t EXCEPT !.lower = FALSE]
RemoveSpaces(t) == [t EXCEPT !.padded = FALSE, !.gaps = IF @ = "spaces" THEN "none" ELSE @]

NormalizeID(t, rules) ==
    LET trimmed == IF "trim" \in rules THEN TrimSpace(t) ELSE t
        upper   == IF "uppercase" \in rules THEN ToUpper(trimmed) ELSE trimmed
    IN  IF "remove_spaces" \in rules THEN RemoveSpaces(upper) ELSE upper

\* Mutant of Canonical: the parts of a number are left as they are written.
CanonicalAsWritten(t) == ToUpper(TrimSpace(t))

\* toCanonicalUdyam, for an id of whatever form.
Canonical(t) ==
    LET upper == ToUpper(TrimSpace(t))
    IN  IF t.core \in UdyamCores THEN [upper EXCEPT !.gaps = "hyphens"] ELSE upper

\* A definition: its providers, in order; the normalization of id_no; the cred_data keys
\* that must be there; those that are sent; the transformers of request and response;
\* response.soft_fail_field ("" for none).
Definition ==
    [providers : [1..N -> {"vendor", "mock"}],
     normalization : SUBSET {"trim", "uppercase", "remove_spaces"},
     required : SUBSET {"id_no", "name"},
     fields : SUBSET {"id_no", "name"},
     canonical : BOOLEAN,
     transformer : {"none", "gst_parse", "fssai_parse", "udyam_parse"},
     soft : STRING]

ASSUME DefinitionsAssumption == Definitions \subseteq Definition
\* As every definition in configs/credential-types does: one that does not trim takes
\* spaces for an id.
ASSUME TrimAssumption ==
    \A d \in Definitions : {"trim", "remove_spaces"} \cap d.normalization # {}
ASSUME DataAssumption == Data \subseteq [id_no : Text, name : Text]

\* What a field of a reply may hold: some text, the empty string, white space, something
\* of another type.  Of fssai_details: entries, no entry, another type.
Kinds == {"text", "empty", "blank", "odd"}

\* readable: it is a JSON object, or null, which is read like one without fields.
ASSUME AnswersAssumption ==
    /\ Nil \notin Answers
    /\ \A r \in Answers :
         r.readable \in BOOLEAN /\ \A f \in DOMAIN r.fields : r.fields[f] \in Kinds

-----------------------------------------------------------------------------
(* makeValidateFn, makeBuildRequestFn, makeParseResponseFn.                  *)

\* Mutant of FieldValue: it is looked at as it came.
FieldAsGiven(d, x, field) == x[field]

FieldValue(d, x, field) ==
    IF field = "id_no" THEN NormalizeID(x[field], d.normalization) ELSE TrimSpace(x[field])

Accepts(d, x) == \A field \in d.required : FieldValue(d, x, field) # Empty

\* What is sent under each key.
Request(d, x) ==
    IF d.canonical THEN [id_no |-> Canonical(NormalizeID(x.id_no, d.normalization))]
    ELSE [field \in d.fields |->
            IF field = "id_no" THEN NormalizeID(x.id_no, d.normalization) ELSE TrimSpace(x[field])]

Has(r, field) == field \in DOMAIN r.fields
Holds(r, field, kinds) == Has(r, field) /\ r.fields[field] \in kinds

\* The declarative reading: every reply without a soft failure is a success.
ReadFields(d, r) == IF Holds(r, d.soft, {"text"}) THEN "soft_failure" ELSE "success"

\* Mutant of GstParse: error_message is not looked at.
GstParseBlind(r) ==
    IF \E f \in {"error_message", "gstin", "details"} : Holds(r, f, {"odd"})
    THEN "parse_error" ELSE "success"

GstParse(r) ==
    IF \E f \in {"error_message", "gstin", "details"} : Holds(r, f, {"odd"}) THEN "parse_error"
    ELSE IF Holds(r, "error_message", {"text", "blank"}) THEN "soft_failure" ELSE "success"

\* A reply with a Status is in the older format.
FssaiParse(r) ==
    IF Has(r, "Status")
    THEN IF Holds(r, "Status", {"odd"}) THEN "parse_error" ELSE "success"
    ELSE IF Holds(r, "fssai_details", {"odd"}) THEN "parse_error"
    ELSE IF Holds(r, "fssai_details", {"text"}) THEN "success" ELSE "soft_failure"

Numbers == {"Udyam Registration Number", "UAN"}

UdyamParse(r) ==
    IF \E f \in Numbers : Holds(r, f, {"text", "blank"}) THEN "success" ELSE "soft_failure"

Parse(d, r) ==
    IF ~r.readable THEN "parse_error"
    ELSE CASE d.transformer = "none" -> ReadFields(d, r)
           [] d.transformer = "gst_parse" -> GstParse(r)
           [] d.transformer = "fssai_parse" -> FssaiParse(r)
           [] d.transformer = "udyam_parse" -> UdyamParse(r)

-----------------------------------------------------------------------------

TypedInit ==
    /\ Init
    /\ def \in Definitions /\ data \in Data
    /\ sent = Nil /\ reply = Nil

\* The input is the code's: the endpoint marshals it itself, so it can be parsed.
TypedValidate ==
    /\ Validate
    /\ at' = "build" <=> Accepts(def, data)
    /\ UNCHANGED <<def, data, sent, reply>>

\* No transformer fails, and strings can be marshalled.
TypedBuild ==
    /\ Build /\ at' = "loop"
    /\ sent' = Request(def, data)
    /\ UNCHANGED <<def, data, reply>>

TypedInvoke == Invoke /\ UNCHANGED <<def, data, sent, reply>>

Provider == def.providers[invoked]

\* MockClient always answers, with the id it was sent as the PAN.
Reply(r) ==
    /\ Provider = "mock" =>
        /\ r.readable
        /\ r.fields = [f \in {"pan", "category", "status", "full_name"} |-> "text"]
    /\ reply' = r

Unanswered ==
    /\ at = "await" /\ Provider = "vendor"
    /\ TransportError \/ HTTPError
    /\ UNCHANGED <<def, data, sent, reply>>

\* A status below 400: the body decides.
Answered ==
    /\ at = "await"
    /\ \E r \in Answers :
        /\ Reply(r)
        /\ \/ Parse(def, r) = "parse_error" /\ ParseError
           \/ Parse(def, r) = "soft_failure" /\ SoftFailure
           \/ Parse(def, r) = "success" /\ Verified
    /\ UNCHANGED <<def, data, sent>>

TypedExhausted == Exhausted /\ UNCHANGED <<def, data, sent, reply>>

TypedStep ==
    \/ TypedValidate \/ TypedBuild \/ TypedInvoke \/ Unanswered \/ Answered \/ TypedExhausted

TypedNext == TypedStep \/ (at = "returned" /\ UNCHANGED typed)

TypedSpec == TypedInit /\ [][TypedNext]_typed /\ WF_typed(TypedStep)

-----------------------------------------------------------------------------
(* What must hold, besides what ProviderChain promises.                      *)

WellTyped ==
    /\ TypeOK
    /\ def \in Definitions /\ data \in Data
    /\ reply \in Answers \cup {Nil}
    /\ sent # Nil => \A field \in DOMAIN sent : sent[field] \in Text

\* A required field is there in what is sent, not only in what was validated: the two
\* are normalized by different code, and neither looks at the other.
NothingBlankSent ==
    sent # Nil => \A field \in def.required \cap DOMAIN sent : sent[field].core # NoCore

\* Two ways of writing one id, as far as the definition's rules go.
WrittenAlike(d, t, u) ==
    /\ t.core = u.core /\ t.core # NoCore
    /\ t.lower = u.lower \/ "uppercase" \in d.normalization
    /\ \/ t.gaps = u.gaps
       \/ d.canonical /\ t.core \in UdyamCores
       \/ "remove_spaces" \in d.normalization /\ "hyphens" \notin {t.gaps, u.gaps}

\* However an id is written, the providers are asked the same.
SentAlike ==
    sent # Nil =>
        \A x \in Data :
            x.name = data.name /\ WrittenAlike(def, x.id_no, data.id_no) => Request(def, x) = sent

\* A verified result rests on the reply of the provider it names, and that reply was an
\* object, did not complain, and of a Udyam number held one.
VerifiedOnReply ==
    at = "returned" /\ result.success =>
        /\ reply # Nil /\ reply.readable
        /\ Provider = "mock" => Has(reply, "pan")
        /\ def.transformer = "none" => ~Holds(reply, def.soft, {"text"})
        /\ def.transformer = "gst_parse" => ~Holds(reply, "error_message", {"text"})
        /\ def.transformer = "fssai_parse" => Has(reply, "Status") \/ Holds(reply, "fssai_details", {"text"})
        /\ def.transformer = "udyam_parse" => \E f \in Numbers : Holds(reply, f, {"text", "blank"})

=============================================================================
