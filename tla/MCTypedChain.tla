---------------------------- MODULE MCTypedChain ----------------------------
(* The credential types of configs/credential-types, PAN with the mock provider as  *)
(* its fallback, one definition with the options their README describes, and the    *)
(* ids and replies that these tell apart.                                           *)
EXTENDS TypedChain

Vendors == [i \in 1..N |-> "vendor"]

GST ==
    [providers |-> Vendors, normalization |-> {"trim", "uppercase"}, required |-> {"id_no"},
     fields |-> {"id_no"}, canonical |-> FALSE, transformer |-> "gst_parse", soft |-> ""]
FSSAI == [GST EXCEPT !.normalization = {"trim", "remove_spaces"}, !.transformer = "fssai_parse"]
UDYAM == [GST EXCEPT !.fields = {}, !.canonical = TRUE, !.transformer = "udyam_parse"]
PAN == [GST EXCEPT !.transformer = "none", !.providers = [Vendors EXCEPT ![N] = "mock"]]
Named == [PAN EXCEPT !.providers = Vendors, !.required = {"id_no", "name"},
                     !.fields = {"id_no", "name"}, !.soft = "error"]

Shipped == {PAN, GST, FSSAI, UDYAM, Named}

Name == [Empty EXCEPT !.core = "other"]

\* cred_id is required to be non-empty; white space is not empty.
Ids == {t \in Text : t.core # NoCore} \cup {[Empty EXCEPT !.padded = TRUE]}
SomeData == [id_no : Ids, name : {[Empty EXCEPT !.padded = TRUE], Name}]

SomeFields ==
    [{} -> Kinds] \cup [{"pan", "category", "status", "full_name"} -> {"text"}]
    \cup UNION {[{f} -> Kinds] : f \in {"pan", "error", "error_message", "gstin", "fssai_details", "UAN"}}
    \cup [{"Udyam Registration Number", "UAN"} -> {"text", "empty"}]
    \cup [{"Status", "fssai_details"} -> {"text", "odd"}]

NoFields == [f \in {} |-> "odd"]

SomeAnswers ==
    [readable : {TRUE}, fields : SomeFields] \cup {[readable |-> FALSE, fields |-> NoFields]}
=============================================================================
