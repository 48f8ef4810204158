------------------------------ MODULE MCStartup ------------------------------
(* A small instance of Startup: databases that earlier versions of the service *)
(* left, and configurations that are right or wrong in one place.              *)
EXTENDS Startup

Dated(vs) == [v \in Values |-> IF v \in vs THEN 1 ELSE None]

\* Rows of one value only, so that one id is enough.
EmptyDatabase == [db |-> {}, enums |-> Dated({}), minted |-> 0, refs |-> {}]

FirstVersion ==
    [EmptyDatabase EXCEPT !.db = {"uuid-ossp", "enum_types", "credential_requests", "credentials", "issuer:text"}]

PendingRows == [FirstVersion EXCEPT !.enums = Dated({"PENDING"}), !.minted = 1, !.refs = {1}]
StaleValue  == [FirstVersion EXCEPT !.enums = Dated({"CRED_PAN"}), !.minted = 1]
StaleRows   == [StaleValue EXCEPT !.refs = {1}]
IssuerCodes == [FirstVersion EXCEPT !.db = @ \cup {"issuer:codes"}]
JsonBodies  == [FirstVersion EXCEPT !.db = (@ \ {"issuer:text"}) \cup {"dedup", "issuer_fkey", "subscriber_id", "bodies", "bodies:jsonb"}]

SomeDatabases ==
    {EmptyDatabase, FirstVersion, PendingRows, StaleValue, StaleRows, IssuerCodes, JsonBodies}

Shipped ==
    [host |-> TRUE, exports |-> <<"trace", "metric", "log">>,
     offers |-> {<<"digio", "pan">>, <<"digio", "gst">>, <<"mock", "pan">>},
     uses |-> {<<"digio", "pan">>, <<"mock", "pan">>}, valid |-> {"providers", "types"}, auth |-> TRUE]

SomeConfigs ==
    {Shipped,
     [Shipped EXCEPT !.host = FALSE, !.exports = <<>>],
     [Shipped EXCEPT !.valid = {"types"}, !.exports = <<"trace", "log">>],
     [Shipped EXCEPT !.valid = {"providers"}, !.exports = <<"trace">>],
     [Shipped EXCEPT !.offers = @ \cup {<<"signzy", "pan">>}],
     [Shipped EXCEPT !.uses = @ \cup {<<"mock", "gst">>}],
     [Shipped EXCEPT !.auth = FALSE]}

OnlyPending == {"PENDING"}
=============================================================================
