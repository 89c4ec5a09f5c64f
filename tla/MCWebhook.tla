----------------------------- MODULE MCWebhook ------------------------------
(***************************************************************************)
(* Small instances of WebhookIngestion for TLC.                            *)
(***************************************************************************)
EXTENDS WebhookIngestion

CONSTANTS e1, e2, h1, h2

MCEvents == {e1, e2}
MCHandlers == {h1, h2}
MCIds == 1 .. 3

Delivery(e) == [ev |-> e, signed |-> TRUE, valid |-> TRUE]
Unsigned == [Delivery(e1) EXCEPT !.signed = FALSE]
Malformed == [Delivery(e1) EXCEPT !.valid = FALSE]

MCRequests == {Delivery(e1), Delivery(e2), Unsigned, Malformed, Delivery(None)}
=============================================================================
