------------------------- MODULE MCWebhookDelivery -------------------------
(* A webhook that wants both events, and one with a malformed URL.          *)
EXTENDS WebhookDelivery, TLC
CONSTANTS w1, w2
MCWanted == w1 :> {"created", "critical"} @@ w2 :> {"critical"}
=============================================================================
