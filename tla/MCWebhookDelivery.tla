------------------------- MODULE MCWebhookDelivery -------------------------
(* WebhookDelivery at a size TLC can exhaust.                              *)
EXTENDS WebhookDelivery, TLC

(* Two attempts in all. *)
TwoAttempts == <<1>>

Interchangeable == Permutations(Worker) \cup Permutations(Event)
=============================================================================
