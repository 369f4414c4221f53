----------------------------- MODULE MCBilling -----------------------------
(* Billing at a size TLC can exhaust.                                      *)
EXTENDS Billing, TLC

Interchangeable == Permutations(Invocation) \cup Permutations(Subscription)
=============================================================================
