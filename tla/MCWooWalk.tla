----------------------------- MODULE MCWooWalk -----------------------------
(* Small instances of WooWalk for TLC: the orders are interchangeable.     *)
EXTENDS WooWalk, TLC

Interchangeable == Permutations(Order)
=============================================================================
