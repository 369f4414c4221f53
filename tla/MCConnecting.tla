---------------------------- MODULE MCConnecting ----------------------------
EXTENDS Connecting, TLC

CONSTANTS f1, f2, r1, r2, a1, a2

(* Flows, requests and accounts are interchangeable. *)
Symmetry ==
  Permutations({f1, f2}) \cup Permutations({r1, r2}) \cup Permutations({a1, a2})

ClockDrift == {-1, 0}
=============================================================================
