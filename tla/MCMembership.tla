---------------------------- MODULE MCMembership ----------------------------
(* Membership with interchangeable people. *)
EXTENDS Membership, TLC

Offers == [i \in Link |-> "admin"]

Interchangeable == Permutations(User)
=============================================================================
