-------------------------- MODULE MCGroupMembers --------------------------
(* Two users, one of them the admin, and a third key. *)
EXTENDS GroupMembers, TLC

CONSTANTS alice, bob, ka, k1, k2

Symmetry == Permutations({k1, k2}) \cup Permutations(Users)
=============================================================================
