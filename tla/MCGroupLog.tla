---------------------------- MODULE MCGroupLog ----------------------------
(* Two members and three messages. *)
EXTENDS GroupLog, TLC

CONSTANTS alice, bob, m1, m2, m3

Symmetry == Permutations(Msgs) \cup Permutations(Members)
=============================================================================
