--------------------------- MODULE MCKeyPackages ---------------------------
(* Small instances of KeyPackages: two users publish, and everybody fetches  *)
(* from the first.                                                           *)
EXTENDS KeyPackages, TLC

CONSTANTS alice, bob, f1, f2, k1, k2, k3, k4

MCTarget == [f \in Fetchers |-> alice]

Symmetry == Permutations(Kps) \cup Permutations(Fetchers)
=============================================================================
