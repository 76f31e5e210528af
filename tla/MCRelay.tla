------------------------------ MODULE MCRelay ------------------------------
(* A small instance of Relay: two users, one of them with two sessions. *)
EXTENDS Relay, TLC

CONSTANTS alice, bob, a1, b1, b2, m1, m2

MCUsers == {alice, bob}
MCTags  == {a1, b1, b2}
MCOwner == (a1 :> alice) @@ (b1 :> bob) @@ (b2 :> bob)
MCIds   == {m1, m2}

(* One session per user, for the runs about time. *)
TwoTags   == {a1, b1}
TwoOwners == (a1 :> alice) @@ (b1 :> bob)

Symmetry == Permutations(MCIds)
=============================================================================
