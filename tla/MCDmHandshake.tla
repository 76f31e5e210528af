-------------------------- MODULE MCDmHandshake --------------------------
(***************************************************************************)
(* Small instances of DmHandshake.                                         *)
(***************************************************************************)
EXTENDS DmHandshake

CONSTANTS a, b
MCAuthor == [i \in Ids |-> IF i <= 2 THEN a ELSE b]
=============================================================================
