--------------------------- MODULE MCGroupDelivery ---------------------------
(* Three users who join a group of one; model values and bounds are in the  *)
(* configurations.                                                          *)
EXTENDS GroupDelivery

=============================================================================
