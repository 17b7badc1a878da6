------------------------- MODULE MCLan87xxWithReset -------------------------
(* Instances of Lan87xxWithReset for TLC, with the sets of MCLan87xx. *)
EXTENDS Lan87xxWithReset, MCLan87xx
=============================================================================
