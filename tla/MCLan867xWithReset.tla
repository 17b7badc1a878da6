------------------------- MODULE MCLan867xWithReset -------------------------
(* Instances of Lan867xWithReset for TLC, with the sets of MCLan867x. *)
EXTENDS Lan867xWithReset, MCLan867x

TwoConfigs == { Conf(0, 2, 0, 0), Conf(1, 2, 1, 3) }
=============================================================================
