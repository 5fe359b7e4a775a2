------------------------- MODULE MCLocalnetHarness -------------------------
(***************************************************************************)
(* Two runs of the localnet script on one machine.                         *)
(***************************************************************************)
EXTENDS LocalnetHarness
=============================================================================
