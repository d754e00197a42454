------------------------------- MODULE MCDfu -------------------------------
(* Dfu with values for TLC. *)
EXTENDS Dfu
=============================================================================
