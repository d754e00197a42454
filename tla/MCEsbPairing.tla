---------------------------- MODULE MCEsbPairing ----------------------------
(* EsbPairing with values for TLC. *)
EXTENDS EsbPairing
=============================================================================
