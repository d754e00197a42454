--------------------------- MODULE MCDongleBridge ---------------------------
(* DongleBridge with values for TLC. *)
EXTENDS DongleBridge
=============================================================================
