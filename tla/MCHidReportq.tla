---------------------------- MODULE MCHidReportq ----------------------------
(* HidReportq with values for TLC. *)
EXTENDS HidReportq
=============================================================================
