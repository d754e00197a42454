--------------------------- MODULE MCMotionSensor ---------------------------
(* MotionSensor with values for TLC. *)
EXTENDS MotionSensor
=============================================================================
