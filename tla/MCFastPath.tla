----------------------------- MODULE MCFastPath -----------------------------
(* FastPath with values for TLC: a turn back by more than a step, a step on. *)
EXTENDS FastPath

MCTurns == {-3, 2}
=============================================================================
