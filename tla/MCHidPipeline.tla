--------------------------- MODULE MCHidPipeline ---------------------------
(* HidPipeline with values for TLC. *)
EXTENDS HidPipeline

MCMotions == {-2, 2}

\* The buttons are interchangeable.
MCSymmetry == Permutations(Keys)
=============================================================================
