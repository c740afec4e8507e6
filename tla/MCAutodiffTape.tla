--------------------------- MODULE MCAutodiffTape ---------------------------
(* Instances of AutodiffTape for TLC. *)
EXTENDS AutodiffTape

\* An array that fits neither the first nor what is left of the second block.
MCLens == {3}
=============================================================================
