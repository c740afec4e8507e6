--------------------------- MODULE MCReverseSweep ---------------------------
(* Instances of ReverseSweep for TLC. *)
EXTENDS ReverseSweep
=============================================================================
