--------------------------- MODULE MCOpenCLEvents ---------------------------
(* Instances of OpenCLEvents for TLC. *)
EXTENDS OpenCLEvents, TLC

Symmetry ==
  Permutations(Matrices) \cup Permutations(Buffers) \cup Permutations(Commands)
=============================================================================
