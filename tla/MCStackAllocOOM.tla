--------------------------- MODULE MCStackAllocOOM ---------------------------
(* Instances of StackAllocOOM for TLC. *)
EXTENDS StackAllocOOM

MCLens == {1, 3}
=============================================================================
