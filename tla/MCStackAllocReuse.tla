-------------------------- MODULE MCStackAllocReuse --------------------------
(* Instances of StackAllocReuse for TLC. *)
EXTENDS StackAllocReuse

MCLens == {0, 1, 2, 5}
=============================================================================
