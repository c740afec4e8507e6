---------------------------- MODULE MCStackAlloc ----------------------------
(* Instances of StackAlloc for TLC. *)
EXTENDS StackAlloc

\* Empty requests, one byte, two that leave a gap or need a block larger than
\* twice the last one.
MCLens == {0, 1, 3, 5}
=============================================================================
