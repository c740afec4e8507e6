------------------------------ MODULE Extents ------------------------------
(***************************************************************************)
(* Addresses and extents of arena memory, shared by every module that      *)
(* talks about the memory pool.  A pointer is a heap block and an offset   *)
(* in it: blocks come from separate malloc() calls, so bytes of different  *)
(* blocks never coincide.                                                  *)
(***************************************************************************)
EXTENDS Naturals, Sequences

Pointer == [block : Nat \ {0}, off : Nat]

\* Extents are never empty.
Extent == [block : Nat \ {0}, off : Nat, len : Nat \ {0}]

PointerAt(b, o) == [block |-> b, off |-> o]

ExtentAt(p, n) == [block |-> p.block, off |-> p.off, len |-> n]

StartOf(e) == PointerAt(e.block, e.off)
EndOf(e) == PointerAt(e.block, e.off + e.len)

\* Two extents overlap when some byte belongs to both.
Overlap(e, f) ==
  /\ e.block = f.block
  /\ e.off < f.off + f.len
  /\ f.off < e.off + e.len

\* The order in which a stack of blocks is filled.
UpTo(p, q) == p.block < q.block \/ (p.block = q.block /\ p.off <= q.off)

\* All the extents of a stack of frames.
LiveIn(frames) == UNION {frames[i] : i \in DOMAIN frames}
=============================================================================
