----------------------------- MODULE StackAlloc -----------------------------
(***************************************************************************)
(* stan::math::stack_alloc (src/stan/math/memory/stack_alloc.hpp): the     *)
(* memory pool under the reverse-mode autodiff tape.                       *)
(*                                                                         *)
(* Block indices start at 1.  malloc() succeeds in this module, so blocks_ *)
(* and sizes_ have one entry per block and blocks_[i] is the pointer       *)
(* PointerAt(i, 0); StackAllocOOM models a failing malloc().               *)
(*                                                                         *)
(* Next has the client discipline that recover_memory() and                *)
(* recover_memory_nested() enforce by throwing: recover_all() and          *)
(* free_all(), which check nothing, only with no nested frame, and         *)
(* recover_nested(), undefined without one, only with one.  AutodiffTape   *)
(* models those callers with their checks.                                 *)
(***************************************************************************)
EXTENDS Extents

CONSTANTS
  InitialNBytes,  \* constructor argument, DEFAULT_INITIAL_NBYTES in the code
  Lens,           \* the request sizes explored
  MaxBlocks,      \* bound: blocks the heap gives
  MaxNested       \* bound: depth of nested frames

ASSUME InitialNBytesAssumption == InitialNBytes \in Nat \ {0}
ASSUME LensAssumption == Lens \subseteq Nat
ASSUME BoundsAssumption == MaxBlocks \in Nat /\ MaxNested \in Nat

VARIABLES
  sizes_,                  \* size in bytes of each block
  cur_block_,              \* index of the block being filled
  cur_block_end_,          \* one past its last byte
  next_loc_,               \* next free byte in it
  nested_cur_blocks_,      \* the three values above, saved by start_nested()
  nested_next_locs_,
  nested_cur_block_ends_,
  live                     \* history: the extents granted and not recovered, by frame

current == <<cur_block_, cur_block_end_, next_loc_>>
nested == <<nested_cur_blocks_, nested_next_locs_, nested_cur_block_ends_>>
vars == <<sizes_, current, nested, live>>

Init ==
  /\ sizes_ = <<InitialNBytes>>
  /\ cur_block_ = 1
  /\ cur_block_end_ = PointerAt(1, InitialNBytes)
  /\ next_loc_ = PointerAt(1, 0)
  /\ nested_cur_blocks_ = << >>
  /\ nested_next_locs_ = << >>
  /\ nested_cur_block_ends_ = << >>
  /\ live = << {} >>

-----------------------------------------------------------------------------
(* alloc() and move_to_next_block() *)

\* An exact fit does not stay: the test is next_loc_ >= cur_block_end_.
FitsInBlock(len) == next_loc_.off + len < cur_block_end_.off

\* Variants of LaterFits that the runs must tell from it: a search that starts from the
\* first block, one that forgets ++cur_block_, one that does not look at the sizes.
LaterFits_FromFirst(len) == {b \in DOMAIN sizes_ : sizes_[b] >= len}
LaterFits_FromCurrent(len) == {b \in cur_block_..Len(sizes_) : sizes_[b] >= len}
LaterFits_AnySize(len) == (cur_block_ + 1)..Len(sizes_)

\* The blocks after the current one that hold at least len bytes.
LaterFits(len) == {b \in (cur_block_ + 1)..Len(sizes_) : sizes_[b] >= len}

\* Variant: the sum of the two instead of their maximum.
NewBlockSize_Sum(len) == sizes_[Len(sizes_)] * 2 + len

\* max(2 * size of the last block, len)
NewBlockSize(len) ==
  LET double == sizes_[Len(sizes_)] * 2
  IN  IF double < len THEN len ELSE double

\* The block move_to_next_block() settles on.
NextBlock(len) ==
  IF LaterFits(len) = {}
  THEN Len(sizes_) + 1
  ELSE CHOOSE b \in LaterFits(len) : \A c \in LaterFits(len) : b <= c

\* The pointer alloc(len) returns.
AllocResult(len) ==
  IF FitsInBlock(len) THEN next_loc_ ELSE PointerAt(NextBlock(len), 0)

\* The caller now holds the bytes granted; an empty request grants none.
RecordGrant(len) ==
  IF len = 0
  THEN UNCHANGED live
  ELSE live' = [live EXCEPT ![Len(live)] = @ \cup {ExtentAt(AllocResult(len), len)}]

EnterBlock(b, len) ==
  /\ cur_block_' = b
  /\ next_loc_' = PointerAt(b, len)
  /\ cur_block_end_' = PointerAt(b, sizes_'[b])

AllocInBlock(len) ==
  /\ FitsInBlock(len)
  /\ next_loc_' = PointerAt(next_loc_.block, next_loc_.off + len)
  /\ UNCHANGED <<sizes_, cur_block_, cur_block_end_>>

AllocInLaterBlock(len) ==
  /\ ~ FitsInBlock(len)
  /\ LaterFits(len) # {}
  /\ UNCHANGED sizes_
  /\ EnterBlock(NextBlock(len), len)

AllocInNewBlock(len) ==
  /\ ~ FitsInBlock(len)
  /\ LaterFits(len) = {}
  /\ Len(sizes_) < MaxBlocks
  /\ sizes_' = Append(sizes_, NewBlockSize(len))
  /\ EnterBlock(NextBlock(len), len)

alloc(len) ==
  /\ \/ AllocInBlock(len)
     \/ AllocInLaterBlock(len)
     \/ AllocInNewBlock(len)
  /\ RecordGrant(len)
  /\ UNCHANGED nested

-----------------------------------------------------------------------------
(* Recovery and nesting *)

\* Variant of Rewind: the end of the block left behind stays.
Rewind_KeepsEnd ==
  /\ cur_block_' = 1
  /\ next_loc_' = PointerAt(1, 0)
  /\ cur_block_end_' = cur_block_end_

\* The assignments of recover_all() to the current position.
Rewind ==
  /\ cur_block_' = 1
  /\ next_loc_' = PointerAt(1, 0)
  /\ cur_block_end_' = PointerAt(1, sizes_[1])

recover_all ==
  /\ Rewind
  /\ live' = << {} >>
  /\ UNCHANGED <<sizes_, nested>>

free_all ==
  /\ sizes_' = <<sizes_[1]>>
  /\ Rewind
  /\ live' = << {} >>
  /\ UNCHANGED nested

\* Variant: it saves the start of the block, not the position in it.
start_nested_SavesBlock ==
  /\ Len(nested_cur_blocks_) < MaxNested
  /\ nested_cur_blocks_' = Append(nested_cur_blocks_, cur_block_)
  /\ nested_next_locs_' = Append(nested_next_locs_, PointerAt(cur_block_, 0))
  /\ nested_cur_block_ends_' = Append(nested_cur_block_ends_, cur_block_end_)
  /\ live' = Append(live, {})
  /\ UNCHANGED <<sizes_, current>>

start_nested ==
  /\ Len(nested_cur_blocks_) < MaxNested
  /\ nested_cur_blocks_' = Append(nested_cur_blocks_, cur_block_)
  /\ nested_next_locs_' = Append(nested_next_locs_, next_loc_)
  /\ nested_cur_block_ends_' = Append(nested_cur_block_ends_, cur_block_end_)
  /\ live' = Append(live, {})
  /\ UNCHANGED <<sizes_, current>>

Back(s) == s[Len(s)]
PopBack(s) == SubSeq(s, 1, Len(s) - 1)

\* Variant: it does not pop the saved positions.
recover_nested_KeepsLocs ==
  /\ nested_cur_blocks_ # << >>
  /\ cur_block_' = Back(nested_cur_blocks_)
  /\ nested_cur_blocks_' = PopBack(nested_cur_blocks_)
  /\ next_loc_' = Back(nested_next_locs_)
  /\ cur_block_end_' = Back(nested_cur_block_ends_)
  /\ nested_cur_block_ends_' = PopBack(nested_cur_block_ends_)
  /\ live' = PopBack(live)
  /\ UNCHANGED <<sizes_, nested_next_locs_>>

recover_nested ==
  /\ nested_cur_blocks_ # << >>
  /\ cur_block_' = Back(nested_cur_blocks_)
  /\ nested_cur_blocks_' = PopBack(nested_cur_blocks_)
  /\ next_loc_' = Back(nested_next_locs_)
  /\ nested_next_locs_' = PopBack(nested_next_locs_)
  /\ cur_block_end_' = Back(nested_cur_block_ends_)
  /\ nested_cur_block_ends_' = PopBack(nested_cur_block_ends_)
  /\ live' = PopBack(live)
  /\ UNCHANGED sizes_

Next ==
  \/ \E len \in Lens : alloc(len)
  \/ nested_cur_blocks_ = << >> /\ recover_all
  \/ nested_cur_blocks_ = << >> /\ free_all
  \/ start_nested
  \/ recover_nested

Spec == Init /\ [][Next]_vars

-----------------------------------------------------------------------------
(* Queries *)

\* Variants: the last full block is skipped; next_loc_ itself counts.
in_stack_SkipsLast(p) ==
  \/ \E i \in 1..(cur_block_ - 2) : p.block = i /\ p.off < sizes_[i]
  \/ p.block = cur_block_ /\ p.off < next_loc_.off

in_stack_Inclusive(p) ==
  \/ \E i \in 1..(cur_block_ - 1) : p.block = i /\ p.off < sizes_[i]
  \/ p.block = cur_block_ /\ p.off <= next_loc_.off

in_stack(p) ==
  \/ \E i \in 1..(cur_block_ - 1) : p.block = i /\ p.off < sizes_[i]
  \/ p.block = cur_block_ /\ p.off < next_loc_.off

-----------------------------------------------------------------------------
(* Properties *)

Live == LiveIn(live)

\* A saved or current position: its three parts agree with each other.
Consistent(block, end, next) ==
  /\ block \in 1..Len(sizes_)
  /\ end = PointerAt(block, sizes_[block])
  /\ next.block = block
  /\ next.off \in 0..sizes_[block]

\* Every variable has its type; one frame per open nested level plus the outermost.
TypeOK ==
  /\ sizes_ \in Seq(Nat \ {0}) /\ Len(sizes_) >= 1
  /\ cur_block_ \in Nat \ {0}
  /\ cur_block_end_ \in Pointer
  /\ next_loc_ \in Pointer
  /\ nested_cur_blocks_ \in Seq(Nat \ {0})
  /\ nested_next_locs_ \in Seq(Pointer)
  /\ nested_cur_block_ends_ \in Seq(Pointer)
  /\ Len(nested_next_locs_) = Len(nested_cur_blocks_)
  /\ Len(nested_cur_block_ends_) = Len(nested_cur_blocks_)
  /\ live \in Seq(SUBSET Extent)
  /\ Len(live) = Len(nested_cur_blocks_) + 1

\* The comments on the members: cur_block_end_ is cur_block_ptr_ + sizes_[cur_block_]
\* and next_loc_ is a spot in the current block, for the current position and for every
\* position recover_nested() will restore, whatever was allocated since it was saved.
PositionsConsistent ==
  /\ Consistent(cur_block_, cur_block_end_, next_loc_)
  /\ \A k \in DOMAIN nested_cur_blocks_ :
       Consistent(nested_cur_blocks_[k], nested_cur_block_ends_[k], nested_next_locs_[k])

\* alloc() never hands out memory that overlaps what any frame still holds, however
\* allocation, block reuse, nesting and recovery were interleaved.
NoOverlap == \A e, f \in Live : e # f => ~ Overlap(e, f)

\* All memory granted lies inside a block the pool owns.
LiveInsideBlocks ==
  \A e \in Live : e.block \in 1..Len(sizes_) /\ e.off + e.len <= sizes_[e.block]

\* The stack discipline behind the properties below: memory lies under every mark saved
\* after it was granted and above every mark saved before, and the marks are ordered.
FramesOrdered ==
  /\ \A e \in Live : UpTo(EndOf(e), next_loc_)
  /\ \A k \in DOMAIN nested_next_locs_ :
       /\ UpTo(nested_next_locs_[k], next_loc_)
       /\ \A m \in k..Len(nested_next_locs_) :
            UpTo(nested_next_locs_[k], nested_next_locs_[m])
       /\ \A j \in DOMAIN live : \A e \in live[j] :
            IF j <= k
            THEN UpTo(EndOf(e), nested_next_locs_[k])
            ELSE UpTo(nested_next_locs_[k], StartOf(e))

\* in_stack() is true of the first and of the last byte of everything granted.
LiveInStack ==
  \A e \in Live :
    /\ in_stack(StartOf(e))
    /\ in_stack(PointerAt(e.block, e.off + e.len - 1))

\* What recover_nested(), recover_all() and free_all() take back is no longer in_stack().
RecoveredLeavesStack ==
  [][\A e \in Live \ Live' :
       ~ in_stack(StartOf(e))']_vars

Arena == INSTANCE NestedArena

\* The pool implements the abstract arena: disjoint grants, frames recovered last-in
\* first-out, outer frames untouched by what happens in inner ones.
ImplementsArena == Arena!Spec
=============================================================================
