---------------------------- MODULE StackAllocOOM ----------------------------
(***************************************************************************)
(* stack_alloc when malloc() can fail.  move_to_next_block() pushes the    *)
(* null pointer on blocks_, then throws std::bad_alloc before it pushes on *)
(* sizes_, with next_loc_ and cur_block_ already advanced.  The exception  *)
(* leaves the pool alive: the callers catch it, recover and go on.         *)
(***************************************************************************)
EXTENDS StackAlloc

VARIABLES
  null_block,     \* blocks_ ends with a null pointer that has no entry in sizes_
  returned_null,  \* history: alloc() returned, and what it returned is null
  undefined       \* the build may do anything from here on: the model stops

oomVars == <<vars, null_block, returned_null, undefined>>

OOMInit ==
  /\ Init
  /\ null_block = FALSE
  /\ returned_null = FALSE
  /\ undefined = FALSE

\* No block with an entry in sizes_ is left to move to.
Exhausted(len) == ~ FitsInBlock(len) /\ LaterFits(len) = {}

MallocFails(len) ==
  /\ Exhausted(len) /\ ~ null_block
  /\ next_loc_' = PointerAt(next_loc_.block, next_loc_.off + len)
  /\ cur_block_' = Len(sizes_) + 1
  /\ null_block' = TRUE
  /\ UNCHANGED <<sizes_, cur_block_end_, nested, live, returned_null, undefined>>

\* sizes_[cur_block_] is read past its end for the null block.  It may hold len or more,
\* and the null block is used; or less (as when the search starts beyond the null
\* block), and a new block lands in blocks_ at an index sizes_ does not have.
AllocPastNullBlock(len) ==
  /\ Exhausted(len) /\ null_block
  /\ undefined' = TRUE
  /\ \/ cur_block_ <= Len(sizes_) /\ returned_null' = TRUE
     \/ UNCHANGED returned_null
  /\ UNCHANGED <<vars, null_block>>

Sound(op) == op /\ UNCHANGED <<null_block, returned_null, undefined>>

OOMNext ==
  /\ ~ undefined
  /\ \/ \E len \in Lens : Sound(alloc(len)) /\ ~ (Exhausted(len) /\ null_block)
     \/ \E len \in Lens : MallocFails(len) \/ AllocPastNullBlock(len)
     \/ nested_cur_blocks_ = << >> /\ Sound(recover_all)
     \/ Sound(start_nested)
     \/ Sound(recover_nested)
     \/ /\ nested_cur_blocks_ = << >> /\ free_all
        /\ null_block' = FALSE /\ UNCHANGED <<returned_null, undefined>>

OOMSpec == OOMInit /\ [][OOMNext]_oomVars

\* The comments on alloc(): exceptions of malloc() percolate through it, and what it
\* returns is "a pointer to the allocated memory".
AllocReturnsMemory == ~ returned_null
=============================================================================
