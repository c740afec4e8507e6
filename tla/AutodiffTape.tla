---------------------------- MODULE AutodiffTape ----------------------------
(***************************************************************************)
(* The reverse-mode tape of one thread: AutodiffStackStorage with the      *)
(* functions of src/stan/math/rev/core that grow, nest and recover it.     *)
(* EXTENDS StackAlloc, whose variables are the member memalloc_.           *)
(*                                                                         *)
(* A vari is the arena extent operator new gave it; what it computes is in *)
(* ReverseSweep.  A chainable_alloc is an object of the ordinary heap,     *)
(* deleted by the tape.                                                    *)
(***************************************************************************)
EXTENDS StackAlloc, FiniteSets

CONSTANTS
  VariSize,   \* sizeof a vari
  Objects,    \* addresses the heap can give to a chainable_alloc
  MaxTape     \* bound: length of each of the three stacks

ASSUME VariSizeAssumption == VariSize \in Nat \ {0}
ASSUME MaxTapeAssumption == MaxTape \in Nat

VARIABLES
  var_stack_,                      \* varis whose chain() the reverse pass calls
  var_nochain_stack_,              \* varis it does not call
  var_alloc_stack_,                \* chainable_alloc objects to delete
  nested_var_stack_sizes_,         \* the three lengths, saved by start_nested()
  nested_var_nochain_stack_sizes_,
  nested_var_alloc_stack_starts_,
  heap                             \* the chainable_alloc objects not deleted, and the
                                   \* nesting depth at which each was created

stacks == <<var_stack_, var_nochain_stack_, var_alloc_stack_>>
nestedSizes == <<nested_var_stack_sizes_, nested_var_nochain_stack_sizes_,
                 nested_var_alloc_stack_starts_>>
memalloc_ == vars
tapeVars == <<stacks, nestedSizes, heap, memalloc_>>

TapeInit ==
  /\ Init
  /\ var_stack_ = << >>
  /\ var_nochain_stack_ = << >>
  /\ var_alloc_stack_ = << >>
  /\ nested_var_stack_sizes_ = << >>
  /\ nested_var_nochain_stack_sizes_ = << >>
  /\ nested_var_alloc_stack_starts_ = << >>
  /\ heap = << >>

empty_nested == nested_var_stack_sizes_ = << >>

Depth == Len(nested_var_stack_sizes_)

-----------------------------------------------------------------------------
(* Growing the tape *)

\* The memory operator new gives the next vari.
NewVariMemory == ExtentAt(AllocResult(VariSize), VariSize)

\* vari(x) and vari(x, true), and reverse_pass_callback().
NewStackedVari ==
  /\ Len(var_stack_) < MaxTape
  /\ alloc(VariSize)
  /\ var_stack_' = Append(var_stack_, NewVariMemory)
  /\ UNCHANGED <<var_nochain_stack_, var_alloc_stack_, nestedSizes, heap>>

\* vari(x, false): every var made from a value.
NewUnstackedVari ==
  /\ Len(var_nochain_stack_) < MaxTape
  /\ alloc(VariSize)
  /\ var_nochain_stack_' = Append(var_nochain_stack_, NewVariMemory)
  /\ UNCHANGED <<var_stack_, var_alloc_stack_, nestedSizes, heap>>

\* Memory of no vari: arena_allocator, arena_matrix, alloc_array.
ArenaArray(len) ==
  /\ alloc(len)
  /\ UNCHANGED <<stacks, nestedSizes, heap>>

\* The constructor of chainable_alloc; the heap may give back a deleted address.
NewChainableAlloc(x) ==
  /\ Len(var_alloc_stack_) < MaxTape
  /\ x \notin DOMAIN heap
  /\ heap' = [y \in DOMAIN heap \cup {x} |-> IF y = x THEN Depth ELSE heap[y]]
  /\ var_alloc_stack_' = Append(var_alloc_stack_, x)
  /\ UNCHANGED <<var_stack_, var_nochain_stack_, nestedSizes, memalloc_>>

-----------------------------------------------------------------------------
(* Nesting and recovery *)

\* Variant: the objects are dropped from the stack and never deleted.
Delete_Leaks(xs) == UNCHANGED heap

Delete(xs) == heap' = [y \in DOMAIN heap \ xs |-> heap[y]]

StartNested ==
  /\ nested_var_stack_sizes_' = Append(nested_var_stack_sizes_, Len(var_stack_))
  /\ nested_var_nochain_stack_sizes_' =
       Append(nested_var_nochain_stack_sizes_, Len(var_nochain_stack_))
  /\ nested_var_alloc_stack_starts_' =
       Append(nested_var_alloc_stack_starts_, Len(var_alloc_stack_))
  /\ start_nested
  /\ UNCHANGED <<stacks, heap>>

\* Variants: one entry too many stays; nothing is cut.
Resize_OneMore(s, n) == SubSeq(s, 1, IF n < Len(s) THEN n + 1 ELSE n)
Resize_Keeps(s, n) == s

Resize(s, n) == SubSeq(s, 1, n)

\* With no nested scope it throws and changes nothing.
RecoverMemoryNested ==
  /\ ~ empty_nested
  /\ var_stack_' = Resize(var_stack_, Back(nested_var_stack_sizes_))
  /\ nested_var_stack_sizes_' = PopBack(nested_var_stack_sizes_)
  /\ var_nochain_stack_' = Resize(var_nochain_stack_, Back(nested_var_nochain_stack_sizes_))
  /\ nested_var_nochain_stack_sizes_' = PopBack(nested_var_nochain_stack_sizes_)
  /\ Delete({var_alloc_stack_[i] :
               i \in (Back(nested_var_alloc_stack_starts_) + 1)..Len(var_alloc_stack_)})
  /\ var_alloc_stack_' = Resize(var_alloc_stack_, Back(nested_var_alloc_stack_starts_))
  /\ nested_var_alloc_stack_starts_' = PopBack(nested_var_alloc_stack_starts_)
  /\ recover_nested

\* Variants of RecoverMemory: one does not check empty_nested(), one does not clear
\* var_nochain_stack_.
RecoverMemory_Unchecked ==
  /\ var_stack_' = << >>
  /\ var_nochain_stack_' = << >>
  /\ Delete({var_alloc_stack_[i] : i \in DOMAIN var_alloc_stack_})
  /\ var_alloc_stack_' = << >>
  /\ recover_all
  /\ UNCHANGED nestedSizes

RecoverMemory_KeepsNochain ==
  /\ empty_nested
  /\ var_stack_' = << >>
  /\ Delete({var_alloc_stack_[i] : i \in DOMAIN var_alloc_stack_})
  /\ var_alloc_stack_' = << >>
  /\ recover_all
  /\ UNCHANGED <<nestedSizes, var_nochain_stack_>>

\* With a nested scope open it throws and changes nothing.
RecoverMemory ==
  /\ empty_nested
  /\ var_stack_' = << >>
  /\ var_nochain_stack_' = << >>
  /\ Delete({var_alloc_stack_[i] : i \in DOMAIN var_alloc_stack_})
  /\ var_alloc_stack_' = << >>
  /\ recover_all
  /\ UNCHANGED nestedSizes

TapeNext ==
  \/ NewStackedVari
  \/ NewUnstackedVari
  \/ \E len \in Lens : ArenaArray(len)
  \/ \E x \in Objects : NewChainableAlloc(x)
  \/ StartNested
  \/ RecoverMemoryNested
  \/ RecoverMemory

TapeSpec == TapeInit /\ [][TapeNext]_tapeVars

-----------------------------------------------------------------------------
(* Properties *)

\* Positions Low+1..High of a stack belong to frame k, by the sizes saved for it.
Low(sizes, k) == IF k = 1 THEN 0 ELSE sizes[k - 1]
High(sizes, stack, k) == IF k = Len(sizes) + 1 THEN Len(stack) ELSE sizes[k]
Slice(stack, sizes, k) == (Low(sizes, k) + 1)..High(sizes, stack, k)

Segment(stack, sizes, k) == SubSeq(stack, Low(sizes, k) + 1, High(sizes, stack, k))

\* The saved lengths never decrease and never exceed the length of their stack.
SavedLengths(sizes, stack) ==
  \A k \in DOMAIN sizes :
    /\ sizes[k] <= Len(stack)
    /\ \A m \in k..Len(sizes) : sizes[k] <= sizes[m]

\* Members have their types; the arena, under memalloc_, has one frame of grants per nested
\* position saved and the outermost.
TapeTypeOK ==
  /\ TypeOK
  /\ var_stack_ \in Seq(Extent) /\ var_nochain_stack_ \in Seq(Extent)
  /\ var_alloc_stack_ \in Seq(Objects)
  /\ nested_var_stack_sizes_ \in Seq(Nat)
  /\ nested_var_nochain_stack_sizes_ \in Seq(Nat)
  /\ nested_var_alloc_stack_starts_ \in Seq(Nat)
  /\ heap \in [DOMAIN heap -> Nat] /\ DOMAIN heap \subseteq Objects

\* The four nested stacks (memalloc_'s is the fourth) are pushed and popped together.
EquallyDeep ==
  /\ Len(nested_var_nochain_stack_sizes_) = Depth
  /\ Len(nested_var_alloc_stack_starts_) = Depth
  /\ Len(nested_cur_blocks_) = Depth

NestedLengthsOrdered ==
  /\ SavedLengths(nested_var_stack_sizes_, var_stack_)
  /\ SavedLengths(nested_var_nochain_stack_sizes_, var_nochain_stack_)
  /\ SavedLengths(nested_var_alloc_stack_starts_, var_alloc_stack_)

\* empty_nested() looks at one of the four nested stacks and speaks for all of them, and what
\* it guards holds: nothing is ever cut below a length saved for a scope that is still open
\* (nested_size() subtracts that length from an unsigned one), least of all by
\* recover_memory(), which cuts everything.
NestedStacksInStep == EquallyDeep /\ NestedLengthsOrdered

\* Every pointer on the tape is memory still granted, in the arena frame of the nested
\* scope the tape files it under: recovery never leaves a vari on the tape whose memory
\* went back to the arena, nor frees the memory of one that stays.
TapeInFrames ==
  \A k \in 1..(Depth + 1) :
    /\ \A i \in Slice(var_stack_, nested_var_stack_sizes_, k) : var_stack_[i] \in live[k]
    /\ \A i \in Slice(var_nochain_stack_, nested_var_nochain_stack_sizes_, k) :
         var_nochain_stack_[i] \in live[k]

\* No two entries of the tape are the same vari, whatever memory was reused.
VarisDistinct ==
  /\ \A i, j \in DOMAIN var_stack_ : var_stack_[i] = var_stack_[j] => i = j
  /\ \A i, j \in DOMAIN var_nochain_stack_ :
       var_nochain_stack_[i] = var_nochain_stack_[j] => i = j
  /\ \A i \in DOMAIN var_stack_, j \in DOMAIN var_nochain_stack_ :
       var_stack_[i] # var_nochain_stack_[j]

\* Every chainable_alloc not deleted is on the stack exactly once, filed under the nested
\* scope it was created in: it is deleted once, when that scope is recovered, not before
\* and not again.
ObjectsOwnedOnce ==
  /\ \A i, j \in DOMAIN var_alloc_stack_ : var_alloc_stack_[i] = var_alloc_stack_[j] => i = j
  /\ DOMAIN heap = {var_alloc_stack_[i] : i \in DOMAIN var_alloc_stack_}
  /\ \A k \in 1..(Depth + 1) :
       \A i \in Slice(var_alloc_stack_, nested_var_alloc_stack_starts_, k) :
         heap[var_alloc_stack_[i]] = k - 1

Frame(k) ==
  [chain   |-> Segment(var_stack_, nested_var_stack_sizes_, k),
   nochain |-> Segment(var_nochain_stack_, nested_var_nochain_stack_sizes_, k),
   objects |-> Segment(var_alloc_stack_, nested_var_alloc_stack_starts_, k)]

Tape == INSTANCE NestedTape WITH frames <- [k \in 1..(Depth + 1) |-> Frame(k)]

\* Three flat vectors with saved lengths implement a stack of independent frames.
ImplementsNestedTape == Tape!Spec
=============================================================================
