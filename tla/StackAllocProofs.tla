-------------------------- MODULE StackAllocProofs --------------------------
(***************************************************************************)
(* What is proved of StackAlloc for every initial size, set of request     *)
(* sizes, number of blocks and nesting depth.                              *)
(***************************************************************************)
EXTENDS StackAlloc, Sums, FiniteSetTheorems, WellFoundedInduction, TLAPS

-----------------------------------------------------------------------------
(* The operators the actions are built from *)

\* A nonempty set of naturals has a least element.
LEMMA LeastNatural ==
  ASSUME NEW S, S \subseteq Nat, S # {}
  PROVE  \E b \in S : \A c \in S : b <= c
<1> DEFINE R == OpToRel(<, Nat)
<1>1. \E b \in S : \A c \in S : ~ (<<c, b>> \in R)
  <2> HIDE DEF R
  <2> QED BY WFMin, NatLessThanWellFounded DEF R
<1>2. \A b, c \in Nat : <<c, b>> \in R <=> c < b
  BY DEF OpToRel
<1>3. \A b, c \in S : ~ (<<c, b>> \in R) => b <= c
  <2> HIDE DEF R
  <2> QED BY <1>2
<1> HIDE DEF R
<1> QED
  BY <1>1, <1>3

\* The search of move_to_next_block() settles on the first later block that is
\* large enough.
LEMMA NextBlockFits ==
  ASSUME NEW len \in Nat, cur_block_ \in Nat, LaterFits(len) # {}
  PROVE  /\ NextBlock(len) \in LaterFits(len)
         /\ \A b \in LaterFits(len) : NextBlock(len) <= b
<1>1. LaterFits(len) \subseteq Nat
  BY DEF LaterFits
<1>2. \E b \in LaterFits(len) : \A c \in LaterFits(len) : b <= c
  BY <1>1, LeastNatural
<1> QED
  BY <1>2 DEF NextBlock

\* What is granted at or after a position overlaps nothing that ends before it.
LEMMA GrantedBeyond ==
  ASSUME NEW e \in Extent, NEW p \in Pointer, NEW len \in Nat,
         UpTo(EndOf(e), p)
  PROVE  ~ Overlap(e, ExtentAt(p, len)) /\ ~ Overlap(ExtentAt(p, len), e)
BY DEF Extent, Pointer, UpTo, EndOf, PointerAt, ExtentAt, Overlap

\* The filling order of the blocks is transitive.
LEMMA UpToTransitive ==
  ASSUME NEW p \in Pointer, NEW q \in Pointer, NEW r \in Pointer,
         UpTo(p, q), UpTo(q, r)
  PROVE  UpTo(p, r)
BY DEF Pointer, UpTo

\* What alloc() grants starts and ends at pointers, in that order.
LEMMA EndsArePointers ==
  ASSUME NEW e \in Extent
  PROVE  StartOf(e) \in Pointer /\ EndOf(e) \in Pointer /\ UpTo(StartOf(e), EndOf(e))
BY DEF Extent, Pointer, StartOf, EndOf, PointerAt, UpTo

\* An extent is live when some frame holds it.
LEMMA LiveElements ==
  ASSUME NEW frames \in Seq(SUBSET Extent)
  PROVE  \A e : e \in LiveIn(frames) <=> \E j \in 1..Len(frames) : e \in frames[j]
BY DEF LiveIn

\* What one alloc() does to the blocks and to the current position: it returns a pointer
\* beyond everything granted, in a block that holds the request, and leaves no block smaller.
LEMMA AllocStep ==
  ASSUME TypeOK, PositionsConsistent, NEW len \in Nat, alloc(len)
  PROVE  /\ AllocResult(len) \in Pointer
         /\ UpTo(next_loc_, AllocResult(len))
         /\ next_loc_' = PointerAt(AllocResult(len).block, AllocResult(len).off + len)
         /\ sizes_' \in Seq(Nat \ {0})
         /\ Len(sizes_) <= Len(sizes_')
         /\ \A b \in 1..Len(sizes_) : sizes_'[b] = sizes_[b]
         /\ Consistent(cur_block_, cur_block_end_, next_loc_)'
<1> USE DEF TypeOK, Pointer, PointerAt, UpTo, Consistent
<1>0. Consistent(cur_block_, cur_block_end_, next_loc_)
  BY DEF PositionsConsistent
<1>1. CASE AllocInBlock(len)
  BY <1>0, <1>1 DEF AllocInBlock, AllocResult, FitsInBlock
<1>2. CASE AllocInLaterBlock(len)
  <2>1. NextBlock(len) \in LaterFits(len)
    BY <1>2, NextBlockFits DEF AllocInLaterBlock
  <2> HIDE DEF NextBlock
  <2>2. PICK b \in Nat : b = NextBlock(len) /\ b \in 1..Len(sizes_) /\ cur_block_ < b
                         /\ sizes_[b] >= len
    BY <1>0, <2>1 DEF LaterFits
  <2>3. /\ sizes_' = sizes_ /\ AllocResult(len) = PointerAt(b, 0) /\ cur_block_' = b
        /\ next_loc_' = PointerAt(b, len) /\ cur_block_end_' = PointerAt(b, sizes_[b])
    BY <1>2, <2>2 DEF AllocInLaterBlock, EnterBlock, AllocResult
  <2>4. AllocResult(len) \in Pointer /\ UpTo(next_loc_, AllocResult(len))
    BY <1>0, <2>2, <2>3
  <2>5. Consistent(cur_block_, cur_block_end_, next_loc_)'
    BY <2>2, <2>3
  <2> QED
    BY <2>3, <2>4, <2>5
<1>3. CASE AllocInNewBlock(len)
  <2>1. NextBlock(len) = Len(sizes_) + 1
    BY <1>3 DEF AllocInNewBlock, NextBlock
  <2>2. NewBlockSize(len) \in Nat \ {0} /\ NewBlockSize(len) >= len
    BY DEF NewBlockSize
  <2>3. PICK b \in Nat : b = Len(sizes_) + 1
    OBVIOUS
  <2>4. /\ sizes_' = Append(sizes_, NewBlockSize(len)) /\ AllocResult(len) = PointerAt(b, 0)
        /\ cur_block_' = b /\ next_loc_' = PointerAt(b, len)
        /\ cur_block_end_' = PointerAt(b, sizes_'[b])
    BY <1>3, <2>1, <2>3 DEF AllocInNewBlock, EnterBlock, AllocResult
  <2>5. /\ sizes_' \in Seq(Nat \ {0}) /\ Len(sizes_') = b /\ sizes_'[b] = NewBlockSize(len)
        /\ \A c \in 1..Len(sizes_) : sizes_'[c] = sizes_[c]
    BY <2>2, <2>3, <2>4
  <2>6. AllocResult(len) \in Pointer /\ UpTo(next_loc_, AllocResult(len))
    BY <1>0, <2>3, <2>4
  <2>7. Consistent(cur_block_, cur_block_end_, next_loc_)'
    <3> HIDE DEF NewBlockSize
    <3> QED
      BY <2>2, <2>3, <2>4, <2>5
  <2> QED
    BY <2>3, <2>4, <2>5, <2>6, <2>7
<1> QED
  BY <1>1, <1>2, <1>3 DEF alloc

\* What one alloc() does to the frames: nothing, or one extent joins the innermost one.
LEMMA AllocFrames ==
  ASSUME TypeOK, PositionsConsistent, NEW len \in Nat, alloc(len)
  PROVE  /\ live' \in Seq(SUBSET Extent) /\ Len(live') = Len(live)
         /\ \A j \in DOMAIN live : \A e \in live'[j] :
              \/ e \in live[j]
              \/ len > 0 /\ j = Len(live) /\ e = ExtentAt(AllocResult(len), len)
         /\ \A e \in Live' :
              \/ e \in Live
              \/ len > 0 /\ e = ExtentAt(AllocResult(len), len)
<1>1. AllocResult(len) \in Pointer
  BY AllocStep
<1>2. CASE len = 0
  BY <1>2 DEF alloc, RecordGrant, TypeOK, Live, LiveIn
<1>3. CASE len > 0
  <2>1. ExtentAt(AllocResult(len), len) \in Extent
    BY <1>1, <1>3 DEF Pointer, Extent, ExtentAt
  <2>2. live' = [live EXCEPT ![Len(live)] = @ \cup {ExtentAt(AllocResult(len), len)}]
    BY <1>3 DEF alloc, RecordGrant
  <2> HIDE DEF AllocResult
  <2>3. Len(live) \in DOMAIN live
    BY DEF TypeOK
  <2>4. live' \in Seq(SUBSET Extent) /\ Len(live') = Len(live) /\ DOMAIN live' = DOMAIN live
    BY <2>1, <2>2, <2>3 DEF TypeOK
  <2>5. \A j \in DOMAIN live : \A e \in live'[j] :
          \/ e \in live[j]
          \/ len > 0 /\ j = Len(live) /\ e = ExtentAt(AllocResult(len), len)
    BY <1>3, <2>2, <2>3 DEF TypeOK
  <2> QED
    BY <2>4, <2>5 DEF Live, LiveIn
<1> QED
  BY <1>2, <1>3

-----------------------------------------------------------------------------
(* Sums, of which the size of the heap is one *)

\* The ways SumOver counts.
Pairs(S, term) == UNION {{n} \X (1..term[n]) : n \in S}

\* A term as large as a number has as many ways to choose one of it.
LEMMA OneTerm ==
  ASSUME NEW x, NEW m \in Nat
  PROVE  IsFiniteSet({x} \X (1..m)) /\ Cardinality({x} \X (1..m)) = m
<1> DEFINE f == [j \in 1..m |-> <<x, j>>]
<1>1. f \in Bijection(1..m, {x} \X (1..m))
  <2>1. f \in [1..m -> {x} \X (1..m)]
    OBVIOUS
  <2>2. \A i, j \in 1..m : f[i] = f[j] => i = j
    OBVIOUS
  <2>3. \A y \in {x} \X (1..m) : \E j \in 1..m : f[j] = y
    OBVIOUS
  <2> HIDE DEF f
  <2> QED
    BY <2>1, <2>2, <2>3 DEF Bijection, Injection, Surjection, IsInjective
<1>2. IsFiniteSet(1..m) /\ Cardinality(1..m) = m
  BY FS_Interval
<1>3. ExistsBijection(1..m, {x} \X (1..m))
  BY <1>1 DEF ExistsBijection
<1> QED
  BY <1>2, <1>3, FS_Bijection

\* One more number in a sum.
LEMMA PairsAdd ==
  ASSUME NEW S, NEW x, x \notin S, NEW term, term[x] \in Nat, IsFiniteSet(Pairs(S, term))
  PROVE  /\ IsFiniteSet(Pairs(S \cup {x}, term))
         /\ SumOver(S \cup {x}, term) = SumOver(S, term) + term[x]
<1> DEFINE own == {x} \X (1..term[x])
<1>1. IsFiniteSet(own) /\ Cardinality(own) = term[x]
  BY OneTerm
<1>2. Pairs(S \cup {x}, term) = Pairs(S, term) \cup own
  BY DEF Pairs
<1>3. Pairs(S, term) \cap own = {}
  BY DEF Pairs
<1>4. Cardinality({}) = 0 /\ Cardinality(Pairs(S, term)) \in Nat
  BY FS_EmptySet, FS_CardinalityType
<1> HIDE DEF own
<1>5. /\ IsFiniteSet(Pairs(S, term) \cup own)
      /\ Cardinality(Pairs(S, term) \cup own)
           = Cardinality(Pairs(S, term)) + Cardinality(own) - Cardinality(Pairs(S, term) \cap own)
  BY <1>1, FS_Union
<1>6. /\ SumOver(S \cup {x}, term) = Cardinality(Pairs(S \cup {x}, term))
      /\ SumOver(S, term) = Cardinality(Pairs(S, term))
  BY DEF SumOver, Pairs
<1> QED
  BY <1>1, <1>2, <1>3, <1>4, <1>5, <1>6

\* The pairs a sum counts are finitely many.
LEMMA PairsFinite ==
  ASSUME NEW S, IsFiniteSet(S), NEW term, \A n \in S : term[n] \in Nat
  PROVE  IsFiniteSet(Pairs(S, term))
<1> DEFINE Bad == {T \in SUBSET S : ~ IsFiniteSet(Pairs(T, term))}
<1>1. CASE Bad = {}
  <2>1. S \in SUBSET S /\ S \notin Bad
    BY <1>1
  <2> QED
    BY <2>1
<1>2. CASE Bad # {}
  <2>1. Bad \subseteq FiniteSubsetsOf(S)
    BY FS_Subset DEF FiniteSubsetsOf
  <2>2. PICK T \in Bad : \A U \in Bad : <<U, T>> \notin StrictSubsetOrdering(S)
    <3>1. IsWellFoundedOn(StrictSubsetOrdering(S), FiniteSubsetsOf(S))
      BY FS_StrictSubsetOrderingWellFounded
    <3> HIDE DEF Bad
    <3> QED
      BY <1>2, <2>1, <3>1, WFMin
  <2>3. T # {}
    <3>1. Pairs({}, term) = {}
      BY DEF Pairs
    <3> QED
      BY <2>2, <3>1, FS_EmptySet
  <2>4. PICK x \in T : TRUE
    BY <2>3
  <2> DEFINE U == T \ {x}
  <2>5. U \in SUBSET S /\ U \subseteq T /\ U # T /\ T \in SUBSET S
    BY <2>2, <2>4
  <2>6. <<U, T>> \in StrictSubsetOrdering(S)
    <3> HIDE DEF U
    <3> QED
      BY <2>5 DEF StrictSubsetOrdering
  <2>7. IsFiniteSet(Pairs(U, term))
    BY <2>2, <2>5, <2>6
  <2>8. T = U \cup {x} /\ x \notin U /\ term[x] \in Nat
    BY <2>4, <2>5
  <2> HIDE DEF U
  <2>9. IsFiniteSet(Pairs(T, term))
    BY <2>7, <2>8, PairsAdd
  <2> QED
    BY <2>2, <2>9
<1> QED
  BY <1>1, <1>2

\* What SumOver is, as far as the proofs need to know.
LEMMA SumType ==
  ASSUME NEW S, IsFiniteSet(S), NEW term, \A n \in S : term[n] \in Nat
  PROVE  SumOver(S, term) \in Nat
<1>1. IsFiniteSet(Pairs(S, term))
  BY PairsFinite
<1>2. Cardinality(Pairs(S, term)) \in Nat
  BY <1>1, FS_CardinalityType
<1> QED
  BY <1>2 DEF SumOver, Pairs

\* Nothing adds up to zero.
LEMMA SumEmpty ==
  ASSUME NEW term
  PROVE  SumOver({}, term) = 0
<1>1. UNION {{n} \X (1..term[n]) : n \in {}} = {}
  OBVIOUS
<1> QED
  BY <1>1, FS_EmptySet DEF SumOver

\* A new summand.
LEMMA SumAdd ==
  ASSUME NEW S, IsFiniteSet(S), NEW x, x \notin S, NEW term,
         \A n \in S \cup {x} : term[n] \in Nat
  PROVE  SumOver(S \cup {x}, term) = SumOver(S, term) + term[x]
<1>1. IsFiniteSet(Pairs(S, term))
  BY PairsFinite
<1> QED
  BY <1>1, PairsAdd

\* Equal terms have equal sums.
LEMMA SumSame ==
  ASSUME NEW S, NEW term, NEW other, \A n \in S : term[n] = other[n]
  PROVE  SumOver(S, term) = SumOver(S, other)
<1>1. {{n} \X (1..term[n]) : n \in S} = {{n} \X (1..other[n]) : n \in S}
  <2>1. \A n \in S : {n} \X (1..term[n]) = {n} \X (1..other[n])
    OBVIOUS
  <2> QED
    BY <2>1, Zenon
<1> QED
  BY <1>1 DEF SumOver

-----------------------------------------------------------------------------
(* The inductive invariant *)

\* The stack discipline of FramesOrdered is what makes the safety properties inductive:
\* without it nothing says that the position recover_nested() goes back to lies beyond
\* the memory that stays granted.
Inv ==
  /\ TypeOK
  /\ PositionsConsistent
  /\ LiveInsideBlocks
  /\ FramesOrdered
  /\ NoOverlap

\* The constructor of stack_alloc establishes the invariant.
LEMMA InitInv == Init => Inv
<1> SUFFICES ASSUME Init PROVE Inv
  OBVIOUS
<1>1. sizes_ \in Seq(Nat \ {0}) /\ Len(sizes_) = 1 /\ sizes_[1] = InitialNBytes
  BY InitialNBytesAssumption DEF Init
<1>2. live \in Seq(SUBSET Extent) /\ Len(live) = 1 /\ live[1] = {}
  BY DEF Init
<1>3. Live = {}
  BY <1>2 DEF Live, LiveIn
<1>4. TypeOK
  BY <1>1, <1>2, InitialNBytesAssumption DEF Init, TypeOK, Pointer, PointerAt
<1>5. PositionsConsistent
  BY <1>1, InitialNBytesAssumption DEF Init, PositionsConsistent, Consistent, PointerAt
<1>6. FramesOrdered
  BY <1>3 DEF Init, FramesOrdered
<1> QED
  BY <1>3, <1>4, <1>5, <1>6 DEF Inv, LiveInsideBlocks, NoOverlap

\* alloc(): what it grants lies beyond everything granted and beyond every saved position.
LEMMA AllocKeepsInv ==
  ASSUME Inv, NEW len \in Nat, alloc(len)
  PROVE  Inv'
<1> DEFINE new == ExtentAt(AllocResult(len), len)
<1> USE DEF Inv
<1>1. UNCHANGED nested
  BY DEF alloc
<1>2. /\ AllocResult(len) \in Pointer
      /\ UpTo(next_loc_, AllocResult(len))
      /\ next_loc_' = PointerAt(AllocResult(len).block, AllocResult(len).off + len)
      /\ sizes_' \in Seq(Nat \ {0})
      /\ Len(sizes_) <= Len(sizes_')
      /\ \A b \in 1..Len(sizes_) : sizes_'[b] = sizes_[b]
      /\ Consistent(cur_block_, cur_block_end_, next_loc_)'
  BY AllocStep
<1>3. /\ live' \in Seq(SUBSET Extent) /\ Len(live') = Len(live)
      /\ \A j \in DOMAIN live : \A e \in live'[j] :
           e \in live[j] \/ (len > 0 /\ j = Len(live) /\ e = new)
      /\ \A e \in Live' : e \in Live \/ (len > 0 /\ e = new)
  BY AllocFrames
<1>4. Live \subseteq Extent /\ next_loc_ \in Pointer
  BY DEF TypeOK, Live, LiveIn
<1>5. UpTo(next_loc_, next_loc_') /\ next_loc_' \in Pointer
  BY <1>2, <1>4 DEF UpTo, Pointer, PointerAt
<1>6. len > 0 => new \in Extent /\ StartOf(new) = AllocResult(len) /\ EndOf(new) = next_loc_'
  BY <1>2 DEF Extent, ExtentAt, StartOf, EndOf, PointerAt, Pointer
<1> HIDE DEF AllocResult, new
<1>7. TypeOK'
  <2>1. Len(sizes_') >= 1 /\ cur_block_' \in Nat \ {0} /\ cur_block_end_' \in Pointer
    <3>1. /\ Len(sizes_) >= 1 /\ Len(sizes_') \in Nat /\ Len(sizes_) \in Nat
          /\ cur_block_' \in 1..Len(sizes_')
          /\ cur_block_end_' = PointerAt(cur_block_', sizes_'[cur_block_'])
      BY <1>2 DEF TypeOK, Consistent
    <3>2. sizes_'[cur_block_'] \in Nat
      BY <1>2, <3>1
    <3> QED
      BY <1>2, <3>1, <3>2 DEF Pointer, PointerAt
  <2>2. /\ nested_cur_blocks_' = nested_cur_blocks_ /\ nested_next_locs_' = nested_next_locs_
        /\ nested_cur_block_ends_' = nested_cur_block_ends_
    BY <1>1 DEF nested
  <2> QED
    BY <1>2, <1>3, <1>5, <2>1, <2>2 DEF TypeOK
<1>8. PositionsConsistent'
  <2>1. ASSUME NEW k \in DOMAIN nested_cur_blocks_
        PROVE  Consistent(nested_cur_blocks_[k], nested_cur_block_ends_[k], nested_next_locs_[k])'
    <3>1. Consistent(nested_cur_blocks_[k], nested_cur_block_ends_[k], nested_next_locs_[k])
      BY DEF PositionsConsistent
    <3>2. nested_cur_blocks_[k] \in 1..Len(sizes_)
      BY <3>1 DEF Consistent
    <3>3. sizes_'[nested_cur_blocks_[k]] = sizes_[nested_cur_blocks_[k]]
      BY <1>2, <3>2
    <3>4. nested_cur_blocks_[k] \in 1..Len(sizes_')
      BY <1>2, <3>2 DEF TypeOK
    <3> QED
      BY <1>1, <3>1, <3>3, <3>4 DEF Consistent, nested
  <2> QED
    BY <1>1, <1>2, <2>1 DEF PositionsConsistent, nested
<1>9. LiveInsideBlocks'
  <2>1. ASSUME NEW e \in Live
        PROVE  e.block \in 1..Len(sizes_') /\ e.off + e.len <= sizes_'[e.block]
    <3>1. e.block \in 1..Len(sizes_) /\ e.off + e.len <= sizes_[e.block]
      BY DEF LiveInsideBlocks
    <3>2. sizes_'[e.block] = sizes_[e.block] /\ Len(sizes_) \in Nat /\ Len(sizes_') \in Nat
      BY <1>2, <3>1 DEF TypeOK
    <3> QED
      BY <1>2, <3>1, <3>2
  <2>2. new.block \in 1..Len(sizes_') /\ new.off + new.len <= sizes_'[new.block]
    BY <1>2 DEF new, Consistent, PointerAt, ExtentAt, Pointer
  <2> QED
    BY <1>3, <2>1, <2>2 DEF LiveInsideBlocks
<1>10. FramesOrdered'
  <2>1. \A e \in Live' : UpTo(EndOf(e), next_loc_')
    <3>1. \A e \in Live : UpTo(EndOf(e), next_loc_')
      BY <1>4, <1>5, UpToTransitive, EndsArePointers DEF FramesOrdered
    <3>2. UpTo(next_loc_', next_loc_')
      BY <1>5 DEF UpTo, Pointer
    <3> QED
      BY <1>3, <1>6, <3>1, <3>2
  <2>2. ASSUME NEW k \in DOMAIN nested_next_locs_
        PROVE  UpTo(nested_next_locs_[k], next_loc_') /\ nested_next_locs_[k] \in Pointer
    BY <1>4, <1>5, UpToTransitive DEF FramesOrdered, TypeOK
  <2>3. ASSUME NEW k \in DOMAIN nested_next_locs_, NEW j \in DOMAIN live', NEW e \in live'[j]
        PROVE  IF j <= k THEN UpTo(EndOf(e), nested_next_locs_[k])
                         ELSE UpTo(nested_next_locs_[k], StartOf(e))
    <3>1. j \in DOMAIN live /\ k \in 1..(Len(live) - 1)
      BY <1>3 DEF TypeOK
    <3>2. CASE e \in live[j]
      BY <3>1, <3>2 DEF FramesOrdered
    <3>3. CASE len > 0 /\ j = Len(live) /\ e = new
      <4>1. UpTo(nested_next_locs_[k], AllocResult(len))
        BY <1>2, <1>4, <2>2, UpToTransitive DEF FramesOrdered
      <4> QED
        BY <1>6, <3>1, <3>3, <4>1
    <3> QED
      BY <1>3, <3>1, <3>2, <3>3
  <2> QED
    BY <1>1, <2>1, <2>2, <2>3 DEF FramesOrdered, nested
<1>11. NoOverlap'
  <2>1. \A e \in Live : len > 0 => ~ Overlap(e, new) /\ ~ Overlap(new, e)
    BY <1>2, <1>4, UpToTransitive, EndsArePointers, GrantedBeyond DEF FramesOrdered, new
  <2> QED
    BY <1>3, <2>1 DEF NoOverlap
<1> QED
  BY <1>7, <1>8, <1>9, <1>10, <1>11

\* start_nested(): the position it saves separates the frames below it from the new one.
LEMMA StartNestedKeepsInv ==
  ASSUME Inv, start_nested
  PROVE  Inv'
<1> USE DEF Inv
<1>1. UNCHANGED <<sizes_, cur_block_, cur_block_end_, next_loc_>>
  BY DEF start_nested, current
<1>2. /\ live' \in Seq(SUBSET Extent) /\ Len(live') = Len(live) + 1
      /\ live'[Len(live) + 1] = {}
      /\ \A j \in DOMAIN live : live'[j] = live[j]
  BY DEF start_nested, TypeOK
<1>3. Live' = Live
  <2>1. \A e : e \in Live <=> \E j \in 1..Len(live) : e \in live[j]
    BY LiveElements DEF Live, TypeOK
  <2>2. \A e : e \in Live' <=> \E j \in 1..Len(live') : e \in live'[j]
    BY <1>2, LiveElements DEF Live
  <2>3. Len(live) \in Nat /\ DOMAIN live = 1..Len(live)
    BY DEF TypeOK
  <2>4. \A e : e \in Live' => e \in Live
    BY <1>2, <2>1, <2>2, <2>3
  <2>5. \A e : e \in Live => e \in Live'
    BY <1>2, <2>1, <2>2, <2>3
  <2> QED
    BY <2>4, <2>5
<1>4. TypeOK'
  BY <1>1, <1>2 DEF TypeOK, start_nested
<1>5. PositionsConsistent'
  <2>1. PICK n \in Nat : n = Len(nested_cur_blocks_) /\ DOMAIN nested_cur_blocks_ = 1..n
    BY DEF TypeOK
  <2>2. /\ DOMAIN nested_cur_blocks_' = 1..(n + 1)
        /\ \A k \in 1..n : nested_cur_blocks_'[k] = nested_cur_blocks_[k]
        /\ nested_cur_blocks_'[n + 1] = cur_block_
    BY <2>1 DEF start_nested, TypeOK
  <2>3. /\ \A k \in 1..n : nested_next_locs_'[k] = nested_next_locs_[k]
        /\ nested_next_locs_'[n + 1] = next_loc_
    BY <2>1 DEF start_nested, TypeOK
  <2>4. /\ \A k \in 1..n : nested_cur_block_ends_'[k] = nested_cur_block_ends_[k]
        /\ nested_cur_block_ends_'[n + 1] = cur_block_end_
    BY <2>1 DEF start_nested, TypeOK
  <2>5. \A k \in 1..(n + 1) : k \in 1..n \/ k = n + 1
    BY <2>1
  <2> QED
    BY <1>1, <2>1, <2>2, <2>3, <2>4, <2>5 DEF PositionsConsistent, Consistent
<1>6. FramesOrdered'
  <2>1. UpTo(next_loc_, next_loc_)
    BY DEF UpTo, TypeOK, Pointer
  <2>2. \A e \in Live' : UpTo(EndOf(e), next_loc_')
    BY <1>1, <1>3 DEF FramesOrdered
  <2>3. ASSUME NEW k \in DOMAIN nested_next_locs_'
        PROVE  /\ UpTo(nested_next_locs_'[k], next_loc_')
               /\ \A m \in k..Len(nested_next_locs_') :
                    UpTo(nested_next_locs_'[k], nested_next_locs_'[m])
    BY <1>1, <2>1 DEF FramesOrdered, start_nested, TypeOK
  <2>4. ASSUME NEW k \in DOMAIN nested_next_locs_', NEW j \in DOMAIN live', NEW e \in live'[j]
        PROVE  IF j <= k THEN UpTo(EndOf(e), nested_next_locs_'[k])
                         ELSE UpTo(nested_next_locs_'[k], StartOf(e))
    <3>1. j \in DOMAIN live /\ e \in live[j] /\ e \in Live
      BY <1>2 DEF TypeOK, Live, LiveIn
    <3>2. CASE k \in DOMAIN nested_next_locs_
      <4>1. nested_next_locs_'[k] = nested_next_locs_[k]
        BY <3>2 DEF start_nested, TypeOK
      <4> QED
        BY <3>1, <3>2, <4>1 DEF FramesOrdered
    <3>3. CASE k = Len(nested_next_locs_) + 1
      <4>1. nested_next_locs_'[k] = next_loc_ /\ j <= k
        BY <3>1, <3>3 DEF start_nested, TypeOK
      <4> QED
        BY <3>1, <4>1 DEF FramesOrdered
    <3> QED
      BY <3>2, <3>3 DEF start_nested, TypeOK
  <2> QED
    BY <2>2, <2>3, <2>4 DEF FramesOrdered
<1> QED
  BY <1>1, <1>3, <1>4, <1>5, <1>6 DEF LiveInsideBlocks, NoOverlap

\* recover_nested(): the position it restores is consistent and above all that stays granted.
LEMMA RecoverNestedKeepsInv ==
  ASSUME Inv, recover_nested
  PROVE  Inv'
<1> USE DEF Inv
<1> DEFINE n == Len(nested_cur_blocks_)
<1>1. n \in Nat \ {0} /\ Len(nested_next_locs_) = n /\ Len(nested_cur_block_ends_) = n
      /\ Len(live) = n + 1
  BY DEF recover_nested, TypeOK
<1>2. /\ cur_block_' = nested_cur_blocks_[n]
      /\ next_loc_' = nested_next_locs_[n]
      /\ cur_block_end_' = nested_cur_block_ends_[n]
      /\ sizes_' = sizes_
  BY <1>1 DEF recover_nested, Back
<1>3. /\ nested_cur_blocks_' \in Seq(Nat \ {0}) /\ Len(nested_cur_blocks_') = n - 1
      /\ \A k \in 1..(n - 1) : nested_cur_blocks_'[k] = nested_cur_blocks_[k]
  BY <1>1 DEF recover_nested, PopBack, TypeOK
<1>4. /\ nested_next_locs_' \in Seq(Pointer) /\ Len(nested_next_locs_') = n - 1
      /\ \A k \in 1..(n - 1) : nested_next_locs_'[k] = nested_next_locs_[k]
  BY <1>1 DEF recover_nested, PopBack, TypeOK
<1>5. /\ nested_cur_block_ends_' \in Seq(Pointer) /\ Len(nested_cur_block_ends_') = n - 1
      /\ \A k \in 1..(n - 1) : nested_cur_block_ends_'[k] = nested_cur_block_ends_[k]
  BY <1>1 DEF recover_nested, PopBack, TypeOK
<1>6. /\ live' \in Seq(SUBSET Extent) /\ Len(live') = n
      /\ \A j \in 1..n : live'[j] = live[j]
  <2>1. live' = SubSeq(live, 1, n)
    BY <1>1 DEF recover_nested, PopBack
  <2> HIDE DEF n
  <2> QED
    BY <1>1, <2>1 DEF TypeOK
<1>7. /\ Live' \subseteq Live
      /\ \A e \in Live' : \E j \in 1..n : e \in live[j]
  <2>1. \A e : e \in Live <=> \E j \in 1..Len(live) : e \in live[j]
    BY LiveElements DEF Live, TypeOK
  <2>2. \A e : e \in Live' <=> \E j \in 1..Len(live') : e \in live'[j]
    BY <1>6, LiveElements DEF Live
  <2> HIDE DEF n
  <2> QED
    BY <1>1, <1>6, <2>1, <2>2
<1>8. TypeOK'
  <2>1. /\ nested_cur_blocks_[n] \in Nat \ {0}
        /\ nested_next_locs_[n] \in Pointer
        /\ nested_cur_block_ends_[n] \in Pointer
    BY <1>1 DEF TypeOK
  <2> HIDE DEF n
  <2> QED
    BY <1>1, <1>2, <1>3, <1>4, <1>5, <1>6, <2>1 DEF TypeOK
<1> HIDE DEF n
<1>9. PositionsConsistent'
  <2>1. \A k \in 1..n :
          Consistent(nested_cur_blocks_[k], nested_cur_block_ends_[k], nested_next_locs_[k])
    BY DEF PositionsConsistent, TypeOK, n
  <2>2. Consistent(cur_block_, cur_block_end_, next_loc_)'
    BY <1>1, <1>2, <2>1 DEF Consistent
  <2>3. ASSUME NEW k \in DOMAIN nested_cur_blocks_'
        PROVE  Consistent(nested_cur_blocks_[k], nested_cur_block_ends_[k], nested_next_locs_[k])'
    <3>1. k \in 1..(n - 1) /\ k \in 1..n
      BY <1>1, <1>3
    <3>2. Consistent(nested_cur_blocks_[k], nested_cur_block_ends_[k], nested_next_locs_[k])
      BY <2>1, <3>1
    <3> QED
      BY <1>2, <1>3, <1>4, <1>5, <3>1, <3>2 DEF Consistent
  <2> QED
    BY <2>2, <2>3 DEF PositionsConsistent
<1>10. FramesOrdered'
  <2>1. ASSUME NEW e \in Live'
        PROVE  UpTo(EndOf(e), next_loc_')
    <3>1. PICK j \in 1..n : e \in live[j]
      BY <1>7
    <3> QED
      BY <1>1, <1>2, <3>1 DEF FramesOrdered, TypeOK
  <2>2. ASSUME NEW k \in 1..(n - 1)
        PROVE  /\ UpTo(nested_next_locs_[k], nested_next_locs_[n])
               /\ \A m \in k..(n - 1) : UpTo(nested_next_locs_[k], nested_next_locs_[m])
               /\ \A j \in 1..n : \A e \in live[j] :
                    IF j <= k THEN UpTo(EndOf(e), nested_next_locs_[k])
                              ELSE UpTo(nested_next_locs_[k], StartOf(e))
    BY <1>1 DEF FramesOrdered, TypeOK
  <2> QED
    BY <1>1, <1>2, <1>4, <1>6, <2>1, <2>2 DEF FramesOrdered
<1> QED
  BY <1>2, <1>7, <1>8, <1>9, <1>10 DEF LiveInsideBlocks, NoOverlap

\* recover_all() and free_all() with no nested frame: nothing is granted any more.
LEMMA RewindKeepsInv ==
  ASSUME Inv, nested_cur_blocks_ = << >>, recover_all \/ free_all
  PROVE  Inv'
<1> USE DEF Inv
<1>1. /\ nested_cur_blocks_ = << >> /\ UNCHANGED nested
      /\ live' = << {} >> /\ Rewind
  BY DEF recover_all, free_all
<1>3. sizes_[1] \in Nat \ {0}
  BY DEF TypeOK
<1>2. sizes_' \in Seq(Nat \ {0}) /\ Len(sizes_') >= 1 /\ sizes_'[1] = sizes_[1]
  <2>1. CASE recover_all
    BY <2>1 DEF recover_all, TypeOK
  <2>2. CASE free_all
    BY <2>2, <1>3 DEF free_all
  <2> QED
    BY <2>1, <2>2
<1>4. Live' = {}
  BY <1>1 DEF Live, LiveIn
<1>5. nested_next_locs_' = << >>
  BY <1>1 DEF nested, TypeOK
<1>6. TypeOK'
  BY <1>1, <1>2, <1>3 DEF TypeOK, nested, Rewind, Pointer, PointerAt
<1>7. PositionsConsistent'
  BY <1>1, <1>2, <1>3 DEF PositionsConsistent, Consistent, nested, Rewind, PointerAt
<1>8. FramesOrdered'
  BY <1>4, <1>5 DEF FramesOrdered
<1> QED
  BY <1>4, <1>6, <1>7, <1>8 DEF LiveInsideBlocks, NoOverlap

\* Every call of stack_alloc keeps the invariant.
LEMMA NextKeepsInv ==
  ASSUME Inv, [Next]_vars
  PROVE  Inv'
<1>1. ASSUME NEW len \in Lens, alloc(len) PROVE Inv'
  BY <1>1, AllocKeepsInv, LensAssumption
<1>2. CASE nested_cur_blocks_ = << >> /\ (recover_all \/ free_all)
  BY <1>2, RewindKeepsInv
<1>3. CASE start_nested
  BY <1>3, StartNestedKeepsInv
<1>4. CASE recover_nested
  BY <1>4, RecoverNestedKeepsInv
<1>5. CASE UNCHANGED vars
  BY <1>5 DEF vars, current, nested, Inv, TypeOK, PositionsConsistent, Consistent,
       LiveInsideBlocks, FramesOrdered, NoOverlap, Live
<1> QED
  BY <1>1, <1>2, <1>3, <1>4, <1>5 DEF Next

-----------------------------------------------------------------------------
(* The theorems *)

\* The invariant holds throughout.
THEOREM Invariance == Spec => []Inv
BY InitInv, NextKeepsInv, PTL DEF Spec

\* Every variable keeps its type.
THEOREM TypeCorrect == Spec => []TypeOK
BY Invariance, PTL DEF Inv

\* cur_block_end_ and next_loc_ agree with cur_block_ and sizes_, now and at every
\* position recover_nested() will restore.
THEOREM PositionsStayConsistent == Spec => []PositionsConsistent
BY Invariance, PTL DEF Inv

\* alloc(), start_nested() and recover_nested() keep the stack discipline: memory granted
\* before a nested position was saved lies below it, memory granted after it above.
THEOREM FramesStayOrdered == Spec => []FramesOrdered
BY Invariance, PTL DEF Inv

\* alloc() never hands out memory that is still granted.
THEOREM GrantsNeverOverlap == Spec => []NoOverlap
BY Invariance, PTL DEF Inv

\* Every grant lies inside a block of the pool.
THEOREM GrantsInsideBlocks == Spec => []LiveInsideBlocks
BY Invariance, PTL DEF Inv

\* in_stack() recognises every byte end of everything granted: it lies below next_loc_
\* in the current block, or in an earlier block.
LEMMA InvImpliesLiveInStack == Inv => LiveInStack
<1> SUFFICES ASSUME Inv, NEW e \in Live
             PROVE  /\ in_stack(StartOf(e))
                    /\ in_stack(PointerAt(e.block, e.off + e.len - 1))
  BY DEF LiveInStack
<1>1. e \in Extent
  BY DEF Inv, TypeOK, Live, LiveIn
<1>2. e.block \in 1..Len(sizes_) /\ e.off + e.len <= sizes_[e.block]
  BY DEF Inv, LiveInsideBlocks
<1>3. UpTo(EndOf(e), next_loc_) /\ next_loc_.block = cur_block_
  BY DEF Inv, FramesOrdered, PositionsConsistent, Consistent
<1>4. next_loc_.off \in Nat /\ cur_block_ \in Nat /\ Len(sizes_) \in Nat
      /\ sizes_[e.block] \in Nat
  BY <1>2 DEF Inv, TypeOK, Pointer
<1> QED
  BY <1>1, <1>2, <1>3, <1>4 DEF in_stack, StartOf, EndOf, PointerAt, UpTo, Extent

\* in_stack() is true of everything granted.
THEOREM GrantsInStack == Spec => []LiveInStack
BY Invariance, InvImpliesLiveInStack, PTL

-----------------------------------------------------------------------------
(* Recovery, and the abstract arena *)

\* recover_nested() takes back the innermost frame, all of it beyond the restored position.
LEMMA RecoverNestedLeavesStack ==
  ASSUME Inv, recover_nested, NEW e \in Live \ Live'
  PROVE  ~ in_stack(StartOf(e))'
<1> USE DEF Inv
<1> DEFINE n == Len(nested_cur_blocks_)
<1>1. n \in Nat \ {0} /\ Len(nested_next_locs_) = n /\ Len(live) = n + 1
  BY DEF recover_nested, TypeOK
<1>2. live' \in Seq(SUBSET Extent) /\ Len(live') = n /\ \A j \in 1..n : live'[j] = live[j]
  BY <1>1 DEF recover_nested, PopBack, TypeOK
<1>3. cur_block_' = nested_cur_blocks_[n] /\ next_loc_' = nested_next_locs_[n]
  BY <1>1 DEF recover_nested, Back
<1> HIDE DEF n
<1>4. e \in live[n + 1]
  <2>1. PICK j \in 1..Len(live) : e \in live[j]
    BY LiveElements DEF Live, TypeOK
  <2>2. ~ (j \in 1..n)
    BY <1>2, <2>1, LiveElements DEF Live
  <2> QED
    BY <1>1, <2>1, <2>2
<1>5. UpTo(nested_next_locs_[n], StartOf(e))
  <2>1. n \in DOMAIN nested_next_locs_ /\ n + 1 \in DOMAIN live /\ ~ (n + 1 <= n)
    BY <1>1 DEF TypeOK
  <2> QED
    BY <1>4, <2>1 DEF FramesOrdered
<1>6. next_loc_'.block = cur_block_' /\ cur_block_' \in Nat
  BY <1>1, <1>3 DEF PositionsConsistent, Consistent, TypeOK, n
<1>7. e \in Extent /\ next_loc_' \in Pointer
  BY <1>1, <1>3 DEF TypeOK, Live, LiveIn
<1> QED
  BY <1>3, <1>5, <1>6, <1>7 DEF in_stack, StartOf, PointerAt, UpTo, Extent, Pointer

\* recover_all() and free_all(): at the start of the first block nothing is in_stack().
LEMMA RewindLeavesStack ==
  ASSUME Inv, recover_all \/ free_all, NEW e \in Live
  PROVE  ~ in_stack(StartOf(e))'
<1>1. cur_block_' = 1 /\ next_loc_'.off = 0
  BY DEF recover_all, free_all, Rewind, PointerAt
<1>2. e.off \in Nat /\ StartOf(e).off = e.off
  BY DEF Inv, TypeOK, Live, LiveIn, Extent, StartOf, PointerAt
<1> QED
  BY <1>1, <1>2 DEF in_stack

\* alloc() and start_nested() take nothing back.
LEMMA GrantsOnlyGrow ==
  ASSUME Inv, (\E len \in Lens : alloc(len)) \/ start_nested
  PROVE  Live \subseteq Live'
<1>1. ASSUME NEW len \in Lens, alloc(len) PROVE Live \subseteq Live'
  <2>1. live \in Seq(SUBSET Extent)
    BY DEF Inv, TypeOK
  <2>2. live' = live \/ \E g : live' = [live EXCEPT ![Len(live)] = @ \cup g]
    BY <1>1 DEF alloc, RecordGrant
  <2>3. DOMAIN live' = DOMAIN live /\ \A j \in DOMAIN live : live[j] \subseteq live'[j]
    BY <2>1, <2>2
  <2> QED
    BY <2>3 DEF Live, LiveIn
<1>2. CASE start_nested
  BY <1>2 DEF Inv, TypeOK, start_nested, Live, LiveIn
<1> QED
  BY <1>1, <1>2

\* Nothing that was recovered is still in_stack().
THEOREM RecoveryLeavesStack == Spec => RecoveredLeavesStack
<1>1. ASSUME Inv, [Next]_vars
      PROVE  [\A e \in Live \ Live' : ~ in_stack(StartOf(e))']_vars
  BY <1>1, RecoverNestedLeavesStack, RewindLeavesStack, GrantsOnlyGrow DEF Next
<1> QED
  BY <1>1, Invariance, PTL DEF Spec, RecoveredLeavesStack

\* One alloc() is a grant of the abstract arena, or no step of it.
LEMMA AllocIsGrant ==
  ASSUME Inv, NEW len \in Nat, alloc(len)
  PROVE  Arena!Grant \/ UNCHANGED live
<1> DEFINE new == ExtentAt(AllocResult(len), len)
<1>1. CASE len = 0
  BY <1>1 DEF alloc, RecordGrant
<1>2. CASE len > 0
  <2>1. live' = [live EXCEPT ![Len(live)] = @ \cup {new}]
    BY <1>2 DEF alloc, RecordGrant
  <2>2. AllocResult(len) \in Pointer /\ UpTo(next_loc_, AllocResult(len))
    BY AllocStep DEF Inv
  <2> HIDE DEF AllocResult
  <2>3. \A f \in Live : ~ Overlap(new, f)
    <3> SUFFICES ASSUME NEW f \in Live PROVE ~ Overlap(new, f)
      OBVIOUS
    <3>1. f \in Extent /\ next_loc_ \in Pointer
      BY DEF Inv, TypeOK, Live, LiveIn
    <3>2. UpTo(EndOf(f), AllocResult(len))
      BY <2>2, <3>1, UpToTransitive, EndsArePointers DEF Inv, FramesOrdered
    <3> QED
      BY <2>2, <3>1, <3>2, GrantedBeyond
  <2> HIDE DEF new
  <2>4. Len(live) \in DOMAIN live
    BY DEF Inv, TypeOK
  <2>5. new \in LiveIn(live')
    BY <2>1, <2>4 DEF LiveIn
  <2> QED
    BY <2>1, <2>3, <2>5 DEF Arena!Grant, Arena!LiveIn, Arena!Overlap, Live, LiveIn, Overlap
<1> QED
  BY <1>1, <1>2

\* stack_alloc implements the abstract arena.
THEOREM PoolImplementsArena == Spec => ImplementsArena
<1>1. Init => Arena!Init
  BY DEF Init, Arena!Init
<1>2. ASSUME Inv, [Next]_vars
      PROVE  [Arena!Next]_live
  <2> USE DEF Arena!Next
  <2>1. ASSUME NEW len \in Lens, alloc(len) PROVE [Arena!Next]_live
    BY <1>2, <2>1, AllocIsGrant, LensAssumption
  <2>2. CASE nested_cur_blocks_ = << >> /\ (recover_all \/ free_all)
    <3>1. Len(live) = 1
      BY <1>2, <2>2 DEF Inv, TypeOK, recover_all, free_all
    <3> QED
      BY <2>2, <3>1 DEF recover_all, free_all, Arena!RecoverAll
  <2>3. CASE start_nested
    BY <2>3 DEF start_nested, Arena!StartNested
  <2>4. CASE recover_nested
    BY <1>2, <2>4 DEF Inv, TypeOK, recover_nested, PopBack, Arena!RecoverNested
  <2>5. CASE UNCHANGED vars
    BY <2>5 DEF vars
  <2> QED
    BY <1>2, <2>1, <2>2, <2>3, <2>4, <2>5 DEF Next
<1> QED
  BY <1>1, <1>2, Invariance, PTL DEF Spec, ImplementsArena, Arena!Spec
=============================================================================
