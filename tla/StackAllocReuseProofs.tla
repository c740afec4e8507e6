------------------------ MODULE StackAllocReuseProofs ------------------------
(***************************************************************************)
(* Proofs of the properties of StackAllocReuse.                            *)
(*                                                                         *)
(* The heap memory: a pool that has never recovered anything fills its     *)
(* blocks in order, so the current block is the last one, and what was     *)
(* asked for lies in the earlier blocks but for the offset in this one.    *)
(*                                                                         *)
(* The reuse: a call takes the pool from one position to the next in a way *)
(* that depends on the sizes of the blocks alone.  The log of a period is  *)
(* explained by a trace of positions from the origin, and remains so when  *)
(* blocks are added; two periods with the same calls have the same trace.  *)
(***************************************************************************)
EXTENDS StackAllocReuse, StackAllocProofs

-----------------------------------------------------------------------------
(* The heap memory of a new pool *)

Entry == [op : {"alloc", "start_nested", "recover_nested"}, len : Nat, next : Pointer, blocks : Nat]

\* The bytes of the first k blocks.
Total(k) == SumOver(1..k, sizes_)

\* What the bound on the heap needs to be inductive: a new block is at most twice the current
\* one or the request, and the current one is entered only when what was asked for since
\* fills the one before.
FreshInv ==
  fresh =>
    /\ cur_block_ = Len(sizes_)
    /\ next_loc_.off <= Requested
    /\ Requested - next_loc_.off <= Total(cur_block_ - 1)
    /\ Total(cur_block_ - 1) <= InitialNBytes + 3 * (Requested - next_loc_.off)
    /\ Total(cur_block_) <= InitialNBytes + 3 * Requested

LogTypeOK == log \in Seq(Entry) /\ past \in Seq(Entry) /\ fresh \in BOOLEAN

\* The bytes of the blocks, one block at a time.
LEMMA TotalFacts ==
  ASSUME NEW sizes \in Seq(Nat)
  PROVE  /\ SumOver(1..0, sizes) = 0
         /\ \A k \in 0..Len(sizes) : SumOver(1..k, sizes) \in Nat
         /\ \A k \in 1..Len(sizes) : SumOver(1..k, sizes) = SumOver(1..(k - 1), sizes) + sizes[k]
<1>1. SumOver(1..0, sizes) = 0
  <2>1. 1..0 = {}
    OBVIOUS
  <2> QED
    BY <2>1, SumEmpty
<1>2. ASSUME NEW k \in 0..Len(sizes)
      PROVE  /\ IsFiniteSet(1..k) /\ \A n \in 1..k : sizes[n] \in Nat
             /\ SumOver(1..k, sizes) \in Nat
  <2>1. IsFiniteSet(1..k)
    BY FS_Interval
  <2>2. \A n \in 1..k : sizes[n] \in Nat
    OBVIOUS
  <2> QED
    BY <2>1, <2>2, SumType
<1>3. ASSUME NEW k \in 1..Len(sizes)
      PROVE  SumOver(1..k, sizes) = SumOver(1..(k - 1), sizes) + sizes[k]
  <2>1. k - 1 \in 0..Len(sizes) /\ k \in 0..Len(sizes)
    OBVIOUS
  <2>2. IsFiniteSet(1..(k - 1))
    BY <1>2, <2>1
  <2>3. 1..k = 1..(k - 1) \cup {k} /\ k \notin 1..(k - 1)
    OBVIOUS
  <2>4. \A n \in 1..(k - 1) \cup {k} : sizes[n] \in Nat
    BY <1>2, <2>1, <2>3
  <2>5. SumOver(1..(k - 1) \cup {k}, sizes) = SumOver(1..(k - 1), sizes) + sizes[k]
    BY <2>2, <2>3, <2>4, SumAdd
  <2> QED
    BY <2>3, <2>5
<1> QED
  BY <1>1, <1>2, <1>3

\* A longer vector has the same blocks at its start.
LEMMA TotalKept ==
  ASSUME NEW k, NEW sizes, NEW longer, \A n \in 1..k : longer[n] = sizes[n]
  PROVE  SumOver(1..k, longer) = SumOver(1..k, sizes)
BY SumSame

\* One more call in the log.
LEMMA RequestedAdds ==
  ASSUME log \in Seq(Entry), NEW e \in Entry, log' = Append(log, e)
  PROVE  Requested \in Nat /\ Requested' = Requested + e.len
<1>0. PICK n \in Nat : n = Len(log)
  OBVIOUS
<1> DEFINE old == [i \in 1..n |-> log[i].len]
           new == [i \in 1..(n + 1) |-> log'[i].len]
<1>1. DOMAIN log = 1..n /\ DOMAIN log' = 1..(n + 1) /\ log'[n + 1] = e
      /\ \A i \in 1..n : log'[i] = log[i] /\ log[i] \in Entry
  BY <1>0
<1>2. \A i \in 1..n : log[i].len \in Nat
  BY <1>1 DEF Entry
<1>3. e.len \in Nat
  BY DEF Entry
<1>4. \A i \in 1..n : i \in 1..(n + 1) /\ new[i] = old[i]
  BY <1>1
<1>5. new[n + 1] = e.len
  BY <1>1
<1>6. new \in Seq(Nat) /\ Len(new) = n + 1
  <2>1. \A i \in 1..(n + 1) : log'[i].len \in Nat
    <3>1. \A i \in 1..(n + 1) : i \in 1..n \/ i = n + 1
      OBVIOUS
    <3> QED
      BY <1>1, <1>2, <1>3, <3>1
  <2>2. new \in [1..(n + 1) -> Nat]
    BY <2>1
  <2> HIDE DEF new
  <2> QED
    BY <2>2
<1>7. Requested = SumOver(1..n, old) /\ Requested' = SumOver(1..(n + 1), new)
  BY <1>1 DEF Requested
<1> HIDE DEF old, new
<1>8. SumOver(1..n, new) = SumOver(1..n, old)
  BY <1>4, TotalKept
<1>9. n + 1 \in 1..Len(new) /\ n \in 0..Len(new) /\ (n + 1) - 1 = n
  BY <1>6
<1>10. SumOver(1..(n + 1), new) = SumOver(1..n, new) + e.len /\ SumOver(1..n, new) \in Nat
  BY <1>5, <1>6, <1>9, TotalFacts
<1> QED
  BY <1>7, <1>8, <1>10

\* The arithmetic of a request that stays in the current block, and of one that does not:
\* below is the size of the earlier blocks, size that of the current one.
LEMMA FreshArithmetic ==
  ASSUME NEW first \in Nat, NEW asked \in Nat, NEW off \in Nat, NEW below \in Nat,
         NEW size \in Nat, NEW len \in Nat,
         off <= asked, asked - off <= below, below <= first + 3 * (asked - off),
         below + size <= first + 3 * asked, off <= size
  PROVE  /\ off + len <= asked + len /\ (asked + len) - (off + len) <= below
         /\ below <= first + 3 * ((asked + len) - (off + len))
         /\ below + size <= first + 3 * (asked + len)
         /\ len <= asked + len /\ (asked + len) - len <= below + size
         /\ below + size <= first + 3 * ((asked + len) - len)
         /\ (below + size) + len <= first + 3 * (asked + len)
         /\ size <= off + len => (below + size) + size * 2 <= first + 3 * (asked + len)
OBVIOUS

\* alloc() by a pool that has never recovered memory: in the current block, or in a new one.
LEMMA AllocKeepsFresh ==
  ASSUME Inv, LogTypeOK, FreshInv, NEW len \in Nat, alloc(len),
         log' = Append(log, Call("alloc", len)), UNCHANGED fresh
  PROVE  FreshInv'
<1> SUFFICES ASSUME fresh
             PROVE  /\ cur_block_' = Len(sizes_')
                    /\ next_loc_'.off <= Requested'
                    /\ Requested' - next_loc_'.off <= Total(cur_block_ - 1)'
                    /\ Total(cur_block_ - 1)' <= InitialNBytes + 3 * (Requested' - next_loc_'.off)
                    /\ Total(cur_block_)' <= InitialNBytes + 3 * Requested'
  BY DEF FreshInv
<1>0. PICK c \in Nat : c = cur_block_
  BY DEF Inv, TypeOK
<1>1. /\ sizes_ \in Seq(Nat \ {0}) /\ sizes_ \in Seq(Nat) /\ c = Len(sizes_) /\ c >= 1
      /\ next_loc_.off \in 0..sizes_[c] /\ cur_block_end_.off = sizes_[c]
      /\ sizes_[c] \in Nat \ {0}
  <2>1. sizes_ \in Seq(Nat \ {0}) /\ Len(sizes_) >= 1
    BY DEF Inv, TypeOK
  <2>2. sizes_ \in Seq(Nat) /\ c = Len(sizes_)
    BY <1>0, <2>1 DEF FreshInv
  <2>3. next_loc_.off \in 0..sizes_[c] /\ cur_block_end_.off = sizes_[c]
    BY <1>0 DEF Inv, PositionsConsistent, Consistent, PointerAt
  <2> QED
    BY <2>1, <2>2, <2>3
<1>2. Requested \in Nat /\ Requested' = Requested + len
  <2>1. Call("alloc", len) \in Entry /\ Call("alloc", len).len = len
    <3>1. next_loc_' \in Pointer /\ Len(sizes_') \in Nat
      BY AllocKeepsInv DEF Inv, TypeOK
    <3> QED
      BY <3>1 DEF Call, Entry
  <2> HIDE DEF Call
  <2> QED
    BY <2>1, RequestedAdds DEF LogTypeOK
<1>3. /\ Total(c) \in Nat /\ Total(c - 1) \in Nat /\ Total(c) = Total(c - 1) + sizes_[c]
  <2>1. c \in 0..Len(sizes_) /\ c - 1 \in 0..Len(sizes_) /\ c \in 1..Len(sizes_)
    BY <1>1
  <2> QED
    BY <1>1, <2>1, TotalFacts DEF Total
<1>4. PICK asked \in Nat, off \in Nat, below \in Nat, size \in Nat :
        asked = Requested /\ off = next_loc_.off /\ below = Total(c - 1) /\ size = sizes_[c]
  <2>1. next_loc_.off \in Nat
    BY <1>1
  <2> QED
    BY <1>1, <1>2, <1>3, <2>1
<1>5. /\ off <= asked /\ asked - off <= below /\ below <= InitialNBytes + 3 * (asked - off)
      /\ below + size <= InitialNBytes + 3 * asked /\ off <= size
      /\ InitialNBytes \in Nat
  BY <1>0, <1>1, <1>3, <1>4, InitialNBytesAssumption DEF FreshInv
<1>6. Requested' = asked + len /\ Total(c) = below + size
  BY <1>2, <1>3, <1>4
<1>7. CASE AllocInBlock(len)
  <2>1. next_loc_'.off = off + len /\ sizes_' = sizes_ /\ cur_block_' = c
    BY <1>0, <1>4, <1>7 DEF AllocInBlock, PointerAt
  <2>2. Total(cur_block_ - 1)' = below /\ Total(cur_block_)' = below + size
    BY <1>0, <1>4, <1>6, <2>1 DEF Total
  <2> QED
    BY <1>1, <1>5, <1>6, <2>1, <2>2, FreshArithmetic
<1>8. CASE AllocInLaterBlock(len)
  <2>1. LaterFits(len) = {}
    BY <1>0, <1>1 DEF LaterFits
  <2> QED
    BY <1>8, <2>1 DEF AllocInLaterBlock
<1>9. CASE AllocInNewBlock(len)
  <2>1. PICK new \in Nat : /\ new = NewBlockSize(len)
                           /\ new = len \/ new = size * 2
    BY <1>1, <1>4 DEF NewBlockSize
  <2>2. sizes_' = Append(sizes_, new) /\ size <= off + len
    <3>1. sizes_' = Append(sizes_, new) /\ ~ (off + len < size)
      BY <1>1, <1>4, <1>9, <2>1 DEF AllocInNewBlock, FitsInBlock
    <3>2. ~ (off + len < size) => size <= off + len
      OBVIOUS
    <3> QED
      BY <3>1, <3>2
  <2>3. next_loc_'.off = len /\ cur_block_' = c + 1
    BY <1>1, <1>9 DEF AllocInNewBlock, EnterBlock, NextBlock, PointerAt
  <2>4. sizes_' \in Seq(Nat) /\ Len(sizes_') = c + 1 /\ sizes_'[c + 1] = new
        /\ \A n \in 1..c : sizes_'[n] = sizes_[n]
    BY <1>1, <2>2
  <2>5. SumOver(1..c, sizes_') = below + size
    BY <1>6, <2>4, TotalKept DEF Total
  <2>6. SumOver(1..(c + 1), sizes_') = (below + size) + new
    <3>1. c + 1 \in 1..Len(sizes_') /\ (c + 1) - 1 = c
      BY <2>4
    <3> QED
      BY <2>4, <2>5, <3>1, TotalFacts
  <2>7. Total(cur_block_ - 1)' = below + size /\ Total(cur_block_)' = (below + size) + new
    <3>1. (c + 1) - 1 = c
      BY <1>1
    <3> QED
      BY <2>3, <2>5, <2>6, <3>1 DEF Total
  <2>8. (below + size) + new <= InitialNBytes + 3 * (asked + len)
    BY <1>5, <2>1, <2>2, FreshArithmetic
  <2> QED
    BY <1>5, <1>6, <2>3, <2>4, <2>7, <2>8, FreshArithmetic
<1> QED
  BY <1>7, <1>8, <1>9 DEF alloc

\* Between a call and the next, start_nested() included, the position says how full the block is.
LEMMA InvBoundsHeap ==
  ASSUME Inv, LogTypeOK, FreshInv, fresh, Requested \in Nat
  PROVE  Requested <= bytes_allocated /\ bytes_allocated <= InitialNBytes + 3 * Requested
<1>0. PICK c \in Nat : c = cur_block_
  BY DEF Inv, TypeOK
<1>1. /\ sizes_ \in Seq(Nat) /\ c = Len(sizes_) /\ c >= 1
      /\ next_loc_.off \in 0..sizes_[c] /\ sizes_[c] \in Nat
  <2>1. sizes_ \in Seq(Nat \ {0}) /\ Len(sizes_) >= 1
    BY DEF Inv, TypeOK
  <2>2. sizes_ \in Seq(Nat) /\ c = Len(sizes_)
    BY <1>0, <2>1 DEF FreshInv
  <2>3. next_loc_.off \in 0..sizes_[c]
    BY <1>0 DEF Inv, PositionsConsistent, Consistent, PointerAt
  <2> QED
    BY <2>1, <2>2, <2>3
<1>2. /\ Total(c) \in Nat /\ Total(c - 1) \in Nat /\ Total(c) = Total(c - 1) + sizes_[c]
  <2>1. c \in 0..Len(sizes_) /\ c - 1 \in 0..Len(sizes_) /\ c \in 1..Len(sizes_)
    BY <1>1
  <2> QED
    BY <1>1, <2>1, TotalFacts DEF Total
<1>3. PICK asked \in Nat, off \in Nat, below \in Nat, size \in Nat :
        asked = Requested /\ off = next_loc_.off /\ below = Total(c - 1) /\ size = sizes_[c]
  <2>1. next_loc_.off \in Nat
    BY <1>1
  <2> QED
    BY <1>1, <1>2, <2>1
<1>4. /\ asked - off <= below /\ off <= size
      /\ bytes_allocated = below + size /\ bytes_allocated <= InitialNBytes + 3 * asked
  BY <1>0, <1>1, <1>2, <1>3 DEF FreshInv, bytes_allocated, Total
<1>5. asked <= below + size
  BY <1>4
<1> QED
  BY <1>3, <1>4, <1>5

-----------------------------------------------------------------------------
(* The same calls, the same memory *)

\* Where the pool is: what a call to it depends on, beside the sizes of the blocks.
Position == [block |-> cur_block_, next |-> next_loc_,
             blocks |-> nested_cur_blocks_, nexts |-> nested_next_locs_]

Positions == [block : Nat, next : Pointer, blocks : Seq(Nat \ {0}), nexts : Seq(Pointer)]

Origin == [block |-> 1, next |-> PointerAt(1, 0), blocks |-> << >>, nexts |-> << >>]

Stays(p, len, sizes) == p.next.off + len < sizes[p.block]
Later(p, len, sizes) == {b \in (p.block + 1)..Len(sizes) : sizes[b] >= len}

\* A call e takes the pool from p to q, and needs no block beyond these to do so.
Moves(p, q, e, sizes) ==
  \/ /\ e.op = "alloc"
     /\ q.blocks = p.blocks /\ q.nexts = p.nexts
     /\ \/ /\ Stays(p, e.len, sizes)
           /\ q.block = p.block
           /\ q.next = PointerAt(p.next.block, p.next.off + e.len)
        \/ /\ ~ Stays(p, e.len, sizes)
           /\ q.block \in Later(p, e.len, sizes)
           /\ \A b \in Later(p, e.len, sizes) : q.block <= b
           /\ q.next = PointerAt(q.block, e.len)
  \/ /\ e.op = "start_nested"
     /\ q.block = p.block /\ q.next = p.next
     /\ q.blocks = Append(p.blocks, p.block) /\ q.nexts = Append(p.nexts, p.next)
  \/ /\ e.op = "recover_nested"
     /\ q.block = Back(p.blocks) /\ q.next = Back(p.nexts)
     /\ q.blocks = PopBack(p.blocks) /\ q.nexts = PopBack(p.nexts)

Extends(longer, sizes) ==
  /\ Len(sizes) <= Len(longer)
  /\ \A b \in 1..Len(sizes) : longer[b] = sizes[b]

\* f is where the pool was before, between and after these calls.
Trace(calls, f, sizes) ==
  /\ f[0] = Origin
  /\ \A i \in 0..Len(calls) : f[i] \in Positions /\ f[i].block \in 1..Len(sizes)
  /\ \A i \in 1..Len(calls) : /\ Moves(f[i - 1], f[i], calls[i], sizes)
                              /\ calls[i].next = f[i].next

\* A position, member by member.
LEMMA PositionFields ==
  ASSUME NEW p \in Positions
  PROVE  /\ p.block \in Nat /\ p.next \in Pointer /\ p.next.off \in Nat
         /\ p.blocks \in Seq(Nat \ {0}) /\ p.nexts \in Seq(Pointer)
BY DEF Positions, Pointer

\* Two positions with the same members are the same.
LEMMA PositionsEqual ==
  ASSUME NEW p \in Positions, NEW q \in Positions,
         p.block = q.block, p.next = q.next, p.blocks = q.blocks, p.nexts = q.nexts
  PROVE  p = q
BY DEF Positions

\* Where a call leads depends on nothing else.
LEMMA MovesOnce ==
  ASSUME NEW p \in Positions, NEW q \in Positions, NEW r \in Positions, NEW d, NEW e,
         NEW sizes \in Seq(Nat), d.op = e.op, d.len = e.len,
         Moves(p, q, d, sizes), Moves(p, r, e, sizes)
  PROVE  q = r
<1>1. q.block \in Nat /\ r.block \in Nat
  BY PositionFields
<1>2. q.block = r.block /\ q.next = r.next /\ q.blocks = r.blocks /\ q.nexts = r.nexts
  <2>1. CASE e.op = "alloc"
    <3>1. CASE Stays(p, e.len, sizes)
      BY <2>1, <3>1 DEF Moves
    <3>2. CASE ~ Stays(p, e.len, sizes)
      <4>1. q.block <= r.block /\ r.block <= q.block
        BY <2>1, <3>2 DEF Moves
      <4>2. q.block = r.block
        BY <1>1, <4>1
      <4> QED
        BY <2>1, <3>2, <4>2 DEF Moves
    <3> QED
      BY <3>1, <3>2
  <2>2. CASE e.op # "alloc"
    BY <2>2 DEF Moves
  <2> QED
    BY <2>1, <2>2
<1> QED
  BY <1>2, PositionsEqual

\* More blocks at the end change nothing for a call that did not need them.
LEMMA MovesKept ==
  ASSUME NEW p \in Positions, NEW q \in Positions, NEW e,
         NEW sizes \in Seq(Nat), NEW longer \in Seq(Nat), Extends(longer, sizes),
         p.block \in 1..Len(sizes), Moves(p, q, e, sizes)
  PROVE  Moves(p, q, e, longer)
<1>1. Stays(p, e.len, longer) <=> Stays(p, e.len, sizes)
  BY DEF Stays, Extends
<1>2. q.block \in Nat /\ p.block \in Nat
  BY PositionFields
<1>3. ASSUME q.block \in Later(p, e.len, sizes),
             \A b \in Later(p, e.len, sizes) : q.block <= b
      PROVE  /\ q.block \in Later(p, e.len, longer)
             /\ \A b \in Later(p, e.len, longer) : q.block <= b
  <2>1. q.block \in (p.block + 1)..Len(sizes) /\ sizes[q.block] >= e.len
    BY <1>3 DEF Later
  <2>0. PICK x \in Nat, y \in Nat, n \in Nat, m \in Nat :
          x = p.block /\ y = q.block /\ n = Len(sizes) /\ m = Len(longer) /\ n <= m
    BY <1>2 DEF Extends
  <2>2. q.block \in 1..Len(sizes) /\ q.block \in (p.block + 1)..Len(longer)
    <3>0. q.block \in (p.block + 1)..Len(sizes)
      BY <2>1
    <3>1. y \in (x + 1)..n
      BY <2>0, <3>0
    <3>2. y \in 1..n /\ y \in (x + 1)..m
      BY <2>0, <3>1
    <3> QED
      BY <2>0, <3>2
  <2>3. longer[q.block] = sizes[q.block]
    BY <2>2 DEF Extends
  <2>4. ASSUME NEW b \in Later(p, e.len, longer)
        PROVE  q.block <= b
    <3>1. b \in (p.block + 1)..Len(longer) /\ longer[b] >= e.len
      BY DEF Later
    <3>2. CASE b <= Len(sizes)
      <4>1. b \in 1..Len(sizes) /\ b \in (p.block + 1)..Len(sizes)
        BY <1>2, <3>1, <3>2
      <4>2. b \in Later(p, e.len, sizes)
        BY <3>1, <4>1 DEF Later, Extends
      <4> QED
        BY <1>3, <4>2
    <3>3. CASE ~ (b <= Len(sizes))
      <4>1. y <= n /\ b \in Int /\ ~ (b <= n)
        BY <2>0, <2>1, <3>1, <3>3
      <4>2. y <= b
        BY <4>1
      <4> QED
        BY <2>0, <4>2
    <3> QED
      BY <3>2, <3>3
  <2> QED
    BY <2>1, <2>2, <2>3, <2>4 DEF Later
<1> QED
  BY <1>1, <1>3 DEF Moves

\* So a trace stays one when blocks are added.
LEMMA TraceKept ==
  ASSUME NEW calls \in Seq(Entry), NEW f, NEW sizes \in Seq(Nat), NEW longer \in Seq(Nat),
         Extends(longer, sizes), Trace(calls, f, sizes)
  PROVE  Trace(calls, f, longer)
<1>1. \A i \in 0..Len(calls) : f[i] \in Positions /\ f[i].block \in 1..Len(sizes)
                                                  /\ f[i].block \in 1..Len(longer)
  BY DEF Trace, Extends
<1>2. ASSUME NEW i \in 1..Len(calls)
      PROVE  Moves(f[i - 1], f[i], calls[i], longer) /\ calls[i].next = f[i].next
  <2>1. i - 1 \in 0..Len(calls) /\ i \in 0..Len(calls)
    OBVIOUS
  <2>2. Moves(f[i - 1], f[i], calls[i], sizes) /\ calls[i].next = f[i].next
    BY DEF Trace
  <2> QED
    BY <1>1, <2>1, <2>2, MovesKept
<1> QED
  BY <1>1, <1>2 DEF Trace

-----------------------------------------------------------------------------
(* The invariant *)

\* Two traces explain the logs, and run together while the calls are the same.
RunTogether(f, g) ==
  /\ Trace(log, f, sizes_) /\ Trace(past, g, sizes_)
  /\ f[Len(log)] = Position
  /\ Repeating => \A i \in 0..Len(log) : f[i] = g[i]

Retraced == \E f, g : RunTogether(f, g)

\* The log shows the blocks owned; a repetition adds none.
BlocksLogged ==
  /\ log # << >> => log[Len(log)].blocks = Len(sizes_)
  /\ (Repeating /\ past # << >>) =>
       /\ past[Len(past)].blocks = Len(sizes_)
       /\ \A i \in DOMAIN log : log[i].blocks = Len(sizes_)

ReuseInv == Inv /\ LogTypeOK /\ FreshInv /\ BlocksLogged /\ Retraced

\* What is asked for is a number of bytes.
LEMMA RequestedIsNat ==
  ASSUME LogTypeOK
  PROVE  Requested \in Nat
<1> DEFINE term == [i \in DOMAIN log |-> log[i].len]
<1>1. log \in Seq(Entry) /\ DOMAIN log = 1..Len(log) /\ Len(log) \in Nat
  BY DEF LogTypeOK
<1>2. IsFiniteSet(DOMAIN log)
  BY <1>1, FS_Interval
<1>3. \A i \in DOMAIN log : term[i] \in Nat
  <2>1. \A i \in DOMAIN log : log[i] \in Entry
    BY <1>1
  <2> QED
    BY <2>1 DEF Entry
<1> QED
  BY <1>2, <1>3, SumType DEF Requested

\* The invariant implies both properties.
LEMMA InvReuses == ReuseInv => RepeatReusesMemory /\ HeapOverheadBounded
<1> SUFFICES ASSUME ReuseInv PROVE RepeatReusesMemory /\ HeapOverheadBounded
  OBVIOUS
<1>1. HeapOverheadBounded
  BY RequestedIsNat, InvBoundsHeap DEF ReuseInv, HeapOverheadBounded
<1>2. RepeatReusesMemory
  <2> SUFFICES ASSUME Repeating, NEW i \in DOMAIN log
               PROVE  log[i].next = past[i].next /\ log[i].blocks = past[Len(past)].blocks
    BY DEF RepeatReusesMemory
  <2>1. log \in Seq(Entry) /\ past \in Seq(Entry) /\ Len(log) <= Len(past)
    BY DEF ReuseInv, LogTypeOK, Repeating
  <2>2. i \in 1..Len(log) /\ i \in 1..Len(past) /\ past # << >>
    BY <2>1
  <2>3. PICK f, g : /\ Trace(log, f, sizes_) /\ Trace(past, g, sizes_)
                    /\ \A j \in 0..Len(log) : f[j] = g[j]
    BY DEF ReuseInv, Retraced, RunTogether
  <2>4. log[i].next = f[i].next /\ past[i].next = g[i].next /\ f[i] = g[i]
    BY <2>2, <2>3 DEF Trace
  <2>5. log[i].blocks = Len(sizes_) /\ past[Len(past)].blocks = Len(sizes_)
    BY <2>2 DEF ReuseInv, BlocksLogged
  <2> QED
    BY <2>4, <2>5
<1> QED
  BY <1>1, <1>2

\* One more call: if it is the one that came next in the period before, it finds the pool
\* where it was then, and needs no block that was not owned since.
LEMMA CallKeepsTraces ==
  ASSUME ReuseInv, Inv', NEW op \in {"alloc", "start_nested", "recover_nested"}, NEW len \in Nat,
         log' = Append(log, Call(op, len)), UNCHANGED past,
         sizes_' \in Seq(Nat), Extends(sizes_', sizes_),
         cur_block_' \in 1..Len(sizes_) => Len(sizes_') = Len(sizes_),
         Moves(Position, Position', Call(op, len), sizes_')
  PROVE  /\ log' \in Seq(Entry) /\ past' \in Seq(Entry)
         /\ BlocksLogged' /\ Retraced'
<1>0. PICK n \in Nat : n = Len(log)
  BY DEF ReuseInv, LogTypeOK
<1>1. PICK e : e = Call(op, len)
  OBVIOUS
<1>2. e \in Entry /\ e.op = op /\ e.len = len /\ e.next = next_loc_' /\ e.blocks = Len(sizes_')
  <2>1. next_loc_' \in Pointer /\ Len(sizes_') \in Nat
    BY DEF Inv, TypeOK
  <2> QED
    BY <1>1, <2>1 DEF Call, Entry
<1>3. /\ log \in Seq(Entry) /\ past \in Seq(Entry) /\ log' \in Seq(Entry) /\ past' \in Seq(Entry)
      /\ Len(log') = n + 1 /\ log'[n + 1] = e /\ \A i \in 1..n : log'[i] = log[i]
      /\ DOMAIN log = 1..n /\ DOMAIN log' = 1..(n + 1) /\ past' = past /\ Len(past) \in Nat
  BY <1>0, <1>1, <1>2 DEF ReuseInv, LogTypeOK
<1>4. PICK f, g : RunTogether(f, g)
  BY DEF ReuseInv, Retraced
<1>5. /\ Trace(log, f, sizes_) /\ Trace(past, g, sizes_)
      /\ f[n] = Position
      /\ Repeating => \A i \in 0..n : f[i] = g[i]
  BY <1>0, <1>4 DEF RunTogether
<1>6. sizes_ \in Seq(Nat) /\ Trace(log, f, sizes_') /\ Trace(past, g, sizes_')
  <2>1. sizes_ \in Seq(Nat)
    <3>1. sizes_ \in Seq(Nat \ {0})
      BY DEF ReuseInv, Inv, TypeOK
    <3> QED
      BY <3>1
  <2> QED
    BY <1>3, <1>5, <2>1, TraceKept
<1>7. /\ Position' \in Positions /\ Position'.block \in 1..Len(sizes_')
      /\ Position'.next = next_loc_' /\ Position'.block = cur_block_'
  <2>1. /\ cur_block_' \in Nat /\ next_loc_' \in Pointer
        /\ nested_cur_blocks_' \in Seq(Nat \ {0}) /\ nested_next_locs_' \in Seq(Pointer)
        /\ cur_block_' \in 1..Len(sizes_')
    BY DEF Inv, TypeOK, PositionsConsistent, Consistent
  <2> QED
    BY <2>1 DEF Position, Positions
<1>8. PICK h : h = [i \in 0..(n + 1) |-> IF i = n + 1 THEN Position' ELSE f[i]]
  OBVIOUS
<1>9. /\ h[n + 1] = Position' /\ \A i \in 0..n : h[i] = f[i] /\ i \in 0..(n + 1)
      /\ \A i \in 1..n : h[i - 1] = f[i - 1] /\ h[i] = f[i]
      /\ h[n] = Position /\ 0 \in 0..n
  BY <1>5, <1>8
<1>10. Trace(log', h, sizes_')
  <2>1. h[0] = Origin
    BY <1>6, <1>9 DEF Trace
  <2>2. \A i \in 0..(n + 1) : h[i] \in Positions /\ h[i].block \in 1..Len(sizes_')
    <3>1. \A i \in 0..(n + 1) : i \in 0..n \/ i = n + 1
      OBVIOUS
    <3> QED
      BY <1>0, <1>6, <1>7, <1>9, <3>1 DEF Trace
  <2>3. \A i \in 1..(n + 1) : Moves(h[i - 1], h[i], log'[i], sizes_') /\ log'[i].next = h[i].next
    <3>1. ASSUME NEW i \in 1..n
          PROVE  Moves(h[i - 1], h[i], log'[i], sizes_') /\ log'[i].next = h[i].next
      BY <1>0, <1>3, <1>6, <1>9 DEF Trace
    <3>2. Moves(h[n], h[n + 1], log'[n + 1], sizes_') /\ log'[n + 1].next = h[n + 1].next
      BY <1>1, <1>2, <1>3, <1>7, <1>9
    <3>3. \A i \in 1..(n + 1) : i \in 1..n \/ (i = n + 1 /\ i - 1 = n)
      OBVIOUS
    <3> QED
      BY <3>1, <3>2, <3>3
  <2> QED
    BY <1>3, <2>1, <2>2, <2>3 DEF Trace
<1>11. ASSUME Repeating'
      PROVE  /\ Repeating /\ past # << >> /\ h[n + 1] = g[n + 1]
             /\ Len(sizes_') = Len(sizes_)
  <2>1. n + 1 \in 1..Len(past) /\ e.op = past[n + 1].op /\ e.len = past[n + 1].len
        /\ \A i \in 1..n : log[i].op = past[i].op /\ log[i].len = past[i].len
    <3>1. /\ n + 1 <= Len(past)
          /\ \A i \in 1..(n + 1) : log'[i].op = past[i].op /\ log'[i].len = past[i].len
      BY <1>3, <1>11 DEF Repeating
    <3>2. n + 1 \in 1..(n + 1) /\ \A i \in 1..n : i \in 1..(n + 1)
      OBVIOUS
    <3>3. n + 1 \in 1..Len(past)
      BY <1>3, <3>1
    <3> QED
      BY <1>3, <3>1, <3>2, <3>3
  <2>2. Repeating /\ past # << >>
    BY <1>0, <1>3, <2>1 DEF Repeating
  <2>3. n + 1 \in 0..Len(past) /\ n \in 0..Len(past) /\ (n + 1) - 1 = n /\ n \in 0..n
    BY <1>3, <2>1
  <2>4. g[n] = Position
    BY <1>5, <2>2, <2>3
  <2>5. /\ Moves(g[n], g[n + 1], past[n + 1], sizes_')
        /\ g[n] \in Positions /\ g[n + 1] \in Positions
    BY <1>6, <2>1, <2>3 DEF Trace
  <2>6. Moves(g[n], Position', e, sizes_')
    BY <1>1, <2>4
  <2>7. g[n + 1] = Position'
    BY <1>7, <2>1, <2>5, <2>6, MovesOnce
  <2>8. cur_block_' \in 1..Len(sizes_)
    BY <1>5, <1>7, <2>3, <2>7 DEF Trace
  <2>9. Len(sizes_') = Len(sizes_)
    BY <2>8
  <2>10. h[n + 1] = g[n + 1]
    BY <1>9, <2>7
  <2> QED
    BY <2>2, <2>9, <2>10
<1>12. BlocksLogged'
  <2>1. log'[Len(log')].blocks = Len(sizes_')
    BY <1>2, <1>3
  <2>2. ASSUME Repeating'
        PROVE  /\ past'[Len(past')].blocks = Len(sizes_')
               /\ \A i \in DOMAIN log' : log'[i].blocks = Len(sizes_')
    <3>1. /\ past[Len(past)].blocks = Len(sizes_)
          /\ \A i \in 1..n : log[i].blocks = Len(sizes_)
      BY <1>3, <1>11, <2>2 DEF ReuseInv, BlocksLogged
    <3>2. \A i \in 1..(n + 1) : i \in 1..n \/ i = n + 1
      OBVIOUS
    <3> QED
      BY <1>2, <1>3, <1>11, <2>2, <3>1, <3>2
  <2> QED
    BY <2>1, <2>2 DEF BlocksLogged
<1>13. Retraced'
  <2>1. Repeating' => \A i \in 0..Len(log') : h[i] = g[i]
    <3>1. \A i \in 0..(n + 1) : i \in 0..n \/ i = n + 1
      OBVIOUS
    <3> QED
      BY <1>3, <1>5, <1>9, <1>11, <3>1
  <2>2. h[Len(log')] = Position'
    BY <1>3, <1>9
  <2>3. Trace(log', h, sizes_') /\ Trace(past', g, sizes_')
    BY <1>3, <1>6, <1>10
  <2>4. RunTogether(h, g)'
    BY <2>1, <2>2, <2>3 DEF RunTogether
  <2> QED
    BY <2>4 DEF Retraced
<1> QED
  BY <1>3, <1>12, <1>13

-----------------------------------------------------------------------------
(* The calls *)

\* The fields of a call that matter to where it leads.
LEMMA CallFields ==
  ASSUME NEW op, NEW len
  PROVE  Call(op, len).op = op /\ Call(op, len).len = len
BY DEF Call

\* Whether a request stays in the current block is seen from the position and the sizes.
LEMMA StaysIsFits ==
  ASSUME Inv, NEW len \in Nat
  PROVE  /\ cur_block_ \in 1..Len(sizes_) /\ sizes_ \in Seq(Nat)
         /\ Position.block = cur_block_ /\ Position.next = next_loc_
         /\ Stays(Position, len, sizes_) <=> FitsInBlock(len)
<1>1. sizes_ \in Seq(Nat \ {0})
  BY DEF Inv, TypeOK
<1>2. sizes_ \in Seq(Nat)
  BY <1>1
<1>3. cur_block_ \in 1..Len(sizes_) /\ cur_block_end_.off = sizes_[cur_block_]
  BY DEF Inv, PositionsConsistent, Consistent, PointerAt
<1>4. Position.block = cur_block_ /\ Position.next = next_loc_
  BY DEF Position
<1> QED
  BY <1>2, <1>3, <1>4 DEF Stays, FitsInBlock

\* alloc() leads where the position and the sizes say, the block it mallocs included.
LEMMA AllocMoves ==
  ASSUME Inv, NEW len \in Nat, alloc(len)
  PROVE  /\ sizes_' \in Seq(Nat) /\ Extends(sizes_', sizes_)
         /\ cur_block_' \in 1..Len(sizes_) => Len(sizes_') = Len(sizes_)
         /\ Moves(Position, Position', Call("alloc", len), sizes_')
<1>1. /\ cur_block_ \in 1..Len(sizes_) /\ sizes_ \in Seq(Nat)
      /\ Position.block = cur_block_ /\ Position.next = next_loc_
      /\ Stays(Position, len, sizes_) <=> FitsInBlock(len)
  BY StaysIsFits
<1>2. /\ Position'.block = cur_block_' /\ Position'.next = next_loc_'
      /\ Position'.blocks = Position.blocks /\ Position'.nexts = Position.nexts
  BY DEF Position, alloc, nested
<1>3. Call("alloc", len).op = "alloc" /\ Call("alloc", len).len = len
  BY CallFields
<1>4. CASE AllocInBlock(len)
  <2>1. sizes_' = sizes_ /\ cur_block_' = cur_block_ /\ FitsInBlock(len)
        /\ next_loc_' = PointerAt(next_loc_.block, next_loc_.off + len)
    BY <1>4 DEF AllocInBlock
  <2>2. Moves(Position, Position', Call("alloc", len), sizes_')
    BY <1>1, <1>2, <1>3, <2>1 DEF Moves
  <2> QED
    BY <1>1, <2>1, <2>2 DEF Extends
<1>5. CASE AllocInLaterBlock(len)
  <2>1. /\ sizes_' = sizes_ /\ ~ FitsInBlock(len) /\ LaterFits(len) # {}
        /\ cur_block_' = NextBlock(len) /\ next_loc_' = PointerAt(cur_block_', len)
    BY <1>5 DEF AllocInLaterBlock, EnterBlock
  <2>2. cur_block_' \in LaterFits(len) /\ \A b \in LaterFits(len) : cur_block_' <= b
    BY <1>1, <2>1, NextBlockFits
  <2>3. Later(Position, len, sizes_') = LaterFits(len)
    BY <1>1, <2>1 DEF Later, LaterFits
  <2>4. Moves(Position, Position', Call("alloc", len), sizes_')
    BY <1>1, <1>2, <1>3, <2>1, <2>2, <2>3 DEF Moves
  <2> QED
    BY <1>1, <2>1, <2>4 DEF Extends
<1>6. CASE AllocInNewBlock(len)
  <2>1. PICK last \in Nat : last = Len(sizes_)
    BY <1>1
  <2>2. /\ sizes_' = Append(sizes_, NewBlockSize(len)) /\ ~ FitsInBlock(len)
        /\ LaterFits(len) = {}
        /\ cur_block_' = last + 1 /\ next_loc_' = PointerAt(cur_block_', len)
    BY <1>6, <2>1 DEF AllocInNewBlock, EnterBlock, NextBlock
  <2>3. NewBlockSize(len) \in Nat /\ len <= NewBlockSize(len)
    BY <1>1 DEF NewBlockSize
  <2>4. /\ sizes_' \in Seq(Nat) /\ Len(sizes_') = last + 1
        /\ sizes_'[last + 1] = NewBlockSize(len)
        /\ \A b \in 1..last : sizes_'[b] = sizes_[b]
    BY <1>1, <2>1, <2>2, <2>3
  <2>5. ~ Stays(Position, len, sizes_')
    BY <1>1, <2>1, <2>2, <2>4 DEF Stays
  <2>6. cur_block_' \in Later(Position, len, sizes_')
    BY <1>1, <2>1, <2>2, <2>3, <2>4 DEF Later
  <2>7. ASSUME NEW b \in Later(Position, len, sizes_')
        PROVE  cur_block_' <= b
    <3>1. b \in (cur_block_ + 1)..(last + 1) /\ sizes_'[b] >= len
      BY <1>1, <2>4 DEF Later
    <3>2. b \notin 1..last
      <4>1. b \notin (cur_block_ + 1)..last \/ ~ (sizes_[b] >= len)
        BY <2>1, <2>2 DEF LaterFits
      <4> QED
        BY <1>1, <2>1, <2>4, <3>1, <4>1
    <3> QED
      BY <1>1, <2>1, <2>2, <3>1, <3>2
  <2>8. Moves(Position, Position', Call("alloc", len), sizes_')
    BY <1>2, <1>3, <2>2, <2>5, <2>6, <2>7 DEF Moves
  <2>9. cur_block_' \notin 1..Len(sizes_)
    BY <2>1, <2>2
  <2>10. Extends(sizes_', sizes_)
    BY <2>1, <2>4 DEF Extends
  <2> QED
    BY <2>4, <2>8, <2>9, <2>10
<1> QED
  BY <1>4, <1>5, <1>6 DEF alloc

\* So do start_nested() and recover_nested(), and they leave the blocks alone.
LEMMA NestedMoves ==
  ASSUME Inv, NEW op \in {"start_nested", "recover_nested"},
         op = "start_nested" => start_nested, op = "recover_nested" => recover_nested
  PROVE  /\ sizes_' \in Seq(Nat) /\ Extends(sizes_', sizes_) /\ sizes_' = sizes_
         /\ Moves(Position, Position', Call(op, 0), sizes_')
<1>1. sizes_' = sizes_
  BY DEF start_nested, recover_nested
<1>2. sizes_ \in Seq(Nat)
  BY StaysIsFits
<1>3. Call(op, 0).op = op
  BY CallFields
<1>4. Extends(sizes_', sizes_)
  BY <1>1, <1>2 DEF Extends
<1>5. CASE op = "start_nested"
  <2>1. /\ Position'.block = Position.block /\ Position'.next = Position.next
        /\ Position'.blocks = Append(Position.blocks, Position.block)
        /\ Position'.nexts = Append(Position.nexts, Position.next)
    BY <1>5 DEF Position, start_nested, current
  <2>2. Moves(Position, Position', Call(op, 0), sizes_')
    BY <1>3, <1>5, <2>1 DEF Moves
  <2> QED
    BY <1>1, <1>2, <1>4, <2>2
<1>6. CASE op = "recover_nested"
  <2>1. /\ Position'.block = Back(Position.blocks) /\ Position'.next = Back(Position.nexts)
        /\ Position'.blocks = PopBack(Position.blocks)
        /\ Position'.nexts = PopBack(Position.nexts)
    BY <1>6 DEF Position, recover_nested
  <2>2. Moves(Position, Position', Call(op, 0), sizes_')
    BY <1>3, <1>6, <2>1 DEF Moves
  <2> QED
    BY <1>1, <1>2, <1>4, <2>2
<1> QED
  BY <1>5, <1>6

\* alloc() keeps the invariant.
LEMMA AllocKeepsReuse ==
  ASSUME ReuseInv, NEW len \in Nat, alloc(len), LogCall("alloc", len), UNCHANGED fresh
  PROVE  ReuseInv'
<1>1. Inv' /\ log' = Append(log, Call("alloc", len)) /\ UNCHANGED past
  BY AllocKeepsInv DEF ReuseInv, LogCall
<1>2. /\ sizes_' \in Seq(Nat) /\ Extends(sizes_', sizes_)
      /\ cur_block_' \in 1..Len(sizes_) => Len(sizes_') = Len(sizes_)
      /\ Moves(Position, Position', Call("alloc", len), sizes_')
  BY AllocMoves DEF ReuseInv
<1>3. log' \in Seq(Entry) /\ past' \in Seq(Entry) /\ BlocksLogged' /\ Retraced'
  BY <1>1, <1>2, CallKeepsTraces
<1>4. FreshInv'
  BY <1>1, AllocKeepsFresh DEF ReuseInv
<1> QED
  BY <1>1, <1>3, <1>4 DEF ReuseInv, LogTypeOK

\* start_nested() and recover_nested() keep it too: the one requests nothing, and after the
\* other the pool is no longer fresh.
LEMMA NestedKeepsReuse ==
  ASSUME ReuseInv, NEW op \in {"start_nested", "recover_nested"}, LogCall(op, 0),
         op = "start_nested" => start_nested /\ UNCHANGED fresh,
         op = "recover_nested" => recover_nested /\ fresh' = FALSE
  PROVE  ReuseInv'
<1>1. Inv' /\ log' = Append(log, Call(op, 0)) /\ UNCHANGED past
  BY StartNestedKeepsInv, RecoverNestedKeepsInv DEF ReuseInv, LogCall
<1>2. /\ sizes_' \in Seq(Nat) /\ Extends(sizes_', sizes_) /\ sizes_' = sizes_
      /\ Moves(Position, Position', Call(op, 0), sizes_')
  BY NestedMoves DEF ReuseInv
<1>3. log' \in Seq(Entry) /\ past' \in Seq(Entry) /\ BlocksLogged' /\ Retraced'
  BY <1>1, <1>2, CallKeepsTraces
<1>4. CASE op = "start_nested"
  <2>1. Requested \in Nat /\ Requested' = Requested + 0
    <3>1. Call(op, 0) \in Entry /\ Call(op, 0).len = 0
      <4>1. next_loc_' \in Pointer /\ Len(sizes_') \in Nat
        BY <1>1, <1>2 DEF Inv, TypeOK
      <4> QED
        BY <4>1 DEF Call, Entry
    <3> QED
      BY <1>1, <3>1, RequestedAdds DEF ReuseInv, LogTypeOK
  <2>2. UNCHANGED <<sizes_, cur_block_, next_loc_, fresh>>
    BY <1>4 DEF start_nested, current
  <2>3. Requested' = Requested
    BY <2>1
  <2>4. Total(cur_block_ - 1)' = Total(cur_block_ - 1) /\ Total(cur_block_)' = Total(cur_block_)
    BY <2>2 DEF Total
  <2>5. FreshInv'
    BY <2>2, <2>3, <2>4 DEF ReuseInv, FreshInv
  <2> QED
    BY <1>1, <1>3, <1>4, <2>2, <2>5 DEF ReuseInv, LogTypeOK
<1>5. CASE op = "recover_nested"
  BY <1>1, <1>3, <1>5 DEF ReuseInv, LogTypeOK, FreshInv
<1> QED
  BY <1>4, <1>5

\* Before any call the pool is at the origin.
LEMMA EmptyTrace ==
  ASSUME NEW sizes, Len(sizes) \in Nat \ {0}, NEW f, f[0] = Origin
  PROVE  Trace(<< >>, f, sizes)
<1>1. Origin \in Positions /\ Origin.block \in 1..Len(sizes)
  <2>1. PointerAt(1, 0) \in Pointer /\ << >> \in Seq(Nat \ {0}) /\ << >> \in Seq(Pointer)
    BY DEF PointerAt, Pointer
  <2> QED
    BY <2>1 DEF Origin, Positions
<1>2. 0..Len(<< >>) = {0} /\ 1..Len(<< >>) = {}
  OBVIOUS
<1> QED
  BY <1>1, <1>2 DEF Trace

\* A pool without frames that was rewound is where a new one is.
LEMMA RewoundIsOrigin ==
  ASSUME Inv', nested_cur_blocks_' = << >>, Rewind
  PROVE  Position' = Origin
<1>1. nested_next_locs_' = << >>
  BY DEF Inv, TypeOK
<1> QED
  BY <1>1 DEF Rewind, Position, Origin

\* recover_all() keeps it: what was the log is now the past, and the new log is at the origin.
LEMMA RecoverAllKeepsReuse ==
  ASSUME ReuseInv, nested_cur_blocks_ = << >>, recover_all, Rewound, fresh' = FALSE
  PROVE  ReuseInv'
<1>1. Inv' /\ UNCHANGED sizes_ /\ log' = << >> /\ past' = log
  BY RewindKeepsInv DEF ReuseInv, recover_all, Rewound
<1>2. Position' = Origin
  BY <1>1, RewoundIsOrigin DEF recover_all, nested
<1>3. LogTypeOK' /\ FreshInv'
  <2>1. log' \in Seq(Entry) /\ past' \in Seq(Entry) /\ fresh' \in BOOLEAN
    <3>1. << >> \in Seq(Entry) /\ log \in Seq(Entry) /\ FALSE \in BOOLEAN
      BY DEF ReuseInv, LogTypeOK
    <3> QED
      BY <1>1, <3>1
  <2> QED
    BY <1>1, <2>1 DEF LogTypeOK, FreshInv
<1>4. BlocksLogged'
  BY <1>1 DEF ReuseInv, BlocksLogged
<1>5. Retraced'
  <2>1. PICK f, g : RunTogether(f, g)
    BY DEF ReuseInv, Retraced
  <2>2. f[0] = Origin /\ Trace(past', f, sizes_')
    BY <1>1, <2>1 DEF RunTogether, Trace
  <2>3. Trace(log', f, sizes_')
    <3>1. Len(sizes_') \in Nat \ {0}
      BY <1>1 DEF Inv, TypeOK
    <3> QED
      BY <1>1, <2>2, <3>1, EmptyTrace
  <2>4. f[Len(log')] = Position'
    BY <1>1, <1>2, <2>2
  <2>5. RunTogether(f, f)'
    BY <2>2, <2>3, <2>4 DEF RunTogether
  <2> QED
    BY <2>5 DEF Retraced
<1> QED
  BY <1>1, <1>3, <1>4, <1>5 DEF ReuseInv

\* free_all() keeps it: both logs are empty.
LEMMA FreeAllKeepsReuse ==
  ASSUME ReuseInv, nested_cur_blocks_ = << >>, free_all,
         log' = << >>, past' = << >>, fresh' = FALSE
  PROVE  ReuseInv'
<1>1. Inv'
  BY RewindKeepsInv DEF ReuseInv
<1>2. Position' = Origin
  BY <1>1, RewoundIsOrigin DEF free_all, nested
<1>3. LogTypeOK' /\ FreshInv' /\ BlocksLogged'
  <2>1. << >> \in Seq(Entry) /\ FALSE \in BOOLEAN
    OBVIOUS
  <2> QED
    BY <2>1 DEF LogTypeOK, FreshInv, BlocksLogged
<1>4. Retraced'
  <2>1. PICK f : f = [i \in {0} |-> Origin]
    OBVIOUS
  <2>2. f[0] = Origin /\ f[Len(log')] = Position'
    BY <1>2, <2>1
  <2>3. Trace(log', f, sizes_') /\ Trace(past', f, sizes_')
    <3>1. Len(sizes_') \in Nat \ {0}
      BY <1>1 DEF Inv, TypeOK
    <3> QED
      BY <2>2, <3>1, EmptyTrace
  <2>4. RunTogether(f, f)'
    BY <2>2, <2>3 DEF RunTogether
  <2> QED
    BY <2>4 DEF Retraced
<1> QED
  BY <1>1, <1>3, <1>4 DEF ReuseInv

-----------------------------------------------------------------------------
(* The theorems *)

\* A new pool: nothing asked for, one block, at its start.
LEMMA InitReuse == ReuseInit => ReuseInv
<1> SUFFICES ASSUME ReuseInit PROVE ReuseInv
  OBVIOUS
<1>1. Inv /\ log = << >> /\ past = << >> /\ fresh = TRUE
  BY InitInv DEF ReuseInit
<1>2. LogTypeOK /\ BlocksLogged
  BY <1>1 DEF LogTypeOK, BlocksLogged
<1>3. sizes_ = <<InitialNBytes>> /\ cur_block_ = 1 /\ next_loc_.off = 0
      /\ Position = Origin /\ InitialNBytes \in Nat
  BY InitialNBytesAssumption DEF ReuseInit, Init, Position, Origin, PointerAt
<1>4. FreshInv
  <2>1. Requested = 0
    BY <1>1, SumEmpty DEF Requested
  <2>2. Total(0) = 0 /\ Total(1) = InitialNBytes
    <3>1. sizes_ \in Seq(Nat) /\ 1 \in 1..Len(sizes_) /\ sizes_[1] = InitialNBytes
      BY <1>3
    <3>2. Total(0) = 0 /\ Total(1) = Total(1 - 1) + InitialNBytes
      BY <3>1, TotalFacts DEF Total
    <3>3. 1 - 1 = 0
      OBVIOUS
    <3> QED
      BY <1>3, <3>2, <3>3
  <2>3. cur_block_ = Len(sizes_) /\ cur_block_ - 1 = 0
    BY <1>3
  <2> QED
    BY <1>3, <2>1, <2>2, <2>3 DEF FreshInv
<1>5. Retraced
  <2>1. PICK f : f = [i \in {0} |-> Origin]
    OBVIOUS
  <2>2. f[0] = Origin /\ f[Len(log)] = Position
    BY <1>1, <1>3, <2>1
  <2>3. Trace(log, f, sizes_) /\ Trace(past, f, sizes_)
    <3>1. Len(sizes_) \in Nat \ {0}
      BY <1>3
    <3> QED
      BY <1>1, <2>2, <3>1, EmptyTrace
  <2>4. RunTogether(f, f)
    BY <2>2, <2>3 DEF RunTogether
  <2> QED
    BY <2>4 DEF Retraced
<1> QED
  BY <1>1, <1>2, <1>4, <1>5 DEF ReuseInv

\* Every call, and every recovery, keeps the invariant.
LEMMA ReuseNextKeepsInv ==
  ASSUME ReuseInv, [ReuseNext]_allVars
  PROVE  ReuseInv'
<1>1. ASSUME NEW len \in Lens, alloc(len), LogCall("alloc", len), UNCHANGED fresh
      PROVE  ReuseInv'
  BY <1>1, AllocKeepsReuse, LensAssumption
<1>2. CASE start_nested /\ LogCall("start_nested", 0) /\ UNCHANGED fresh
  BY <1>2, NestedKeepsReuse
<1>3. CASE recover_nested /\ LogCall("recover_nested", 0) /\ fresh' = FALSE
  BY <1>3, NestedKeepsReuse
<1>4. CASE nested_cur_blocks_ = << >> /\ recover_all /\ Rewound /\ fresh' = FALSE
  BY <1>4, RecoverAllKeepsReuse
<1>5. CASE /\ nested_cur_blocks_ = << >> /\ free_all
           /\ log' = << >> /\ past' = << >> /\ fresh' = FALSE
  BY <1>5, FreeAllKeepsReuse
<1>6. CASE UNCHANGED allVars
  <2>1. UNCHANGED <<sizes_, cur_block_, cur_block_end_, next_loc_, nested_cur_blocks_,
                    nested_next_locs_, nested_cur_block_ends_, live, log, past, fresh>>
    BY <1>6 DEF allVars, vars, current, nested
  <2>2. Inv'
    BY <1>6, NextKeepsInv DEF ReuseInv, allVars
  <2>3. /\ Position' = Position /\ Repeating' = Repeating
        /\ Requested' = Requested
        /\ Total(cur_block_ - 1)' = Total(cur_block_ - 1)
        /\ Total(cur_block_)' = Total(cur_block_)
    BY <2>1 DEF Position, Repeating, Requested, Total
  <2>4. LogTypeOK' /\ FreshInv' /\ BlocksLogged'
    BY <2>1, <2>3 DEF ReuseInv, LogTypeOK, FreshInv, BlocksLogged
  <2>5. Retraced'
    BY <2>1, <2>3 DEF ReuseInv, Retraced, RunTogether
  <2> QED
    BY <2>2, <2>4, <2>5 DEF ReuseInv
<1> QED
  BY <1>1, <1>2, <1>3, <1>4, <1>5, <1>6 DEF ReuseNext

\* The invariant of the pool with a log of its calls: its own, the account of what was asked
\* for and malloced, and the two traces.
THEOREM ReuseInvariance == ReuseSpec => []ReuseInv
BY InitReuse, ReuseNextKeepsInv, PTL DEF ReuseSpec

\* After recover_all(), alloc(), start_nested() and recover_nested() called as in the period
\* before return the same pointers and never malloc().
THEOREM AllocationsRepeat == ReuseSpec => []RepeatReusesMemory
BY ReuseInvariance, InvReuses, PTL

\* The blocks move_to_next_block() adds to a new pool hold all that was requested, and at most
\* three times that beyond the initial block.
THEOREM HeapStaysBounded == ReuseSpec => []HeapOverheadBounded
BY ReuseInvariance, InvReuses, PTL
=============================================================================
