------------------------- MODULE AutodiffTapeProofs -------------------------
(***************************************************************************)
(* What is proved of AutodiffTape for every size, nesting depth and set of *)
(* heap objects.  The arena's part of each step is StackAllocProofs'.      *)
(***************************************************************************)
EXTENDS AutodiffTape, StackAllocProofs, SequenceTheorems

-----------------------------------------------------------------------------
(* Saved lengths and slices *)

\* The first m entries of a sequence.
LEMMA Prefix ==
  ASSUME NEW S, NEW s \in Seq(S), NEW m \in 0..Len(s), NEW r, r = SubSeq(s, 1, m)
  PROVE  r \in Seq(S) /\ Len(r) = m /\ \A i \in 1..m : r[i] = s[i]
OBVIOUS

\* new is stack with x added to its innermost frame.
Pushed(stack, sizes, x, new) ==
  /\ SavedLengths(sizes, new)
  /\ \A k \in 1..(Len(sizes) + 1) : \A i \in Slice(new, sizes, k) :
       \/ i \in Slice(stack, sizes, k) /\ new[i] = stack[i]
       \/ k = Len(sizes) + 1 /\ i = Len(stack) + 1 /\ new[i] = x

\* cut and now are what is left of stack and sizes when the innermost frame is closed.
Closed(stack, sizes, cut, now) ==
  LET n == Len(sizes)
  IN  /\ n \in Nat \ {0} /\ sizes[n] \in 0..Len(stack) /\ Back(sizes) = sizes[n]
      /\ Len(now) = n - 1
      /\ \A k \in 1..(n - 1) : now[k] = sizes[k] /\ sizes[k] <= sizes[n]
      /\ Len(cut) = sizes[n]
      /\ \A i \in 1..sizes[n] : cut[i] = stack[i]
      /\ SavedLengths(now, cut)
      /\ \A k \in 1..n : Slice(cut, now, k) = Slice(stack, sizes, k)
      /\ \A k \in 1..n : \A i \in Slice(stack, sizes, k) : i \in 1..sizes[n]

\* A frame holds positions of its stack only.
LEMMA SliceInStack ==
  ASSUME NEW S, NEW stack \in Seq(S), NEW sizes \in Seq(Nat), SavedLengths(sizes, stack),
         NEW k \in 1..(Len(sizes) + 1), NEW i \in Slice(stack, sizes, k)
  PROVE  i \in 1..Len(stack)
<1>1. CASE k = Len(sizes) + 1
  <2>1. Low(sizes, k) \in Nat
    BY <1>1 DEF Low
  <2> QED
    BY <1>1, <2>1 DEF Slice, High
<1>2. CASE k \in 1..Len(sizes)
  <2>1. Low(sizes, k) \in Nat
    BY <1>2 DEF Low
  <2>2. sizes[k] \in Nat /\ sizes[k] <= Len(stack) /\ High(sizes, stack, k) = sizes[k]
    BY <1>2 DEF SavedLengths, High
  <2> QED
    BY <2>1, <2>2 DEF Slice
<1> QED
  BY <1>1, <1>2

\* One more entry at the end of a stack belongs to the innermost frame.
LEMMA PushSlices ==
  ASSUME NEW S, NEW stack \in Seq(S), NEW sizes \in Seq(Nat), NEW x \in S,
         NEW new, new = Append(stack, x),
         SavedLengths(sizes, stack)
  PROVE  Pushed(stack, sizes, x, new)
<1>1. new \in Seq(S) /\ Len(new) = Len(stack) + 1 /\ new[Len(stack) + 1] = x
      /\ \A i \in 1..Len(stack) : new[i] = stack[i]
  OBVIOUS
<1>2. SavedLengths(sizes, new)
  BY <1>1 DEF SavedLengths
<1>3. ASSUME NEW k \in 1..(Len(sizes) + 1), NEW i \in Slice(new, sizes, k)
      PROVE  \/ i \in Slice(stack, sizes, k) /\ new[i] = stack[i]
             \/ k = Len(sizes) + 1 /\ i = Len(stack) + 1 /\ new[i] = x
  <2>1. i \in Nat /\ i >= 1
    BY DEF Slice, Low, High
  <2>2. CASE k <= Len(sizes)
    BY <1>1, <2>1, <2>2 DEF Slice, Low, High, SavedLengths
  <2>3. CASE k = Len(sizes) + 1
    BY <1>1, <2>1, <2>3 DEF Slice, Low, High, SavedLengths
  <2>4. k <= Len(sizes) \/ k = Len(sizes) + 1
    OBVIOUS
  <2> QED
    BY <2>2, <2>3, <2>4
<1> QED
  BY <1>2, <1>3 DEF Pushed

\* A new nested frame starts empty and leaves the others as they were.
LEMMA OpenSlices ==
  ASSUME NEW S, NEW stack \in Seq(S), NEW sizes \in Seq(Nat),
         SavedLengths(sizes, stack)
  PROVE  /\ Append(sizes, Len(stack)) \in Seq(Nat)
         /\ SavedLengths(Append(sizes, Len(stack)), stack)
         /\ \A k \in 1..(Len(sizes) + 1) :
              Slice(stack, Append(sizes, Len(stack)), k) = Slice(stack, sizes, k)
         /\ Slice(stack, Append(sizes, Len(stack)), Len(sizes) + 2) = {}
<1> DEFINE now == Append(sizes, Len(stack))
<1>1. now \in Seq(Nat) /\ Len(now) = Len(sizes) + 1 /\ now[Len(sizes) + 1] = Len(stack)
      /\ \A k \in 1..Len(sizes) : now[k] = sizes[k]
  OBVIOUS
<1>0. /\ Len(sizes) \in Nat /\ Len(stack) \in Nat
      /\ \A k \in 1..Len(sizes) : sizes[k] \in Nat /\ sizes[k] <= Len(stack)
      /\ \A k \in 1..Len(sizes) : \A m \in k..Len(sizes) : sizes[k] <= sizes[m]
  BY DEF SavedLengths
<1> HIDE DEF now
<1>2. SavedLengths(now, stack)
  <2>1. ASSUME NEW k \in 1..(Len(sizes) + 1), NEW m \in k..(Len(sizes) + 1)
        PROVE  now[k] <= Len(stack) /\ now[k] <= now[m]
    <3>1. CASE m <= Len(sizes)
      <4>1. k \in 1..Len(sizes) /\ m \in 1..Len(sizes) /\ m \in k..Len(sizes)
        BY <1>0, <3>1
      <4>2. now[k] = sizes[k] /\ now[m] = sizes[m]
        BY <1>1, <4>1
      <4> QED
        BY <1>0, <4>1, <4>2
    <3>2. CASE m = Len(sizes) + 1 /\ k <= Len(sizes)
      <4>1. k \in 1..Len(sizes)
        BY <1>0, <3>2
      <4> QED
        BY <1>0, <1>1, <3>2, <4>1
    <3>3. CASE m = Len(sizes) + 1 /\ k = Len(sizes) + 1
      BY <1>0, <1>1, <3>3
    <3> QED
      BY <3>1, <3>2, <3>3
  <2> QED
    BY <1>1, <2>1 DEF SavedLengths
<1>3. ASSUME NEW k \in 1..(Len(sizes) + 1)
      PROVE  Slice(stack, now, k) = Slice(stack, sizes, k)
  <2>1. k \in Nat \ {0} /\ (k # 1 => k - 1 \in 1..Len(sizes))
    BY <1>0
  <2>2. Low(now, k) = Low(sizes, k)
    BY <1>1, <2>1 DEF Low
  <2>3. CASE k = Len(sizes) + 1
    BY <1>0, <1>1, <2>2, <2>3 DEF High, Slice
  <2>4. CASE k \in 1..Len(sizes)
    <3>1. now[k] = sizes[k] /\ k # Len(sizes) + 1 /\ k # Len(now) + 1
      BY <1>0, <1>1, <2>4
    <3> QED
      BY <2>2, <3>1 DEF High, Slice
  <2> QED
    BY <1>0, <2>3, <2>4
<1>4. Slice(stack, now, Len(sizes) + 2) = {}
  BY <1>1 DEF Slice, Low, High
<1> QED
  BY <1>1, <1>2, <1>3, <1>4 DEF now

\* Closing the innermost frame leaves the others as they were.
LEMMA CloseSlices ==
  ASSUME NEW S, NEW stack \in Seq(S), NEW sizes \in Seq(Nat), sizes # << >>,
         SavedLengths(sizes, stack),
         NEW cut, cut = Resize(stack, Back(sizes)),
         NEW now, now = PopBack(sizes)
  PROVE  /\ Closed(stack, sizes, cut, now)
         /\ now \in Seq(Nat) /\ cut \in Seq(S)
<1> DEFINE n == Len(sizes)
<1>1. n \in Nat \ {0} /\ Back(sizes) = sizes[n] /\ sizes[n] \in 0..Len(stack)
  BY DEF Back, SavedLengths
<1>2. cut \in Seq(S) /\ Len(cut) = sizes[n] /\ \A i \in 1..sizes[n] : cut[i] = stack[i]
  BY <1>1 DEF Resize
<1>3. now \in Seq(Nat) /\ Len(now) = n - 1 /\ \A k \in 1..(n - 1) : now[k] = sizes[k]
  <2>1. now = SubSeq(sizes, 1, n - 1) /\ n - 1 \in 0..Len(sizes)
    BY <1>1 DEF PopBack
  <2> QED
    <3>1. sizes \in Seq(Nat) /\ n \in Int /\ n - 1 \in 0..Len(sizes)
      BY <1>1, <2>1
    <3> HIDE DEF n
    <3>2. now \in Seq(Nat) /\ Len(now) = n - 1 /\ \A k \in 1..(n - 1) : now[k] = sizes[k]
      BY <2>1, <3>1, Prefix
    <3> QED
      BY <3>2
<1>4. \A k \in 1..n : sizes[k] \in Nat /\ sizes[k] <= sizes[n]
      /\ \A m \in k..n : sizes[k] <= sizes[m]
  BY <1>1 DEF SavedLengths
<1>5. SavedLengths(now, cut)
  <2>1. DOMAIN now = 1..(n - 1)
    BY <1>3
  <2>2. \A k \in 1..(n - 1) : k \in 1..n /\ \A m \in k..(n - 1) : m \in k..n /\ m \in 1..(n - 1)
    BY <1>1
  <2> QED
    BY <1>2, <1>3, <1>4, <2>1, <2>2 DEF SavedLengths
<1>6. ASSUME NEW k \in 1..n
      PROVE  Slice(cut, now, k) = Slice(stack, sizes, k)
             /\ \A i \in Slice(stack, sizes, k) : i \in 1..sizes[n]
  <2>1. High(sizes, stack, k) = sizes[k]
    BY <1>1 DEF High, n
  <2>3. High(now, cut, k) = sizes[k]
    <3>1. CASE k = n
      BY <1>1, <1>2, <1>3, <3>1 DEF High, n
    <3>2. CASE k \in 1..(n - 1)
      BY <1>1, <1>3, <3>2 DEF High, n
    <3> QED
      BY <1>1, <3>1, <3>2
  <2>2. Low(sizes, k) = Low(now, k) /\ Low(sizes, k) \in Nat
    BY <1>1, <1>3, <1>4 DEF Low
  <2> QED
    BY <1>1, <1>4, <2>1, <2>2, <2>3 DEF Slice
<1> QED
  BY <1>1, <1>2, <1>3, <1>4, <1>5, <1>6 DEF Closed

\* What closing a frame leaves on the stack was there before.
LEMMA ClosedKeepsEntries ==
  ASSUME NEW S, NEW stack \in Seq(S), NEW sizes, NEW cut \in Seq(S), NEW now,
         Closed(stack, sizes, cut, now)
  PROVE  \A i \in DOMAIN cut : i \in DOMAIN stack /\ cut[i] = stack[i]
<1>1. /\ sizes[Len(sizes)] \in 0..Len(stack) /\ Len(cut) = sizes[Len(sizes)]
      /\ \A i \in 1..sizes[Len(sizes)] : cut[i] = stack[i]
  BY DEF Closed
<1> QED
  BY <1>1

-----------------------------------------------------------------------------
(* One stack of varis against the frames of the arena *)

InFrames(stack, sizes, frames) ==
  \A k \in 1..(Len(sizes) + 1) : \A i \in Slice(stack, sizes, k) : stack[i] \in frames[k]

\* The strengthening that survives the end of a nested scope: what a saved length keeps is
\* held by the frames that stay.
Backed(stack, sizes, frames) ==
  /\ \A i \in 1..Len(stack) : \E j \in 1..Len(frames) : stack[i] \in frames[j]
  /\ \A k \in 1..Len(sizes) : \A i \in 1..sizes[k] : \E j \in 1..k : stack[i] \in frames[j]

\* The arena grants more memory and the stack stays as it is.
LEMMA GrowKeepsBacking ==
  ASSUME NEW stack \in Seq(Extent), NEW sizes \in Seq(Nat),
         NEW frames \in Seq(SUBSET Extent), NEW more \in Seq(SUBSET Extent),
         Len(frames) = Len(sizes) + 1, Len(more) = Len(frames),
         \A k \in 1..Len(frames) : frames[k] \subseteq more[k],
         InFrames(stack, sizes, frames), Backed(stack, sizes, frames)
  PROVE  InFrames(stack, sizes, more) /\ Backed(stack, sizes, more)
<1>1. InFrames(stack, sizes, more)
  BY DEF InFrames
<1>2. \A i \in 1..Len(stack) : \E j \in 1..Len(more) : stack[i] \in more[j]
  BY DEF Backed
<1>3. ASSUME NEW k \in 1..Len(sizes), NEW i \in 1..sizes[k]
      PROVE  \E j \in 1..k : stack[i] \in more[j]
  <2>1. PICK j \in 1..k : stack[i] \in frames[j]
    BY DEF Backed
  <2>2. j \in 1..Len(frames)
    OBVIOUS
  <2> QED
    BY <2>1, <2>2
<1> QED
  BY <1>1, <1>2, <1>3 DEF Backed

\* The new entry is memory of the innermost frame.
LEMMA PushKeepsBacking ==
  ASSUME NEW stack \in Seq(Extent), NEW sizes \in Seq(Nat), NEW x \in Extent,
         NEW frames \in Seq(SUBSET Extent),
         Len(frames) = Len(sizes) + 1, SavedLengths(sizes, stack),
         x \in frames[Len(frames)],
         InFrames(stack, sizes, frames), Backed(stack, sizes, frames)
  PROVE  InFrames(Append(stack, x), sizes, frames) /\ Backed(Append(stack, x), sizes, frames)
<1> DEFINE new == Append(stack, x)
<1>1. Len(new) = Len(stack) + 1 /\ new[Len(stack) + 1] = x
      /\ \A i \in 1..Len(stack) : new[i] = stack[i]
  OBVIOUS
<1>0. new = Append(stack, x)
  OBVIOUS
<1> HIDE DEF new
<1>2. \A k \in 1..(Len(sizes) + 1) : \A i \in Slice(new, sizes, k) :
        \/ i \in Slice(stack, sizes, k) /\ new[i] = stack[i]
        \/ k = Len(sizes) + 1 /\ i = Len(stack) + 1 /\ new[i] = x
  <2>1. Pushed(stack, sizes, x, new)
    BY <1>0, PushSlices
  <2> QED
    BY <2>1 DEF Pushed
<1>3. InFrames(new, sizes, frames)
  BY <1>2 DEF InFrames
<1>4. ASSUME NEW i \in 1..Len(new)
      PROVE  \E j \in 1..Len(frames) : new[i] \in frames[j]
  <2>1. CASE i \in 1..Len(stack)
    BY <1>1, <2>1 DEF Backed
  <2>2. CASE i = Len(stack) + 1
    <3>1. Len(frames) \in 1..Len(frames)
      OBVIOUS
    <3> QED
      BY <1>1, <2>2, <3>1
  <2> QED
    BY <1>1, <2>1, <2>2
<1>5. ASSUME NEW k \in 1..Len(sizes), NEW i \in 1..sizes[k]
      PROVE  \E j \in 1..k : new[i] \in frames[j]
  <2>1. i \in 1..Len(stack)
    <3>1. k \in DOMAIN sizes /\ sizes[k] \in Nat
      OBVIOUS
    <3> QED
      BY <3>1 DEF SavedLengths
  <2> QED
    BY <1>1, <2>1 DEF Backed
<1> QED
  BY <1>3, <1>4, <1>5 DEF Backed, new

\* start_nested(): the new frame is empty, and the length saved keeps the whole stack.
LEMMA OpenKeepsBacking ==
  ASSUME NEW stack \in Seq(Extent), NEW sizes \in Seq(Nat),
         NEW frames \in Seq(SUBSET Extent), NEW more \in Seq(SUBSET Extent),
         Len(frames) = Len(sizes) + 1, Len(more) = Len(frames) + 1,
         \A k \in 1..Len(frames) : more[k] = frames[k],
         SavedLengths(sizes, stack),
         InFrames(stack, sizes, frames), Backed(stack, sizes, frames)
  PROVE  /\ InFrames(stack, Append(sizes, Len(stack)), more)
         /\ Backed(stack, Append(sizes, Len(stack)), more)
<1> DEFINE now == Append(sizes, Len(stack))
<1>1. Len(now) = Len(sizes) + 1 /\ now[Len(sizes) + 1] = Len(stack)
      /\ \A k \in 1..Len(sizes) : now[k] = sizes[k]
  OBVIOUS
<1>2. /\ \A k \in 1..(Len(sizes) + 1) : Slice(stack, now, k) = Slice(stack, sizes, k)
      /\ Slice(stack, now, Len(sizes) + 2) = {}
  BY OpenSlices
<1> HIDE DEF now
<1>3. ASSUME NEW k \in 1..(Len(now) + 1), NEW i \in Slice(stack, now, k)
      PROVE  stack[i] \in more[k]
  <2>1. k # Len(sizes) + 2
    BY <1>2
  <2>2. k \in 1..(Len(sizes) + 1)
    BY <1>1, <2>1
  <2> QED
    BY <1>2, <2>2 DEF InFrames
<1>4. \A i \in 1..Len(stack) : \E j \in 1..Len(frames) : stack[i] \in more[j]
  BY DEF Backed
<1>5. ASSUME NEW k \in 1..Len(now), NEW i \in 1..now[k]
      PROVE  \E j \in 1..k : stack[i] \in more[j]
  <2>1. CASE k \in 1..Len(sizes)
    <3>1. PICK j \in 1..k : stack[i] \in frames[j]
      BY <1>1, <2>1 DEF Backed
    <3>2. j \in 1..Len(frames)
      BY <2>1
    <3> QED
      BY <3>1, <3>2
  <2>2. CASE k = Len(sizes) + 1
    BY <1>1, <1>4, <2>2
  <2> QED
    BY <1>1, <2>1, <2>2
<1>6. InFrames(stack, now, more)
  BY <1>3 DEF InFrames
<1>7. Backed(stack, now, more)
  <2>1. ASSUME NEW i \in 1..Len(stack) PROVE \E j \in 1..Len(more) : stack[i] \in more[j]
    <3>1. PICK j \in 1..Len(frames) : stack[i] \in more[j]
      BY <1>4
    <3> QED
      BY <3>1
  <2> QED
    BY <1>5, <2>1 DEF Backed
<1> QED
  BY <1>6, <1>7 DEF now

\* recover_memory_nested(): what its resize() leaves is held by the frames that stay.
LEMMA CloseKeepsBacking ==
  ASSUME NEW stack \in Seq(Extent), NEW sizes \in Seq(Nat), sizes # << >>,
         NEW frames \in Seq(SUBSET Extent), NEW fewer \in Seq(SUBSET Extent),
         Len(frames) = Len(sizes) + 1, Len(fewer) = Len(sizes),
         \A k \in 1..Len(sizes) : fewer[k] = frames[k],
         SavedLengths(sizes, stack),
         InFrames(stack, sizes, frames), Backed(stack, sizes, frames)
  PROVE  /\ InFrames(Resize(stack, Back(sizes)), PopBack(sizes), fewer)
         /\ Backed(Resize(stack, Back(sizes)), PopBack(sizes), fewer)
<1> DEFINE n == Len(sizes)
           cut == Resize(stack, Back(sizes))
           now == PopBack(sizes)
<1>0. /\ n = Len(sizes) /\ cut = Resize(stack, Back(sizes)) /\ now = PopBack(sizes)
      /\ \A k \in 1..n : fewer[k] = frames[k]
      /\ \A k \in 1..n : \A i \in 1..sizes[k] : \E j \in 1..k : stack[i] \in frames[j]
      /\ Len(fewer) = n
  BY DEF Backed
<1>10. \A k \in 1..(n + 1) : \A i \in Slice(stack, sizes, k) : stack[i] \in frames[k]
  BY DEF InFrames
<1> HIDE DEF n, cut, now
<1>1. /\ n \in Nat \ {0} /\ Len(now) = n - 1
      /\ Len(cut) = sizes[n] /\ sizes[n] \in Nat
      /\ \A i \in 1..sizes[n] : cut[i] = stack[i]
      /\ \A k \in 1..n : Slice(cut, now, k) = Slice(stack, sizes, k)
      /\ \A k \in 1..n : \A i \in Slice(stack, sizes, k) : i \in 1..sizes[n]
      /\ \A k \in 1..(n - 1) : now[k] = sizes[k] /\ sizes[k] <= sizes[n]
  <2>1. Closed(stack, sizes, cut, now)
    BY <1>0, CloseSlices
  <2> QED
    BY <1>0, <2>1 DEF Closed
<1>2. \A k \in 1..(n - 1) : sizes[k] \in Nat
  BY <1>0, <1>1
<1>4. \A k \in 1..n : \A i \in Slice(stack, sizes, k) : stack[i] \in frames[k]
  <2>1. \A k \in 1..n : k \in 1..(n + 1)
    <3>1. n \in Nat
      BY <1>1
    <3> QED
      BY <3>1
  <2> QED
    BY <1>10, <2>1
<1>6. InFrames(cut, now, fewer)
  BY <1>1, <1>4, <1>0 DEF InFrames
<1>7. ASSUME NEW i \in 1..Len(cut)
      PROVE  \E j \in 1..n : cut[i] \in fewer[j]
  <2>1. n \in 1..n /\ i \in 1..sizes[n]
    BY <1>1
  <2> QED
    BY <1>1, <1>0, <2>1
<1>8. ASSUME NEW k \in 1..Len(now), NEW i \in 1..now[k]
      PROVE  \E j \in 1..k : cut[i] \in fewer[j]
  <2>1. k \in 1..(n - 1) /\ k \in 1..n /\ i \in 1..sizes[k] /\ i \in 1..sizes[n]
    BY <1>1, <1>2
  <2>2. PICK j \in 1..k : stack[i] \in frames[j]
    BY <1>0, <2>1
  <2>3. j \in 1..n
    BY <1>1, <2>1
  <2> QED
    BY <1>1, <1>0, <2>1, <2>2, <2>3
<1> QED
  BY <1>0, <1>6, <1>7, <1>8 DEF Backed, cut, now

-----------------------------------------------------------------------------
(* The inductive invariant of the tape *)

TapeInv ==
  /\ Inv
  /\ TapeTypeOK
  /\ EquallyDeep
  /\ NestedLengthsOrdered
  /\ InFrames(var_stack_, nested_var_stack_sizes_, live)
  /\ InFrames(var_nochain_stack_, nested_var_nochain_stack_sizes_, live)
  /\ Backed(var_stack_, nested_var_stack_sizes_, live)
  /\ Backed(var_nochain_stack_, nested_var_nochain_stack_sizes_, live)
  /\ VarisDistinct
  /\ ObjectsOwnedOnce

\* The memory of a new vari joins the innermost frame and is that of no other vari.
LEMMA VariMemory ==
  ASSUME Inv, alloc(VariSize)
  PROVE  /\ NewVariMemory \in Extent
         /\ NewVariMemory \notin Live
         /\ live' \in Seq(SUBSET Extent) /\ Len(live') = Len(live)
         /\ NewVariMemory \in live'[Len(live)]
         /\ \A k \in 1..Len(live) : live[k] \subseteq live'[k]
         /\ UNCHANGED nested
<1>1. VariSize \in Nat /\ VariSize > 0
  BY VariSizeAssumption
<1>2. AllocResult(VariSize) \in Pointer /\ UpTo(next_loc_, AllocResult(VariSize))
  BY <1>1, AllocStep DEF Inv
<1>3. live' = [live EXCEPT ![Len(live)] = @ \cup {NewVariMemory}] /\ UNCHANGED nested
  BY <1>1 DEF alloc, RecordGrant, NewVariMemory
<1> HIDE DEF AllocResult
<1>4. NewVariMemory \in Extent
  BY <1>1, <1>2 DEF NewVariMemory, ExtentAt, Extent, Pointer
<1>5. NewVariMemory \notin Live
  <2> SUFFICES ASSUME NewVariMemory \in Live PROVE FALSE
    OBVIOUS
  <2>1. UpTo(EndOf(NewVariMemory), AllocResult(VariSize))
    <3>1. EndOf(NewVariMemory) \in Pointer /\ next_loc_ \in Pointer
      BY <1>4, EndsArePointers DEF Inv, TypeOK
    <3>2. UpTo(EndOf(NewVariMemory), next_loc_)
      BY DEF Inv, FramesOrdered
    <3> QED
      BY <1>2, <3>1, <3>2, UpToTransitive
  <2> QED
    BY <1>1, <1>2, <2>1 DEF NewVariMemory, ExtentAt, EndOf, PointerAt, UpTo, Pointer
<1>6. Len(live) \in 1..Len(live) /\ live \in Seq(SUBSET Extent)
  BY DEF Inv, TypeOK
<1> HIDE DEF NewVariMemory
<1> QED
  BY <1>3, <1>4, <1>5, <1>6

\* alloc() of any size lets the frames grow and nothing else of the nesting change.
LEMMA ArrayMemory ==
  ASSUME Inv, NEW len \in Nat, alloc(len)
  PROVE  /\ live' \in Seq(SUBSET Extent) /\ Len(live') = Len(live)
         /\ \A k \in 1..Len(live) : live[k] \subseteq live'[k]
         /\ UNCHANGED nested
<1>1. live' \in Seq(SUBSET Extent) /\ Len(live') = Len(live)
  BY AllocFrames DEF Inv
<1>2. CASE len = 0
  BY <1>1, <1>2 DEF alloc, RecordGrant
<1>3. CASE len > 0
  <2>1. live' = [live EXCEPT ![Len(live)] = @ \cup {ExtentAt(AllocResult(len), len)}]
    BY <1>3 DEF alloc, RecordGrant
  <2> QED
    BY <1>1, <2>1 DEF alloc, Inv, TypeOK
<1> QED
  BY <1>2, <1>3

\* What every step below uses of the invariant.
LEMMA TapeFacts ==
  ASSUME TapeInv
  PROVE  /\ live \in Seq(SUBSET Extent) /\ Len(live) = Depth + 1 /\ Depth \in Nat
         /\ Len(nested_var_stack_sizes_) = Depth
         /\ Len(nested_var_nochain_stack_sizes_) = Depth
         /\ Len(nested_var_alloc_stack_starts_) = Depth
         /\ var_stack_ \in Seq(Extent) /\ var_nochain_stack_ \in Seq(Extent)
         /\ var_alloc_stack_ \in Seq(Objects)
         /\ nested_var_stack_sizes_ \in Seq(Nat)
         /\ nested_var_nochain_stack_sizes_ \in Seq(Nat)
         /\ nested_var_alloc_stack_starts_ \in Seq(Nat)
         /\ SavedLengths(nested_var_stack_sizes_, var_stack_)
         /\ SavedLengths(nested_var_nochain_stack_sizes_, var_nochain_stack_)
         /\ SavedLengths(nested_var_alloc_stack_starts_, var_alloc_stack_)
BY DEF TapeInv, Inv, TypeOK, TapeTypeOK, EquallyDeep, NestedLengthsOrdered, Depth

\* Every entry of the tape is live memory.
LEMMA TapeIsLive ==
  ASSUME TapeInv
  PROVE  /\ \A i \in DOMAIN var_stack_ : var_stack_[i] \in Live
         /\ \A i \in DOMAIN var_nochain_stack_ : var_nochain_stack_[i] \in Live
<1>1. \A e : e \in Live <=> \E j \in 1..Len(live) : e \in live[j]
  BY TapeFacts, LiveElements DEF Live
<1>2. DOMAIN var_stack_ = 1..Len(var_stack_)
      /\ DOMAIN var_nochain_stack_ = 1..Len(var_nochain_stack_)
  BY TapeFacts
<1> QED
  BY <1>1, <1>2 DEF TapeInv, Backed

-----------------------------------------------------------------------------
(* Each operation keeps it *)

\* A new AutodiffStackStorage satisfies the invariant.
LEMMA TapeInitInv == TapeInit => TapeInv
<1> SUFFICES ASSUME TapeInit PROVE TapeInv
  OBVIOUS
<1>1. Inv
  BY InitInv DEF TapeInit
<1>2. TapeTypeOK /\ EquallyDeep
  BY <1>1 DEF TapeInit, Init, Inv, TapeTypeOK, EquallyDeep, Depth
<1>3. NestedLengthsOrdered
  BY DEF TapeInit, NestedLengthsOrdered, SavedLengths
<1>4. /\ \A k \in 1..1 : Slice(<< >>, << >>, k) = {}
      /\ Len(<< >>) = 0
  BY DEF Slice, Low, High
<1>5. /\ InFrames(var_stack_, nested_var_stack_sizes_, live)
      /\ InFrames(var_nochain_stack_, nested_var_nochain_stack_sizes_, live)
      /\ Backed(var_stack_, nested_var_stack_sizes_, live)
      /\ Backed(var_nochain_stack_, nested_var_nochain_stack_sizes_, live)
  BY <1>4 DEF TapeInit, InFrames, Backed
<1>6. VarisDistinct /\ ObjectsOwnedOnce
  BY <1>4 DEF TapeInit, VarisDistinct, ObjectsOwnedOnce, Depth
<1> QED
  BY <1>1, <1>2, <1>3, <1>5, <1>6 DEF TapeInv

\* vari(x) and reverse_pass_callback(): new memory, pushed on var_stack_.
LEMMA NewStackedVariKeepsInv ==
  ASSUME TapeInv, NewStackedVari
  PROVE  TapeInv'
<1> DEFINE x == NewVariMemory
<1>1. /\ alloc(VariSize)
      /\ var_stack_' = Append(var_stack_, x)
      /\ UNCHANGED <<var_nochain_stack_, var_alloc_stack_, nestedSizes, heap>>
  BY DEF NewStackedVari
<1>2. Inv'
  BY <1>1, AllocKeepsInv, VariSizeAssumption DEF TapeInv
<1>3. /\ x \in Extent /\ x \notin Live /\ x \in live'[Len(live)]
      /\ live' \in Seq(SUBSET Extent) /\ Len(live') = Len(live)
      /\ \A k \in 1..Len(live) : live[k] \subseteq live'[k]
      /\ UNCHANGED nested
  BY <1>1, VariMemory DEF TapeInv
<1> HIDE DEF x
<1>4. UNCHANGED <<nested_var_stack_sizes_, nested_var_nochain_stack_sizes_,
                  nested_var_alloc_stack_starts_, nested_cur_blocks_>>
  BY <1>1, <1>3 DEF nestedSizes, nested
<1>5. TapeTypeOK' /\ EquallyDeep'
  BY <1>1, <1>2, <1>3, <1>4 DEF TapeInv, Inv, TapeTypeOK, EquallyDeep, Depth
<1>6. Pushed(var_stack_, nested_var_stack_sizes_, x, var_stack_')
  BY <1>1, <1>3, TapeFacts, PushSlices
<1>7. NestedLengthsOrdered'
  BY <1>1, <1>4, <1>6 DEF TapeInv, NestedLengthsOrdered, Pushed
<1>8. /\ InFrames(var_stack_, nested_var_stack_sizes_, live')
      /\ Backed(var_stack_, nested_var_stack_sizes_, live')
      /\ InFrames(var_nochain_stack_, nested_var_nochain_stack_sizes_, live')
      /\ Backed(var_nochain_stack_, nested_var_nochain_stack_sizes_, live')
  BY <1>3, TapeFacts, GrowKeepsBacking DEF TapeInv
<1>9. /\ InFrames(var_stack_', nested_var_stack_sizes_, live')
      /\ Backed(var_stack_', nested_var_stack_sizes_, live')
  BY <1>1, <1>3, <1>8, TapeFacts, PushKeepsBacking
<1>10. VarisDistinct'
  <2>1. /\ Len(var_stack_') = Len(var_stack_) + 1 /\ var_stack_'[Len(var_stack_) + 1] = x
        /\ DOMAIN var_stack_' = 1..(Len(var_stack_) + 1)
        /\ DOMAIN var_stack_ = 1..Len(var_stack_) /\ Len(var_stack_) \in Nat
        /\ \A i \in 1..Len(var_stack_) : var_stack_'[i] = var_stack_[i]
    BY <1>1, <1>3, TapeFacts
  <2>2. /\ \A i \in DOMAIN var_stack_ : var_stack_[i] # x
        /\ \A i \in DOMAIN var_nochain_stack_ : var_nochain_stack_[i] # x
    BY <1>3, TapeIsLive
  <2> QED
    BY <1>1, <2>1, <2>2 DEF TapeInv, VarisDistinct
<1>11. ObjectsOwnedOnce'
  BY <1>1, <1>4 DEF TapeInv, ObjectsOwnedOnce, Depth
<1> QED
  BY <1>1, <1>2, <1>4, <1>5, <1>7, <1>8, <1>9, <1>10, <1>11 DEF TapeInv

\* vari(x, false): new memory, pushed on var_nochain_stack_.
LEMMA NewUnstackedVariKeepsInv ==
  ASSUME TapeInv, NewUnstackedVari
  PROVE  TapeInv'
<1> DEFINE x == NewVariMemory
<1>1. /\ alloc(VariSize)
      /\ var_nochain_stack_' = Append(var_nochain_stack_, x)
      /\ UNCHANGED <<var_stack_, var_alloc_stack_, nestedSizes, heap>>
  BY DEF NewUnstackedVari
<1>2. Inv'
  BY <1>1, AllocKeepsInv, VariSizeAssumption DEF TapeInv
<1>3. /\ x \in Extent /\ x \notin Live /\ x \in live'[Len(live)]
      /\ live' \in Seq(SUBSET Extent) /\ Len(live') = Len(live)
      /\ \A k \in 1..Len(live) : live[k] \subseteq live'[k]
      /\ UNCHANGED nested
  BY <1>1, VariMemory DEF TapeInv
<1> HIDE DEF x
<1>4. UNCHANGED <<nested_var_stack_sizes_, nested_var_nochain_stack_sizes_,
                  nested_var_alloc_stack_starts_, nested_cur_blocks_>>
  BY <1>1, <1>3 DEF nestedSizes, nested
<1>5. TapeTypeOK' /\ EquallyDeep'
  BY <1>1, <1>2, <1>3, <1>4 DEF TapeInv, Inv, TapeTypeOK, EquallyDeep, Depth
<1>6. Pushed(var_nochain_stack_, nested_var_nochain_stack_sizes_, x, var_nochain_stack_')
  BY <1>1, <1>3, TapeFacts, PushSlices
<1>7. NestedLengthsOrdered'
  BY <1>1, <1>4, <1>6 DEF TapeInv, NestedLengthsOrdered, Pushed
<1>8. /\ InFrames(var_stack_, nested_var_stack_sizes_, live')
      /\ Backed(var_stack_, nested_var_stack_sizes_, live')
      /\ InFrames(var_nochain_stack_, nested_var_nochain_stack_sizes_, live')
      /\ Backed(var_nochain_stack_, nested_var_nochain_stack_sizes_, live')
  BY <1>3, TapeFacts, GrowKeepsBacking DEF TapeInv
<1>9. /\ InFrames(var_nochain_stack_', nested_var_nochain_stack_sizes_, live')
      /\ Backed(var_nochain_stack_', nested_var_nochain_stack_sizes_, live')
  BY <1>1, <1>3, <1>8, TapeFacts, PushKeepsBacking
<1>10. VarisDistinct'
  <2>1. LET n == Len(var_nochain_stack_)
        IN  /\ Len(var_nochain_stack_') = n + 1 /\ var_nochain_stack_'[n + 1] = x
            /\ DOMAIN var_nochain_stack_' = 1..(n + 1)
            /\ DOMAIN var_nochain_stack_ = 1..n /\ n \in Nat
            /\ \A i \in 1..n : var_nochain_stack_'[i] = var_nochain_stack_[i]
    BY <1>1, <1>3, TapeFacts
  <2>2. /\ \A i \in DOMAIN var_stack_ : var_stack_[i] # x
        /\ \A i \in DOMAIN var_nochain_stack_ : var_nochain_stack_[i] # x
    BY <1>3, TapeIsLive
  <2> QED
    BY <1>1, <2>1, <2>2 DEF TapeInv, VarisDistinct
<1>11. ObjectsOwnedOnce'
  BY <1>1, <1>4 DEF TapeInv, ObjectsOwnedOnce, Depth
<1> QED
  BY <1>1, <1>2, <1>4, <1>5, <1>7, <1>8, <1>9, <1>10, <1>11 DEF TapeInv

\* alloc_array() and arena_allocator: new memory that is on no stack.
LEMMA ArenaArrayKeepsInv ==
  ASSUME TapeInv, NEW len \in Nat, ArenaArray(len)
  PROVE  TapeInv'
<1>1. alloc(len) /\ UNCHANGED <<stacks, nestedSizes, heap>>
  BY DEF ArenaArray
<1>2. Inv'
  BY <1>1, AllocKeepsInv DEF TapeInv
<1>3. /\ live' \in Seq(SUBSET Extent) /\ Len(live') = Len(live)
      /\ \A k \in 1..Len(live) : live[k] \subseteq live'[k]
      /\ UNCHANGED nested
  BY <1>1, ArrayMemory DEF TapeInv
<1>4. /\ UNCHANGED <<nested_var_stack_sizes_, nested_var_nochain_stack_sizes_,
                     nested_var_alloc_stack_starts_, nested_cur_blocks_>>
      /\ UNCHANGED <<var_stack_, var_nochain_stack_, var_alloc_stack_, heap>>
  BY <1>1, <1>3 DEF nestedSizes, nested, stacks
<1>5. TapeTypeOK' /\ EquallyDeep' /\ NestedLengthsOrdered'
  BY <1>2, <1>4 DEF TapeInv, Inv, TapeTypeOK, EquallyDeep, NestedLengthsOrdered, Depth
<1>6. /\ InFrames(var_stack_, nested_var_stack_sizes_, live')
      /\ Backed(var_stack_, nested_var_stack_sizes_, live')
      /\ InFrames(var_nochain_stack_, nested_var_nochain_stack_sizes_, live')
      /\ Backed(var_nochain_stack_, nested_var_nochain_stack_sizes_, live')
  BY <1>3, TapeFacts, GrowKeepsBacking DEF TapeInv
<1>7. VarisDistinct' /\ ObjectsOwnedOnce'
  BY <1>4 DEF TapeInv, VarisDistinct, ObjectsOwnedOnce, Depth
<1> QED
  BY <1>2, <1>4, <1>5, <1>6, <1>7 DEF TapeInv

\* The constructor of chainable_alloc: the object joins the innermost scope.
LEMMA NewChainableAllocKeepsInv ==
  ASSUME TapeInv, NEW x \in Objects, NewChainableAlloc(x)
  PROVE  TapeInv'
<1>1. /\ x \notin DOMAIN heap
      /\ heap' = [y \in DOMAIN heap \cup {x} |-> IF y = x THEN Depth ELSE heap[y]]
      /\ var_alloc_stack_' = Append(var_alloc_stack_, x)
      /\ UNCHANGED <<var_stack_, var_nochain_stack_, nestedSizes, memalloc_>>
  BY DEF NewChainableAlloc
<1>2. /\ UNCHANGED <<nested_var_stack_sizes_, nested_var_nochain_stack_sizes_,
                     nested_var_alloc_stack_starts_>>
      /\ UNCHANGED <<live, nested_cur_blocks_>>
  BY <1>1 DEF nestedSizes, memalloc_, vars, nested
<1>3. Inv'
  BY <1>1, NextKeepsInv DEF TapeInv, memalloc_
<1>4. /\ Len(var_alloc_stack_') = Len(var_alloc_stack_) + 1
      /\ DOMAIN var_alloc_stack_' = 1..(Len(var_alloc_stack_) + 1)
      /\ DOMAIN var_alloc_stack_ = 1..Len(var_alloc_stack_) /\ Len(var_alloc_stack_) \in Nat
      /\ var_alloc_stack_'[Len(var_alloc_stack_) + 1] = x
      /\ \A i \in 1..Len(var_alloc_stack_) : var_alloc_stack_'[i] = var_alloc_stack_[i]
      /\ var_alloc_stack_' \in Seq(Objects)
  BY <1>1, TapeFacts
<1>5. DOMAIN heap' = DOMAIN heap \cup {x} /\ heap'[x] = Depth
      /\ \A y \in DOMAIN heap : heap'[y] = heap[y]
  BY <1>1
<1>6. TapeTypeOK' /\ EquallyDeep'
  <2>1. heap' \in [DOMAIN heap' -> Nat] /\ DOMAIN heap' \subseteq Objects
    BY <1>1, TapeFacts DEF TapeInv, TapeTypeOK
  <2> QED
    BY <1>1, <1>2, <1>3, <1>4, <2>1
    DEF TapeInv, Inv, TapeTypeOK, EquallyDeep, Depth
<1>7. Pushed(var_alloc_stack_, nested_var_alloc_stack_starts_, x, var_alloc_stack_')
  BY <1>1, TapeFacts, PushSlices
<1>8. NestedLengthsOrdered'
  BY <1>1, <1>2, <1>7 DEF TapeInv, NestedLengthsOrdered, Pushed
<1>9. ObjectsOwnedOnce'
  <2>1. DOMAIN heap = {var_alloc_stack_[i] : i \in DOMAIN var_alloc_stack_}
        /\ \A i, j \in DOMAIN var_alloc_stack_ : var_alloc_stack_[i] = var_alloc_stack_[j] => i = j
    BY DEF TapeInv, ObjectsOwnedOnce
  <2>2. \A i, j \in DOMAIN var_alloc_stack_' : var_alloc_stack_'[i] = var_alloc_stack_'[j] => i = j
    BY <1>1, <1>4, <2>1
  <2>3. DOMAIN heap' = {var_alloc_stack_'[i] : i \in DOMAIN var_alloc_stack_'}
    BY <1>4, <1>5, <2>1
  <2>4. ASSUME NEW k \in 1..(Depth + 1),
               NEW i \in Slice(var_alloc_stack_', nested_var_alloc_stack_starts_, k)
        PROVE  heap'[var_alloc_stack_'[i]] = k - 1
    <3>1. CASE /\ i \in Slice(var_alloc_stack_, nested_var_alloc_stack_starts_, k)
               /\ var_alloc_stack_'[i] = var_alloc_stack_[i]
      <4>1. heap[var_alloc_stack_[i]] = k - 1
        BY <3>1 DEF TapeInv, ObjectsOwnedOnce
      <4>2. i \in DOMAIN var_alloc_stack_
        BY <1>4, <3>1, TapeFacts, SliceInStack
      <4> QED
        BY <1>5, <2>1, <3>1, <4>1, <4>2
    <3>2. CASE k = Depth + 1 /\ var_alloc_stack_'[i] = x
      BY <1>5, <3>2, TapeFacts
    <3> QED
      BY <1>7, <3>1, <3>2, TapeFacts DEF Pushed
  <2> QED
    BY <1>2, <2>2, <2>3, <2>4 DEF ObjectsOwnedOnce, Depth
<1>10. VarisDistinct'
  BY <1>1 DEF TapeInv, VarisDistinct
<1> QED
  BY <1>1, <1>2, <1>3, <1>6, <1>8, <1>9, <1>10 DEF TapeInv

\* start_nested() opens an empty frame on each of the four nested stacks.
LEMMA TapeStartNestedKeepsInv ==
  ASSUME TapeInv, StartNested
  PROVE  TapeInv'
<1>1. /\ nested_var_stack_sizes_' = Append(nested_var_stack_sizes_, Len(var_stack_))
      /\ nested_var_nochain_stack_sizes_' =
           Append(nested_var_nochain_stack_sizes_, Len(var_nochain_stack_))
      /\ nested_var_alloc_stack_starts_' =
           Append(nested_var_alloc_stack_starts_, Len(var_alloc_stack_))
      /\ start_nested
      /\ UNCHANGED <<var_stack_, var_nochain_stack_, var_alloc_stack_, heap>>
  BY DEF StartNested, stacks
<1>2. Inv'
  BY <1>1, StartNestedKeepsInv DEF TapeInv
<1>3. /\ live' \in Seq(SUBSET Extent) /\ Len(live') = Len(live) + 1
      /\ \A k \in 1..Len(live) : live'[k] = live[k]
  BY <1>1, TapeFacts DEF start_nested
<1>4. Len(nested_cur_blocks_') = Len(nested_cur_blocks_) + 1
  BY <1>1 DEF start_nested, TapeInv, Inv, TypeOK
<1>5. /\ nested_var_stack_sizes_' \in Seq(Nat)
      /\ Len(nested_var_stack_sizes_') = Depth + 1
      /\ nested_var_nochain_stack_sizes_' \in Seq(Nat)
      /\ Len(nested_var_nochain_stack_sizes_') = Depth + 1
      /\ nested_var_alloc_stack_starts_' \in Seq(Nat)
      /\ Len(nested_var_alloc_stack_starts_') = Depth + 1
  BY <1>1, TapeFacts
<1>6. TapeTypeOK' /\ EquallyDeep'
  BY <1>1, <1>2, <1>4, <1>5, TapeFacts
  DEF TapeInv, Inv, TapeTypeOK, EquallyDeep, Depth
<1>7. NestedLengthsOrdered'
  BY <1>1, TapeFacts, OpenSlices DEF NestedLengthsOrdered
<1>8. /\ InFrames(var_stack_, nested_var_stack_sizes_', live')
      /\ Backed(var_stack_, nested_var_stack_sizes_', live')
      /\ InFrames(var_nochain_stack_, nested_var_nochain_stack_sizes_', live')
      /\ Backed(var_nochain_stack_, nested_var_nochain_stack_sizes_', live')
  BY <1>1, <1>3, TapeFacts, OpenKeepsBacking DEF TapeInv
<1>9. VarisDistinct'
  BY <1>1 DEF TapeInv, VarisDistinct
<1>10. ObjectsOwnedOnce'
  <2>1. /\ \A k \in 1..(Depth + 1) :
             Slice(var_alloc_stack_, nested_var_alloc_stack_starts_', k)
               = Slice(var_alloc_stack_, nested_var_alloc_stack_starts_, k)
        /\ Slice(var_alloc_stack_, nested_var_alloc_stack_starts_', Depth + 2) = {}
    BY <1>1, TapeFacts, OpenSlices
  <2>2. Depth' = Depth + 1 /\ Depth \in Nat
    BY <1>5, TapeFacts DEF Depth
  <2>3. ASSUME NEW k \in 1..(Depth' + 1),
               NEW i \in Slice(var_alloc_stack_, nested_var_alloc_stack_starts_', k)
        PROVE  heap[var_alloc_stack_[i]] = k - 1
    <3>1. k # Depth + 2
      BY <2>1
    <3>2. k \in 1..(Depth + 1)
      BY <2>2, <3>1
    <3> QED
      BY <2>1, <3>2 DEF TapeInv, ObjectsOwnedOnce
  <2> QED
    BY <1>1, <2>3 DEF TapeInv, ObjectsOwnedOnce
<1> QED
  BY <1>1, <1>2, <1>6, <1>7, <1>8, <1>9, <1>10 DEF TapeInv

\* recover_memory() clears the tape, deletes every object and rewinds the arena.
LEMMA RecoverMemoryKeepsInv ==
  ASSUME TapeInv, RecoverMemory
  PROVE  TapeInv'
<1>1. /\ nested_var_stack_sizes_ = << >> /\ UNCHANGED nestedSizes
      /\ var_stack_' = << >> /\ var_nochain_stack_' = << >> /\ var_alloc_stack_' = << >>
      /\ heap' = [y \in DOMAIN heap \ {var_alloc_stack_[i] : i \in DOMAIN var_alloc_stack_}
                     |-> heap[y]]
      /\ recover_all
  BY DEF RecoverMemory, empty_nested, Delete
<1>13. nested_cur_blocks_ = << >>
  BY <1>1 DEF TapeInv, EquallyDeep, Depth, Inv, TypeOK
<1>2. Inv'
  BY <1>1, <1>13, RewindKeepsInv DEF TapeInv
<1>3. DOMAIN heap' = {}
  BY <1>1 DEF TapeInv, ObjectsOwnedOnce
<1>4. /\ nested_var_stack_sizes_' = << >>
      /\ nested_var_nochain_stack_sizes_' = << >>
      /\ nested_var_alloc_stack_starts_' = << >>
  BY <1>1, TapeFacts DEF nestedSizes, Depth
<1>5. nested_cur_blocks_' = << >>
  BY <1>1, <1>13 DEF recover_all, nested
<1>6. heap' \in [DOMAIN heap' -> Nat] /\ DOMAIN heap' \subseteq Objects
  BY <1>1, <1>3
<1>7. TapeTypeOK' /\ EquallyDeep'
  BY <1>1, <1>2, <1>4, <1>5, <1>6 DEF Inv, TapeTypeOK, EquallyDeep, Depth
<1>8. NestedLengthsOrdered'
  BY <1>1, <1>4 DEF NestedLengthsOrdered, SavedLengths
<1>9. /\ \A k \in 1..1 : Slice(<< >>, << >>, k) = {}
      /\ Len(<< >>) = 0
  BY DEF Slice, Low, High
<1>10. /\ InFrames(var_stack_', nested_var_stack_sizes_', live')
       /\ Backed(var_stack_', nested_var_stack_sizes_', live')
       /\ InFrames(var_nochain_stack_', nested_var_nochain_stack_sizes_', live')
       /\ Backed(var_nochain_stack_', nested_var_nochain_stack_sizes_', live')
  BY <1>1, <1>4, <1>9 DEF InFrames, Backed
<1>11. VarisDistinct'
  BY <1>1 DEF VarisDistinct
<1>12. ObjectsOwnedOnce'
  BY <1>1, <1>3, <1>4, <1>9 DEF ObjectsOwnedOnce, Depth
<1> QED
  BY <1>2, <1>7, <1>8, <1>10, <1>11, <1>12 DEF TapeInv

\* recover_memory_nested() cuts each stack back to its innermost frame's start, and
\* deletes exactly the objects of that frame.
LEMMA RecoverMemoryNestedKeepsInv ==
  ASSUME TapeInv, RecoverMemoryNested
  PROVE  TapeInv'
<1>1. /\ nested_var_stack_sizes_ # << >>
      /\ var_stack_' = Resize(var_stack_, Back(nested_var_stack_sizes_))
      /\ nested_var_stack_sizes_' = PopBack(nested_var_stack_sizes_)
      /\ var_nochain_stack_' = Resize(var_nochain_stack_, Back(nested_var_nochain_stack_sizes_))
      /\ nested_var_nochain_stack_sizes_' = PopBack(nested_var_nochain_stack_sizes_)
      /\ var_alloc_stack_' = Resize(var_alloc_stack_, Back(nested_var_alloc_stack_starts_))
      /\ nested_var_alloc_stack_starts_' = PopBack(nested_var_alloc_stack_starts_)
      /\ recover_nested
  BY DEF RecoverMemoryNested, empty_nested
<1>2. Depth \in Nat \ {0}
      /\ nested_var_nochain_stack_sizes_ # << >> /\ nested_var_alloc_stack_starts_ # << >>
  BY <1>1, TapeFacts DEF Depth
<1>3. Inv'
  BY <1>1, RecoverNestedKeepsInv DEF TapeInv
<1>4. /\ Closed(var_stack_, nested_var_stack_sizes_, var_stack_', nested_var_stack_sizes_')
      /\ nested_var_stack_sizes_' \in Seq(Nat) /\ var_stack_' \in Seq(Extent)
  BY <1>1, TapeFacts, CloseSlices
<1>5. /\ Closed(var_nochain_stack_, nested_var_nochain_stack_sizes_,
                var_nochain_stack_', nested_var_nochain_stack_sizes_')
      /\ nested_var_nochain_stack_sizes_' \in Seq(Nat) /\ var_nochain_stack_' \in Seq(Extent)
  BY <1>1, <1>2, TapeFacts, CloseSlices
<1>6. /\ Closed(var_alloc_stack_, nested_var_alloc_stack_starts_,
                var_alloc_stack_', nested_var_alloc_stack_starts_')
      /\ nested_var_alloc_stack_starts_' \in Seq(Nat) /\ var_alloc_stack_' \in Seq(Objects)
  BY <1>1, <1>2, TapeFacts, CloseSlices
<1>7. /\ Depth' = Depth - 1
      /\ Len(nested_var_nochain_stack_sizes_') = Depth - 1
      /\ Len(nested_var_alloc_stack_starts_') = Depth - 1
      /\ SavedLengths(nested_var_stack_sizes_', var_stack_')
      /\ SavedLengths(nested_var_nochain_stack_sizes_', var_nochain_stack_')
      /\ SavedLengths(nested_var_alloc_stack_starts_', var_alloc_stack_')
  BY <1>4, <1>5, <1>6, TapeFacts DEF Closed, Depth
<1>8. /\ live' \in Seq(SUBSET Extent) /\ Len(live') = Depth
      /\ \A k \in 1..Depth : live'[k] = live[k]
      /\ Len(nested_cur_blocks_') = Depth - 1
  <2>1. live' = SubSeq(live, 1, Depth) /\ Depth \in 0..Len(live)
    <3>1. live' = SubSeq(live, 1, Len(live) - 1)
      BY <1>1 DEF recover_nested, PopBack
    <3>2. Depth \in Nat /\ Len(live) = Depth + 1
      BY TapeFacts
    <3> QED
      BY <3>1, <3>2
  <2>2. nested_cur_blocks_' = SubSeq(nested_cur_blocks_, 1, Depth - 1)
        /\ nested_cur_blocks_ \in Seq(Nat \ {0}) /\ Depth - 1 \in 0..Len(nested_cur_blocks_)
    BY <1>1, <1>2 DEF recover_nested, PopBack, TapeInv, Inv, TypeOK, EquallyDeep
  <2>3. Len(nested_cur_blocks_') = Depth - 1
    BY <2>2, Prefix
  <2>4. live' \in Seq(SUBSET Extent) /\ Len(live') = Depth
        /\ \A k \in 1..Depth : live'[k] = live[k]
    BY <2>1, TapeFacts, Prefix
  <2> QED
    BY <2>3, <2>4
<1>9. InFrames(var_stack_', nested_var_stack_sizes_', live')
      /\ Backed(var_stack_', nested_var_stack_sizes_', live')
  BY <1>1, <1>8, TapeFacts, CloseKeepsBacking DEF TapeInv
<1>10. InFrames(var_nochain_stack_', nested_var_nochain_stack_sizes_', live')
       /\ Backed(var_nochain_stack_', nested_var_nochain_stack_sizes_', live')
  BY <1>1, <1>2, <1>8, TapeFacts, CloseKeepsBacking DEF TapeInv
<1>11. /\ \A i \in DOMAIN var_stack_' : i \in DOMAIN var_stack_ /\ var_stack_'[i] = var_stack_[i]
       /\ \A i \in DOMAIN var_nochain_stack_' :
            i \in DOMAIN var_nochain_stack_ /\ var_nochain_stack_'[i] = var_nochain_stack_[i]
  BY <1>4, <1>5, TapeFacts, ClosedKeepsEntries
<1>12. VarisDistinct'
  BY <1>11 DEF TapeInv, VarisDistinct
<1> DEFINE start == nested_var_alloc_stack_starts_[Depth]
           gone  == {var_alloc_stack_[i] : i \in (start + 1)..Len(var_alloc_stack_)}
<1>13. /\ start \in 0..Len(var_alloc_stack_) /\ DOMAIN var_alloc_stack_' = 1..start
       /\ DOMAIN var_alloc_stack_ = 1..Len(var_alloc_stack_) /\ Len(var_alloc_stack_) \in Nat
       /\ \A i \in 1..start : var_alloc_stack_'[i] = var_alloc_stack_[i]
       /\ Back(nested_var_alloc_stack_starts_) = start
  BY <1>6, TapeFacts DEF Closed
<1>14. heap' = [y \in DOMAIN heap \ gone |-> heap[y]]
  BY <1>13 DEF RecoverMemoryNested, Delete
<1>15. DOMAIN heap' = DOMAIN heap \ gone /\ \A y \in DOMAIN heap' : heap'[y] = heap[y]
  BY <1>14
<1>16. heap' \in [DOMAIN heap' -> Nat] /\ DOMAIN heap' \subseteq Objects
  BY <1>14, <1>15 DEF TapeInv, TapeTypeOK
<1>17. TapeTypeOK' /\ EquallyDeep' /\ NestedLengthsOrdered'
  BY <1>3, <1>4, <1>5, <1>6, <1>7, <1>8, <1>16
  DEF Inv, TapeTypeOK, EquallyDeep, NestedLengthsOrdered
<1>18. ObjectsOwnedOnce'
  <2>1. DOMAIN heap = {var_alloc_stack_[i] : i \in DOMAIN var_alloc_stack_}
        /\ \A i, j \in DOMAIN var_alloc_stack_ : var_alloc_stack_[i] = var_alloc_stack_[j] => i = j
    BY DEF TapeInv, ObjectsOwnedOnce
  <2> HIDE DEF start
  <2>2. \A i, j \in DOMAIN var_alloc_stack_' : var_alloc_stack_'[i] = var_alloc_stack_'[j] => i = j
    BY <1>13, <2>1
  <2>3. DOMAIN heap' = {var_alloc_stack_'[i] : i \in DOMAIN var_alloc_stack_'}
    <3>1. \A i \in 1..Len(var_alloc_stack_) : i \in 1..start <=> var_alloc_stack_[i] \notin gone
      BY <1>13, <2>1
    <3> HIDE DEF gone
    <3> QED
      BY <1>13, <1>15, <2>1, <3>1
  <2>4. ASSUME NEW k \in 1..Depth,
               NEW i \in Slice(var_alloc_stack_', nested_var_alloc_stack_starts_', k)
        PROVE  heap'[var_alloc_stack_'[i]] = k - 1
    <3>1. i \in Slice(var_alloc_stack_, nested_var_alloc_stack_starts_, k) /\ i \in 1..start
      BY <1>6, TapeFacts DEF Closed, start
    <3>2. heap[var_alloc_stack_[i]] = k - 1
      BY <1>2, <3>1 DEF TapeInv, ObjectsOwnedOnce
    <3>3. var_alloc_stack_'[i] \in DOMAIN heap'
      BY <1>13, <2>3, <3>1
    <3> QED
      BY <1>13, <1>15, <3>1, <3>2, <3>3
  <2> QED
    BY <1>2, <1>7, <2>2, <2>3, <2>4 DEF ObjectsOwnedOnce
<1> QED
  BY <1>3, <1>9, <1>10, <1>12, <1>17, <1>18 DEF TapeInv

\* Every operation of the tape keeps the invariant.
LEMMA TapeNextKeepsInv ==
  ASSUME TapeInv, [TapeNext]_tapeVars
  PROVE  TapeInv'
<1>1. ASSUME NEW len \in Lens, ArenaArray(len) PROVE TapeInv'
  BY <1>1, ArenaArrayKeepsInv, LensAssumption
<1>2. ASSUME NEW x \in Objects, NewChainableAlloc(x) PROVE TapeInv'
  BY <1>2, NewChainableAllocKeepsInv
<1>3. CASE UNCHANGED tapeVars
  <2>1. Inv'
    BY <1>3, NextKeepsInv DEF tapeVars, memalloc_, TapeInv
  <2>2. /\ UNCHANGED <<live, nested_cur_blocks_, heap>>
        /\ UNCHANGED <<var_stack_, var_nochain_stack_, var_alloc_stack_>>
        /\ UNCHANGED <<nested_var_stack_sizes_, nested_var_nochain_stack_sizes_,
                       nested_var_alloc_stack_starts_>>
    BY <1>3 DEF tapeVars, stacks, nestedSizes, memalloc_, vars, nested
  <2>3. TapeTypeOK' /\ EquallyDeep' /\ NestedLengthsOrdered'
    BY <2>1, <2>2 DEF TapeInv, Inv, TapeTypeOK, EquallyDeep, NestedLengthsOrdered, Depth
  <2>4. VarisDistinct' /\ ObjectsOwnedOnce'
    BY <2>2 DEF TapeInv, VarisDistinct, ObjectsOwnedOnce, Depth
  <2>5. /\ InFrames(var_stack_, nested_var_stack_sizes_, live)'
        /\ InFrames(var_nochain_stack_, nested_var_nochain_stack_sizes_, live)'
        /\ Backed(var_stack_, nested_var_stack_sizes_, live)'
        /\ Backed(var_nochain_stack_, nested_var_nochain_stack_sizes_, live)'
    BY <2>2 DEF TapeInv
  <2> QED
    BY <2>1, <2>3, <2>4, <2>5 DEF TapeInv
<1> QED
  BY <1>1, <1>2, <1>3, NewStackedVariKeepsInv, NewUnstackedVariKeepsInv,
     TapeStartNestedKeepsInv, RecoverMemoryNestedKeepsInv, RecoverMemoryKeepsInv DEF TapeNext

-----------------------------------------------------------------------------
(* The theorems *)

\* The invariant holds throughout.
THEOREM TapeInvariance == TapeSpec => []TapeInv
BY TapeInitInv, TapeNextKeepsInv, PTL DEF TapeSpec

\* Every member of AutodiffStackStorage keeps its type.
THEOREM TapeTypeCorrect == TapeSpec => []TapeTypeOK
BY TapeInvariance, PTL DEF TapeInv

\* empty_nested() speaks for all four nested stacks: start_nested() and
\* recover_memory_nested() keep them equally deep.  The lengths start_nested() saved stay in
\* order and inside their stacks: recover_memory(), which throws under an open scope, cuts
\* nothing below them, and no resize() of recover_memory_nested() ever grows a stack.
THEOREM NestingInStep == TapeSpec => []NestedStacksInStep
<1>1. TapeInv => NestedStacksInStep
  BY DEF TapeInv, NestedStacksInStep
<1> QED
  BY <1>1, TapeInvariance, PTL

\* No vari is on the tape twice, whatever memory operator new reused.
THEOREM VarisStayDistinct == TapeSpec => []VarisDistinct
BY TapeInvariance, PTL DEF TapeInv

\* Every chainable_alloc is deleted once, when its nested scope is recovered.
THEOREM ObjectsStayOwned == TapeSpec => []ObjectsOwnedOnce
BY TapeInvariance, PTL DEF TapeInv

\* No pointer of the tape outlives its memory, and none outlives its nested scope.
THEOREM TapeNeverDangles == TapeSpec => []TapeInFrames
<1>1. TapeInv => TapeInFrames
  BY TapeFacts DEF TapeInv, InFrames, TapeInFrames
<1> QED
  BY <1>1, TapeInvariance, PTL

-----------------------------------------------------------------------------
(* The tape implements the abstract tape *)

\* A frame's items lie inside its stack, between two positions in order.
LEMMA FrameBounds ==
  ASSUME NEW S, NEW stack \in Seq(S), NEW sizes \in Seq(Nat), SavedLengths(sizes, stack),
         NEW k \in 1..(Len(sizes) + 1)
  PROVE  /\ Low(sizes, k) \in 0..High(sizes, stack, k)
         /\ High(sizes, stack, k) \in 0..Len(stack)
<1>1. \A i \in 1..Len(sizes) : /\ sizes[i] \in 0..Len(stack)
                               /\ \A m \in i..Len(sizes) : sizes[i] <= sizes[m]
  BY DEF SavedLengths
<1>2. CASE k = Len(sizes) + 1
  <2>1. Low(sizes, k) \in 0..Len(stack)
    BY <1>1, <1>2 DEF Low
  <2> QED
    BY <1>2, <2>1 DEF High
<1>3. CASE k \in 1..Len(sizes)
  <2>1. High(sizes, stack, k) = sizes[k] /\ sizes[k] \in 0..Len(stack)
    BY <1>1, <1>3 DEF High
  <2>2. CASE k = 1
    BY <2>1, <2>2 DEF Low
  <2>3. CASE k # 1
    <3>1. k - 1 \in 1..Len(sizes) /\ k \in (k - 1)..Len(sizes)
      BY <1>3, <2>3
    <3>2. sizes[k - 1] <= sizes[k] /\ sizes[k - 1] \in Nat
      BY <1>1, <3>1
    <3> QED
      BY <2>1, <2>3, <3>2 DEF Low
  <2> QED
    BY <2>2, <2>3
<1> QED
  BY <1>2, <1>3

\* A frame's items, one by one.
LEMMA SegmentItems ==
  ASSUME NEW S, NEW stack \in Seq(S), NEW sizes \in Seq(Nat), SavedLengths(sizes, stack),
         NEW k \in 1..(Len(sizes) + 1)
  PROVE  /\ Segment(stack, sizes, k) \in Seq(S)
         /\ Len(Segment(stack, sizes, k)) = High(sizes, stack, k) - Low(sizes, k)
         /\ \A i \in 1..(High(sizes, stack, k) - Low(sizes, k)) :
              Segment(stack, sizes, k)[i] = stack[Low(sizes, k) + i]
<1> DEFINE a == Low(sizes, k)
           b == High(sizes, stack, k)
<1>1. a \in 0..b /\ b \in 0..Len(stack)
  BY FrameBounds
<1>2. Segment(stack, sizes, k) = SubSeq(stack, a + 1, b)
  BY DEF Segment
<1> HIDE DEF a, b
<1>3. /\ SubSeq(stack, a + 1, b) \in Seq(S)
      /\ Len(SubSeq(stack, a + 1, b)) = b - a
      /\ \A i \in 1..(b - a) : SubSeq(stack, a + 1, b)[i] = stack[a + i]
  <2>1. a + 1 \in 1..(Len(stack) + 1) /\ b \in a..Len(stack)
    BY <1>1
  <2> QED
    BY <1>1, <2>1
<1> QED
  BY <1>2, <1>3 DEF a, b

\* One item of a frame.
LEMMA SegmentItem ==
  ASSUME NEW S, NEW stack \in Seq(S), NEW sizes \in Seq(Nat), SavedLengths(sizes, stack),
         NEW k \in 1..(Len(sizes) + 1), NEW i \in 1..(High(sizes, stack, k) - Low(sizes, k))
  PROVE  Segment(stack, sizes, k)[i] = stack[Low(sizes, k) + i]
BY SegmentItems

\* The frames of new are those of stack, the innermost one with x added.
Lengthened(stack, sizes, x, new) ==
  /\ Segment(new, sizes, Len(sizes) + 1) = Append(Segment(stack, sizes, Len(sizes) + 1), x)
  /\ \A k \in 1..Len(sizes) : Segment(new, sizes, k) = Segment(stack, sizes, k)

\* A push adds the item to the innermost frame and changes no other.
LEMMA PushSegments ==
  ASSUME NEW S, NEW stack \in Seq(S), NEW sizes \in Seq(Nat), NEW x \in S,
         SavedLengths(sizes, stack), NEW new, new = Append(stack, x)
  PROVE  Lengthened(stack, sizes, x, new)
<1>1. /\ new \in Seq(S) /\ Len(new) = Len(stack) + 1 /\ new[Len(stack) + 1] = x
      /\ \A i \in 1..Len(stack) : new[i] = stack[i]
  OBVIOUS
<1>2. SavedLengths(sizes, new)
  BY PushSlices DEF Pushed
<1> SUFFICES ASSUME NEW k \in 1..(Len(sizes) + 1)
             PROVE  Segment(new, sizes, k) = IF k = Len(sizes) + 1
                                             THEN Append(Segment(stack, sizes, k), x)
                                             ELSE Segment(stack, sizes, k)
  <2>1. Len(sizes) + 1 \in 1..(Len(sizes) + 1)
        /\ \A k \in 1..Len(sizes) : k \in 1..(Len(sizes) + 1) /\ k # Len(sizes) + 1
    OBVIOUS
  <2> QED
    BY <2>1, Zenon DEF Lengthened
<1> DEFINE a == Low(sizes, k)
           b == High(sizes, stack, k)
           old == Segment(stack, sizes, k)
<1>3. a \in 0..b /\ b \in 0..Len(stack)
  BY FrameBounds
<1>4. /\ old \in Seq(S) /\ Len(old) = b - a
      /\ \A i \in 1..(b - a) : old[i] = stack[a + i]
  BY SegmentItems
<1>5. /\ Segment(new, sizes, k) \in Seq(S)
      /\ Len(Segment(new, sizes, k)) = High(sizes, new, k) - a
      /\ \A i \in 1..(High(sizes, new, k) - a) : Segment(new, sizes, k)[i] = new[a + i]
  <2> HIDE DEF old, a, b
  <2>1. PICK t \in Seq(S) : t = new /\ SavedLengths(sizes, t)
    BY <1>1, <1>2
  <2>2. /\ Segment(t, sizes, k) \in Seq(S)
        /\ Len(Segment(t, sizes, k)) = High(sizes, t, k) - Low(sizes, k)
        /\ \A i \in 1..(High(sizes, t, k) - Low(sizes, k)) :
             Segment(t, sizes, k)[i] = t[Low(sizes, k) + i]
    <3>1. Segment(t, sizes, k) \in Seq(S)
      BY <2>1, SegmentItems
    <3>2. Len(Segment(t, sizes, k)) = High(sizes, t, k) - Low(sizes, k)
      BY <2>1, SegmentItems
    <3>3. ASSUME NEW i \in 1..(High(sizes, t, k) - Low(sizes, k))
          PROVE  Segment(t, sizes, k)[i] = t[Low(sizes, k) + i]
      BY <2>1, SegmentItem
    <3> QED
      BY <3>1, <3>2, <3>3
  <2> QED
    BY <2>1, <2>2 DEF a
<1>6. CASE k = Len(sizes) + 1
  <2>1. b = Len(stack) /\ High(sizes, new, k) = Len(stack) + 1
    BY <1>1, <1>6 DEF High
  <2> HIDE DEF a, b, old
  <2>2. /\ Append(old, x) \in Seq(S) /\ Len(Append(old, x)) = b - a + 1
        /\ \A i \in 1..(b - a) : Append(old, x)[i] = old[i]
        /\ Append(old, x)[b - a + 1] = x
    BY <1>4
  <2>3. ASSUME NEW i \in 1..(b - a + 1)
        PROVE  Segment(new, sizes, k)[i] = Append(old, x)[i]
    <3>1. Segment(new, sizes, k)[i] = new[a + i]
      BY <1>3, <1>5, <2>1
    <3>2. CASE i = b - a + 1
      <4>1. a + i = Len(stack) + 1
        BY <1>3, <2>1, <3>2
      <4> QED
        BY <1>1, <2>2, <3>1, <3>2, <4>1
    <3>3. CASE i \in 1..(b - a)
      <4>1. a + i \in 1..Len(stack)
        BY <1>3, <2>1, <3>3
      <4> QED
        BY <1>1, <1>4, <2>2, <3>1, <3>3, <4>1
    <3>4. i = b - a + 1 \/ i \in 1..(b - a)
      <4>1. b - a \in Nat
        BY <1>3
      <4> QED
        BY <4>1
    <3> QED
      BY <3>2, <3>3, <3>4
  <2>4. Len(Segment(new, sizes, k)) = b - a + 1
    BY <1>3, <1>5, <2>1
  <2>5. Segment(new, sizes, k) = Append(old, x)
    BY <1>5, <2>2, <2>3, <2>4, SeqEqual
  <2> QED
    BY <1>6, <2>5 DEF old
<1>7. CASE k # Len(sizes) + 1
  <2>1. High(sizes, new, k) = b
    BY <1>7 DEF High
  <2> HIDE DEF a, b, old
  <2>2. ASSUME NEW i \in 1..(b - a) PROVE Segment(new, sizes, k)[i] = old[i]
    <3>1. a + i \in 1..Len(stack)
      BY <1>3
    <3> QED
      BY <1>1, <1>4, <1>5, <2>1, <3>1
  <2>3. Segment(new, sizes, k) = old
    BY <1>4, <1>5, <2>1, <2>2, SeqEqual
  <2> QED
    BY <1>7, <2>3 DEF old
<1> QED
  BY <1>6, <1>7

\* A new frame has no items and changes no other.
LEMMA OpenSegments ==
  ASSUME NEW S, NEW stack \in Seq(S), NEW sizes \in Seq(Nat), SavedLengths(sizes, stack),
         NEW now, now = Append(sizes, Len(stack))
  PROVE  /\ \A k \in 1..(Len(sizes) + 1) : Segment(stack, now, k) = Segment(stack, sizes, k)
         /\ Segment(stack, now, Len(sizes) + 2) = << >>
<1>1. /\ now \in Seq(Nat) /\ Len(now) = Len(sizes) + 1 /\ now[Len(sizes) + 1] = Len(stack)
      /\ \A k \in 1..Len(sizes) : now[k] = sizes[k]
  OBVIOUS
<1>2. ASSUME NEW k \in 1..(Len(sizes) + 1)
      PROVE  Segment(stack, now, k) = Segment(stack, sizes, k)
  <2>1. Low(now, k) = Low(sizes, k)
    BY <1>1 DEF Low
  <2>2. High(now, stack, k) = High(sizes, stack, k)
    BY <1>1 DEF High
  <2> QED
    BY <2>1, <2>2 DEF Segment
<1>3. Segment(stack, now, Len(sizes) + 2) = << >>
  <2>1. Low(now, Len(sizes) + 2) = Len(stack) /\ High(now, stack, Len(sizes) + 2) = Len(stack)
    BY <1>1 DEF Low, High
  <2>2. SubSeq(stack, Len(stack) + 1, Len(stack)) = << >>
    OBVIOUS
  <2> QED
    BY <2>1, <2>2 DEF Segment
<1> QED
  BY <1>2, <1>3

\* Closing the innermost frame leaves the items of the others.
LEMMA CloseSegments ==
  ASSUME NEW S, NEW stack \in Seq(S), NEW sizes \in Seq(Nat), sizes # << >>,
         SavedLengths(sizes, stack),
         NEW cut, cut = Resize(stack, Back(sizes)),
         NEW now, now = PopBack(sizes)
  PROVE  \A k \in 1..Len(sizes) : Segment(cut, now, k) = Segment(stack, sizes, k)
<1> DEFINE n == Len(sizes)
<1>1. Closed(stack, sizes, cut, now) /\ now \in Seq(Nat) /\ cut \in Seq(S)
  BY CloseSlices
<1>2. /\ n \in Nat \ {0} /\ sizes[n] \in 0..Len(stack) /\ Len(now) = n - 1
      /\ \A k \in 1..(n - 1) : now[k] = sizes[k] /\ sizes[k] <= sizes[n]
      /\ Len(cut) = sizes[n] /\ \A i \in 1..sizes[n] : cut[i] = stack[i]
      /\ SavedLengths(now, cut)
  BY <1>1 DEF Closed
<1> SUFFICES ASSUME NEW k \in 1..n
             PROVE  Segment(cut, now, k) = Segment(stack, sizes, k)
  OBVIOUS
<1>3. Low(now, k) = Low(sizes, k)
  BY <1>2 DEF Low
<1>4. High(now, cut, k) = High(sizes, stack, k)
  <2>1. High(sizes, stack, k) = sizes[k]
    BY DEF High
  <2>2. CASE k = n
    BY <1>2, <2>1, <2>2 DEF High
  <2>3. CASE k \in 1..(n - 1)
    BY <1>2, <2>1, <2>3 DEF High
  <2> QED
    BY <1>2, <2>2, <2>3
<1> DEFINE a == Low(sizes, k)
           b == High(sizes, stack, k)
<1>5. k \in 1..(Len(sizes) + 1) /\ k \in 1..(Len(now) + 1)
  BY <1>2
<1>6. a \in 0..b /\ b \in 0..Len(cut)
  BY <1>1, <1>2, <1>3, <1>4, <1>5, FrameBounds
<1>7. /\ Segment(stack, sizes, k) \in Seq(S) /\ Len(Segment(stack, sizes, k)) = b - a
      /\ \A i \in 1..(b - a) : Segment(stack, sizes, k)[i] = stack[a + i]
  BY <1>5, SegmentItems
<1>8. /\ Segment(cut, now, k) \in Seq(S) /\ Len(Segment(cut, now, k)) = b - a
      /\ \A i \in 1..(b - a) : Segment(cut, now, k)[i] = cut[a + i]
  BY <1>1, <1>2, <1>3, <1>4, <1>5, SegmentItems
<1> HIDE DEF a, b
<1>9. ASSUME NEW i \in 1..(b - a)
      PROVE  Segment(cut, now, k)[i] = Segment(stack, sizes, k)[i]
  <2>1. a + i \in 1..sizes[n]
    BY <1>2, <1>6
  <2> QED
    BY <1>2, <1>7, <1>8, <2>1
<1> QED
  BY <1>7, <1>8, <1>9, SeqEqual

\* The abstract frames: what Tape is instantiated with.
TapeFrames == [k \in 1..(Depth + 1) |-> Frame(k)]

\* What a frame is made of, and that there is one more of them than saved lengths.
LEMMA FramesOfTape ==
  ASSUME TapeInv
  PROVE  /\ Len(TapeFrames) = Depth + 1 /\ DOMAIN TapeFrames = 1..(Depth + 1)
         /\ \A k \in 1..(Depth + 1) :
              TapeFrames[k] =
                [chain   |-> Segment(var_stack_, nested_var_stack_sizes_, k),
                 nochain |-> Segment(var_nochain_stack_, nested_var_nochain_stack_sizes_, k),
                 objects |-> Segment(var_alloc_stack_, nested_var_alloc_stack_starts_, k)]
<1>1. Depth \in Nat
  BY TapeFacts
<1>2. Len(TapeFrames) = Depth + 1 /\ DOMAIN TapeFrames = 1..(Depth + 1)
  <2> DEFINE n == Depth + 1
  <2>1. n \in Nat
    BY <1>1
  <2>2. TapeFrames = [k \in 1..n |-> Frame(k)]
    BY DEF TapeFrames
  <2> HIDE DEF n
  <2>3. Len(TapeFrames) = n /\ DOMAIN TapeFrames = 1..n
    BY <2>1, <2>2
  <2> QED
    BY <2>3 DEF n
<1> QED
  BY <1>2 DEF TapeFrames, Frame

\* The same of the frames a step leaves.
LEMMA FramesOfNextTape ==
  ASSUME Depth' \in Nat
  PROVE  /\ Len(TapeFrames') = Depth' + 1 /\ DOMAIN TapeFrames' = 1..(Depth' + 1)
         /\ \A k \in 1..(Depth' + 1) :
              TapeFrames'[k] =
                [chain   |-> Segment(var_stack_', nested_var_stack_sizes_', k),
                 nochain |-> Segment(var_nochain_stack_', nested_var_nochain_stack_sizes_', k),
                 objects |-> Segment(var_alloc_stack_', nested_var_alloc_stack_starts_', k)]
<1>1. TapeFrames' =
        [k \in 1..(Depth' + 1) |->
          [chain   |-> Segment(var_stack_', nested_var_stack_sizes_', k),
           nochain |-> Segment(var_nochain_stack_', nested_var_nochain_stack_sizes_', k),
           objects |-> Segment(var_alloc_stack_', nested_var_alloc_stack_starts_', k)]]
  BY DEF TapeFrames, Frame, Segment, Low, High
<1>2. Len(TapeFrames') = Depth' + 1 /\ DOMAIN TapeFrames' = 1..(Depth' + 1)
  <2>1. PICK n \in Nat : n = Depth' + 1
    <3> DEFINE d == Depth'
    <3>1. d \in Nat
      OBVIOUS
    <3> HIDE DEF d
    <3>2. d + 1 \in Nat
      BY <3>1
    <3> QED
      BY <3>2 DEF d
  <2>2. TapeFrames' = [k \in 1..n |-> TapeFrames'[k]]
    BY <2>1 DEF TapeFrames
  <2>3. Len(TapeFrames') = n /\ DOMAIN TapeFrames' = 1..n
    BY <2>2
  <2> QED
    BY <2>1, <2>3
<1> QED
  BY <1>1, <1>2

\* A new tape is one empty frame.
LEMMA NewTapeIsEmpty == TapeInit => Tape!Init
<1> SUFFICES ASSUME TapeInit PROVE Tape!Init
  OBVIOUS
<1>1. TapeInv
  BY TapeInitInv
<1>2. /\ var_stack_ = << >> /\ var_nochain_stack_ = << >> /\ var_alloc_stack_ = << >>
      /\ nested_var_stack_sizes_ = << >> /\ nested_var_nochain_stack_sizes_ = << >>
      /\ nested_var_alloc_stack_starts_ = << >> /\ Depth = 0
  BY DEF TapeInit, Depth
<1>3. Segment(<< >>, << >>, 1) = << >>
  BY DEF Segment, Low, High
<1>4. TapeFrames = <<Tape!EmptyFrame>>
  <2>1. DOMAIN TapeFrames = 1..1 /\ TapeFrames[1] = Tape!EmptyFrame
    BY <1>1, <1>2, <1>3, FramesOfTape DEF Tape!EmptyFrame
  <2>2. TapeFrames = [k \in 1..1 |-> Tape!EmptyFrame]
    BY <1>2, <2>1 DEF TapeFrames
  <2> HIDE DEF Tape!EmptyFrame
  <2> QED
    BY <2>2
<1> QED
  BY <1>4 DEF Tape!Init, TapeFrames

\* A step that leaves the tape alone leaves its frames alone.
LEMMA QuietKeepsFrames ==
  ASSUME UNCHANGED <<stacks, nestedSizes>>
  PROVE  TapeFrames' = TapeFrames
<1>1. /\ UNCHANGED <<var_stack_, var_nochain_stack_, var_alloc_stack_>>
      /\ UNCHANGED <<nested_var_stack_sizes_, nested_var_nochain_stack_sizes_,
                     nested_var_alloc_stack_starts_>>
  BY DEF stacks, nestedSizes
<1>2. Depth' = Depth /\ \A k \in 1..(Depth + 1) : Frame(k)' = Frame(k)
  BY <1>1 DEF Depth, Frame, Segment, Low, High
<1> QED
  BY <1>2 DEF TapeFrames

\* One more item in one sequence of the innermost frame is Extend.
LEMMA PushIsExtend ==
  ASSUME TapeInv, NEW part \in DOMAIN Tape!EmptyFrame, NEW S, NEW x \in S,
         Depth' = Depth,
         part \in DOMAIN TapeFrames[Depth + 1], TapeFrames[Depth + 1][part] \in Seq(S),
         TapeFrames'[Depth + 1] = [TapeFrames[Depth + 1] EXCEPT ![part] = Append(@, x)],
         \A k \in 1..Depth : TapeFrames'[k] = TapeFrames[k]
  PROVE  Tape!Extend(part)
<1> DEFINE f == TapeFrames
           g == TapeFrames'
           top == Depth + 1
           now == g[top][part]
<1>1. /\ Depth \in Nat /\ Len(f) = top /\ Len(g) = top
      /\ f = [k \in 1..top |-> f[k]] /\ g = [k \in 1..top |-> g[k]]
  BY TapeFacts, FramesOfTape, FramesOfNextTape DEF TapeFrames
<1>2. now = Append(f[top][part], x)
  BY <1>1, SMT
<1>3. Len(now) = Len(f[top][part]) + 1 /\ now[Len(now)] = x
  BY <1>2
<1>4. g = [f EXCEPT ![top][part] = Append(f[top][part], x)]
  <2> DEFINE n == Depth
             v == Append(f[top][part], x)
  <2>1. /\ n \in Nat /\ f = [k \in 1..(n + 1) |-> f[k]] /\ g = [k \in 1..(n + 1) |-> g[k]]
        /\ g[n + 1] = [f[n + 1] EXCEPT ![part] = v] /\ \A k \in 1..n : g[k] = f[k]
    BY <1>1
  <2> HIDE DEF n, f, g, v
  <2> DEFINE h == [f EXCEPT ![n + 1][part] = v]
  <2>2. h = [k \in 1..(n + 1) |->
               IF k = n + 1 THEN [f[n + 1] EXCEPT ![part] = v] ELSE f[k]]
    BY <2>1
  <2>3. \A k \in 1..(n + 1) : k = n + 1 \/ k \in 1..n
    BY <2>1
  <2> HIDE DEF h
  <2>4. \A k \in 1..(n + 1) : g[k] = h[k]
    BY <2>1, <2>2, <2>3
  <2>5. g = h
    BY <2>1, <2>2, <2>4
  <2> QED
    BY <2>5 DEF h, n, v
<1> HIDE DEF now
<1>5. g = [f EXCEPT ![top][part] = Append(@, now[Len(now)])]
  BY <1>3, <1>4
<1>6. /\ Len(TapeFrames') = Len(TapeFrames)
      /\ Len(TapeFrames'[Len(TapeFrames)][part]) = Len(TapeFrames[Len(TapeFrames)][part]) + 1
      /\ TapeFrames' = [TapeFrames EXCEPT ![Len(TapeFrames)][part] =
           Append(@, TapeFrames'[Len(TapeFrames)][part][Len(TapeFrames'[Len(TapeFrames)][part])])]
  BY <1>1, <1>3, <1>5 DEF now
<1> QED
  BY <1>6, Zenon DEF Tape!Extend, TapeFrames

\* A vari to chain goes to the innermost frame's chain.
LEMMA NewStackedVariExtends ==
  ASSUME TapeInv, NewStackedVari
  PROVE  Tape!Extend("chain")
<1> DEFINE x == NewVariMemory
<1>1. /\ var_stack_' = Append(var_stack_, x) /\ x \in Extent
      /\ UNCHANGED <<var_nochain_stack_, var_alloc_stack_, nestedSizes>>
  BY VariMemory DEF NewStackedVari, TapeInv
<1> HIDE DEF x
<1>2. /\ Depth' = Depth /\ Depth \in Nat
      /\ nested_var_stack_sizes_' = nested_var_stack_sizes_
      /\ nested_var_nochain_stack_sizes_' = nested_var_nochain_stack_sizes_
      /\ nested_var_alloc_stack_starts_' = nested_var_alloc_stack_starts_
  BY <1>1, TapeFacts DEF Depth, nestedSizes
<1>3. /\ Segment(var_stack_', nested_var_stack_sizes_, Depth + 1)
           = Append(Segment(var_stack_, nested_var_stack_sizes_, Depth + 1), x)
      /\ \A k \in 1..Depth : Segment(var_stack_', nested_var_stack_sizes_, k)
                              = Segment(var_stack_, nested_var_stack_sizes_, k)
  <2> DEFINE s == var_stack_
             t == var_stack_'
             z == nested_var_stack_sizes_
  <2>1. s \in Seq(Extent) /\ z \in Seq(Nat) /\ SavedLengths(z, s) /\ Len(z) = Depth
    BY TapeFacts
  <2>2. t = Append(s, x) /\ x \in Extent
    BY <1>1
  <2> HIDE DEF s, t, z
  <2>3. Lengthened(s, z, x, t)
    BY <2>1, <2>2, PushSegments
  <2> QED
    BY <2>1, <2>3 DEF s, t, z, Lengthened
<1>4. /\ TapeFrames'[Depth + 1]
           = [TapeFrames[Depth + 1] EXCEPT !["chain"] = Append(@, x)]
      /\ \A k \in 1..Depth : TapeFrames'[k] = TapeFrames[k]
  <2>1. /\ \A k \in 1..Depth : k \in 1..(Depth + 1)
        /\ Depth + 1 \in 1..(Depth + 1)
    BY <1>2
  <2>2. \A k \in 1..(Depth + 1) :
          /\ TapeFrames[k] =
               [chain   |-> Segment(var_stack_, nested_var_stack_sizes_, k),
                nochain |-> Segment(var_nochain_stack_, nested_var_nochain_stack_sizes_, k),
                objects |-> Segment(var_alloc_stack_, nested_var_alloc_stack_starts_, k)]
          /\ TapeFrames'[k] =
               [chain   |-> Segment(var_stack_', nested_var_stack_sizes_, k),
                nochain |-> Segment(var_nochain_stack_, nested_var_nochain_stack_sizes_, k),
                objects |-> Segment(var_alloc_stack_, nested_var_alloc_stack_starts_, k)]
    BY <1>1, <1>2, FramesOfTape, FramesOfNextTape
  <2>3. \A k \in 1..Depth : TapeFrames'[k] = TapeFrames[k]
    BY <1>3, <2>1, <2>2
  <2> DEFINE r == Segment(var_stack_, nested_var_stack_sizes_, Depth + 1)
             p == Segment(var_nochain_stack_, nested_var_nochain_stack_sizes_, Depth + 1)
             q == Segment(var_alloc_stack_, nested_var_alloc_stack_starts_, Depth + 1)
  <2>4. /\ TapeFrames[Depth + 1] = [chain |-> r, nochain |-> p, objects |-> q]
        /\ TapeFrames'[Depth + 1] = [chain |-> Append(r, x), nochain |-> p, objects |-> q]
    BY <1>3, <2>1, <2>2
  <2> HIDE DEF r, p, q
  <2>5. TapeFrames'[Depth + 1] = [TapeFrames[Depth + 1] EXCEPT !["chain"] = Append(@, x)]
    BY <2>4
  <2> QED
    BY <2>3, <2>5
<1>5. "chain" \in DOMAIN Tape!EmptyFrame /\ "chain" \in DOMAIN TapeFrames[Depth + 1]
      /\ TapeFrames[Depth + 1]["chain"] \in Seq(Extent)
  <2>1. TapeFrames[Depth + 1]["chain"] = Segment(var_stack_, nested_var_stack_sizes_, Depth + 1)
        /\ "chain" \in DOMAIN TapeFrames[Depth + 1]
    BY <1>2, FramesOfTape
  <2> QED
    BY <1>2, <2>1, TapeFacts, SegmentItems DEF Tape!EmptyFrame
<1> QED
  BY <1>1, <1>2, <1>4, <1>5, PushIsExtend

\* A vari not to chain goes to the innermost frame's other sequence.
LEMMA NewUnstackedVariExtends ==
  ASSUME TapeInv, NewUnstackedVari
  PROVE  Tape!Extend("nochain")
<1> DEFINE x == NewVariMemory
<1>1. /\ var_nochain_stack_' = Append(var_nochain_stack_, x) /\ x \in Extent
      /\ UNCHANGED <<var_stack_, var_alloc_stack_, nestedSizes>>
  BY VariMemory DEF NewUnstackedVari, TapeInv
<1> HIDE DEF x
<1>2. /\ Depth' = Depth /\ Depth \in Nat
      /\ nested_var_stack_sizes_' = nested_var_stack_sizes_
      /\ nested_var_nochain_stack_sizes_' = nested_var_nochain_stack_sizes_
      /\ nested_var_alloc_stack_starts_' = nested_var_alloc_stack_starts_
  BY <1>1, TapeFacts DEF Depth, nestedSizes
<1>3. /\ Segment(var_nochain_stack_', nested_var_nochain_stack_sizes_, Depth + 1)
           = Append(Segment(var_nochain_stack_, nested_var_nochain_stack_sizes_, Depth + 1), x)
      /\ \A k \in 1..Depth : Segment(var_nochain_stack_', nested_var_nochain_stack_sizes_, k)
                              = Segment(var_nochain_stack_, nested_var_nochain_stack_sizes_, k)
  <2> DEFINE s == var_nochain_stack_
             t == var_nochain_stack_'
             z == nested_var_nochain_stack_sizes_
  <2>1. s \in Seq(Extent) /\ z \in Seq(Nat) /\ SavedLengths(z, s) /\ Len(z) = Depth
    BY TapeFacts
  <2>2. t = Append(s, x) /\ x \in Extent
    BY <1>1
  <2> HIDE DEF s, t, z
  <2>3. Lengthened(s, z, x, t)
    BY <2>1, <2>2, PushSegments
  <2> QED
    BY <2>1, <2>3 DEF s, t, z, Lengthened
<1>4. /\ TapeFrames'[Depth + 1]
           = [TapeFrames[Depth + 1] EXCEPT !["nochain"] = Append(@, x)]
      /\ \A k \in 1..Depth : TapeFrames'[k] = TapeFrames[k]
  <2>1. /\ \A k \in 1..Depth : k \in 1..(Depth + 1)
        /\ Depth + 1 \in 1..(Depth + 1)
    BY <1>2
  <2>2. \A k \in 1..(Depth + 1) :
          /\ TapeFrames[k] =
               [chain   |-> Segment(var_stack_, nested_var_stack_sizes_, k),
                nochain |-> Segment(var_nochain_stack_, nested_var_nochain_stack_sizes_, k),
                objects |-> Segment(var_alloc_stack_, nested_var_alloc_stack_starts_, k)]
          /\ TapeFrames'[k] =
               [chain   |-> Segment(var_stack_, nested_var_stack_sizes_, k),
                nochain |-> Segment(var_nochain_stack_', nested_var_nochain_stack_sizes_, k),
                objects |-> Segment(var_alloc_stack_, nested_var_alloc_stack_starts_, k)]
    BY <1>1, <1>2, FramesOfTape, FramesOfNextTape
  <2>3. \A k \in 1..Depth : TapeFrames'[k] = TapeFrames[k]
    BY <1>3, <2>1, <2>2
  <2> DEFINE r == Segment(var_stack_, nested_var_stack_sizes_, Depth + 1)
             p == Segment(var_nochain_stack_, nested_var_nochain_stack_sizes_, Depth + 1)
             q == Segment(var_alloc_stack_, nested_var_alloc_stack_starts_, Depth + 1)
  <2>4. /\ TapeFrames[Depth + 1] = [chain |-> r, nochain |-> p, objects |-> q]
        /\ TapeFrames'[Depth + 1] = [chain |-> r, nochain |-> Append(p, x), objects |-> q]
    BY <1>3, <2>1, <2>2
  <2> HIDE DEF r, p, q
  <2>5. TapeFrames'[Depth + 1] = [TapeFrames[Depth + 1] EXCEPT !["nochain"] = Append(@, x)]
    BY <2>4
  <2> QED
    BY <2>3, <2>5
<1>5. "nochain" \in DOMAIN Tape!EmptyFrame /\ "nochain" \in DOMAIN TapeFrames[Depth + 1]
      /\ TapeFrames[Depth + 1]["nochain"] \in Seq(Extent)
  <2>1. TapeFrames[Depth + 1]["nochain"]
          = Segment(var_nochain_stack_, nested_var_nochain_stack_sizes_, Depth + 1)
        /\ "nochain" \in DOMAIN TapeFrames[Depth + 1]
    BY <1>2, FramesOfTape
  <2> QED
    BY <1>2, <2>1, TapeFacts, SegmentItems DEF Tape!EmptyFrame
<1> QED
  BY <1>1, <1>2, <1>4, <1>5, PushIsExtend

\* A chainable_alloc joins the innermost frame's objects.
LEMMA NewChainableAllocExtends ==
  ASSUME TapeInv, NEW x \in Objects, NewChainableAlloc(x)
  PROVE  Tape!Extend("objects")
<1>1. /\ var_alloc_stack_' = Append(var_alloc_stack_, x)
      /\ UNCHANGED <<var_stack_, var_nochain_stack_, nestedSizes>>
  BY DEF NewChainableAlloc
<1>2. /\ Depth' = Depth /\ Depth \in Nat
      /\ nested_var_stack_sizes_' = nested_var_stack_sizes_
      /\ nested_var_nochain_stack_sizes_' = nested_var_nochain_stack_sizes_
      /\ nested_var_alloc_stack_starts_' = nested_var_alloc_stack_starts_
  BY <1>1, TapeFacts DEF Depth, nestedSizes
<1>3. /\ Segment(var_alloc_stack_', nested_var_alloc_stack_starts_, Depth + 1)
           = Append(Segment(var_alloc_stack_, nested_var_alloc_stack_starts_, Depth + 1), x)
      /\ \A k \in 1..Depth : Segment(var_alloc_stack_', nested_var_alloc_stack_starts_, k)
                              = Segment(var_alloc_stack_, nested_var_alloc_stack_starts_, k)
  <2> DEFINE s == var_alloc_stack_
             t == var_alloc_stack_'
             z == nested_var_alloc_stack_starts_
  <2>1. s \in Seq(Objects) /\ z \in Seq(Nat) /\ SavedLengths(z, s) /\ Len(z) = Depth
    BY TapeFacts
  <2>2. t = Append(s, x)
    BY <1>1
  <2> HIDE DEF s, t, z
  <2>3. Lengthened(s, z, x, t)
    BY <2>1, <2>2, PushSegments
  <2> QED
    BY <2>1, <2>3 DEF s, t, z, Lengthened
<1>4. /\ TapeFrames'[Depth + 1]
           = [TapeFrames[Depth + 1] EXCEPT !["objects"] = Append(@, x)]
      /\ \A k \in 1..Depth : TapeFrames'[k] = TapeFrames[k]
  <2>1. /\ \A k \in 1..Depth : k \in 1..(Depth + 1)
        /\ Depth + 1 \in 1..(Depth + 1)
    BY <1>2
  <2>2. \A k \in 1..(Depth + 1) :
          /\ TapeFrames[k] =
               [chain   |-> Segment(var_stack_, nested_var_stack_sizes_, k),
                nochain |-> Segment(var_nochain_stack_, nested_var_nochain_stack_sizes_, k),
                objects |-> Segment(var_alloc_stack_, nested_var_alloc_stack_starts_, k)]
          /\ TapeFrames'[k] =
               [chain   |-> Segment(var_stack_, nested_var_stack_sizes_, k),
                nochain |-> Segment(var_nochain_stack_, nested_var_nochain_stack_sizes_, k),
                objects |-> Segment(var_alloc_stack_', nested_var_alloc_stack_starts_, k)]
    BY <1>1, <1>2, FramesOfTape, FramesOfNextTape
  <2>3. \A k \in 1..Depth : TapeFrames'[k] = TapeFrames[k]
    BY <1>3, <2>1, <2>2
  <2> DEFINE r == Segment(var_stack_, nested_var_stack_sizes_, Depth + 1)
             p == Segment(var_nochain_stack_, nested_var_nochain_stack_sizes_, Depth + 1)
             q == Segment(var_alloc_stack_, nested_var_alloc_stack_starts_, Depth + 1)
  <2>4. /\ TapeFrames[Depth + 1] = [chain |-> r, nochain |-> p, objects |-> q]
        /\ TapeFrames'[Depth + 1] = [chain |-> r, nochain |-> p, objects |-> Append(q, x)]
    BY <1>3, <2>1, <2>2
  <2> HIDE DEF r, p, q
  <2>5. TapeFrames'[Depth + 1] = [TapeFrames[Depth + 1] EXCEPT !["objects"] = Append(@, x)]
    BY <2>4
  <2> QED
    BY <2>3, <2>5
<1>5. "objects" \in DOMAIN Tape!EmptyFrame /\ "objects" \in DOMAIN TapeFrames[Depth + 1]
      /\ TapeFrames[Depth + 1]["objects"] \in Seq(Objects)
  <2>1. TapeFrames[Depth + 1]["objects"]
          = Segment(var_alloc_stack_, nested_var_alloc_stack_starts_, Depth + 1)
        /\ "objects" \in DOMAIN TapeFrames[Depth + 1]
    BY <1>2, FramesOfTape
  <2> QED
    BY <1>2, <2>1, TapeFacts, SegmentItems DEF Tape!EmptyFrame
<1> QED
  BY <1>1, <1>2, <1>4, <1>5, PushIsExtend

\* start_nested() adds an empty frame.
LEMMA StartNestedOpens ==
  ASSUME TapeInv, StartNested
  PROVE  Tape!Open
<1>1. /\ nested_var_stack_sizes_' = Append(nested_var_stack_sizes_, Len(var_stack_))
      /\ nested_var_nochain_stack_sizes_' =
           Append(nested_var_nochain_stack_sizes_, Len(var_nochain_stack_))
      /\ nested_var_alloc_stack_starts_' =
           Append(nested_var_alloc_stack_starts_, Len(var_alloc_stack_))
      /\ UNCHANGED <<var_stack_, var_nochain_stack_, var_alloc_stack_>>
  BY DEF StartNested, stacks
<1>2. TapeInv' /\ Depth \in Nat
  BY TapeStartNestedKeepsInv, TapeFacts
<1>3. Depth' = Depth + 1
  BY <1>1, TapeFacts DEF Depth
<1>4. /\ \A k \in 1..(Depth + 1) :
           Segment(var_stack_, nested_var_stack_sizes_', k)
             = Segment(var_stack_, nested_var_stack_sizes_, k)
      /\ Segment(var_stack_, nested_var_stack_sizes_', Depth + 2) = << >>
  <2> DEFINE s == var_stack_
             z == nested_var_stack_sizes_
             w == nested_var_stack_sizes_'
  <2>1. s \in Seq(Extent) /\ z \in Seq(Nat) /\ SavedLengths(z, s) /\ Len(z) = Depth
    BY TapeFacts
  <2>2. w = Append(z, Len(s))
    BY <1>1
  <2> HIDE DEF s, z, w
  <2>3. /\ \A k \in 1..(Len(z) + 1) : Segment(s, w, k) = Segment(s, z, k)
        /\ Segment(s, w, Len(z) + 2) = << >>
    BY <2>1, <2>2, OpenSegments
  <2> QED
    BY <2>1, <2>3 DEF s, z, w
<1>5. /\ \A k \in 1..(Depth + 1) :
           Segment(var_nochain_stack_, nested_var_nochain_stack_sizes_', k)
             = Segment(var_nochain_stack_, nested_var_nochain_stack_sizes_, k)
      /\ Segment(var_nochain_stack_, nested_var_nochain_stack_sizes_', Depth + 2) = << >>
  <2> DEFINE s == var_nochain_stack_
             z == nested_var_nochain_stack_sizes_
             w == nested_var_nochain_stack_sizes_'
  <2>1. s \in Seq(Extent) /\ z \in Seq(Nat) /\ SavedLengths(z, s) /\ Len(z) = Depth
    BY TapeFacts
  <2>2. w = Append(z, Len(s))
    BY <1>1
  <2> HIDE DEF s, z, w
  <2>3. /\ \A k \in 1..(Len(z) + 1) : Segment(s, w, k) = Segment(s, z, k)
        /\ Segment(s, w, Len(z) + 2) = << >>
    BY <2>1, <2>2, OpenSegments
  <2> QED
    BY <2>1, <2>3 DEF s, z, w
<1>6. /\ \A k \in 1..(Depth + 1) :
           Segment(var_alloc_stack_, nested_var_alloc_stack_starts_', k)
             = Segment(var_alloc_stack_, nested_var_alloc_stack_starts_, k)
      /\ Segment(var_alloc_stack_, nested_var_alloc_stack_starts_', Depth + 2) = << >>
  <2> DEFINE s == var_alloc_stack_
             z == nested_var_alloc_stack_starts_
             w == nested_var_alloc_stack_starts_'
  <2>1. s \in Seq(Objects) /\ z \in Seq(Nat) /\ SavedLengths(z, s) /\ Len(z) = Depth
    BY TapeFacts
  <2>2. w = Append(z, Len(s))
    BY <1>1
  <2> HIDE DEF s, z, w
  <2>3. /\ \A k \in 1..(Len(z) + 1) : Segment(s, w, k) = Segment(s, z, k)
        /\ Segment(s, w, Len(z) + 2) = << >>
    BY <2>1, <2>2, OpenSegments
  <2> QED
    BY <2>1, <2>3 DEF s, z, w
<1>7. /\ Len(TapeFrames) = Depth + 1 /\ DOMAIN TapeFrames = 1..(Depth + 1)
      /\ Len(TapeFrames') = Depth + 2 /\ DOMAIN TapeFrames' = 1..(Depth + 2)
  BY <1>2, <1>3, FramesOfTape, FramesOfNextTape
<1>8. \A k \in 1..(Depth + 2) :
        TapeFrames'[k] =
          [chain   |-> Segment(var_stack_, nested_var_stack_sizes_', k),
           nochain |-> Segment(var_nochain_stack_, nested_var_nochain_stack_sizes_', k),
           objects |-> Segment(var_alloc_stack_, nested_var_alloc_stack_starts_', k)]
  <2>1. Depth' \in Nat /\ Depth' + 1 = Depth + 2
    BY <1>2, <1>3
  <2>2. \A k \in 1..(Depth' + 1) :
          TapeFrames'[k] =
            [chain   |-> Segment(var_stack_', nested_var_stack_sizes_', k),
             nochain |-> Segment(var_nochain_stack_', nested_var_nochain_stack_sizes_', k),
             objects |-> Segment(var_alloc_stack_', nested_var_alloc_stack_starts_', k)]
    BY <2>1, FramesOfNextTape
  <2> QED
    BY <1>1, <2>1, <2>2
<1>9. \A k \in 1..(Depth + 1) : TapeFrames'[k] = TapeFrames[k]
  <2>1. \A k \in 1..(Depth + 1) :
          TapeFrames[k] =
            [chain   |-> Segment(var_stack_, nested_var_stack_sizes_, k),
             nochain |-> Segment(var_nochain_stack_, nested_var_nochain_stack_sizes_, k),
             objects |-> Segment(var_alloc_stack_, nested_var_alloc_stack_starts_, k)]
    BY FramesOfTape
  <2>2. \A k \in 1..(Depth + 1) : k \in 1..(Depth + 2)
    BY <1>2
  <2> QED
    BY <1>4, <1>5, <1>6, <1>8, <2>1, <2>2
<1>10. TapeFrames'[Depth + 2] = Tape!EmptyFrame
  <2>1. Depth + 2 \in 1..(Depth + 2)
    BY <1>2
  <2> QED
    BY <1>4, <1>5, <1>6, <1>8, <2>1 DEF Tape!EmptyFrame
<1>11. TapeFrames' = Append(TapeFrames, Tape!EmptyFrame)
  <2> DEFINE n == Depth + 1
             e == Tape!EmptyFrame
  <2>1. /\ n \in Nat /\ Len(TapeFrames) = n
        /\ TapeFrames = [k \in 1..n |-> TapeFrames[k]]
        /\ TapeFrames' = [k \in 1..(n + 1) |-> TapeFrames'[k]]
    BY <1>2, <1>3, <1>7 DEF TapeFrames
  <2>2. \A k \in 1..n : TapeFrames'[k] = TapeFrames[k]
    BY <1>9
  <2>3. TapeFrames'[n + 1] = e
    BY <1>2, <1>10
  <2> HIDE DEF n, e
  <2>4. TapeFrames' = Append(TapeFrames, e)
    BY <2>1, <2>2, <2>3
  <2> QED
    BY <2>4 DEF e
<1> QED
  BY <1>11 DEF Tape!Open, TapeFrames

\* recover_memory_nested() drops the innermost frame and nothing else.
LEMMA RecoverMemoryNestedCloses ==
  ASSUME TapeInv, RecoverMemoryNested
  PROVE  Tape!Close
<1>1. /\ nested_var_stack_sizes_ # << >>
      /\ var_stack_' = Resize(var_stack_, Back(nested_var_stack_sizes_))
      /\ nested_var_stack_sizes_' = PopBack(nested_var_stack_sizes_)
      /\ var_nochain_stack_' = Resize(var_nochain_stack_, Back(nested_var_nochain_stack_sizes_))
      /\ nested_var_nochain_stack_sizes_' = PopBack(nested_var_nochain_stack_sizes_)
      /\ var_alloc_stack_' = Resize(var_alloc_stack_, Back(nested_var_alloc_stack_starts_))
      /\ nested_var_alloc_stack_starts_' = PopBack(nested_var_alloc_stack_starts_)
  BY DEF RecoverMemoryNested, empty_nested
<1>2. /\ TapeInv' /\ Depth \in Nat \ {0}
      /\ nested_var_nochain_stack_sizes_ # << >> /\ nested_var_alloc_stack_starts_ # << >>
  BY <1>1, RecoverMemoryNestedKeepsInv, TapeFacts DEF Depth
<1>3. Depth' = Depth - 1
  <2>1. Closed(var_stack_, nested_var_stack_sizes_, var_stack_', nested_var_stack_sizes_')
    BY <1>1, TapeFacts, CloseSlices
  <2> QED
    BY <2>1 DEF Closed, Depth
<1>4. \A k \in 1..Depth : Segment(var_stack_', nested_var_stack_sizes_', k)
                            = Segment(var_stack_, nested_var_stack_sizes_, k)
  BY <1>1, TapeFacts, CloseSegments
<1>5. \A k \in 1..Depth : Segment(var_nochain_stack_', nested_var_nochain_stack_sizes_', k)
                            = Segment(var_nochain_stack_, nested_var_nochain_stack_sizes_, k)
  BY <1>1, <1>2, TapeFacts, CloseSegments
<1>6. \A k \in 1..Depth : Segment(var_alloc_stack_', nested_var_alloc_stack_starts_', k)
                            = Segment(var_alloc_stack_, nested_var_alloc_stack_starts_, k)
  BY <1>1, <1>2, TapeFacts, CloseSegments
<1>7. /\ Len(TapeFrames) = Depth + 1 /\ DOMAIN TapeFrames = 1..(Depth + 1)
      /\ Len(TapeFrames') = Depth /\ DOMAIN TapeFrames' = 1..Depth
  BY <1>2, <1>3, FramesOfTape, FramesOfNextTape
<1>8. \A k \in 1..Depth : TapeFrames'[k] = TapeFrames[k]
  <2>1. Depth' \in Nat /\ Depth' + 1 = Depth /\ \A k \in 1..Depth : k \in 1..(Depth + 1)
    BY <1>2, <1>3
  <2>2. \A k \in 1..(Depth' + 1) :
          TapeFrames'[k] =
            [chain   |-> Segment(var_stack_', nested_var_stack_sizes_', k),
             nochain |-> Segment(var_nochain_stack_', nested_var_nochain_stack_sizes_', k),
             objects |-> Segment(var_alloc_stack_', nested_var_alloc_stack_starts_', k)]
    BY <2>1, FramesOfNextTape
  <2>3. \A k \in 1..(Depth + 1) :
          TapeFrames[k] =
            [chain   |-> Segment(var_stack_, nested_var_stack_sizes_, k),
             nochain |-> Segment(var_nochain_stack_, nested_var_nochain_stack_sizes_, k),
             objects |-> Segment(var_alloc_stack_, nested_var_alloc_stack_starts_, k)]
    BY FramesOfTape
  <2>4. ASSUME NEW k \in 1..Depth
        PROVE  TapeFrames'[k] = TapeFrames[k]
    <3>1. k \in 1..(Depth' + 1) /\ k \in 1..(Depth + 1)
      BY <2>1
    <3>2. TapeFrames'[k] =
            [chain   |-> Segment(var_stack_', nested_var_stack_sizes_', k),
             nochain |-> Segment(var_nochain_stack_', nested_var_nochain_stack_sizes_', k),
             objects |-> Segment(var_alloc_stack_', nested_var_alloc_stack_starts_', k)]
      BY <2>2, <3>1
    <3>3. TapeFrames[k] =
            [chain   |-> Segment(var_stack_, nested_var_stack_sizes_, k),
             nochain |-> Segment(var_nochain_stack_, nested_var_nochain_stack_sizes_, k),
             objects |-> Segment(var_alloc_stack_, nested_var_alloc_stack_starts_, k)]
      BY <2>3, <3>1
    <3> QED
      BY <1>4, <1>5, <1>6, <3>2, <3>3
  <2> QED
    BY <2>4
<1>9. /\ TapeFrames = [k \in 1..(Depth + 1) |-> TapeFrames[k]]
      /\ TapeFrames' = [k \in 1..Depth |-> TapeFrames'[k]]
  <2>1. TapeFrames' = [k \in 1..(Depth' + 1) |-> TapeFrames'[k]]
        /\ TapeFrames = [k \in 1..(Depth + 1) |-> TapeFrames[k]]
    BY DEF TapeFrames
  <2>2. Depth' + 1 = Depth
    BY <1>2, <1>3
  <2> QED
    BY <2>1, <2>2
<1>10. TapeFrames' = SubSeq(TapeFrames, 1, Len(TapeFrames) - 1)
  <2> DEFINE n == Depth
             f == TapeFrames
             g == TapeFrames'
  <2>1. /\ n \in Nat \ {0} /\ Len(f) = n + 1
        /\ f = [k \in 1..(n + 1) |-> f[k]] /\ g = [k \in 1..n |-> g[k]]
        /\ \A k \in 1..n : g[k] = f[k]
    BY <1>2, <1>7, <1>8, <1>9
  <2> HIDE DEF n, f, g
  <2>2. f \in Seq({f[k] : k \in 1..(n + 1)})
    <3>1. f \in [1..(n + 1) -> {f[k] : k \in 1..(n + 1)}]
      BY <2>1
    <3> QED
      BY <2>1, <3>1
  <2>3. g = SubSeq(f, 1, n)
    <3>1. SubSeq(f, 1, n) = [k \in 1..n |-> f[k]]
      BY <2>1, <2>2
    <3> QED
      BY <2>1, <3>1
  <2>4. Len(f) - 1 = n
    BY <2>1
  <2>5. g = SubSeq(f, 1, Len(f) - 1)
    BY <2>3, <2>4
  <2> QED
    BY <2>5 DEF f, g
<1>11. Len(TapeFrames) > 1
  BY <1>2, <1>7
<1> QED
  BY <1>10, <1>11 DEF Tape!Close, TapeFrames

\* recover_memory() empties the only frame.
LEMMA RecoverMemoryClears ==
  ASSUME TapeInv, RecoverMemory
  PROVE  Tape!Clear
<1>1. /\ Depth = 0
      /\ nested_var_stack_sizes_' = << >>
      /\ nested_var_nochain_stack_sizes_' = << >>
      /\ nested_var_alloc_stack_starts_' = << >>
      /\ var_stack_' = << >> /\ var_nochain_stack_' = << >> /\ var_alloc_stack_' = << >>
  BY TapeFacts DEF RecoverMemory, empty_nested, Depth, nestedSizes
<1>2. TapeInv' /\ Depth' = 0
  BY <1>1, RecoverMemoryKeepsInv DEF Depth
<1>3. Segment(<< >>, << >>, 1) = << >>
  BY DEF Segment, Low, High
<1>4. TapeFrames' = <<Tape!EmptyFrame>>
  <2>1. TapeFrames'[1] = Tape!EmptyFrame
    BY <1>1, <1>2, <1>3, FramesOfTape, FramesOfNextTape DEF Tape!EmptyFrame
  <2>2. TapeFrames' = [k \in 1..1 |-> Tape!EmptyFrame]
    BY <1>2, <2>1 DEF TapeFrames
  <2> HIDE DEF Tape!EmptyFrame
  <2> QED
    BY <2>2
<1>5. Len(TapeFrames) = 1
  BY <1>1, FramesOfTape
<1> QED
  BY <1>4, <1>5 DEF Tape!Clear, TapeFrames

\* The saved lengths and flat vectors of AutodiffStackStorage implement a stack of
\* independent frames: no operation mixes the items of two nested scopes.
THEOREM TapeImplementsNested == TapeSpec => ImplementsNestedTape
<1>1. TapeInit => Tape!Init
  BY NewTapeIsEmpty
<1>2. ASSUME TapeInv, [TapeNext]_tapeVars
      PROVE  [Tape!Next]_TapeFrames
  <2>1. CASE NewStackedVari
    BY <1>2, <2>1, NewStackedVariExtends DEF Tape!Next, Tape!EmptyFrame
  <2>2. CASE NewUnstackedVari
    BY <1>2, <2>2, NewUnstackedVariExtends DEF Tape!Next, Tape!EmptyFrame
  <2>3. ASSUME NEW len \in Lens, ArenaArray(len) PROVE TapeFrames' = TapeFrames
    BY <2>3, QuietKeepsFrames DEF ArenaArray
  <2>4. ASSUME NEW x \in Objects, NewChainableAlloc(x) PROVE Tape!Next
    BY <1>2, <2>4, NewChainableAllocExtends DEF Tape!Next, Tape!EmptyFrame
  <2>5. CASE StartNested
    BY <1>2, <2>5, StartNestedOpens DEF Tape!Next
  <2>6. CASE RecoverMemoryNested
    BY <1>2, <2>6, RecoverMemoryNestedCloses DEF Tape!Next
  <2>7. CASE RecoverMemory
    BY <1>2, <2>7, RecoverMemoryClears DEF Tape!Next
  <2>8. CASE UNCHANGED tapeVars
    BY <2>8, QuietKeepsFrames DEF tapeVars
  <2> QED
    BY <1>2, <2>1, <2>2, <2>3, <2>4, <2>5, <2>6, <2>7, <2>8 DEF TapeNext
<1>3. [Tape!Next]_TapeFrames <=> [Tape!Next]_([k \in 1..(Depth + 1) |-> Frame(k)])
  BY DEF TapeFrames
<1> QED
  BY <1>1, <1>2, <1>3, TapeInvariance, PTL
  DEF TapeSpec, ImplementsNestedTape, Tape!Spec
=============================================================================
