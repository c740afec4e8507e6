-------------------------- MODULE ReverseSweepProofs --------------------------
(***************************************************************************)
(* Theorems about ReverseSweep, for any number of varis, operands, nested  *)
(* scopes and sweeps.                                                      *)
(*                                                                         *)
(* The invariant places every sweep in the tape: it covers exactly the     *)
(* frame that was innermost when it started, and its callers are all in a  *)
(* callback with a scope of its own below it (Placed).  A vari refers only *)
(* to memory of the same user code (Local), and what it passes on is       *)
(* complete when the sweep gets to it (Ordered).  So each sweep's adjoints *)
(* are always those of the part of its frame it has done (Sound): no step  *)
(* of a sweep above it, finished or abandoned, adds to them.  When a sweep *)
(* is finished they solve the recursion that defines the derivative, and   *)
(* the recursion has one solution, because the tape is ordered.            *)
(***************************************************************************)
EXTENDS ReverseSweep, AutodiffTapeProofs, FiniteSetTheorems

-----------------------------------------------------------------------------
(* One sweep against the adjoints *)

\* Every adjoint in scope is what the varis in done have passed on to it.
Adds(root, scope, done, a, nd) ==
  \A v \in scope :
    a[v] = (IF v = root THEN 1 ELSE 0)
           + SumOver({n \in done : v \in nd[n].ops}, [n \in done |-> a[nd[n].src]])

\* It stays so while nothing of it changes.
LEMMA AddsKept ==
  ASSUME NEW root, NEW scope, NEW done, NEW a, NEW nd, NEW b, NEW md,
         Adds(root, scope, done, a, nd),
         \A v \in scope : b[v] = a[v],
         \A n \in done : md[n] = nd[n] /\ nd[n].src \in scope
  PROVE  Adds(root, scope, done, b, md)
<1> SUFFICES ASSUME NEW v \in scope
             PROVE  b[v] = (IF v = root THEN 1 ELSE 0)
                           + SumOver({n \in done : v \in md[n].ops},
                                     [n \in done |-> b[md[n].src]])
  BY DEF Adds
<1>1. {n \in done : v \in md[n].ops} = {n \in done : v \in nd[n].ops}
  OBVIOUS
<1>2. [n \in done |-> b[md[n].src]] = [n \in done |-> a[nd[n].src]]
  OBVIOUS
<1> QED
  BY <1>1, <1>2 DEF Adds

\* chain() of x: its adjoint is complete, and goes to each of its operands.
LEMMA AddsPassedOn ==
  ASSUME NEW root, NEW done, IsFiniteSet(done), NEW x, x \notin done,
         NEW nd, NEW a, a \in [DOMAIN a -> Nat], NEW scope, scope \subseteq DOMAIN a,
         Adds(root, scope, done, a, nd),
         \A n \in done \cup {x} : nd[n].src \in DOMAIN a /\ nd[n].src \notin nd[x].ops,
         NEW b, b = [v \in DOMAIN a |-> IF v \in nd[x].ops THEN a[v] + a[nd[x].src] ELSE a[v]]
  PROVE  Adds(root, scope, done \cup {x}, b, nd)
<1> DEFINE more == done \cup {x}
           term == [n \in more |-> b[nd[n].src]]
           users(v, D) == {n \in D : v \in nd[n].ops}
<1>1. \A n \in more : term[n] = a[nd[n].src] /\ term[n] \in Nat
  OBVIOUS
<1> SUFFICES ASSUME NEW v \in scope
             PROVE  b[v] = (IF v = root THEN 1 ELSE 0) + SumOver(users(v, more), term)
  BY DEF Adds
<1>2. IsFiniteSet(users(v, done)) /\ x \notin users(v, done) /\ users(v, done) \subseteq done
  <2>1. users(v, done) \in SUBSET done
    OBVIOUS
  <2> QED
    BY <2>1, FS_Subset
<1>3. a[v] = (IF v = root THEN 1 ELSE 0) + SumOver(users(v, done), term)
  <2> DEFINE old == [n \in done |-> a[nd[n].src]]
  <2>1. \A n \in users(v, done) : old[n] = term[n]
    BY <1>1, <1>2
  <2>2. a[v] = (IF v = root THEN 1 ELSE 0) + SumOver(users(v, done), old)
    BY DEF Adds
  <2>3. SumOver(users(v, done), old) = SumOver(users(v, done), term)
    <3> HIDE DEF old, term, users
    <3> QED
      BY <2>1, SumSame
  <2> QED
    BY <2>2, <2>3
<1>4. SumOver(users(v, done), term) \in Nat
  <2>1. \A n \in users(v, done) : term[n] \in Nat
    BY <1>1, <1>2
  <2> HIDE DEF term, users
  <2> QED
    BY <1>2, <2>1, SumType
<1>5. CASE v \in nd[x].ops
  <2>1. users(v, more) = users(v, done) \cup {x}
    BY <1>5
  <2>2. \A n \in users(v, done) \cup {x} : term[n] \in Nat
    BY <1>1, <1>2
  <2>3. term[x] = a[nd[x].src] /\ a[nd[x].src] \in Nat
    BY <1>1
  <2>4. SumOver(users(v, done) \cup {x}, term) = SumOver(users(v, done), term) + term[x]
    <3> HIDE DEF term, users
    <3> QED
      BY <1>2, <2>2, SumAdd
  <2>5. b[v] = a[v] + a[nd[x].src]
    BY <1>5
  <2> HIDE DEF term, users, more
  <2> QED
    BY <1>3, <1>4, <2>1, <2>3, <2>4, <2>5
<1>6. CASE v \notin nd[x].ops
  <2>1. users(v, more) = users(v, done)
    BY <1>6
  <2>2. b[v] = a[v]
    BY <1>6
  <2> HIDE DEF term, users, more
  <2> QED
    BY <1>3, <2>1, <2>2
<1> QED
  BY <1>5, <1>6

-----------------------------------------------------------------------------
(* The inductive invariant *)

Sweep == [root : Extent, end : Nat, begin : Nat, i : Nat, clean : BOOLEAN,
          busy : BOOLEAN, entry : Nat]
Node == [kind : {"leaf", "op", "callback"}, ops : SUBSET Extent, src : Extent]

SweepTypes ==
  /\ sweeps \in Seq(Sweep)
  /\ node \in [Live -> Node]
  /\ DOMAIN adj \subseteq Live
  /\ adj \in [DOMAIN adj -> Nat]

\* The nesting depth at which sweep k was started.
Home(k) == IF sweeps[k].busy THEN sweeps[k].entry ELSE Depth

\* The memory of the frames m+1..n.
Frames(m, n) == UNION {live[j] : j \in (m + 1)..n}

\* The variables the caller of sweep k computes with.
Scope(k) == DOMAIN adj \cap Frames(Opened(k - 1), Home(k) + 1)

\* Sweep k covers the innermost frame of its caller, its callers are all in a callback, and
\* each callback opened a scope of its own.
PlacedAt(k) ==
  /\ k < Len(sweeps) => sweeps[k].busy
  /\ sweeps[k].busy => sweeps[k].entry < Depth /\ sweeps[k].begin < sweeps[k].i
  /\ \A j \in 1..(k - 1) : sweeps[j].entry < Home(k)
  /\ sweeps[k].begin = Low(nested_var_stack_sizes_, Home(k) + 1)
  /\ sweeps[k].end = High(nested_var_stack_sizes_, var_stack_, Home(k) + 1)
  /\ sweeps[k].i \in sweeps[k].begin..sweeps[k].end
  /\ sweeps[k].root \in Scope(k)

Placed == \A k \in DOMAIN sweeps : PlacedAt(k)

\* A vari of frame k may refer to x: x has an adjoint, and is memory of the same user code.
MayRefer(k, x) ==
  /\ x \in DOMAIN adj
  /\ \E m \in 1..k :
       /\ x \in live[m]
       /\ \A j \in DOMAIN sweeps :
            (sweeps[j].busy /\ sweeps[j].entry + 1 < k) => m > sweeps[j].entry + 1

Refers(v) == node[v].ops \cup {node[v].src}

Local == \A k \in DOMAIN live : \A v \in live[k] : \A x \in Refers(v) : MayRefer(k, x)

\* What a vari passes on is complete when the sweep gets to it: nothing at or below its
\* place on the tape adds to it.
Ordered ==
  \A q \in DOMAIN var_stack_ : \A p \in 1..q :
    node[var_stack_[q]].src \notin node[var_stack_[p]].ops

\* The adjoints are those of the part of the tape sweep k has done.
SoundAt(k) ==
  sweeps[k].clean =>
    Adds(sweeps[k].root, Scope(k), Stretch(sweeps[k].i, sweeps[k].end), adj, node)

Sound == \A k \in DOMAIN sweeps : SoundAt(k)

SweepInv == TapeInv /\ SweepTypes /\ Placed /\ Local /\ Ordered /\ Sound

-----------------------------------------------------------------------------
(* What the invariant says *)

\* A sweep, member by member.
LEMMA SweepFields ==
  ASSUME NEW s \in Sweep
  PROVE  /\ s.root \in Extent /\ s.end \in Nat /\ s.begin \in Nat /\ s.i \in Nat
         /\ s.clean \in BOOLEAN /\ s.busy \in BOOLEAN /\ s.entry \in Nat
BY DEF Sweep

\* The tape and the frames, as every step below uses them.
LEMMA SweepFacts ==
  ASSUME TapeInv, SweepTypes
  PROVE  /\ Depth \in Nat /\ live \in Seq(SUBSET Extent) /\ Len(live) = Depth + 1
         /\ DOMAIN live = 1..(Depth + 1)
         /\ nested_var_stack_sizes_ \in Seq(Nat) /\ Len(nested_var_stack_sizes_) = Depth
         /\ var_stack_ \in Seq(Extent)
         /\ \A j \in 1..Depth : nested_var_stack_sizes_[j] \in 0..Len(var_stack_)
         /\ \A j \in 1..Depth : \A l \in j..Depth :
              nested_var_stack_sizes_[j] <= nested_var_stack_sizes_[l]
         /\ Len(sweeps) \in Nat /\ DOMAIN sweeps = 1..Len(sweeps)
         /\ \A k \in 1..Len(sweeps) : sweeps[k] \in Sweep
         /\ \A k \in 1..Len(sweeps) : Home(k) \in Nat
         /\ \A k \in 0..Len(sweeps) : Opened(k) \in Nat
<1>1. /\ Depth \in Nat /\ live \in Seq(SUBSET Extent) /\ Len(live) = Depth + 1
      /\ nested_var_stack_sizes_ \in Seq(Nat) /\ Len(nested_var_stack_sizes_) = Depth
      /\ var_stack_ \in Seq(Extent) /\ SavedLengths(nested_var_stack_sizes_, var_stack_)
  BY TapeFacts
<1>2. DOMAIN live = 1..(Depth + 1) /\ DOMAIN nested_var_stack_sizes_ = 1..Depth
  BY <1>1
<1>3. /\ \A j \in 1..Depth : nested_var_stack_sizes_[j] \in 0..Len(var_stack_)
      /\ \A j \in 1..Depth : \A l \in j..Depth :
           nested_var_stack_sizes_[j] <= nested_var_stack_sizes_[l]
  <2>1. ASSUME NEW j \in 1..Depth
        PROVE  /\ nested_var_stack_sizes_[j] \in 0..Len(var_stack_)
               /\ \A l \in j..Depth : nested_var_stack_sizes_[j] <= nested_var_stack_sizes_[l]
    <3>1. nested_var_stack_sizes_[j] \in Nat /\ Len(var_stack_) \in Nat
      BY <1>1, <1>2
    <3>2. /\ nested_var_stack_sizes_[j] <= Len(var_stack_)
          /\ \A l \in j..Depth : nested_var_stack_sizes_[j] <= nested_var_stack_sizes_[l]
      BY <1>1, <1>2 DEF SavedLengths
    <3> QED
      BY <3>1, <3>2
  <2> QED
    BY <2>1
<1>4. /\ Len(sweeps) \in Nat /\ DOMAIN sweeps = 1..Len(sweeps)
      /\ \A k \in 1..Len(sweeps) : sweeps[k] \in Sweep
  BY DEF SweepTypes
<1>5. \A k \in 1..Len(sweeps) : sweeps[k].entry \in Nat
  BY <1>4, SweepFields
<1>6. \A k \in 1..Len(sweeps) : Home(k) \in Nat
  BY <1>1, <1>5 DEF Home
<1>7. \A k \in 0..Len(sweeps) : Opened(k) \in Nat
  BY <1>4, <1>5 DEF Opened
<1> QED
  BY <1>1, <1>2, <1>3, <1>4, <1>6, <1>7

\* No memory belongs to two frames.
LEMMA FramesApart ==
  ASSUME Inv, NEW j \in DOMAIN live, NEW k \in DOMAIN live, j < k, NEW e \in live[j]
  PROVE  e \notin live[k]
<1> SUFFICES ASSUME e \in live[k] PROVE FALSE
  OBVIOUS
<1>1. /\ live \in Seq(SUBSET Extent) /\ Len(live) = Len(nested_cur_blocks_) + 1
      /\ nested_next_locs_ \in Seq(Pointer)
      /\ Len(nested_next_locs_) = Len(nested_cur_blocks_)
      /\ Len(nested_cur_blocks_) \in Nat
  BY DEF Inv, TypeOK
<1>2. j \in DOMAIN nested_next_locs_ /\ e \in Extent /\ nested_next_locs_[j] \in Pointer
  BY <1>1
<1>3. UpTo(EndOf(e), nested_next_locs_[j])
  BY <1>2 DEF Inv, FramesOrdered
<1>4. UpTo(nested_next_locs_[j], StartOf(e))
  BY <1>1, <1>2 DEF Inv, FramesOrdered
<1> QED
  BY <1>2, <1>3, <1>4 DEF UpTo, EndOf, StartOf, PointerAt, Extent, Pointer

\* An element of consecutive frames is in one of them.
LEMMA InFrames1 ==
  ASSUME NEW m, NEW n, NEW x
  PROVE  x \in Frames(m, n) <=> \E j \in (m + 1)..n : x \in live[j]
BY DEF Frames

\* When the first n sweeps are all in a callback, each opened its scope in that of the
\* one before.
LEMMA CallersNest ==
  ASSUME TapeInv, SweepTypes, Placed,
         NEW n \in 0..Len(sweeps), \A k \in 1..n : sweeps[k].busy
  PROVE  /\ Opened(n) \in 0..Depth
         /\ \A k \in 1..n : Home(k) = sweeps[k].entry /\ sweeps[k].entry \in Nat
                            /\ sweeps[k].entry + 1 <= Opened(n)
                            /\ Opened(k - 1) \in 0..sweeps[k].entry
<1>1. /\ Len(sweeps) \in Nat /\ Depth \in Nat /\ \A k \in 1..Len(sweeps) : PlacedAt(k)
      /\ \A k \in 0..Len(sweeps) : Opened(k) \in Nat
  BY SweepFacts DEF Placed
<1>2. \A k \in 1..n : k \in 1..Len(sweeps) /\ Home(k) = sweeps[k].entry /\ sweeps[k].entry \in Nat
  BY <1>1, SweepFacts DEF Home
<1>3. \A k \in 1..n : \A j \in 1..(k - 1) : sweeps[j].entry < sweeps[k].entry
  BY <1>1, <1>2 DEF PlacedAt
<1>4. ASSUME NEW k \in 1..n
      PROVE  sweeps[k].entry + 1 <= Opened(n)
  <2>1. n # 0 /\ Opened(n) = sweeps[n].entry + 1
    BY DEF Opened
  <2>2. CASE k = n
    BY <1>2, <2>1, <2>2
  <2>3. CASE k # n
    <3>1. k \in 1..(n - 1) /\ n \in 1..n
      BY <1>1, <2>3
    <3>2. sweeps[k].entry < sweeps[n].entry
      BY <1>3, <3>1
    <3> QED
      BY <1>2, <2>1, <3>1, <3>2
  <2> QED
    BY <2>2, <2>3
<1>5. ASSUME NEW k \in 1..n
      PROVE  Opened(k - 1) \in 0..sweeps[k].entry
  <2>1. CASE k = 1
    BY <1>2, <2>1 DEF Opened
  <2>2. CASE k # 1
    <3>1. k - 1 \in 1..(k - 1) /\ k - 1 \in 1..n /\ k - 1 # 0
      BY <1>1, <2>2
    <3>2. sweeps[k - 1].entry < sweeps[k].entry
      BY <1>3, <3>1
    <3> QED
      BY <1>2, <3>1, <3>2 DEF Opened
  <2> QED
    BY <2>1, <2>2
<1>6. Opened(n) \in 0..Depth
  <2>1. CASE n = 0
    BY <1>1, <2>1 DEF Opened
  <2>2. CASE n # 0
    <3>1. n \in 1..n /\ n \in 1..Len(sweeps)
      BY <1>1, <2>2
    <3>2. sweeps[n].entry < Depth
      BY <1>1, <3>1 DEF PlacedAt
    <3> QED
      BY <1>1, <1>2, <2>2, <3>1, <3>2 DEF Opened
  <2> QED
    BY <2>1, <2>2
<1> QED
  BY <1>2, <1>4, <1>5, <1>6

\* Every sweep starts above the scopes of its callers.
LEMMA HomeAbove ==
  ASSUME TapeInv, SweepTypes, Placed, NEW k \in DOMAIN sweeps
  PROVE  /\ Home(k) \in 0..Depth
         /\ Opened(k - 1) \in 0..Home(k)
         /\ \A j \in DOMAIN sweeps : j < k => sweeps[j].busy /\ sweeps[j].entry < Home(k)
         /\ \A j \in 1..(k - 1) : sweeps[j].busy
<1>1. /\ Len(sweeps) \in Nat /\ k \in 1..Len(sweeps) /\ PlacedAt(k) /\ Depth \in Nat
      /\ DOMAIN sweeps = 1..Len(sweeps) /\ Home(k) \in Nat
  BY SweepFacts DEF Placed
<1>2. \A j \in DOMAIN sweeps : j < k => sweeps[j].busy /\ sweeps[j].entry < Home(k)
  BY <1>1 DEF Placed, PlacedAt
<1>3. Home(k) \in 0..Depth
  BY <1>1 DEF PlacedAt, Home
<1>4. Opened(k - 1) \in 0..Home(k)
  <2>1. CASE k = 1
    BY <1>3, <2>1 DEF Opened
  <2>2. CASE k # 1
    <3>1. k - 1 \in DOMAIN sweeps /\ k - 1 < k /\ k - 1 # 0
      BY <1>1, <2>2
    <3>2. sweeps[k - 1].entry < Home(k) /\ sweeps[k - 1].entry \in Nat
      BY <1>1, <1>2, <3>1, SweepFacts, SweepFields
    <3> QED
      BY <1>1, <3>1, <3>2 DEF Opened
  <2> QED
    BY <2>1, <2>2
<1> QED
  BY <1>1, <1>2, <1>3, <1>4

\* What sweep k covers is its caller's innermost frame.
LEMMA Covered ==
  ASSUME TapeInv, SweepTypes, Placed, Local, NEW k \in DOMAIN sweeps,
         NEW p \in (sweeps[k].begin + 1)..sweeps[k].end
  PROVE  /\ p \in 1..Len(var_stack_)
         /\ Home(k) + 1 \in DOMAIN live
         /\ var_stack_[p] \in live[Home(k) + 1]
         /\ var_stack_[p] \in Live
         /\ Refers(var_stack_[p]) \subseteq Scope(k)
<1> DEFINE h == Home(k) + 1
<1>1. PlacedAt(k) /\ Home(k) \in 0..Depth /\ Opened(k - 1) \in 0..Home(k)
  BY HomeAbove DEF Placed
<1>2. h \in 1..(Depth + 1) /\ h \in DOMAIN live /\ Depth \in Nat
  BY <1>1, SweepFacts
<1>3. p \in Slice(var_stack_, nested_var_stack_sizes_, h)
  BY <1>1 DEF PlacedAt, Slice
<1>4. p \in 1..Len(var_stack_)
  BY <1>2, <1>3, TapeFacts, SliceInStack
<1>5. var_stack_[p] \in live[h]
  BY <1>2, <1>3, TapeFacts DEF TapeInv, InFrames
<1>6. var_stack_[p] \in Live
  BY <1>2, <1>5 DEF Live, LiveIn
<1>7. ASSUME NEW x \in Refers(var_stack_[p])
      PROVE  x \in Scope(k)
  <2>1. MayRefer(h, x)
    BY <1>2, <1>5, <1>7 DEF Local
  <2>2. PICK m \in 1..h :
          /\ x \in live[m]
          /\ \A j \in DOMAIN sweeps :
               (sweeps[j].busy /\ sweeps[j].entry + 1 < h) => m > sweeps[j].entry + 1
    BY <2>1 DEF MayRefer
  <2>3. m > Opened(k - 1)
    <3>1. CASE k = 1
      BY <1>1, <2>2, <3>1 DEF Opened
    <3>2. CASE k # 1
      <4>0. DOMAIN sweeps = 1..Len(sweeps) /\ Len(sweeps) \in Nat
        BY SweepFacts
      <4>1. k - 1 \in DOMAIN sweeps /\ k - 1 < k /\ k - 1 # 0
        BY <3>2, <4>0
      <4>2. sweeps[k - 1].busy /\ sweeps[k - 1].entry < Home(k) /\ sweeps[k - 1].entry \in Nat
        BY <4>1, HomeAbove, SweepFacts, SweepFields
      <4>3. sweeps[k - 1].entry + 1 < h
        BY <1>1, <4>2
      <4> QED
        BY <2>2, <4>1, <4>2, <4>3 DEF Opened
    <3> QED
      BY <3>1, <3>2
  <2>4. m \in (Opened(k - 1) + 1)..h
    BY <1>1, <2>2, <2>3
  <2> QED
    BY <2>1, <2>2, <2>4, InFrames1 DEF Scope, MayRefer
<1> QED
  BY <1>2, <1>4, <1>5, <1>6, <1>7

\* A stretch of the tape holds finitely many varis.
LEMMA StretchFinite ==
  ASSUME NEW m \in Nat, NEW n \in Nat
  PROVE  IsFiniteSet(Stretch(m, n))
<1> DEFINE f == [p \in (m + 1)..n |-> var_stack_[p]]
<1>1. IsFiniteSet((m + 1)..n)
  BY FS_Interval
<1>2. f \in Surjection((m + 1)..n, Stretch(m, n))
  BY DEF Surjection, Stretch
<1> QED
  BY <1>1, <1>2, FS_Surjection

-----------------------------------------------------------------------------
(* What the invariant implies *)

\* A nested sweep starts where the sweep that called it ends, or above.
LEMMA InvKeepsApart == SweepInv => SweepsStayApart
<1> SUFFICES ASSUME SweepInv, NEW k \in DOMAIN sweeps
             PROVE  /\ sweeps[k].i \in sweeps[k].begin..sweeps[k].end
                    /\ sweeps[k].end <= Len(var_stack_)
                    /\ k > 1 => sweeps[k].begin >= sweeps[k - 1].end
  BY DEF SweepsStayApart
<1>1. PlacedAt(k) /\ Home(k) \in 0..Depth
  BY HomeAbove DEF SweepInv, Placed
<1>2. /\ Depth \in Nat /\ Len(nested_var_stack_sizes_) = Depth
      /\ \A j \in 1..Depth : nested_var_stack_sizes_[j] \in 0..Len(var_stack_)
      /\ \A j \in 1..Depth : \A l \in j..Depth :
           nested_var_stack_sizes_[j] <= nested_var_stack_sizes_[l]
      /\ Len(var_stack_) \in Nat
  BY SweepFacts DEF SweepInv
<1>3. sweeps[k].end <= Len(var_stack_)
  BY <1>1, <1>2 DEF PlacedAt, High
<1>4. ASSUME k > 1
      PROVE  sweeps[k].begin >= sweeps[k - 1].end
  <2>1. k - 1 \in DOMAIN sweeps /\ k - 1 < k
    BY <1>4, SweepFacts DEF SweepInv
  <2>2. /\ sweeps[k - 1].busy /\ sweeps[k - 1].entry < Home(k) /\ PlacedAt(k - 1)
        /\ sweeps[k - 1].entry \in Nat
    BY <2>1, HomeAbove, SweepFacts, SweepFields DEF SweepInv, Placed
  <2>3. sweeps[k - 1].end = nested_var_stack_sizes_[sweeps[k - 1].entry + 1]
    BY <1>1, <1>2, <2>2 DEF PlacedAt, High, Home
  <2>4. sweeps[k].begin = nested_var_stack_sizes_[Home(k)]
    BY <1>1, <2>2 DEF PlacedAt, Low
  <2>5. sweeps[k - 1].entry + 1 \in 1..Depth /\ Home(k) \in (sweeps[k - 1].entry + 1)..Depth
    BY <1>1, <1>2, <2>2
  <2>6. /\ nested_var_stack_sizes_[sweeps[k - 1].entry + 1] \in Nat
        /\ nested_var_stack_sizes_[Home(k)] \in Nat
        /\ nested_var_stack_sizes_[sweeps[k - 1].entry + 1] <= nested_var_stack_sizes_[Home(k)]
    BY <1>2, <2>5
  <2> QED
    BY <2>3, <2>4, <2>6
<1> QED
  BY <1>1, <1>3, <1>4 DEF PlacedAt

\* The number of ways the root depends on v, if g is that of every vari.
Ways(s, g, v) ==
  (IF v = s.root THEN 1 ELSE 0)
  + SumOver({n \in Stretch(s.begin, s.end) : v \in node[n].ops},
            [n \in DOMAIN node |-> g[node[n].src]])

Solves(s, g) == g = [v \in DOMAIN adj |-> Ways(s, g, v)]

\* The recursion of Dependence has a solution if anything solves it.
LEMMA DependenceSolves ==
  ASSUME NEW s, NEW g, Solves(s, g)
  PROVE  Solves(s, Dependence(s))
BY DEF Solves, Ways, Dependence

\* A finished sweep has left adjoints that satisfy the recursion, and its only solution: what
\* passes on to a vari is above it on the tape.
LEMMA InvIsGradient == SweepInv => GradientCorrect
<1> SUFFICES ASSUME SweepInv, Sweeping, Finished(Current), Current.clean
             PROVE  \A v \in Usable : adj[v] = Dependence(Current)[v]
  BY DEF GradientCorrect
<1> DEFINE n == Len(sweeps)
           s == Current
           scope == Scope(n)
           covered == Stretch(s.begin, s.end)
<1>1. /\ n \in Nat /\ n \in DOMAIN sweeps /\ n # 0 /\ s = sweeps[n] /\ s \in Sweep
      /\ PlacedAt(n) /\ Home(n) = Depth /\ Depth \in Nat /\ Len(live) = Depth + 1
  BY SweepFacts DEF SweepInv, Sweeping, SweepTypes, Current, Placed, Finished, Home
<1>2. scope = Usable /\ scope \subseteq DOMAIN adj
  <2>1. BaseDepth = Opened(n - 1)
    BY <1>1 DEF BaseDepth, UserRuns, Finished
  <2> QED
    BY <1>1, <2>1 DEF Scope, Usable, Frames
<1>3. Adds(s.root, scope, covered, adj, node)
  BY <1>1 DEF SweepInv, Sound, SoundAt, Finished
<1>4. s.root \in scope /\ s.begin \in Nat /\ s.end \in Nat
  BY <1>1, SweepFields DEF PlacedAt
<1>5. ASSUME NEW p \in (s.begin + 1)..s.end
      PROVE  /\ p \in 1..Len(var_stack_) /\ var_stack_[p] \in covered
             /\ var_stack_[p] \in Live /\ Refers(var_stack_[p]) \subseteq scope
  BY <1>1, Covered DEF SweepInv, Stretch
<1>6. \A x \in covered : \E p \in (s.begin + 1)..s.end : x = var_stack_[p]
  BY DEF Stretch
<1>7. DOMAIN node = Live /\ adj \in [DOMAIN adj -> Nat]
  BY DEF SweepInv, SweepTypes
<1>8. \A x \in covered : /\ x \in DOMAIN node /\ node[x].src \in scope
                         /\ node[x].src \in DOMAIN adj /\ node[x].ops \subseteq scope
  BY <1>2, <1>5, <1>6, <1>7 DEF Refers
<1> HIDE DEF n, s, scope, covered
<1> DEFINE g == [v \in DOMAIN adj |-> IF v \in scope THEN adj[v] ELSE 0]
           users(v) == {x \in covered : v \in node[x].ops}
           terms(f) == [x \in DOMAIN node |-> f[node[x].src]]
<1>9. \A x \in covered : terms(g)[x] = adj[node[x].src] /\ terms(g)[x] = g[node[x].src]
  BY <1>8
<1>10. ASSUME NEW f, NEW v
       PROVE  Ways(s, f, v) = (IF v = s.root THEN 1 ELSE 0) + SumOver(users(v), terms(f))
  BY DEF Ways, covered
<1>11. Solves(s, g)
  <2>1. ASSUME NEW v \in DOMAIN adj
        PROVE  g[v] = Ways(s, g, v)
    <3>1. CASE v \in scope
      <4> DEFINE old == [x \in covered |-> adj[node[x].src]]
      <4>1. adj[v] = (IF v = s.root THEN 1 ELSE 0) + SumOver(users(v), old)
        BY <1>3, <3>1 DEF Adds
      <4>2. \A x \in users(v) : old[x] = terms(g)[x]
        BY <1>9
      <4>3. SumOver(users(v), old) = SumOver(users(v), terms(g))
        <5> HIDE DEF users, terms, old
        <5> QED
          BY <4>2, SumSame
      <4>4. g[v] = adj[v]
        BY <3>1
      <4> HIDE DEF users, terms, old, g
      <4> QED
        BY <1>10, <4>1, <4>3, <4>4
    <3>2. CASE v \notin scope
      <4>1. users(v) = {}
        BY <1>8, <3>2
      <4>2. v # s.root /\ g[v] = 0
        BY <1>4, <3>2
      <4>3. SumOver({}, terms(g)) = 0
        BY SumEmpty
      <4> HIDE DEF users, terms, g
      <4> QED
        BY <1>10, <4>1, <4>2, <4>3
    <3> QED
      BY <3>1, <3>2
  <2>2. g = [v \in DOMAIN adj |-> g[v]]
    OBVIOUS
  <2> HIDE DEF g
  <2> QED
    BY <2>1, <2>2 DEF Solves
<1> DEFINE f == Dependence(s)
<1>12. \A v \in DOMAIN adj : f[v] = Ways(s, f, v)
  <2>1. Solves(s, f)
    <3> HIDE DEF g
    <3> QED
      BY <1>11, DependenceSolves
  <2> HIDE DEF f
  <2> QED
    BY <2>1 DEF Solves
<1>13. \A v \in DOMAIN adj : g[v] = Ways(s, g, v)
  <2> HIDE DEF g
  <2> QED
    BY <1>11 DEF Solves
<1> HIDE DEF f, g
\* Two solutions agree on v if they agree on what is passed on to it.
<1>14. ASSUME NEW v \in DOMAIN adj, \A x \in users(v) : f[node[x].src] = g[node[x].src]
       PROVE  f[v] = g[v]
  <2>1. \A x \in users(v) : terms(f)[x] = terms(g)[x]
    BY <1>8, <1>14
  <2>2. SumOver(users(v), terms(f)) = SumOver(users(v), terms(g))
    <3> HIDE DEF users, terms
    <3> QED
      BY <2>1, SumSame
  <2>3. Ways(s, f, v) = Ways(s, g, v)
    <3> HIDE DEF users, terms
    <3> QED
      BY <1>10, <2>2
  <2> QED
    BY <1>12, <1>13, <2>3
<1>15. \A x \in covered : f[node[x].src] = g[node[x].src]
  <2> DEFINE Wrong == {d \in 0..s.end : /\ s.end - d \in (s.begin + 1)..s.end
                                        /\ LET v == node[var_stack_[s.end - d]].src
                                           IN  f[v] # g[v]}
  <2>1. CASE Wrong = {}
    <3>1. ASSUME NEW p \in (s.begin + 1)..s.end
          PROVE  f[node[var_stack_[p]].src] = g[node[var_stack_[p]].src]
      <4>1. s.end - p \in 0..s.end /\ s.end - (s.end - p) = p
        BY <1>4
      <4> QED
        BY <2>1, <4>1
    <3> QED
      BY <1>6, <3>1
  <2>2. CASE Wrong # {}
    <3>1. PICK d \in Wrong : \A c \in Wrong : d <= c
      <4>1. Wrong \subseteq Nat
        BY <1>4
      <4> HIDE DEF Wrong
      <4> QED
        BY <2>2, <4>1, LeastNatural
    <3> DEFINE q == s.end - d
               v == node[var_stack_[q]].src
    <3>2. q \in (s.begin + 1)..s.end /\ f[v] # g[v]
      BY <3>1
    <3>3. ASSUME NEW p \in (s.begin + 1)..s.end, p > q
          PROVE  f[node[var_stack_[p]].src] = g[node[var_stack_[p]].src]
      <4>1. s.end - p \in 0..s.end /\ s.end - (s.end - p) = p /\ ~ (d <= s.end - p)
        BY <1>4, <3>1, <3>3
      <4> QED
        BY <3>1, <4>1
    <3> HIDE DEF q, Wrong
    <3>4. v \in DOMAIN adj
      BY <1>2, <1>5, <3>2 DEF Refers
    <3>5. ASSUME NEW x \in users(v)
          PROVE  f[node[x].src] = g[node[x].src]
      <4>1. PICK p \in (s.begin + 1)..s.end : x = var_stack_[p]
        BY <1>6
      <4>2. p > q
        <5>1. p \in 1..Len(var_stack_) /\ q \in 1..Len(var_stack_)
          BY <1>5, <3>2
        <5>2. v \in node[var_stack_[p]].ops
          BY <4>1
        <5>3. DOMAIN var_stack_ = 1..Len(var_stack_) /\ Len(var_stack_) \in Nat
          BY SweepFacts DEF SweepInv
        <5>4. p \notin 1..q
          BY <5>1, <5>2, <5>3 DEF SweepInv, Ordered
        <5> QED
          BY <5>1, <5>3, <5>4
      <4> QED
        BY <3>3, <4>1, <4>2
    <3> HIDE DEF v
    <3> QED
      BY <1>14, <3>2, <3>4, <3>5
  <2> QED
    BY <2>1, <2>2
<1>16. ASSUME NEW v \in Usable
       PROVE  adj[v] = f[v]
  <2>1. v \in scope /\ v \in DOMAIN adj
    BY <1>2
  <2>2. f[v] = g[v]
    BY <1>14, <1>15, <2>1
  <2>3. g[v] = adj[v]
    BY <2>1 DEF g
  <2> QED
    BY <2>2, <2>3
<1> QED
  BY <1>16 DEF f, s

-----------------------------------------------------------------------------
(* What a step leaves alone *)

\* A step that leaves the frames of the first n callers alone leaves their sweeps as they
\* were, however the tape above them changed.
LEMMA CallersUntouched ==
  ASSUME SweepInv, TapeInv', sweeps' \in Seq(Sweep),
         NEW n \in 0..Len(sweeps), n <= Len(sweeps'),
         \A k \in 1..n : sweeps[k].busy /\ sweeps'[k] = sweeps[k],
         Opened(n) <= Depth',
         \A j \in 1..Opened(n) :
           /\ nested_var_stack_sizes_'[j] = nested_var_stack_sizes_[j]
           /\ live'[j] = live[j]
           /\ \A p \in 1..nested_var_stack_sizes_[j] : var_stack_'[p] = var_stack_[p]
           /\ \A v \in live[j] : /\ node'[v] = node[v]
                                 /\ v \in DOMAIN adj' <=> v \in DOMAIN adj
                                 /\ v \in DOMAIN adj => adj'[v] = adj[v]
  PROVE  \A k \in 1..n : PlacedAt(k)' /\ SoundAt(k)'
<1> SUFFICES ASSUME NEW k \in 1..n
             PROVE  PlacedAt(k)' /\ SoundAt(k)'
  OBVIOUS
<1> DEFINE e == sweeps[k].entry
<1>1. /\ Depth \in Nat /\ Len(sweeps) \in Nat /\ k \in 1..Len(sweeps) /\ k \in DOMAIN sweeps
      /\ DOMAIN sweeps = 1..Len(sweeps) /\ Len(nested_var_stack_sizes_) = Depth
      /\ \A j \in 1..Depth : nested_var_stack_sizes_[j] \in 0..Len(var_stack_)
      /\ \A j \in 1..Depth : \A l \in j..Depth :
           nested_var_stack_sizes_[j] <= nested_var_stack_sizes_[l]
  BY SweepFacts DEF SweepInv
<1>2. Len(nested_var_stack_sizes_)' = Depth' /\ Depth' \in Nat /\ Len(sweeps') \in Nat
  BY DEF TapeInv, Inv, TypeOK, EquallyDeep, TapeTypeOK, Depth
<1>3. Opened(n) \in 0..Depth
  BY CallersNest DEF SweepInv
<1>4. Home(k) = e /\ e \in Nat /\ e + 1 <= Opened(n) /\ Opened(k - 1) \in 0..e
  BY CallersNest DEF SweepInv
<1>5. PlacedAt(k) /\ SoundAt(k) /\ sweeps[k] \in Sweep /\ sweeps[k].busy
  BY <1>1, SweepFacts DEF SweepInv, Placed, Sound
<1>6. sweeps'[k] = sweeps[k]
  OBVIOUS
<1>7. Home(k)' = e
  BY <1>5, <1>6 DEF Home
<1>8. e + 1 \in 1..Opened(n) /\ e + 1 \in 1..Depth /\ e + 1 <= Depth'
  <2> HIDE DEF e
  <2> QED
    BY <1>1, <1>2, <1>3, <1>4
<1>9. Opened(k - 1)' = Opened(k - 1)
  <2>1. CASE k = 1
    BY <2>1 DEF Opened
  <2>2. CASE k # 1
    <3>1. k - 1 \in 1..n /\ k - 1 # 0
      BY <2>2
    <3> QED
      BY <3>1 DEF Opened
  <2> QED
    BY <2>1, <2>2
<1>10. \A j \in (Opened(k - 1) + 1)..(e + 1) : j \in 1..Opened(n)
  BY <1>3, <1>4, <1>8
<1>11. Scope(k)' = Scope(k)
  <2>1. \A v : v \in Scope(k) <=>
          v \in DOMAIN adj /\ \E j \in (Opened(k - 1) + 1)..(e + 1) : v \in live[j]
    BY <1>4 DEF Scope, Frames
  <2>2. \A v : v \in Scope(k)' <=>
          v \in DOMAIN adj' /\ \E j \in (Opened(k - 1) + 1)..(e + 1) : v \in live'[j]
    BY <1>7, <1>9 DEF Scope, Frames
  <2>3. \A v : v \in Scope(k) <=> v \in Scope(k)'
    BY <2>1, <2>2, <1>10
  <2> QED
    BY <2>3
<1>12. sweeps[k].begin = Low(nested_var_stack_sizes_', e + 1)
  <2>1. sweeps[k].begin = Low(nested_var_stack_sizes_, e + 1)
    BY <1>4, <1>5 DEF PlacedAt
  <2>2. CASE e = 0
    BY <2>1, <2>2 DEF Low
  <2>3. CASE e # 0
    <3>1. e \in 1..Opened(n) /\ e + 1 # 1 /\ (e + 1) - 1 = e
      <4>1. Opened(n) \in Nat /\ e \in Nat /\ e + 1 <= Opened(n)
        BY <1>1, <1>3, <1>4
      <4> HIDE DEF e
      <4>2. e \in 1..Opened(n)
        BY <2>3, <4>1
      <4>3. e + 1 # 1 /\ (e + 1) - 1 = e
        BY <2>3, <4>1
      <4> QED
        BY <4>2, <4>3
    <3> QED
      BY <2>1, <3>1 DEF Low
  <2> QED
    BY <2>2, <2>3
<1>13. /\ sweeps[k].end = nested_var_stack_sizes_[e + 1]
       /\ sweeps[k].end = High(nested_var_stack_sizes_', var_stack_', e + 1)
  <2>1. sweeps[k].end = High(nested_var_stack_sizes_, var_stack_, e + 1)
    BY <1>4, <1>5 DEF PlacedAt
  <2>2. PICK x \in Nat : x = e + 1
    BY <1>4
  <2>3. x \in 1..Opened(n) /\ x <= Depth /\ x <= Depth'
    BY <1>8, <2>2
  <2>4. Depth \in Nat /\ Depth' \in Nat
    BY <1>1, <1>2
  <2>5. x # Depth + 1 /\ x # Depth' + 1
    <3>1. \A d \in Nat : x <= d => x # d + 1
      OBVIOUS
    <3> QED
      BY <3>1, <2>3, <2>4
  <2>6. nested_var_stack_sizes_'[x] = nested_var_stack_sizes_[x]
    BY <2>3
  <2>7. sweeps[k].end = nested_var_stack_sizes_[x]
    BY <1>1, <2>1, <2>2, <2>5 DEF High
  <2>8. High(nested_var_stack_sizes_', var_stack_', x) = nested_var_stack_sizes_'[x]
    BY <1>2, <2>5 DEF High
  <2> QED
    BY <2>2, <2>6, <2>7, <2>8
<1>14. PlacedAt(k)'
  <2>1. \A j \in 1..(k - 1) : sweeps'[j].entry < e
    <3>1. \A j \in 1..(k - 1) : j \in 1..n
      BY <1>1
    <3>2. \A j \in 1..(k - 1) : sweeps[j].entry < e
      BY <1>4, <1>5 DEF PlacedAt
    <3> QED
      BY <3>1, <3>2
  <2>2. e < Depth'
    BY <1>2, <1>4, <1>8
  <2>3. /\ sweeps[k].i \in sweeps[k].begin..sweeps[k].end /\ sweeps[k].root \in Scope(k)
        /\ sweeps[k].begin < sweeps[k].i
    BY <1>5 DEF PlacedAt
  <2> QED
    BY <1>5, <1>6, <1>7, <1>11, <1>12, <1>13, <2>1, <2>2, <2>3 DEF PlacedAt
<1>15. SoundAt(k)'
  <2> DEFINE done == Stretch(sweeps[k].i, sweeps[k].end)
  <2> SUFFICES ASSUME sweeps[k].clean
               PROVE  Adds(sweeps[k].root, Scope(k)', Stretch(sweeps[k].i, sweeps[k].end)',
                           adj', node')
    BY <1>6 DEF SoundAt
  <2>1. Adds(sweeps[k].root, Scope(k), done, adj, node)
    BY <1>5 DEF SoundAt
  <2>2. sweeps[k].i \in Nat /\ sweeps[k].end \in Nat /\ sweeps[k].begin \in Nat
        /\ sweeps[k].begin <= sweeps[k].i
    BY <1>5, SweepFields DEF PlacedAt
  <2>3. ASSUME NEW p \in (sweeps[k].i + 1)..sweeps[k].end
        PROVE  /\ var_stack_'[p] = var_stack_[p]
               /\ node'[var_stack_[p]] = node[var_stack_[p]]
               /\ node[var_stack_[p]].src \in Scope(k)
    <3>1. p \in (sweeps[k].begin + 1)..sweeps[k].end /\ p \in 1..nested_var_stack_sizes_[e + 1]
      BY <1>13, <2>2
    <3>2. var_stack_[p] \in live[e + 1] /\ Refers(var_stack_[p]) \subseteq Scope(k)
      BY <1>1, <1>4, <3>1, Covered DEF SweepInv
    <3> QED
      BY <1>8, <3>1, <3>2 DEF Refers
  <2>4. Stretch(sweeps[k].i, sweeps[k].end)' = done
    <3>1. \A p \in (sweeps[k].i + 1)..sweeps[k].end : var_stack_'[p] = var_stack_[p]
      BY <2>3
    <3>2. Stretch(sweeps[k].i, sweeps[k].end)'
            = {var_stack_'[p] : p \in (sweeps[k].i + 1)..sweeps[k].end}
      BY <1>6 DEF Stretch
    <3> QED
      BY <3>1, <3>2 DEF Stretch
  <2>5. \A x \in done : node'[x] = node[x] /\ node[x].src \in Scope(k)
    BY <2>3 DEF Stretch
  <2>6. \A v \in Scope(k) : adj'[v] = adj[v]
    <3>1. \A v \in Scope(k) :
            v \in DOMAIN adj /\ \E j \in (Opened(k - 1) + 1)..(e + 1) : v \in live[j]
      BY <1>4 DEF Scope, Frames
    <3> QED
      BY <1>10, <3>1
  <2>7. Adds(sweeps[k].root, Scope(k), done, adj', node')
    <3> HIDE DEF done
    <3> QED
      BY <2>1, <2>5, <2>6, AddsKept
  <2> QED
    BY <1>11, <2>4, <2>7
<1> QED
  BY <1>14, <1>15

\* A reference stays legal while its target and the scopes of the callbacks stay.
LEMMA MayReferKept ==
  ASSUME NEW k, NEW x, MayRefer(k, x), x \in DOMAIN adj',
         \A m \in 1..k : x \in live[m] => x \in live'[m],
         \A j \in DOMAIN sweeps' : (sweeps'[j].busy /\ sweeps'[j].entry + 1 < k) =>
           j \in DOMAIN sweeps /\ sweeps[j].busy /\ sweeps[j].entry = sweeps'[j].entry
  PROVE  MayRefer(k, x)'
<1>1. PICK m \in 1..k :
        /\ x \in live[m]
        /\ \A j \in DOMAIN sweeps :
             (sweeps[j].busy /\ sweeps[j].entry + 1 < k) => m > sweeps[j].entry + 1
  BY DEF MayRefer
<1>2. \A j \in DOMAIN sweeps' :
        (sweeps'[j].busy /\ sweeps'[j].entry + 1 < k) => m > sweeps'[j].entry + 1
  BY <1>1
<1>3. x \in live'[m]
  BY <1>1
<1> QED
  BY <1>2, <1>3 DEF MayRefer

\* User code runs above the scopes of every callback.
LEMMA UserAbove ==
  ASSUME SweepInv, UserRuns
  PROVE  /\ \A k \in 1..Len(sweeps) : sweeps[k].busy
         /\ BaseDepth = Opened(Len(sweeps)) /\ BaseDepth \in 0..Depth
         /\ \A k \in 1..Len(sweeps) : sweeps[k].entry \in Nat /\ sweeps[k].entry + 1 <= BaseDepth
         /\ Len(sweeps) \in Nat /\ DOMAIN sweeps = 1..Len(sweeps)
<1> DEFINE n == Len(sweeps)
<1>1. n \in Nat /\ DOMAIN sweeps = 1..n /\ \A k \in 1..n : PlacedAt(k)
  BY SweepFacts DEF SweepInv, Placed
<1>2. n # 0 => sweeps[n].busy
  BY <1>1 DEF UserRuns, Sweeping, Current, SweepInv, SweepTypes
<1>3. \A k \in 1..n : sweeps[k].busy
  <2>1. \A k \in 1..n : k < n => sweeps[k].busy
    BY <1>1 DEF PlacedAt
  <2> HIDE DEF n
  <2>2. \A k \in 1..n : (k < n \/ k = n) /\ n # 0
    BY <1>1
  <2> QED
    BY <1>2, <2>1, <2>2
<1>4. n \in 0..n
  BY <1>1
<1>5. /\ Opened(n) \in 0..Depth
      /\ \A k \in 1..n : sweeps[k].entry \in Nat /\ sweeps[k].entry + 1 <= Opened(n)
  BY <1>3, <1>4, CallersNest DEF SweepInv
<1>6. BaseDepth = Opened(n)
  BY DEF BaseDepth
<1> QED
  BY <1>1, <1>3, <1>5, <1>6

\* The same while the innermost sweep runs.
LEMMA CallersAbove ==
  ASSUME SweepInv, Sweeping
  PROVE  /\ Len(sweeps) \in Nat \ {0} /\ DOMAIN sweeps = 1..Len(sweeps)
         /\ Current = sweeps[Len(sweeps)] /\ Current \in Sweep /\ PlacedAt(Len(sweeps))
         /\ \A k \in 1..(Len(sweeps) - 1) : sweeps[k].busy
         /\ Len(sweeps) - 1 \in 0..Len(sweeps)
         /\ Opened(Len(sweeps) - 1) \in 0..Home(Len(sweeps))
         /\ Home(Len(sweeps)) \in 0..Depth
         /\ \A k \in 1..(Len(sweeps) - 1) :
              sweeps[k].entry \in Nat /\ sweeps[k].entry + 1 <= Opened(Len(sweeps) - 1)
<1> DEFINE n == Len(sweeps)
<1>1. n \in Nat /\ DOMAIN sweeps = 1..n /\ n # 0
  BY SweepFacts DEF SweepInv, SweepTypes, Sweeping
<1>2. n \in 1..n /\ n - 1 \in 0..n
  BY <1>1
<1>3. Current = sweeps[n] /\ sweeps[n] \in Sweep /\ PlacedAt(n)
  BY <1>1, <1>2, SweepFacts DEF SweepInv, Placed, Current
<1>4. /\ \A k \in 1..(n - 1) : sweeps[k].busy
      /\ Opened(n - 1) \in 0..Home(n) /\ Home(n) \in 0..Depth
  BY <1>1, <1>2, HomeAbove DEF SweepInv
<1>5. \A k \in 1..(n - 1) : sweeps[k].entry \in Nat /\ sweeps[k].entry + 1 <= Opened(n - 1)
  BY <1>2, <1>4, CallersNest DEF SweepInv
<1> QED
  BY <1>1, <1>2, <1>3, <1>4, <1>5

-----------------------------------------------------------------------------
(* Building the expression graph *)

\* operator new of a vari: new memory in the innermost frame.
LEMMA NewMemory ==
  ASSUME TapeInv, alloc(VariSize), UNCHANGED nestedSizes
  PROVE  /\ NewVariMemory \in Extent /\ NewVariMemory \notin Live
         /\ \A k \in DOMAIN live : k < Depth + 1 => live'[k] = live[k]
         /\ live'[Depth + 1] = live[Depth + 1] \cup {NewVariMemory}
         /\ DOMAIN live' = DOMAIN live /\ DOMAIN live = 1..(Depth + 1)
         /\ Live' = Live \cup {NewVariMemory}
         /\ nested_var_stack_sizes_' = nested_var_stack_sizes_ /\ Depth' = Depth
         /\ Depth \in Nat
<1> DEFINE x == NewVariMemory
<1>1. x \in Extent /\ x \notin Live
  BY VariMemory DEF TapeInv
<1>2. live' = [live EXCEPT ![Len(live)] = @ \cup {x}]
  BY VariSizeAssumption DEF alloc, RecordGrant, NewVariMemory
<1>3. live \in Seq(SUBSET Extent) /\ Len(live) = Depth + 1 /\ Depth \in Nat
  BY TapeFacts
<1> HIDE DEF x
<1>4. /\ \A k \in DOMAIN live : k < Depth + 1 => live'[k] = live[k]
      /\ live'[Depth + 1] = live[Depth + 1] \cup {x}
      /\ DOMAIN live' = DOMAIN live /\ DOMAIN live = 1..(Depth + 1)
  BY <1>2, <1>3
<1>5. Live' = Live \cup {x}
  <2>1. \A e : e \in Live <=> \E k \in 1..(Depth + 1) : e \in live[k]
    BY <1>4 DEF Live, LiveIn
  <2>2. \A e : e \in Live' <=> \E k \in 1..(Depth + 1) : e \in live'[k]
    BY <1>4 DEF Live, LiveIn
  <2>3. \A k \in 1..(Depth + 1) : k < Depth + 1 \/ k = Depth + 1
    BY <1>3
  <2>4. Depth + 1 \in 1..(Depth + 1)
    BY <1>3
  <2>5. \A e : e \in Live' <=> e \in Live \/ e = x
    BY <1>4, <2>1, <2>2, <2>3, <2>4
  <2> QED
    BY <2>5
<1>6. nested_var_stack_sizes_' = nested_var_stack_sizes_ /\ Depth' = Depth
  BY DEF nestedSizes, Depth
<1> QED
  BY <1>1, <1>3, <1>4, <1>5, <1>6 DEF x

\* A new vari, whatever it computes: its references are variables of the user code that made
\* it, and what it passes on has not been passed on by anything that exists.
LEMMA NewNode ==
  ASSUME SweepInv, TapeInv', UserRuns, NEW x, x = NewVariMemory,
         alloc(VariSize), UNCHANGED <<nestedSizes, sweeps>>,
         var_stack_' = var_stack_ \/ var_stack_' = Append(var_stack_, x),
         NEW nd \in Node, node' = With(node, x, nd),
         adj' = With(adj, x, 0) \/ (UNCHANGED adj /\ nd.src # x),
         nd.ops \subseteq Usable, nd.src = x \/ nd.src \in Usable,
         nd.src \notin nd.ops,
         \A v \in DOMAIN node : nd.src \notin node[v].ops
  PROVE  SweepInv'
<1>1. /\ x \in Extent /\ x \notin Live
      /\ \A k \in DOMAIN live : k < Depth + 1 => live'[k] = live[k]
      /\ live'[Depth + 1] = live[Depth + 1] \cup {x}
      /\ DOMAIN live' = DOMAIN live /\ DOMAIN live = 1..(Depth + 1)
      /\ Live' = Live \cup {x}
      /\ nested_var_stack_sizes_' = nested_var_stack_sizes_ /\ Depth' = Depth
      /\ Depth \in Nat
  BY NewMemory DEF SweepInv
<1>2. /\ sweeps \in Seq(Sweep) /\ node \in [Live -> Node]
      /\ DOMAIN adj \subseteq Live /\ adj \in [DOMAIN adj -> Nat]
  BY DEF SweepInv, SweepTypes
<1>3. /\ DOMAIN node' = Live \cup {x} /\ node'[x] = nd
      /\ \A v \in Live : node'[v] = node[v]
  BY <1>1, <1>2 DEF With
<1>4. /\ DOMAIN adj' = DOMAIN adj \/ DOMAIN adj' = DOMAIN adj \cup {x}
      /\ \A v \in DOMAIN adj : v \in DOMAIN adj' /\ adj'[v] = adj[v]
      /\ adj' \in [DOMAIN adj' -> Nat]
      /\ nd.src = x => x \in DOMAIN adj'
  BY <1>1, <1>2 DEF With
<1>5. SweepTypes'
  <2>1. node' \in [Live' -> Node]
    <3>1. \A v \in Live' : node'[v] \in Node
      BY <1>1, <1>2, <1>3
    <3>2. node' = [v \in DOMAIN node \cup {x} |-> IF v = x THEN nd ELSE node[v]]
      BY DEF With
    <3>3. DOMAIN node = Live
      BY <1>2
    <3> QED
      BY <1>1, <3>1, <3>2, <3>3
  <2> QED
    BY <1>1, <1>2, <1>4, <2>1 DEF SweepTypes
<1>6. /\ Len(var_stack_) \in Nat /\ DOMAIN var_stack_ = 1..Len(var_stack_)
      /\ \A p \in 1..Len(var_stack_) : var_stack_'[p] = var_stack_[p]
      /\ \A p \in DOMAIN var_stack_' :
           p \in 1..Len(var_stack_) \/ (p = Len(var_stack_) + 1 /\ var_stack_'[p] = x)
  <2>1. var_stack_ \in Seq(Extent)
    BY SweepFacts DEF SweepInv
  <2> QED
    BY <1>1, <2>1
<1>7. /\ \A k \in 1..Len(sweeps) : sweeps[k].busy
      /\ BaseDepth = Opened(Len(sweeps)) /\ BaseDepth \in 0..Depth
      /\ \A k \in 1..Len(sweeps) : sweeps[k].entry \in Nat /\ sweeps[k].entry + 1 <= BaseDepth
      /\ Len(sweeps) \in Nat /\ DOMAIN sweeps = 1..Len(sweeps)
  BY UserAbove
<1>8. Placed' /\ Sound'
  <2>1. ASSUME NEW j \in 1..Opened(Len(sweeps))
        PROVE  /\ nested_var_stack_sizes_'[j] = nested_var_stack_sizes_[j]
               /\ live'[j] = live[j]
               /\ \A p \in 1..nested_var_stack_sizes_[j] : var_stack_'[p] = var_stack_[p]
               /\ \A v \in live[j] : /\ node'[v] = node[v]
                                     /\ v \in DOMAIN adj' <=> v \in DOMAIN adj
                                     /\ v \in DOMAIN adj => adj'[v] = adj[v]
    <3>1. j \in 1..Depth /\ j \in DOMAIN live /\ j < Depth + 1
      BY <1>1, <1>7
    <3>2. nested_var_stack_sizes_[j] \in 0..Len(var_stack_)
      BY <3>1, SweepFacts DEF SweepInv
    <3>3. \A v \in live[j] : v \in Live /\ v # x
      BY <1>1, <3>1 DEF Live, LiveIn
    <3> QED
      BY <1>1, <1>3, <1>4, <1>6, <3>1, <3>2, <3>3
  <2>2. Len(sweeps) \in 0..Len(sweeps) /\ Opened(Len(sweeps)) <= Depth'
    BY <1>1, <1>7
  <2>3. \A k \in 1..Len(sweeps) : PlacedAt(k)' /\ SoundAt(k)'
    BY <1>2, <1>7, <2>1, <2>2, CallersUntouched
  <2> QED
    BY <1>7, <2>3 DEF Placed, Sound
<1>9. Local'
  <2> SUFFICES ASSUME NEW k \in 1..(Depth + 1), NEW v \in live'[k], NEW y \in Refers(v)'
               PROVE  MayRefer(k, y)'
    BY <1>1 DEF Local
  <2>1. CASE v \in live[k]
    <3>1. v \in Live
      BY <1>1, <2>1 DEF Live, LiveIn
    <3>2. y \in Refers(v)
      BY <1>3, <3>1 DEF Refers
    <3>3. MayRefer(k, y)
      BY <1>1, <2>1, <3>2 DEF SweepInv, Local
    <3>4. y \in DOMAIN adj'
      BY <1>4, <3>3 DEF MayRefer
    <3>5. \A m \in 1..k : y \in live[m] => y \in live'[m]
      <4>1. \A m \in 1..k : m \in DOMAIN live /\ (m < Depth + 1 \/ m = Depth + 1)
        BY <1>1
      <4> QED
        BY <1>1, <4>1
    <3> QED
      BY <3>3, <3>4, <3>5, MayReferKept
  <2>2. CASE v \notin live[k]
    <3>1. k = Depth + 1 /\ v = x
      BY <1>1, <2>2
    <3>2. y = x \/ y \in Usable
      BY <1>3, <3>1 DEF Refers
    <3>3. CASE y = x
      <4>1. y \in DOMAIN adj'
        <5>1. nd.src = x
          <6>1. Usable \subseteq Live
            BY <1>2 DEF Usable
          <6> QED
            BY <1>1, <1>3, <3>1, <3>3, <6>1 DEF Refers
        <5> QED
          BY <1>4, <3>3, <5>1
      <4>2. k \in 1..k /\ x \in live'[k]
        BY <1>1, <3>1
      <4>3. \A j \in DOMAIN sweeps' :
              (sweeps'[j].busy /\ sweeps'[j].entry + 1 < k) => k > sweeps'[j].entry + 1
        BY <1>1, <1>7
      <4> QED
        BY <3>3, <4>1, <4>2, <4>3 DEF MayRefer
    <3>4. CASE y \in Usable
      <4>1. y \in DOMAIN adj /\ \E m \in (BaseDepth + 1)..Len(live) : y \in live[m]
        BY <3>4 DEF Usable
      <4>2. Len(live) = Depth + 1
        BY SweepFacts DEF SweepInv
      <4>3. PICK m \in (BaseDepth + 1)..(Depth + 1) : y \in live[m]
        BY <4>1, <4>2
      <4>4. m \in 1..k /\ m \in DOMAIN live /\ (m < Depth + 1 \/ m = Depth + 1)
        BY <1>1, <1>7, <3>1
      <4>5. y \in live'[m]
        BY <1>1, <4>3, <4>4
      <4>6. \A j \in DOMAIN sweeps' : m > sweeps'[j].entry + 1
        BY <1>7, <4>3
      <4> QED
        BY <1>4, <4>1, <4>4, <4>5, <4>6 DEF MayRefer
    <3> QED
      BY <3>2, <3>3, <3>4
  <2> QED
    BY <2>1, <2>2
<1>10. Ordered'
  <2> SUFFICES ASSUME NEW q \in DOMAIN var_stack_', NEW p \in 1..q
               PROVE  node'[var_stack_'[q]].src \notin node'[var_stack_'[p]].ops
    BY DEF Ordered
  <2>1. \A r \in 1..Len(var_stack_) :
          var_stack_[r] \in Live /\ node'[var_stack_[r]] = node[var_stack_[r]]
    BY <1>3, <1>6, TapeIsLive DEF SweepInv
  <2>2. p \in 1..Len(var_stack_) \/ (p = Len(var_stack_) + 1 /\ p = q)
    BY <1>6
  <2>3. CASE q \in 1..Len(var_stack_)
    <3>1. p \in 1..Len(var_stack_)
      BY <1>6, <2>3
    <3>2. node[var_stack_[q]].src \notin node[var_stack_[p]].ops
      BY <1>6, <2>3 DEF SweepInv, Ordered
    <3> QED
      BY <1>6, <2>1, <2>3, <3>1, <3>2
  <2>4. CASE q \notin 1..Len(var_stack_)
    <3>1. q = Len(var_stack_) + 1 /\ var_stack_'[q] = x /\ node'[var_stack_'[q]].src = nd.src
      BY <1>3, <1>6, <2>4
    <3>2. CASE p \in 1..Len(var_stack_)
      BY <1>2, <1>6, <2>1, <3>1, <3>2
    <3>3. CASE p = q
      BY <1>3, <3>1, <3>3
    <3> QED
      BY <1>6, <2>2, <3>1, <3>2, <3>3
  <2> QED
    BY <2>3, <2>4
<1> QED
  BY <1>5, <1>8, <1>9, <1>10 DEF SweepInv

\* User code refers to live variables only.
LEMMA UsableIsLive ==
  ASSUME SweepTypes
  PROVE  /\ Usable \subseteq DOMAIN adj /\ Usable \subseteq Live
         /\ \A v \in DOMAIN node : node[v].ops \subseteq Extent
BY DEF SweepTypes, Usable, Node

\* Live memory is extents.
LEMMA LiveExtents ==
  ASSUME TapeInv
  PROVE  Live \subseteq Extent
<1>1. live \in Seq(SUBSET Extent)
  BY TapeFacts
<1> QED
  BY <1>1 DEF Live, LiveIn

\* What the nodes of live varis refer to is live.
LEMMA RefersLive ==
  ASSUME SweepInv, NEW v \in DOMAIN node
  PROVE  Refers(v) \subseteq DOMAIN adj /\ Refers(v) \subseteq Live
<1>1. v \in Live /\ DOMAIN adj \subseteq Live
  BY DEF SweepInv, SweepTypes
<1>2. PICK k \in DOMAIN live : v \in live[k]
  BY <1>1 DEF Live, LiveIn
<1> QED
  BY <1>1, <1>2 DEF SweepInv, Local, MayRefer

\* var(double) keeps the invariant.
LEMMA NewLeafKeepsInv ==
  ASSUME SweepInv, NewLeaf
  PROVE  SweepInv'
<1> DEFINE x == NewVariMemory
           nd == [kind |-> "leaf", ops |-> {}, src |-> x]
<1>1. /\ UserRuns /\ NewUnstackedVari /\ UNCHANGED sweeps
      /\ node' = With(node, x, nd) /\ adj' = With(adj, x, 0)
  BY DEF NewLeaf, RoomForVari
<1>2. alloc(VariSize) /\ UNCHANGED <<var_stack_, nestedSizes>>
  BY <1>1 DEF NewUnstackedVari
<1>3. TapeInv'
  BY <1>1, NewUnstackedVariKeepsInv DEF SweepInv
<1>4. x \in Extent /\ x \notin Live
  BY <1>2, NewMemory DEF SweepInv
<1>5. \A v \in DOMAIN node : x \notin node[v].ops
  BY <1>4, RefersLive DEF Refers
<1> HIDE DEF x
<1>6. nd \in Node /\ nd.ops = {} /\ nd.src = x
  BY <1>4 DEF Node
<1>7. x = NewVariMemory
  BY DEF x
<1> HIDE DEF nd
<1> QED
  BY <1>1, <1>2, <1>3, <1>5, <1>6, <1>7, NewNode

\* An operation on variables the user code can use keeps the invariant.
LEMMA NewOperationKeepsInv ==
  ASSUME SweepInv, NEW ops \in OperandSets, NewOperation(ops)
  PROVE  SweepInv'
<1> DEFINE x == NewVariMemory
           nd == [kind |-> "op", ops |-> ops, src |-> x]
<1>1. /\ UserRuns /\ NewStackedVari /\ UNCHANGED sweeps
      /\ node' = With(node, x, nd) /\ adj' = With(adj, x, 0)
  BY DEF NewOperation, RoomForVari
<1>2. alloc(VariSize) /\ UNCHANGED nestedSizes /\ var_stack_' = Append(var_stack_, x)
  BY <1>1 DEF NewStackedVari
<1>3. TapeInv'
  BY <1>1, NewStackedVariKeepsInv DEF SweepInv
<1>4. x \in Extent /\ x \notin Live
  BY <1>2, NewMemory DEF SweepInv
<1>5. \A v \in DOMAIN node : x \notin node[v].ops
  BY <1>4, RefersLive DEF Refers
<1>6. ops \subseteq Usable /\ ops \subseteq Live /\ ops \subseteq Extent
  BY UsableIsLive, LiveExtents DEF SweepInv, OperandSets
<1> HIDE DEF x
<1>7. nd \in Node /\ nd.ops = ops /\ nd.src = x
  BY <1>4, <1>6 DEF Node
<1>8. x = NewVariMemory
  BY DEF x
<1> HIDE DEF nd
<1> QED
  BY <1>1, <1>2, <1>3, <1>4, <1>5, <1>6, <1>7, <1>8, NewNode

\* A callback for a result that nothing uses yet keeps the invariant.
LEMMA NewCallbackKeepsInv ==
  ASSUME SweepInv, NEW r \in Usable, NEW ops \in OperandSets, NewCallback(r, ops)
  PROVE  SweepInv'
<1> DEFINE x == NewVariMemory
           nd == [kind |-> "callback", ops |-> ops, src |-> r]
<1>1. /\ UserRuns /\ NewStackedVari /\ UNCHANGED <<adj, sweeps>>
      /\ node' = With(node, x, nd) /\ Unused(r) /\ r \notin ops
  BY DEF NewCallback, RoomForVari
<1>2. alloc(VariSize) /\ UNCHANGED nestedSizes /\ var_stack_' = Append(var_stack_, x)
  BY <1>1 DEF NewStackedVari
<1>3. TapeInv'
  BY <1>1, NewStackedVariKeepsInv DEF SweepInv
<1>4. x \notin Live
  BY <1>2, NewMemory DEF SweepInv
<1>5. \A v \in DOMAIN node : r \notin node[v].ops
  BY <1>1 DEF Unused
<1>6. /\ ops \subseteq Usable /\ ops \subseteq Live /\ ops \subseteq Extent
      /\ r \in Live /\ r \in Extent
  BY UsableIsLive, LiveExtents DEF SweepInv, OperandSets
<1> HIDE DEF x
<1>7. nd \in Node /\ nd.ops = ops /\ nd.src = r /\ r # x
  BY <1>4, <1>6 DEF Node
<1>8. x = NewVariMemory
  BY DEF x
<1> HIDE DEF nd
<1> QED
  BY <1>1, <1>2, <1>3, <1>5, <1>6, <1>7, <1>8, NewNode

-----------------------------------------------------------------------------
(* Nested scopes and recovery *)

\* start_nested() puts an empty frame on top.
LEMMA OpenedFrame ==
  ASSUME TapeInv, StartNested
  PROVE  /\ Depth' = Depth + 1 /\ Depth \in Nat
         /\ DOMAIN live = 1..(Depth + 1) /\ DOMAIN live' = 1..(Depth + 2)
         /\ \A k \in 1..(Depth + 1) : live'[k] = live[k]
         /\ live'[Depth + 2] = {} /\ Live' = Live
         /\ \A k \in 1..Depth : nested_var_stack_sizes_'[k] = nested_var_stack_sizes_[k]
         /\ nested_var_stack_sizes_'[Depth + 1] = Len(var_stack_)
         /\ var_stack_' = var_stack_
<1>1. /\ live \in Seq(SUBSET Extent) /\ Len(live) = Depth + 1 /\ Depth \in Nat
      /\ nested_var_stack_sizes_ \in Seq(Nat) /\ Len(nested_var_stack_sizes_) = Depth
      /\ Len(var_stack_) \in Nat
  BY TapeFacts
<1>2. /\ live' = Append(live, {})
      /\ nested_var_stack_sizes_' = Append(nested_var_stack_sizes_, Len(var_stack_))
      /\ var_stack_' = var_stack_
  BY DEF StartNested, start_nested, stacks
<1>3. /\ DOMAIN live = 1..(Depth + 1) /\ DOMAIN live' = 1..(Depth + 2)
      /\ \A k \in 1..(Depth + 1) : live'[k] = live[k]
      /\ live'[Depth + 2] = {}
  BY <1>1, <1>2
<1>4. /\ \A k \in 1..Depth : nested_var_stack_sizes_'[k] = nested_var_stack_sizes_[k]
      /\ nested_var_stack_sizes_'[Depth + 1] = Len(var_stack_)
      /\ Len(nested_var_stack_sizes_') = Depth + 1
  BY <1>1, <1>2
<1>5. Live' = Live
  <2>1. \A e : e \in Live <=> \E k \in 1..(Depth + 1) : e \in live[k]
    BY <1>3 DEF Live, LiveIn
  <2>2. \A e : e \in Live' <=> \E k \in 1..(Depth + 2) : e \in live'[k]
    BY <1>3 DEF Live, LiveIn
  <2>3. /\ \A k \in 1..(Depth + 2) : k \in 1..(Depth + 1) \/ k = Depth + 2
        /\ \A k \in 1..(Depth + 1) : k \in 1..(Depth + 2)
    BY <1>1
  <2>4. \A e : e \in Live' <=> e \in Live
    BY <1>3, <2>1, <2>2, <2>3
  <2> QED
    BY <2>4
<1> QED
  BY <1>1, <1>2, <1>3, <1>4, <1>5 DEF Depth

\* A new scope leaves the graph as it was, whether user code or a callback opened it.
LEMMA OpenKeepsGraph ==
  ASSUME SweepInv, StartNested, UNCHANGED <<node, adj>>, sweeps' \in Seq(Sweep),
         \A j \in DOMAIN sweeps' : sweeps'[j].busy =>
           \/ j \in DOMAIN sweeps /\ sweeps[j].busy /\ sweeps[j].entry = sweeps'[j].entry
           \/ sweeps'[j].entry = Depth
  PROVE  TapeInv' /\ SweepTypes' /\ Local' /\ Ordered'
<1>1. /\ Depth' = Depth + 1 /\ Depth \in Nat
      /\ DOMAIN live = 1..(Depth + 1) /\ DOMAIN live' = 1..(Depth + 2)
      /\ \A k \in 1..(Depth + 1) : live'[k] = live[k]
      /\ live'[Depth + 2] = {} /\ Live' = Live /\ var_stack_' = var_stack_
  BY OpenedFrame DEF SweepInv
<1>2. TapeInv'
  BY TapeStartNestedKeepsInv DEF SweepInv
<1>3. SweepTypes'
  BY <1>1 DEF SweepInv, SweepTypes
<1>4. Local'
  <2> SUFFICES ASSUME NEW k \in 1..(Depth + 2), NEW v \in live'[k], NEW y \in Refers(v)'
               PROVE  MayRefer(k, y)'
    BY <1>1 DEF Local
  <2>1. k \in 1..(Depth + 1)
    BY <1>1
  <2>2. MayRefer(k, y)
    BY <1>1, <2>1 DEF SweepInv, Local, Refers
  <2>3. \A m \in 1..k : y \in live[m] => y \in live'[m]
    BY <1>1, <2>1
  <2>4. \A j \in DOMAIN sweeps' : (sweeps'[j].busy /\ sweeps'[j].entry + 1 < k) =>
          j \in DOMAIN sweeps /\ sweeps[j].busy /\ sweeps[j].entry = sweeps'[j].entry
    BY <1>1, <2>1
  <2> QED
    BY <2>2, <2>3, <2>4, MayReferKept DEF MayRefer
<1>5. Ordered'
  BY <1>1 DEF SweepInv, Ordered
<1> QED
  BY <1>2, <1>3, <1>4, <1>5

\* A scope opened by user code keeps the invariant.
LEMMA UserStartNestedKeepsInv ==
  ASSUME SweepInv, UserStartNested
  PROVE  SweepInv'
<1>1. UserRuns /\ StartNested /\ UNCHANGED <<node, adj, sweeps>>
  BY DEF UserStartNested
<1>2. TapeInv' /\ SweepTypes' /\ Local' /\ Ordered'
  BY <1>1, OpenKeepsGraph DEF SweepInv, SweepTypes
<1>3. /\ Depth' = Depth + 1 /\ Depth \in Nat
      /\ \A k \in 1..(Depth + 1) : live'[k] = live[k]
      /\ \A k \in 1..Depth : nested_var_stack_sizes_'[k] = nested_var_stack_sizes_[k]
      /\ var_stack_' = var_stack_
  BY <1>1, OpenedFrame DEF SweepInv
<1>4. /\ \A k \in 1..Len(sweeps) : sweeps[k].busy
      /\ BaseDepth = Opened(Len(sweeps)) /\ BaseDepth \in 0..Depth
      /\ Len(sweeps) \in Nat /\ DOMAIN sweeps = 1..Len(sweeps)
  BY <1>1, UserAbove
<1>5. Len(sweeps) \in 0..Len(sweeps) /\ Opened(Len(sweeps)) <= Depth'
  BY <1>3, <1>4
<1>6. \A j \in 1..Opened(Len(sweeps)) : j \in 1..Depth /\ j \in 1..(Depth + 1)
  BY <1>3, <1>4
<1>7. \A k \in 1..Len(sweeps) : PlacedAt(k)' /\ SoundAt(k)'
  BY <1>1, <1>2, <1>3, <1>4, <1>5, <1>6, CallersUntouched DEF SweepTypes
<1> QED
  BY <1>1, <1>2, <1>4, <1>7 DEF SweepInv, Placed, Sound

\* recover_memory_nested() takes the innermost frame away.
LEMMA ClosedFrame ==
  ASSUME TapeInv, RecoverMemoryNested
  PROVE  /\ Depth \in Nat \ {0} /\ Depth' = Depth - 1
         /\ DOMAIN live = 1..(Depth + 1) /\ DOMAIN live' = 1..Depth
         /\ Len(live') = Depth
         /\ \A k \in 1..Depth : live'[k] = live[k] /\ live[k] \subseteq Live'
         /\ Live' \subseteq Live
         /\ \A k \in 1..(Depth - 1) : nested_var_stack_sizes_'[k] = nested_var_stack_sizes_[k]
         /\ var_stack_' \in Seq(Extent)
         /\ Len(var_stack_') = nested_var_stack_sizes_[Depth]
         /\ DOMAIN var_stack_' = 1..nested_var_stack_sizes_[Depth]
         /\ \A p \in 1..nested_var_stack_sizes_[Depth] : var_stack_'[p] = var_stack_[p]
<1>1. /\ nested_var_stack_sizes_ # << >>
      /\ var_stack_' = Resize(var_stack_, Back(nested_var_stack_sizes_))
      /\ nested_var_stack_sizes_' = PopBack(nested_var_stack_sizes_)
      /\ live' = PopBack(live)
  BY DEF RecoverMemoryNested, empty_nested, recover_nested
<1>2. /\ live \in Seq(SUBSET Extent) /\ Len(live) = Depth + 1
      /\ nested_var_stack_sizes_ \in Seq(Nat) /\ Len(nested_var_stack_sizes_) = Depth
      /\ var_stack_ \in Seq(Extent) /\ SavedLengths(nested_var_stack_sizes_, var_stack_)
      /\ Depth \in Nat
  BY TapeFacts
<1>3. Depth \in Nat \ {0}
  BY <1>1, <1>2
<1>4. /\ Closed(var_stack_, nested_var_stack_sizes_, var_stack_', nested_var_stack_sizes_')
      /\ var_stack_' \in Seq(Extent) /\ nested_var_stack_sizes_' \in Seq(Nat)
  BY <1>1, <1>2, CloseSlices
<1>5. /\ Len(nested_var_stack_sizes_') = Depth - 1
      /\ \A k \in 1..(Depth - 1) : nested_var_stack_sizes_'[k] = nested_var_stack_sizes_[k]
      /\ Len(var_stack_') = nested_var_stack_sizes_[Depth]
      /\ \A p \in 1..nested_var_stack_sizes_[Depth] : var_stack_'[p] = var_stack_[p]
  BY <1>2, <1>4 DEF Closed
<1>6. live' \in Seq(SUBSET Extent) /\ Len(live') = Depth /\ \A k \in 1..Depth : live'[k] = live[k]
  <2>1. live' = SubSeq(live, 1, Depth) /\ Depth \in 0..Len(live)
    BY <1>1, <1>2, <1>3 DEF PopBack
  <2> QED
    BY <1>2, <2>1, Prefix
<1>7. DOMAIN live = 1..(Depth + 1) /\ DOMAIN live' = 1..Depth
  BY <1>2, <1>6
<1>8. \A k \in 1..Depth : live[k] \subseteq Live'
  BY <1>6, <1>7 DEF Live, LiveIn
<1>9. Live' \subseteq Live
  <2>1. \A k \in 1..Depth : k \in DOMAIN live
    BY <1>2, <1>7
  <2> QED
    BY <1>6, <1>7, <2>1 DEF Live, LiveIn
<1> QED
  BY <1>3, <1>4, <1>5, <1>6, <1>7, <1>8, <1>9 DEF Depth

\* What is forgotten with a recovered frame is not referred to by what stays.
LEMMA CloseKeepsGraph ==
  ASSUME SweepInv, RecoverMemoryNested,
         NEW a, a \in [DOMAIN adj -> Nat], ForgetRecovered(a), sweeps' \in Seq(Sweep),
         \A j \in DOMAIN sweeps' : sweeps'[j].busy =>
           j \in DOMAIN sweeps /\ sweeps[j].busy /\ sweeps[j].entry = sweeps'[j].entry
  PROVE  /\ TapeInv' /\ SweepTypes' /\ Local' /\ Ordered'
         /\ \A v \in Live' : /\ node'[v] = node[v]
                             /\ v \in DOMAIN adj' <=> v \in DOMAIN adj
                             /\ v \in DOMAIN adj => adj'[v] = a[v]
<1>1. /\ Depth \in Nat \ {0} /\ Depth' = Depth - 1
      /\ DOMAIN live = 1..(Depth + 1) /\ DOMAIN live' = 1..Depth
      /\ \A k \in 1..Depth : live'[k] = live[k] /\ live[k] \subseteq Live'
      /\ Live' \subseteq Live
      /\ var_stack_' \in Seq(Extent) /\ DOMAIN var_stack_' = 1..nested_var_stack_sizes_[Depth]
      /\ \A p \in 1..nested_var_stack_sizes_[Depth] : var_stack_'[p] = var_stack_[p]
  BY ClosedFrame DEF SweepInv
<1>2. TapeInv'
  BY RecoverMemoryNestedKeepsInv DEF SweepInv
<1>3. node \in [Live -> Node] /\ DOMAIN adj \subseteq Live
  BY DEF SweepInv, SweepTypes
<1>4. /\ DOMAIN node' = Live' /\ \A v \in Live' : node'[v] = node[v]
      /\ node' = [v \in Live' |-> node[v]]
  <2>1. node' = [v \in DOMAIN node \cap Live' |-> node[v]]
    BY DEF ForgetRecovered, Restricted
  <2>2. DOMAIN node \cap Live' = Live'
    BY <1>1, <1>3
  <2> QED
    BY <2>1, <2>2
<1>5. /\ DOMAIN adj' = DOMAIN adj \cap Live'
      /\ \A v \in DOMAIN adj' : adj'[v] = a[v] /\ a[v] \in Nat
      /\ adj' \in [DOMAIN adj' -> Nat]
  <2>1. adj' = [v \in DOMAIN a \cap Live' |-> a[v]] /\ DOMAIN a = DOMAIN adj
    BY DEF ForgetRecovered, Restricted
  <2> QED
    BY <2>1
<1>6. SweepTypes'
  <2>1. node' \in [Live' -> Node]
    BY <1>1, <1>3, <1>4
  <2> QED
    BY <1>5, <2>1 DEF SweepTypes
<1>7. Local'
  <2> SUFFICES ASSUME NEW k \in 1..Depth, NEW v \in live'[k], NEW y \in Refers(v)'
               PROVE  MayRefer(k, y)'
    BY <1>1 DEF Local
  <2>1. v \in live[k] /\ v \in Live' /\ k \in DOMAIN live
    BY <1>1
  <2>2. MayRefer(k, y)
    BY <1>4, <2>1 DEF SweepInv, Local, Refers
  <2>3. \A m \in 1..k : m \in 1..Depth
    BY <1>1
  <2>4. \A m \in 1..k : y \in live[m] => y \in live'[m] /\ y \in Live'
    BY <1>1, <2>3
  <2>5. y \in DOMAIN adj'
    BY <1>5, <2>2, <2>4 DEF MayRefer
  <2> QED
    BY <2>2, <2>4, <2>5, MayReferKept
<1>8. Ordered'
  <2>1. nested_var_stack_sizes_[Depth] \in 0..Len(var_stack_)
        /\ DOMAIN var_stack_ = 1..Len(var_stack_) /\ Len(var_stack_) \in Nat
    BY <1>1, SweepFacts DEF SweepInv
  <2>2. ASSUME NEW q \in DOMAIN var_stack_', NEW p \in 1..q
        PROVE  node'[var_stack_'[q]].src \notin node'[var_stack_'[p]].ops
    <3>1. /\ q \in DOMAIN var_stack_ /\ p \in DOMAIN var_stack_'
          /\ var_stack_'[q] = var_stack_[q] /\ var_stack_'[p] = var_stack_[p]
      BY <1>1, <2>1
    <3>2. var_stack_'[q] \in Live' /\ var_stack_'[p] \in Live'
      <4>1. \A i \in DOMAIN var_stack_' : var_stack_'[i] \in Live'
        <5>1. \A i \in 1..Len(var_stack_') : \E j \in 1..Len(live') : var_stack_'[i] \in live'[j]
          BY <1>2 DEF TapeInv, Backed
        <5>2. DOMAIN var_stack_' = 1..Len(var_stack_') /\ Len(live') = Depth
          BY <1>1, ClosedFrame DEF SweepInv
        <5> QED
          BY <1>1, <5>1, <5>2 DEF Live, LiveIn
      <4> QED
        BY <3>1, <4>1
    <3>3. node[var_stack_[q]].src \notin node[var_stack_[p]].ops
      BY <3>1 DEF SweepInv, Ordered
    <3> QED
      BY <1>4, <3>1, <3>2, <3>3
  <2> QED
    BY <2>2 DEF Ordered
<1>9. \A v \in Live' : v \in DOMAIN adj' <=> v \in DOMAIN adj
  BY <1>5
<1> QED
  BY <1>2, <1>4, <1>5, <1>6, <1>7, <1>8, <1>9

\* The end of a scope above those of the first n callers leaves their sweeps as they were.
LEMMA CallersOutlive ==
  ASSUME SweepInv, RecoverMemoryNested,
         NEW a, a \in [DOMAIN adj -> Nat], ForgetRecovered(a), sweeps' \in Seq(Sweep),
         \A j \in DOMAIN sweeps' : sweeps'[j].busy =>
           j \in DOMAIN sweeps /\ sweeps[j].busy /\ sweeps[j].entry = sweeps'[j].entry,
         NEW n \in 0..Len(sweeps), n <= Len(sweeps'), Opened(n) < Depth,
         \A k \in 1..n : sweeps[k].busy /\ sweeps'[k] = sweeps[k],
         \A j \in 1..Opened(n) : \A v \in live[j] : v \in DOMAIN adj => a[v] = adj[v]
  PROVE  \A k \in 1..n : PlacedAt(k)' /\ SoundAt(k)'
<1>1. /\ TapeInv'
      /\ \A v \in Live' : /\ node'[v] = node[v]
                          /\ v \in DOMAIN adj' <=> v \in DOMAIN adj
                          /\ v \in DOMAIN adj => adj'[v] = a[v]
  BY CloseKeepsGraph
<1>2. /\ Depth \in Nat \ {0} /\ Depth' = Depth - 1
      /\ \A k \in 1..Depth : live'[k] = live[k] /\ live[k] \subseteq Live'
      /\ \A k \in 1..(Depth - 1) : nested_var_stack_sizes_'[k] = nested_var_stack_sizes_[k]
      /\ \A p \in 1..nested_var_stack_sizes_[Depth] : var_stack_'[p] = var_stack_[p]
  BY ClosedFrame DEF SweepInv
<1>3. Opened(n) \in 0..Depth /\ Opened(n) <= Depth'
  BY <1>2, CallersNest DEF SweepInv
<1>4. ASSUME NEW j \in 1..Opened(n)
      PROVE  /\ nested_var_stack_sizes_'[j] = nested_var_stack_sizes_[j]
             /\ live'[j] = live[j]
             /\ \A p \in 1..nested_var_stack_sizes_[j] : var_stack_'[p] = var_stack_[p]
             /\ \A v \in live[j] : /\ node'[v] = node[v]
                                   /\ v \in DOMAIN adj' <=> v \in DOMAIN adj
                                   /\ v \in DOMAIN adj => adj'[v] = adj[v]
  <2>1. j \in 1..Depth /\ j \in 1..(Depth - 1) /\ Depth \in 1..Depth /\ Depth \in j..Depth
    BY <1>2, <1>3
  <2>2. /\ nested_var_stack_sizes_[j] \in Nat /\ nested_var_stack_sizes_[Depth] \in Nat
        /\ nested_var_stack_sizes_[j] <= nested_var_stack_sizes_[Depth]
    BY <2>1, SweepFacts DEF SweepInv
  <2>3. \A p \in 1..nested_var_stack_sizes_[j] : p \in 1..nested_var_stack_sizes_[Depth]
    BY <2>2
  <2>4. \A v \in live[j] : v \in Live'
    BY <1>2, <2>1
  <2> QED
    BY <1>1, <1>2, <2>1, <2>3, <2>4
<1> QED
  BY <1>1, <1>3, <1>4, CallersUntouched

\* A scope that user code ends is not the one of the callback it is in.
LEMMA UserRecoverNestedKeepsInv ==
  ASSUME SweepInv, UserRecoverNested
  PROVE  SweepInv'
<1>1. UserRuns /\ Depth > BaseDepth /\ RecoverMemoryNested /\ ForgetRecovered(adj)
      /\ UNCHANGED sweeps
  BY DEF UserRecoverNested
<1>2. sweeps' \in Seq(Sweep) /\ adj \in [DOMAIN adj -> Nat]
  BY <1>1 DEF SweepInv, SweepTypes
<1>3. TapeInv' /\ SweepTypes' /\ Local' /\ Ordered'
  BY <1>1, <1>2, CloseKeepsGraph
<1>4. /\ \A k \in 1..Len(sweeps) : sweeps[k].busy
      /\ BaseDepth = Opened(Len(sweeps)) /\ BaseDepth \in 0..Depth
      /\ Len(sweeps) \in Nat /\ DOMAIN sweeps = 1..Len(sweeps)
  BY <1>1, UserAbove
<1>5. Len(sweeps) \in 0..Len(sweeps) /\ Opened(Len(sweeps)) < Depth
  BY <1>1, <1>4, SweepFacts DEF SweepInv
<1>6. \A k \in 1..Len(sweeps) : PlacedAt(k)' /\ SoundAt(k)'
  BY <1>1, <1>2, <1>4, <1>5, CallersOutlive
<1> QED
  BY <1>1, <1>3, <1>4, <1>6 DEF SweepInv, Placed, Sound

\* recover_memory() leaves an empty tape: no scope is open, so no sweep runs.
LEMMA UserRecoverMemoryKeepsInv ==
  ASSUME SweepInv, UserRecoverMemory
  PROVE  SweepInv'
<1>1. UserRuns /\ RecoverMemory /\ ForgetRecovered(adj) /\ UNCHANGED sweeps
  BY DEF UserRecoverMemory
<1>2. TapeInv'
  BY <1>1, RecoverMemoryKeepsInv DEF SweepInv
<1>3. live' = << {} >> /\ var_stack_' = << >> /\ Depth = 0
  BY <1>1 DEF RecoverMemory, recover_all, empty_nested, Depth
<1>4. Live' = {}
  BY <1>3 DEF Live, LiveIn
<1>5. Len(sweeps) = 0 /\ DOMAIN sweeps = {}
  <2>1. /\ \A k \in 1..Len(sweeps) : sweeps[k].entry \in Nat /\ sweeps[k].entry + 1 <= BaseDepth
        /\ BaseDepth \in 0..Depth /\ Len(sweeps) \in Nat /\ DOMAIN sweeps = 1..Len(sweeps)
    BY <1>1, UserAbove
  <2>2. BaseDepth = 0
    BY <1>3, <2>1
  <2>3. Len(sweeps) \notin 1..Len(sweeps)
    BY <2>1, <2>2
  <2> QED
    BY <2>1, <2>3
<1>6. /\ DOMAIN node' = {} /\ DOMAIN adj' = {}
      /\ node' = [v \in {} |-> node[v]] /\ adj' = [v \in {} |-> adj[v]]
  BY <1>1, <1>4 DEF ForgetRecovered, Restricted
<1>7. SweepTypes'
  BY <1>1, <1>4, <1>6 DEF SweepInv, SweepTypes
<1>8. Local' /\ Ordered'
  BY <1>3 DEF Local, Ordered
<1> QED
  BY <1>1, <1>2, <1>5, <1>7, <1>8 DEF SweepInv, Placed, Sound

-----------------------------------------------------------------------------
(* Zeroing adjoints *)

\* A step on the adjoints alone keeps what is said of the tape and the graph.
LEMMA QuietKeepsGraph ==
  ASSUME SweepInv, UNCHANGED <<tapeVars, node>>, adj' \in [DOMAIN adj -> Nat],
         sweeps' \in Seq(Sweep),
         \A j \in DOMAIN sweeps' : sweeps'[j].busy =>
           j \in DOMAIN sweeps /\ sweeps[j].busy /\ sweeps[j].entry = sweeps'[j].entry
  PROVE  /\ TapeInv' /\ SweepTypes' /\ Local' /\ Ordered'
         /\ UNCHANGED <<var_stack_, nested_var_stack_sizes_, live>> /\ Depth' = Depth
         /\ DOMAIN adj' = DOMAIN adj
<1>1. TapeInv'
  BY TapeNextKeepsInv DEF SweepInv
<1>2. UNCHANGED <<var_stack_, nested_var_stack_sizes_, live, node>>
  BY DEF tapeVars, stacks, nestedSizes, memalloc_, vars
<1>3. Live' = Live /\ Depth' = Depth
  BY <1>2 DEF Live, Depth
<1>4. SweepTypes'
  BY <1>2, <1>3 DEF SweepInv, SweepTypes
<1>5. Local'
  <2> SUFFICES ASSUME NEW k \in DOMAIN live, NEW v \in live[k], NEW y \in Refers(v)
               PROVE  MayRefer(k, y)'
    BY <1>2 DEF Local, Refers
  <2>1. MayRefer(k, y)
    BY DEF SweepInv, Local
  <2> QED
    BY <1>2, <2>1, MayReferKept DEF MayRefer
<1>6. Ordered'
  BY <1>2 DEF SweepInv, Ordered
<1> QED
  BY <1>1, <1>2, <1>3, <1>4, <1>5, <1>6

\* Zeroing adjoints keeps the invariant: no sweep promises a gradient any more.
LEMMA DisturbedKeepsInv ==
  ASSUME SweepInv, NEW S, Zeroed(S), Disturbed, UNCHANGED <<tapeVars, node>>
  PROVE  SweepInv'
<1> DEFINE n == Len(sweeps)
<1>1. /\ n \in Nat /\ DOMAIN sweeps = 1..n /\ sweeps \in Seq(Sweep)
      /\ \A k \in 1..n : sweeps[k] \in Sweep
      /\ adj \in [DOMAIN adj -> Nat]
  BY SweepFacts DEF SweepInv, SweepTypes
<1>2. ASSUME NEW k \in 1..n
      PROVE  /\ sweeps'[k] \in Sweep
             /\ sweeps'[k].root = sweeps[k].root /\ sweeps'[k].end = sweeps[k].end
             /\ sweeps'[k].begin = sweeps[k].begin /\ sweeps'[k].i = sweeps[k].i
             /\ sweeps'[k].busy = sweeps[k].busy /\ sweeps'[k].entry = sweeps[k].entry
             /\ sweeps'[k].clean = FALSE
  <2>1. sweeps'[k] = [sweeps[k] EXCEPT !.clean = FALSE]
    BY <1>1 DEF Disturbed
  <2> QED
    BY <1>1, <2>1 DEF Sweep
<1>3. sweeps' \in Seq(Sweep) /\ Len(sweeps') = n /\ DOMAIN sweeps' = 1..n
  <2>1. sweeps' = [k \in 1..n |-> sweeps'[k]]
    BY <1>1 DEF Disturbed
  <2>2. sweeps' \in [1..n -> Sweep]
    BY <1>2, <2>1
  <2> HIDE DEF n
  <2> QED
    BY <1>1, <2>2
<1>4. adj' \in [DOMAIN adj -> Nat]
  BY <1>1 DEF Zeroed
<1>5. /\ TapeInv' /\ SweepTypes' /\ Local' /\ Ordered'
      /\ UNCHANGED <<var_stack_, nested_var_stack_sizes_, live>> /\ Depth' = Depth
      /\ DOMAIN adj' = DOMAIN adj
  BY <1>1, <1>2, <1>3, <1>4, QuietKeepsGraph
<1>6. Placed'
  <2> SUFFICES ASSUME NEW k \in 1..n
               PROVE  PlacedAt(k)'
    BY <1>3 DEF Placed
  <2>1. PlacedAt(k)
    BY <1>1 DEF SweepInv, Placed
  <2>2. Home(k)' = Home(k)
    BY <1>2, <1>5 DEF Home
  <2>3. Opened(k - 1)' = Opened(k - 1)
    <3>1. k - 1 = 0 \/ (k - 1 # 0 /\ k - 1 \in 1..n)
      BY <1>1
    <3> HIDE DEF n
    <3>2. k - 1 # 0 => sweeps'[k - 1].entry = sweeps[k - 1].entry
      BY <1>2, <3>1
    <3> QED
      BY <3>1, <3>2 DEF Opened
  <2>4. Scope(k)' = Scope(k)
    BY <1>5, <2>2, <2>3 DEF Scope, Frames
  <2>5. \A j \in 1..(k - 1) : sweeps'[j].entry = sweeps[j].entry
    <3>1. \A j \in 1..(k - 1) : j \in 1..n
      BY <1>1
    <3> QED
      BY <1>2, <3>1
  <2> QED
    BY <1>2, <1>3, <1>5, <2>1, <2>2, <2>4, <2>5 DEF PlacedAt
<1>7. Sound'
  BY <1>2, <1>3 DEF Sound, SoundAt
<1> QED
  BY <1>5, <1>6, <1>7 DEF SweepInv

-----------------------------------------------------------------------------
(* grad() *)

\* Where nothing of the tape changes, only the innermost sweep is left to look at.
LEMMA QuietKeepsCallers ==
  ASSUME SweepInv, UNCHANGED <<tapeVars, node>>, adj' \in [DOMAIN adj -> Nat],
         TapeInv', sweeps' \in Seq(Sweep), NEW n \in 0..Len(sweeps), n <= Len(sweeps'),
         \A k \in 1..n : sweeps[k].busy /\ sweeps'[k] = sweeps[k],
         \A j \in 1..Opened(n) : \A v \in live[j] : v \in DOMAIN adj => adj'[v] = adj[v]
  PROVE  \A k \in 1..n : PlacedAt(k)' /\ SoundAt(k)'
<1>1. UNCHANGED <<var_stack_, nested_var_stack_sizes_, live, node>> /\ Depth' = Depth
  BY DEF tapeVars, stacks, nestedSizes, memalloc_, vars, Depth
<1>2. DOMAIN adj' = DOMAIN adj
  OBVIOUS
<1>3. Opened(n) <= Depth'
  BY <1>1, CallersNest, SweepFacts DEF SweepInv
<1> QED
  BY <1>1, <1>2, <1>3, CallersUntouched

\* What user code refers to lies above the scopes of the callbacks.
LEMMA AboveIsApart ==
  ASSUME SweepInv, NEW m \in 0..Depth, NEW n, n <= Depth + 1, n \in Nat,
         NEW v \in Frames(m, n), NEW j \in 1..m
  PROVE  v \notin live[j]
<1>1. PICK k \in (m + 1)..n : v \in live[k]
  BY DEF Frames
<1>2. Depth \in Nat /\ DOMAIN live = 1..(Depth + 1)
  BY SweepFacts DEF SweepInv
<1>3. j \in DOMAIN live /\ k \in DOMAIN live /\ j < k
  BY <1>1, <1>2
<1> QED
  BY <1>1, <1>3, FramesApart DEF SweepInv, TapeInv

\* init_dependent() and the start of the loop: the sweep covers the innermost frame, and has
\* added nothing yet.
LEMMA StartGradKeepsInv ==
  ASSUME SweepInv, NEW root \in Usable, StartGrad(root)
  PROVE  SweepInv'
<1>0. PICK n \in Nat : n = Len(sweeps)
  BY SweepFacts DEF SweepInv
<1> DEFINE s == [root  |-> root,
               end   |-> Len(var_stack_),
               begin |-> IF empty_nested THEN 0 ELSE Len(var_stack_) - nested_size,
               i     |-> Len(var_stack_),
               clean |-> \A v \in Usable : adj[v] = 0,
               busy  |-> FALSE,
               entry |-> 0]
<1>1. /\ UserRuns /\ adj' = [adj EXCEPT ![root] = 1] /\ sweeps' = Append(sweeps, s)
      /\ UNCHANGED <<tapeVars, node>>
  BY DEF StartGrad
<1>2. /\ \A k \in 1..n : sweeps[k].busy
      /\ BaseDepth = Opened(n) /\ BaseDepth \in 0..Depth
      /\ \A k \in 1..n : sweeps[k].entry \in Nat /\ sweeps[k].entry + 1 <= BaseDepth
      /\ n \in Nat /\ DOMAIN sweeps = 1..n
  BY <1>0, <1>1, UserAbove
<1>3. /\ Depth \in Nat /\ Len(live) = Depth + 1 /\ Len(var_stack_) \in Nat
      /\ Len(nested_var_stack_sizes_) = Depth /\ sweeps \in Seq(Sweep)
      /\ \A j \in 1..Depth : nested_var_stack_sizes_[j] \in 0..Len(var_stack_)
      /\ adj \in [DOMAIN adj -> Nat] /\ DOMAIN adj \subseteq Live
  BY SweepFacts DEF SweepInv, SweepTypes
<1>4. /\ root \in DOMAIN adj /\ root \in Extent
      /\ Usable = DOMAIN adj \cap Frames(BaseDepth, Depth + 1)
  BY <1>3, UsableIsLive, LiveExtents DEF SweepInv, Usable, Frames
<1>5. s.begin = Low(nested_var_stack_sizes_, Depth + 1) /\ s.begin \in 0..Len(var_stack_)
  <2>1. CASE Depth = 0
    <3>1. empty_nested
      BY <1>3, <2>1, SweepFacts DEF empty_nested, SweepInv
    <3> QED
      BY <1>3, <2>1, <3>1 DEF Low
  <2>2. CASE Depth # 0
    <3>1. ~ empty_nested /\ Depth \in 1..Depth
      BY <1>3, <2>2 DEF empty_nested
    <3>2. Back(nested_var_stack_sizes_) = nested_var_stack_sizes_[Depth]
      BY <1>3 DEF Back
    <3>3. s.begin = Len(var_stack_) - (Len(var_stack_) - nested_var_stack_sizes_[Depth])
      BY <3>1, <3>2 DEF nested_size
    <3>4. nested_var_stack_sizes_[Depth] \in 0..Len(var_stack_)
      BY <1>3, <3>1
    <3>5. s.begin = nested_var_stack_sizes_[Depth]
      <4> HIDE DEF s
      <4> QED
        BY <1>3, <3>3, <3>4
    <3>6. Low(nested_var_stack_sizes_, Depth + 1) = nested_var_stack_sizes_[Depth]
      BY <1>3, <2>2 DEF Low
    <3> HIDE DEF s
    <3> QED
      BY <3>4, <3>5, <3>6
  <2> QED
    BY <2>1, <2>2
<1>6. /\ s.root = root /\ s.end = Len(var_stack_) /\ s.i = Len(var_stack_) /\ s.busy = FALSE
      /\ s.clean \in BOOLEAN /\ (s.clean => \A v \in Usable : adj[v] = 0)
      /\ s.entry = 0
  OBVIOUS
<1>7. s \in Sweep
  <2>1. s = [root |-> s.root, end |-> s.end, begin |-> s.begin, i |-> s.i, clean |-> s.clean,
             busy |-> s.busy, entry |-> s.entry]
    OBVIOUS
  <2> HIDE DEF s
  <2>2. /\ s.root \in Extent /\ s.end \in Nat /\ s.begin \in Nat /\ s.i \in Nat
        /\ s.entry \in Nat
    BY <1>3, <1>4, <1>5, <1>6
  <2>3. s.clean \in BOOLEAN /\ s.busy \in BOOLEAN
    BY <1>6
  <2> QED
    BY <2>1, <2>2, <2>3 DEF Sweep
<1> HIDE DEF s
<1>8. /\ sweeps' \in Seq(Sweep) /\ Len(sweeps') = n + 1 /\ DOMAIN sweeps' = 1..(n + 1)
      /\ sweeps'[n + 1] = s /\ \A k \in 1..n : sweeps'[k] = sweeps[k]
  BY <1>0, <1>1, <1>3, <1>7
<1>9. /\ adj' \in [DOMAIN adj -> Nat] /\ adj'[root] = 1
      /\ \A v \in DOMAIN adj : v # root => adj'[v] = adj[v]
  BY <1>1, <1>3, <1>4
<1>10. /\ TapeInv' /\ SweepTypes' /\ Local' /\ Ordered'
       /\ UNCHANGED <<var_stack_, nested_var_stack_sizes_, live>> /\ Depth' = Depth
       /\ DOMAIN adj' = DOMAIN adj
  <2>1. \A j \in DOMAIN sweeps' : sweeps'[j].busy =>
          j \in DOMAIN sweeps /\ sweeps[j].busy /\ sweeps[j].entry = sweeps'[j].entry
    <3>1. \A j \in 1..(n + 1) : j \in 1..n \/ j = n + 1
      BY <1>2
    <3> QED
      BY <1>2, <1>6, <1>8, <3>1
  <2> QED
    BY <1>1, <1>8, <1>9, <2>1, QuietKeepsGraph
<1>11. \A k \in 1..n : PlacedAt(k)' /\ SoundAt(k)'
  <2>1. \A j \in 1..Opened(n) : root \notin live[j]
    BY <1>2, <1>3, <1>4, AboveIsApart
  <2>2. \A j \in 1..Opened(n) : \A v \in live[j] : v \in DOMAIN adj => adj'[v] = adj[v]
    BY <1>9, <2>1
  <2>3. n \in 0..Len(sweeps) /\ n <= Len(sweeps')
    BY <1>0, <1>2, <1>8
  <2> QED
    BY <1>1, <1>2, <1>8, <1>9, <1>10, <2>2, <2>3, QuietKeepsCallers
<1>12. Home(n + 1)' = Depth /\ Scope(n + 1)' = Usable
  <2>1. Home(n + 1)' = Depth
    BY <1>6, <1>8, <1>10 DEF Home
  <2>2. (n + 1) - 1 = n
    BY <1>2
  <2>3. Opened(n)' = Opened(n)
    <3>1. n # 0 => n \in 1..n
      BY <1>2
    <3>2. n # 0 => sweeps'[n].entry = sweeps[n].entry
      BY <1>8, <3>1
    <3> QED
      BY <3>2 DEF Opened
  <2>4. Scope(n + 1)' = DOMAIN adj' \cap Frames(Opened(n), Depth + 1)'
    BY <1>10, <2>1, <2>2, <2>3 DEF Scope, Frames
  <2> QED
    BY <1>2, <1>4, <1>10, <2>1, <2>3, <2>4 DEF Frames
<1>13. PlacedAt(n + 1)'
  <2>1. sweeps'[n + 1].end = High(nested_var_stack_sizes_', var_stack_', Depth + 1)
    BY <1>3, <1>6, <1>8, <1>10 DEF High
  <2>2. sweeps'[n + 1].i \in sweeps'[n + 1].begin..sweeps'[n + 1].end
    BY <1>3, <1>5, <1>6, <1>8
  <2>3. ASSUME NEW j \in 1..((n + 1) - 1)
        PROVE  sweeps'[j].entry < Depth
    <3>1. j \in 1..n
      BY <1>2
    <3>2. sweeps[j].entry \in Nat /\ sweeps[j].entry + 1 <= BaseDepth
      BY <1>2, <3>1
    <3> QED
      BY <1>2, <1>3, <1>8, <3>1, <3>2
  <2>4. ~ (n + 1 < Len(sweeps'))
    BY <1>2, <1>8
  <2> QED
    BY <1>5, <1>6, <1>8, <1>10, <1>12, <2>1, <2>2, <2>3, <2>4 DEF PlacedAt
<1>14. SoundAt(n + 1)'
  <2>1. Stretch(sweeps[n + 1].i, sweeps[n + 1].end)' = {}
    BY <1>3, <1>6, <1>8 DEF Stretch
  <2>2. ASSUME s.clean, NEW v \in Usable
        PROVE  adj'[v] = (IF v = root THEN 1 ELSE 0)
                         + SumOver({x \in {} : v \in node'[x].ops},
                                   [x \in {} |-> adj'[node'[x].src]])
    <3>1. {x \in {} : v \in node'[x].ops} = {}
      OBVIOUS
    <3>2. adj'[v] = (IF v = root THEN 1 ELSE 0) + 0
      BY <1>4, <1>6, <1>9, <2>2
    <3> QED
      BY <3>1, <3>2, SumEmpty
  <2>3. s.clean => Adds(root, Usable, {}, adj', node')
    BY <2>2 DEF Adds
  <2>4. /\ sweeps'[n + 1].clean = s.clean /\ sweeps'[n + 1].root = root
    BY <1>6, <1>8
  <2> QED
    BY <1>12, <2>1, <2>3, <2>4 DEF SoundAt
<1>15. \A k \in 1..(n + 1) : k \in 1..n \/ k = n + 1
  BY <1>2
<1> QED
  BY <1>8, <1>10, <1>11, <1>13, <1>14, <1>15 DEF SweepInv, Placed, Sound

\* The innermost sweep at a vari it has not called yet: passing its adjoint on keeps the
\* sweep's promise, and reaches no variable of the callers.
LEMMA PassedOn ==
  ASSUME SweepInv, Sweeping, Current.i > Current.begin
  PROVE  LET n == Len(sweeps)
             x == var_stack_[Current.i]
         IN  /\ x \in Live
             /\ Propagated(x) \in [DOMAIN adj -> Nat]
             /\ \A y \in Stretch(Current.i - 1, Current.end) :
                  y \in Live /\ node[y].src \in Scope(n)
             /\ Current.clean => Adds(Current.root, Scope(n), Stretch(Current.i - 1, Current.end),
                                      Propagated(x), node)
             /\ \A j \in 1..Opened(n - 1) : \A v \in live[j] :
                  v \in DOMAIN adj => Propagated(x)[v] = adj[v]
<1>0. PICK n \in Nat : n = Len(sweeps)
  BY SweepFacts DEF SweepInv
<1>1. PICK s \in Sweep : s = Current
  BY CallersAbove
<1> DEFINE x == var_stack_[s.i]
           done == Stretch(s.i, s.end)
<1>2. /\ n # 0 /\ n \in DOMAIN sweeps /\ s = sweeps[n] /\ PlacedAt(n)
      /\ Opened(n - 1) \in 0..Home(n) /\ Home(n) \in 0..Depth /\ Depth \in Nat
  BY <1>0, <1>1, CallersAbove, SweepFacts DEF SweepInv
<1>3. /\ s.i \in Nat /\ s.begin \in Nat /\ s.end \in Nat /\ s.clean \in BOOLEAN
      /\ s.i > s.begin /\ s.i <= s.end
  BY <1>1, <1>2, SweepFields DEF PlacedAt
<1>4. ASSUME NEW p \in s.i..s.end
      PROVE  /\ p \in 1..Len(var_stack_) /\ var_stack_[p] \in Live
             /\ Refers(var_stack_[p]) \subseteq Scope(n)
  <2>1. p \in (s.begin + 1)..s.end
    BY <1>3
  <2> QED
    BY <1>2, <2>1, Covered DEF SweepInv
<1>5. Stretch(s.i - 1, s.end) = done \cup {x}
  <2>1. \A p : p \in ((s.i - 1) + 1)..s.end <=> p \in (s.i + 1)..s.end \/ p = s.i
    BY <1>3
  <2> QED
    BY <2>1 DEF Stretch
<1>6. IsFiniteSet(done)
  BY <1>3, StretchFinite
<1>7. x \notin done
  <2>1. \A p \in (s.i + 1)..s.end : p \in 1..Len(var_stack_) /\ p # s.i
    BY <1>3, <1>4
  <2>2. s.i \in 1..Len(var_stack_) /\ DOMAIN var_stack_ = 1..Len(var_stack_)
    BY <1>3, <1>4, SweepFacts DEF SweepInv
  <2> QED
    BY <2>1, <2>2 DEF SweepInv, TapeInv, VarisDistinct, Stretch
<1>8. \A y \in done \cup {x} : \E p \in s.i..s.end : y = var_stack_[p]
  BY <1>3 DEF Stretch
<1>9. Scope(n) \subseteq DOMAIN adj
  BY DEF Scope
<1>10. \A y \in done \cup {x} : y \in Live /\ node[y].src \in Scope(n) /\ node[y].src \in DOMAIN adj
  BY <1>4, <1>8, <1>9 DEF Refers
<1>11. \A y \in done \cup {x} : node[y].src \notin node[x].ops
  <2>1. ASSUME NEW p \in s.i..s.end
        PROVE  node[var_stack_[p]].src \notin node[x].ops
    <3>1. p \in DOMAIN var_stack_ /\ s.i \in 1..p
      BY <1>3, <1>4, SweepFacts DEF SweepInv
    <3> QED
      BY <3>1 DEF SweepInv, Ordered
  <2> QED
    BY <1>8, <2>1
<1>12. adj \in [DOMAIN adj -> Nat]
  BY DEF SweepInv, SweepTypes
<1>13. Propagated(x) = [v \in DOMAIN adj |->
                          IF v \in node[x].ops THEN adj[v] + adj[node[x].src] ELSE adj[v]]
  BY DEF Propagated
<1> HIDE DEF done
<1>14. Propagated(x) \in [DOMAIN adj -> Nat]
  BY <1>10, <1>12, <1>13
<1>15. ASSUME s.clean
       PROVE  Adds(s.root, Scope(n), done \cup {x}, Propagated(x), node)
  <2>1. Adds(s.root, Scope(n), done, adj, node)
    BY <1>2, <1>15 DEF SweepInv, Sound, SoundAt, done
  <2> HIDE DEF x
  <2> QED
    BY <1>6, <1>7, <1>9, <1>10, <1>11, <1>12, <1>13, <2>1, AddsPassedOn
<1>16. \A j \in 1..Opened(n - 1) : \A v \in live[j] :
         v \in DOMAIN adj => Propagated(x)[v] = adj[v]
  <2>1. node[x].ops \subseteq Frames(Opened(n - 1), Home(n) + 1)
    <3>1. Refers(x) \subseteq Scope(n)
      BY <1>3, <1>4
    <3> QED
      BY <3>1 DEF Refers, Scope
  <2>2. Opened(n - 1) \in 0..Depth /\ Home(n) + 1 <= Depth + 1 /\ Home(n) + 1 \in Nat
    BY <1>2
  <2>3. \A v \in node[x].ops : \A j \in 1..Opened(n - 1) : v \notin live[j]
    BY <2>1, <2>2, AboveIsApart
  <2> QED
    BY <1>13, <2>3
<1> QED
  BY <1>0, <1>1, <1>5, <1>10, <1>14, <1>15, <1>16

\* chain() of the next vari.
LEMMA ChainKeepsInv ==
  ASSUME SweepInv, Chain
  PROVE  SweepInv'
<1>0. PICK n \in Nat : n = Len(sweeps)
  BY SweepFacts DEF SweepInv
<1>1. PICK s \in Sweep : s = Current
  BY CallersAbove DEF Chain, AtVari
<1> DEFINE x == var_stack_[s.i]
           t == [s EXCEPT !.i = @ - 1]
<1>2. /\ Sweeping /\ ~ s.busy /\ s.i > s.begin
      /\ adj' = Propagated(x) /\ sweeps' = [sweeps EXCEPT ![n] = t]
      /\ UNCHANGED <<tapeVars, node>>
  BY <1>0, <1>1 DEF Chain, AtVari, Next_vari, SetCurrent
<1>3. /\ n # 0 /\ DOMAIN sweeps = 1..n /\ s = sweeps[n] /\ PlacedAt(n)
      /\ \A k \in 1..(n - 1) : sweeps[k].busy
      /\ n - 1 \in 0..n /\ Home(n) = Depth
  BY <1>0, <1>1, <1>2, CallersAbove DEF Home
<1>4. /\ s.i \in Nat /\ s.begin \in Nat /\ s.end \in Nat /\ s.i <= s.end
  BY <1>1, <1>3, SweepFields DEF PlacedAt
<1>5. /\ t \in Sweep /\ t.root = s.root /\ t.end = s.end /\ t.begin = s.begin /\ t.i = s.i - 1
      /\ t.clean = s.clean /\ t.busy = s.busy /\ t.entry = s.entry
  BY <1>2, <1>4 DEF Sweep
<1> HIDE DEF t
<1>6. /\ sweeps' \in Seq(Sweep) /\ Len(sweeps') = n /\ DOMAIN sweeps' = 1..n /\ sweeps'[n] = t
      /\ \A k \in 1..(n - 1) : sweeps'[k] = sweeps[k]
  <2>1. sweeps \in Seq(Sweep)
    BY DEF SweepInv, SweepTypes
  <2> QED
    BY <1>0, <1>2, <1>3, <1>5, <2>1
<1>7. /\ Propagated(x) \in [DOMAIN adj -> Nat]
      /\ s.clean => Adds(s.root, Scope(n), Stretch(s.i - 1, s.end), Propagated(x), node)
      /\ \A j \in 1..Opened(n - 1) : \A v \in live[j] :
           v \in DOMAIN adj => Propagated(x)[v] = adj[v]
  BY <1>0, <1>1, <1>2, PassedOn
<1>8. /\ TapeInv' /\ SweepTypes' /\ Local' /\ Ordered'
      /\ UNCHANGED <<var_stack_, nested_var_stack_sizes_, live>> /\ Depth' = Depth
      /\ DOMAIN adj' = DOMAIN adj
  <2>1. \A j \in DOMAIN sweeps' : sweeps'[j].busy =>
          j \in DOMAIN sweeps /\ sweeps[j].busy /\ sweeps[j].entry = sweeps'[j].entry
    <3>1. \A j \in 1..n : j \in 1..(n - 1) \/ j = n
      OBVIOUS
    <3> QED
      BY <1>2, <1>3, <1>5, <1>6, <3>1
  <2> QED
    BY <1>2, <1>6, <1>7, <2>1, QuietKeepsGraph
<1>9. \A k \in 1..(n - 1) : PlacedAt(k)' /\ SoundAt(k)'
  <2>1. n - 1 \in 0..Len(sweeps) /\ n - 1 <= Len(sweeps')
    BY <1>0, <1>3, <1>6
  <2> QED
    BY <1>2, <1>3, <1>6, <1>7, <1>8, <2>1, QuietKeepsCallers
<1>10. Home(n)' = Depth /\ Opened(n - 1)' = Opened(n - 1) /\ Scope(n)' = Scope(n)
  <2>1. Home(n)' = Depth
    BY <1>2, <1>5, <1>6, <1>8 DEF Home
  <2>2. Opened(n - 1)' = Opened(n - 1)
    <3>1. n - 1 # 0 => n - 1 \in 1..(n - 1)
      BY <1>3
    <3>2. n - 1 # 0 => sweeps'[n - 1].entry = sweeps[n - 1].entry
      BY <1>6, <3>1
    <3> QED
      BY <3>2 DEF Opened
  <2> QED
    BY <1>3, <1>8, <2>1, <2>2 DEF Scope, Frames
<1>11. PlacedAt(n)'
  <2>1. \A j \in 1..(n - 1) : sweeps'[j].entry < Depth
    BY <1>3, <1>6 DEF PlacedAt
  <2>2. t.i \in t.begin..t.end
    BY <1>2, <1>4, <1>5
  <2>3. /\ t.begin = Low(nested_var_stack_sizes_, Depth + 1)
        /\ t.end = High(nested_var_stack_sizes_, var_stack_, Depth + 1)
        /\ t.root \in Scope(n)
    BY <1>3, <1>5 DEF PlacedAt
  <2> QED
    BY <1>2, <1>5, <1>6, <1>8, <1>10, <2>1, <2>2, <2>3 DEF PlacedAt
<1>12. SoundAt(n)'
  <2>1. Stretch(sweeps[n].i, sweeps[n].end)' = Stretch(s.i - 1, s.end)
    BY <1>5, <1>6, <1>8 DEF Stretch
  <2> QED
    BY <1>2, <1>5, <1>6, <1>7, <1>10, <2>1 DEF SoundAt
<1>13. \A k \in 1..n : k \in 1..(n - 1) \/ k = n
  OBVIOUS
<1> QED
  BY <1>6, <1>8, <1>9, <1>11, <1>12, <1>13 DEF SweepInv, Placed, Sound

\* A callback that opens a scope of its own: what its sweep covers is saved below it.
LEMMA EnterCallbackKeepsInv ==
  ASSUME SweepInv, EnterCallback
  PROVE  SweepInv'
<1>0. PICK n \in Nat : n = Len(sweeps)
  BY SweepFacts DEF SweepInv
<1>1. PICK s \in Sweep : s = Current
  BY CallersAbove DEF EnterCallback, AtVari
<1> DEFINE t == [s EXCEPT !.busy = TRUE, !.entry = Depth]
<1>2. /\ Sweeping /\ ~ s.busy /\ s.i > s.begin
      /\ StartNested /\ sweeps' = [sweeps EXCEPT ![n] = t]
      /\ UNCHANGED <<node, adj>>
  BY <1>0, <1>1 DEF EnterCallback, AtVari, SetCurrent
<1>3. /\ n # 0 /\ DOMAIN sweeps = 1..n /\ s = sweeps[n] /\ PlacedAt(n) /\ SoundAt(n)
      /\ \A k \in 1..(n - 1) : sweeps[k].busy
      /\ n - 1 \in 0..n /\ Home(n) = Depth /\ Opened(n - 1) \in 0..Depth
  BY <1>0, <1>1, <1>2, CallersAbove DEF Home, SweepInv, Sound
<1>4. /\ s.i \in Nat /\ s.begin \in Nat /\ s.end \in Nat
  BY <1>1, SweepFields
<1>5. /\ Depth' = Depth + 1 /\ Depth \in Nat
      /\ \A k \in 1..(Depth + 1) : live'[k] = live[k]
      /\ \A k \in 1..Depth : nested_var_stack_sizes_'[k] = nested_var_stack_sizes_[k]
      /\ nested_var_stack_sizes_'[Depth + 1] = Len(var_stack_)
      /\ var_stack_' = var_stack_
  BY <1>2, OpenedFrame DEF SweepInv
<1>6. /\ t \in Sweep /\ t.root = s.root /\ t.end = s.end /\ t.begin = s.begin /\ t.i = s.i
      /\ t.clean = s.clean /\ t.busy = TRUE /\ t.entry = Depth
  BY <1>5 DEF Sweep
<1> HIDE DEF t
<1>7. /\ sweeps' \in Seq(Sweep) /\ Len(sweeps') = n /\ DOMAIN sweeps' = 1..n /\ sweeps'[n] = t
      /\ \A k \in 1..(n - 1) : sweeps'[k] = sweeps[k]
  <2>1. sweeps \in Seq(Sweep)
    BY DEF SweepInv, SweepTypes
  <2> QED
    BY <1>0, <1>2, <1>3, <1>6, <2>1
<1>8. TapeInv' /\ SweepTypes' /\ Local' /\ Ordered'
  <2>1. \A j \in DOMAIN sweeps' : sweeps'[j].busy =>
          \/ j \in DOMAIN sweeps /\ sweeps[j].busy /\ sweeps[j].entry = sweeps'[j].entry
          \/ sweeps'[j].entry = Depth
    <3>1. \A j \in 1..n : j \in 1..(n - 1) \/ j = n
      OBVIOUS
    <3> QED
      BY <1>3, <1>6, <1>7, <3>1
  <2> QED
    BY <1>2, <1>7, <2>1, OpenKeepsGraph
<1>9. \A k \in 1..(n - 1) : PlacedAt(k)' /\ SoundAt(k)'
  <2>1. n - 1 \in 0..Len(sweeps) /\ n - 1 <= Len(sweeps') /\ Opened(n - 1) <= Depth'
    BY <1>0, <1>3, <1>5, <1>7
  <2>2. \A j \in 1..Opened(n - 1) : j \in 1..Depth /\ j \in 1..(Depth + 1)
    BY <1>3, <1>5
  <2> QED
    BY <1>2, <1>3, <1>5, <1>7, <1>8, <2>1, <2>2, CallersUntouched
<1>10. Home(n)' = Depth /\ Scope(n)' = Scope(n)
  <2>1. Home(n)' = Depth
    BY <1>6, <1>7 DEF Home
  <2>2. Opened(n - 1)' = Opened(n - 1)
    <3>1. n - 1 # 0 => n - 1 \in 1..(n - 1)
      BY <1>3
    <3>2. n - 1 # 0 => sweeps'[n - 1].entry = sweeps[n - 1].entry
      BY <1>7, <3>1
    <3> QED
      BY <3>2 DEF Opened
  <2>3. Scope(n) = DOMAIN adj \cap UNION {live[j] : j \in (Opened(n - 1) + 1)..(Depth + 1)}
    BY <1>3 DEF Scope, Frames
  <2>4. Scope(n)' = DOMAIN adj \cap UNION {live'[j] : j \in (Opened(n - 1) + 1)..(Depth + 1)}
    BY <1>2, <2>1, <2>2 DEF Scope, Frames
  <2>5. \A j \in (Opened(n - 1) + 1)..(Depth + 1) : j \in 1..(Depth + 1)
    BY <1>3, <1>5
  <2> QED
    BY <1>5, <2>1, <2>3, <2>4, <2>5
<1>11. PlacedAt(n)'
  <2>1. \A j \in 1..(n - 1) : sweeps'[j].entry < Depth
    BY <1>3, <1>7 DEF PlacedAt
  <2>2. Len(nested_var_stack_sizes_) = Depth /\ Len(nested_var_stack_sizes_') = Depth + 1
    BY <1>5 DEF Depth
  <2>3. t.begin = Low(nested_var_stack_sizes_', Depth + 1)
    <3>1. t.begin = Low(nested_var_stack_sizes_, Depth + 1)
      BY <1>3, <1>6 DEF PlacedAt
    <3>2. Depth # 0 => Depth \in 1..Depth /\ (Depth + 1) - 1 = Depth
      BY <1>5
    <3> QED
      BY <1>5, <3>1, <3>2 DEF Low
  <2>4. t.end = High(nested_var_stack_sizes_', var_stack_', Depth + 1)
    <3>1. t.end = Len(var_stack_)
      BY <1>3, <1>6, <2>2 DEF PlacedAt, High
    <3> QED
      BY <1>5, <2>2, <3>1 DEF High
  <2>5. t.i \in t.begin..t.end /\ t.root \in Scope(n) /\ t.begin < t.i
    BY <1>2, <1>3, <1>4, <1>6 DEF PlacedAt
  <2>6. Depth < Depth'
    BY <1>5
  <2> QED
    BY <1>6, <1>7, <1>10, <2>1, <2>3, <2>4, <2>5, <2>6 DEF PlacedAt
<1>12. SoundAt(n)'
  <2>1. Stretch(sweeps[n].i, sweeps[n].end)' = Stretch(s.i, s.end)
    BY <1>5, <1>6, <1>7 DEF Stretch
  <2> QED
    BY <1>2, <1>3, <1>6, <1>7, <1>10, <2>1 DEF SoundAt
<1>13. \A k \in 1..n : k \in 1..(n - 1) \/ k = n
  OBVIOUS
<1> QED
  BY <1>7, <1>8, <1>9, <1>11, <1>12, <1>13 DEF SweepInv, Placed, Sound

\* The last sweep is gone: the others are all in a callback.
LEMMA LastSweepEnds ==
  ASSUME SweepInv, Sweeping, sweeps' = PopBack(sweeps), NEW n \in Nat, n = Len(sweeps)
  PROVE  /\ n # 0 /\ n - 1 \in 0..Len(sweeps)
         /\ sweeps' \in Seq(Sweep) /\ Len(sweeps') = n - 1 /\ DOMAIN sweeps' = 1..(n - 1)
         /\ \A k \in 1..(n - 1) : sweeps[k].busy /\ sweeps'[k] = sweeps[k]
         /\ \A j \in DOMAIN sweeps' : sweeps'[j].busy =>
              j \in DOMAIN sweeps /\ sweeps[j].busy /\ sweeps[j].entry = sweeps'[j].entry
<1>1. /\ n # 0 /\ DOMAIN sweeps = 1..n /\ n - 1 \in 0..n
      /\ \A k \in 1..(n - 1) : sweeps[k].busy
  BY CallersAbove
<1>2. sweeps \in Seq(Sweep) /\ sweeps' = SubSeq(sweeps, 1, n - 1)
  BY DEF SweepInv, SweepTypes, PopBack
<1>3. sweeps' \in Seq(Sweep) /\ Len(sweeps') = n - 1 /\ \A k \in 1..(n - 1) : sweeps'[k] = sweeps[k]
  BY <1>1, <1>2, Prefix
<1>4. DOMAIN sweeps' = 1..(n - 1) /\ \A k \in 1..(n - 1) : k \in 1..n
  BY <1>3
<1> QED
  BY <1>1, <1>3, <1>4

\* The end of the loop.
LEMMA EndGradKeepsInv ==
  ASSUME SweepInv, EndGrad
  PROVE  SweepInv'
<1>0. PICK n \in Nat : n = Len(sweeps)
  BY SweepFacts DEF SweepInv
<1>1. Sweeping /\ sweeps' = PopBack(sweeps) /\ UNCHANGED <<tapeVars, node, adj>>
  BY DEF EndGrad
<1>2. /\ n - 1 \in 0..Len(sweeps)
      /\ sweeps' \in Seq(Sweep) /\ Len(sweeps') = n - 1 /\ DOMAIN sweeps' = 1..(n - 1)
      /\ \A k \in 1..(n - 1) : sweeps[k].busy /\ sweeps'[k] = sweeps[k]
      /\ \A j \in DOMAIN sweeps' : sweeps'[j].busy =>
           j \in DOMAIN sweeps /\ sweeps[j].busy /\ sweeps[j].entry = sweeps'[j].entry
  BY <1>0, <1>1, LastSweepEnds
<1>3. adj' \in [DOMAIN adj -> Nat] /\ n - 1 <= Len(sweeps')
  BY <1>1, <1>2 DEF SweepInv, SweepTypes
<1>4. TapeInv' /\ SweepTypes' /\ Local' /\ Ordered'
  BY <1>1, <1>2, <1>3, QuietKeepsGraph
<1>5. \A k \in 1..(n - 1) : PlacedAt(k)' /\ SoundAt(k)'
  BY <1>1, <1>2, <1>3, <1>4, QuietKeepsCallers
<1> QED
  BY <1>2, <1>4, <1>5 DEF SweepInv, Placed, Sound

\* A callback that throws: its scope and its sweep are gone, its callers are as they were.
LEMMA CallbackThrowsKeepsInv ==
  ASSUME SweepInv, CallbackThrows
  PROVE  SweepInv'
<1>0. PICK n \in Nat : n = Len(sweeps)
  BY SweepFacts DEF SweepInv
<1>1. /\ Sweeping /\ Current.busy /\ Depth = Current.entry + 1
      /\ RecoverMemoryNested /\ ForgetRecovered(adj) /\ sweeps' = PopBack(sweeps)
  BY DEF CallbackThrows, InCallback
<1>2. /\ n # 0 /\ n - 1 \in 0..Len(sweeps)
      /\ sweeps' \in Seq(Sweep) /\ Len(sweeps') = n - 1 /\ DOMAIN sweeps' = 1..(n - 1)
      /\ \A k \in 1..(n - 1) : sweeps[k].busy /\ sweeps'[k] = sweeps[k]
      /\ \A j \in DOMAIN sweeps' : sweeps'[j].busy =>
           j \in DOMAIN sweeps /\ sweeps[j].busy /\ sweeps[j].entry = sweeps'[j].entry
  BY <1>0, <1>1, LastSweepEnds
<1>3. adj \in [DOMAIN adj -> Nat] /\ n - 1 <= Len(sweeps')
  BY <1>2 DEF SweepInv, SweepTypes
<1>4. TapeInv' /\ SweepTypes' /\ Local' /\ Ordered'
  BY <1>1, <1>2, <1>3, CloseKeepsGraph
<1>5. Opened(n - 1) < Depth
  <2>1. Home(n) = Current.entry /\ Current.entry \in Nat /\ Opened(n - 1) \in 0..Home(n)
    BY <1>0, <1>1, CallersAbove, SweepFields DEF Home
  <2> QED
    BY <1>1, <2>1
<1>6. \A k \in 1..(n - 1) : PlacedAt(k)' /\ SoundAt(k)'
  BY <1>1, <1>2, <1>3, <1>5, CallersOutlive
<1> QED
  BY <1>2, <1>4, <1>6 DEF SweepInv, Placed, Sound

\* A callback that returns: its scope is gone, its adjoint is passed on, and its sweep goes
\* on where it was.
LEMMA LeaveCallbackKeepsInv ==
  ASSUME SweepInv, LeaveCallback
  PROVE  SweepInv'
<1>0. PICK n \in Nat : n = Len(sweeps)
  BY SweepFacts DEF SweepInv
<1>1. PICK s \in Sweep : s = Current
  BY CallersAbove DEF LeaveCallback, InCallback
<1> DEFINE x == var_stack_[s.i]
           a == Propagated(x)
           t == [s EXCEPT !.busy = FALSE, !.entry = 0, !.i = @ - 1]
<1>2. /\ Sweeping /\ s.busy /\ Depth = s.entry + 1
      /\ RecoverMemoryNested /\ ForgetRecovered(a) /\ sweeps' = [sweeps EXCEPT ![n] = t]
  BY <1>0, <1>1 DEF LeaveCallback, InCallback, Next_vari, SetCurrent
<1>3. /\ n # 0 /\ DOMAIN sweeps = 1..n /\ s = sweeps[n] /\ PlacedAt(n)
      /\ \A k \in 1..(n - 1) : sweeps[k].busy
      /\ n - 1 \in 0..n /\ Home(n) = s.entry /\ Opened(n - 1) \in 0..s.entry
  BY <1>0, <1>1, <1>2, CallersAbove DEF Home
<1>4. /\ s.i \in Nat /\ s.begin \in Nat /\ s.end \in Nat /\ s.entry \in Nat
      /\ s.begin < s.i /\ s.i <= s.end
  BY <1>1, <1>2, <1>3, SweepFields DEF PlacedAt
<1>5. /\ t \in Sweep /\ t.root = s.root /\ t.end = s.end /\ t.begin = s.begin /\ t.i = s.i - 1
      /\ t.clean = s.clean /\ t.busy = FALSE /\ t.entry = 0
  <2>1. s.i - 1 \in Nat
    BY <1>4
  <2> QED
    BY <2>1 DEF Sweep
<1> HIDE DEF t
<1>6. /\ sweeps' \in Seq(Sweep) /\ Len(sweeps') = n /\ DOMAIN sweeps' = 1..n /\ sweeps'[n] = t
      /\ \A k \in 1..(n - 1) : sweeps'[k] = sweeps[k]
  <2>1. sweeps \in Seq(Sweep)
    BY DEF SweepInv, SweepTypes
  <2> QED
    BY <1>0, <1>2, <1>3, <1>5, <2>1
<1>7. /\ a \in [DOMAIN adj -> Nat]
      /\ \A y \in Stretch(s.i - 1, s.end) : y \in Live /\ node[y].src \in Scope(n)
      /\ s.clean => Adds(s.root, Scope(n), Stretch(s.i - 1, s.end), a, node)
      /\ \A j \in 1..Opened(n - 1) : \A v \in live[j] : v \in DOMAIN adj => a[v] = adj[v]
  <2>1. Current.i > Current.begin
    BY <1>1, <1>4
  <2> QED
    BY <1>0, <1>1, <1>2, <2>1, PassedOn
<1> HIDE DEF a
<1>8. \A j \in DOMAIN sweeps' : sweeps'[j].busy =>
        j \in DOMAIN sweeps /\ sweeps[j].busy /\ sweeps[j].entry = sweeps'[j].entry
  <2>1. \A j \in 1..n : j \in 1..(n - 1) \/ j = n
    OBVIOUS
  <2> QED
    BY <1>3, <1>5, <1>6, <2>1
<1>9. /\ TapeInv' /\ SweepTypes' /\ Local' /\ Ordered'
      /\ \A v \in Live' : /\ node'[v] = node[v]
                          /\ v \in DOMAIN adj' <=> v \in DOMAIN adj
                          /\ v \in DOMAIN adj => adj'[v] = a[v]
  BY <1>2, <1>6, <1>7, <1>8, CloseKeepsGraph
<1>10. /\ Depth' = s.entry /\ Len(live') = Depth
       /\ \A k \in 1..Depth : live'[k] = live[k] /\ live[k] \subseteq Live'
       /\ \A k \in 1..(Depth - 1) : nested_var_stack_sizes_'[k] = nested_var_stack_sizes_[k]
       /\ Len(var_stack_') = nested_var_stack_sizes_[Depth]
       /\ \A p \in 1..nested_var_stack_sizes_[Depth] : var_stack_'[p] = var_stack_[p]
  <2>1. Depth' = Depth - 1
    BY <1>2, ClosedFrame DEF SweepInv
  <2> QED
    BY <1>2, <1>4, <2>1, ClosedFrame DEF SweepInv
<1>11. \A k \in 1..(n - 1) : PlacedAt(k)' /\ SoundAt(k)'
  <2>1. PICK m \in 0..Len(sweeps) : m = n - 1 /\ m <= Len(sweeps') /\ Opened(m) < Depth
    BY <1>0, <1>2, <1>3, <1>4, <1>6
  <2>2. /\ \A k \in 1..m : sweeps[k].busy /\ sweeps'[k] = sweeps[k]
        /\ \A j \in 1..Opened(m) : \A v \in live[j] : v \in DOMAIN adj => a[v] = adj[v]
    BY <1>3, <1>6, <1>7, <2>1
  <2>3. RecoverMemoryNested /\ ForgetRecovered(a) /\ a \in [DOMAIN adj -> Nat]
        /\ sweeps' \in Seq(Sweep)
    BY <1>2, <1>6, <1>7
  <2>4. \A k \in 1..m : PlacedAt(k)' /\ SoundAt(k)'
    BY <1>8, <2>1, <2>2, <2>3, CallersOutlive
  <2> QED
    BY <2>1, <2>4
<1>12. Home(n)' = s.entry /\ Scope(n)' = Scope(n) /\ \A v \in Scope(n) : v \in Live'
  <2>1. Home(n)' = s.entry
    BY <1>5, <1>6, <1>10 DEF Home
  <2>2. Opened(n - 1)' = Opened(n - 1)
    <3>1. n - 1 # 0 => n - 1 \in 1..(n - 1)
      BY <1>3
    <3>2. n - 1 # 0 => sweeps'[n - 1].entry = sweeps[n - 1].entry
      BY <1>6, <3>1
    <3> QED
      BY <3>2 DEF Opened
  <2>3. \A v : v \in Scope(n) <=>
          v \in DOMAIN adj /\ \E j \in (Opened(n - 1) + 1)..(s.entry + 1) : v \in live[j]
    BY <1>3 DEF Scope, Frames
  <2>4. \A v : v \in Scope(n)' <=>
          v \in DOMAIN adj' /\ \E j \in (Opened(n - 1) + 1)..(s.entry + 1) : v \in live'[j]
    BY <2>1, <2>2 DEF Scope, Frames
  <2>5. \A j \in (Opened(n - 1) + 1)..(s.entry + 1) : j \in 1..Depth
    BY <1>2, <1>3, <1>4
  <2>6. \A j \in (Opened(n - 1) + 1)..(s.entry + 1) : live'[j] = live[j] /\ live[j] \subseteq Live'
    BY <1>10, <2>5
  <2>7. \A v : v \in Scope(n) <=> v \in Scope(n)'
    BY <1>9, <2>3, <2>4, <2>6
  <2>8. \A v \in Scope(n) : v \in Live'
    BY <2>3, <2>6
  <2> QED
    BY <2>1, <2>7, <2>8
<1>13. s.end = nested_var_stack_sizes_[s.entry + 1]
  <2>1. s.end = High(nested_var_stack_sizes_, var_stack_, s.entry + 1)
    BY <1>3 DEF PlacedAt
  <2>2. Len(nested_var_stack_sizes_) = Depth /\ s.entry + 1 # Depth + 1
    BY <1>2, <1>4, SweepFacts DEF SweepInv
  <2> QED
    BY <2>1, <2>2 DEF High
<1>14. PlacedAt(n)'
  <2>1. \A j \in 1..(n - 1) : sweeps'[j].entry < s.entry
    BY <1>3, <1>6 DEF PlacedAt
  <2>2. t.i \in t.begin..t.end
    BY <1>4, <1>5
  <2>3. t.begin = Low(nested_var_stack_sizes_', s.entry + 1)
    <3>1. t.begin = Low(nested_var_stack_sizes_, s.entry + 1)
      BY <1>3, <1>5 DEF PlacedAt
    <3>2. s.entry # 0 => s.entry \in 1..(Depth - 1) /\ (s.entry + 1) - 1 = s.entry
      BY <1>2, <1>4
    <3> QED
      BY <1>4, <1>10, <3>1, <3>2 DEF Low
  <2>4. t.end = High(nested_var_stack_sizes_', var_stack_', s.entry + 1)
    <3>1. Len(nested_var_stack_sizes_') = s.entry
      BY <1>10 DEF Depth, TapeInv, EquallyDeep, Inv, TypeOK
    <3> QED
      BY <1>2, <1>5, <1>10, <1>13, <3>1 DEF High
  <2>5. t.root \in Scope(n)
    BY <1>3, <1>5 DEF PlacedAt
  <2>6. ~ (n < Len(sweeps'))
    BY <1>6
  <2> QED
    BY <1>5, <1>6, <1>12, <2>1, <2>2, <2>3, <2>4, <2>5, <2>6 DEF PlacedAt
<1>15. SoundAt(n)'
  <2> DEFINE done == Stretch(s.i - 1, s.end)
  <2>1. Stretch(sweeps[n].i, sweeps[n].end)' = done
    <3>1. \A p \in ((s.i - 1) + 1)..s.end : p \in 1..nested_var_stack_sizes_[Depth]
      BY <1>2, <1>4, <1>13
    <3>2. \A p \in ((s.i - 1) + 1)..s.end : var_stack_'[p] = var_stack_[p]
      BY <1>10, <3>1
    <3>3. Stretch(sweeps[n].i, sweeps[n].end)' = {var_stack_'[p] : p \in ((s.i - 1) + 1)..s.end}
      BY <1>5, <1>6 DEF Stretch
    <3> QED
      BY <3>2, <3>3 DEF Stretch
  <2>2. \A y \in done : y \in Live'
    <3>1. ASSUME NEW p \in ((s.i - 1) + 1)..s.end
          PROVE  var_stack_[p] \in Live'
      <4>1. p \in (sweeps[n].begin + 1)..sweeps[n].end
        BY <1>3, <1>4
      <4>2. var_stack_[p] \in live[s.entry + 1]
        BY <1>3, <4>1, Covered DEF SweepInv
      <4>3. s.entry + 1 \in 1..Depth
        BY <1>2, <1>4
      <4> QED
        BY <1>10, <4>2, <4>3
    <3> QED
      BY <3>1 DEF Stretch
  <2> HIDE DEF done
  <2>3. \A y \in done : node'[y] = node[y] /\ node[y].src \in Scope(n)
    BY <1>7, <1>9, <2>2 DEF done
  <2>4. \A v \in Scope(n) : adj'[v] = a[v]
    BY <1>9, <1>12 DEF Scope
  <2>5. s.clean => Adds(s.root, Scope(n), done, adj', node')
    <3> SUFFICES ASSUME s.clean PROVE Adds(s.root, Scope(n), done, adj', node')
      OBVIOUS
    <3>1. Adds(s.root, Scope(n), done, a, node)
      BY <1>7 DEF done
    <3> QED
      BY <2>3, <2>4, <3>1, AddsKept
  <2> QED
    BY <1>5, <1>6, <1>12, <2>1, <2>5 DEF SoundAt
<1>16. \A k \in 1..n : k \in 1..(n - 1) \/ k = n
  OBVIOUS
<1> QED
  BY <1>6, <1>9, <1>11, <1>14, <1>15, <1>16 DEF SweepInv, Placed, Sound

-----------------------------------------------------------------------------
(* The theorems *)

\* Before anything ran there is nothing to refer to and no sweep.
LEMMA SweepInitInv == SweepInit => SweepInv
<1> SUFFICES ASSUME SweepInit PROVE SweepInv
  OBVIOUS
<1>1. TapeInv /\ node = << >> /\ adj = << >> /\ sweeps = << >> /\ var_stack_ = << >>
  BY TapeInitInv DEF SweepInit, TapeInit
<1>2. live = << {} >> /\ Live = {}
  BY DEF SweepInit, TapeInit, Init, Live, LiveIn
<1>3. SweepTypes
  <2>1. << >> = [v \in {} |-> {}]
    OBVIOUS
  <2>2. node \in [Live -> Node] /\ DOMAIN adj = {} /\ adj \in [DOMAIN adj -> Nat]
    BY <1>1, <1>2, <2>1
  <2> QED
    BY <1>1, <2>2 DEF SweepTypes
<1>4. Local /\ Ordered /\ Placed /\ Sound
  BY <1>1, <1>2 DEF Local, Ordered, Placed, Sound
<1> QED
  BY <1>1, <1>3, <1>4 DEF SweepInv

\* Every step of user code and of the sweeps keeps the invariant.
LEMMA SweepNextKeepsInv ==
  ASSUME SweepInv, [SweepNext]_sweepVars
  PROVE  SweepInv'
<1>1. ASSUME NEW ops \in OperandSets, NewOperation(ops) PROVE SweepInv'
  BY <1>1, NewOperationKeepsInv DEF OperandSets
<1>2. ASSUME NEW r \in Usable, NEW ops \in OperandSets, NewCallback(r, ops) PROVE SweepInv'
  BY <1>2, NewCallbackKeepsInv DEF OperandSets
<1>3. ASSUME NEW root \in Usable, StartGrad(root) PROVE SweepInv'
  BY <1>3, StartGradKeepsInv
<1>4. CASE set_zero_all_adjoints
  BY <1>4, DisturbedKeepsInv DEF set_zero_all_adjoints
<1>5. CASE set_zero_all_adjoints_nested
  BY <1>5, DisturbedKeepsInv DEF set_zero_all_adjoints_nested
<1>6. CASE UNCHANGED sweepVars
  <2>1. /\ UNCHANGED <<tapeVars, node>> /\ adj' = adj /\ sweeps' = sweeps
    BY <1>6 DEF sweepVars
  <2>2. adj' \in [DOMAIN adj -> Nat] /\ sweeps' \in Seq(Sweep)
    BY <2>1 DEF SweepInv, SweepTypes
  <2>3. /\ TapeInv' /\ SweepTypes' /\ Local' /\ Ordered'
        /\ UNCHANGED <<var_stack_, nested_var_stack_sizes_, live>> /\ Depth' = Depth
    BY <2>1, <2>2, QuietKeepsGraph
  <2>4. ASSUME NEW k PROVE PlacedAt(k)' = PlacedAt(k) /\ SoundAt(k)' = SoundAt(k)
    BY <2>1, <2>3 DEF PlacedAt, SoundAt, Home, Opened, Scope, Frames, Stretch
  <2> QED
    BY <2>1, <2>3, <2>4 DEF SweepInv, Placed, Sound
<1> QED
  BY <1>1, <1>2, <1>3, <1>4, <1>5, <1>6, NewLeafKeepsInv, UserStartNestedKeepsInv,
     UserRecoverNestedKeepsInv, UserRecoverMemoryKeepsInv, ChainKeepsInv, EnterCallbackKeepsInv,
     LeaveCallbackKeepsInv, CallbackThrowsKeepsInv, EndGradKeepsInv DEF SweepNext

\* The invariant holds throughout.
THEOREM SweepInvariance == SweepSpec => []SweepInv
BY SweepInitInv, SweepNextKeepsInv, PTL DEF SweepSpec

\* A sweep run by a callback stays above the part of the tape its caller is sweeping, and the
\* caller's part is still there when grad() goes on with it.
THEOREM SweepsNeverMeet == SweepSpec => []SweepsStayApart
BY SweepInvariance, InvKeepsApart, PTL

\* When the loop of grad() ends, every adjoint is the derivative of the root, whatever nested
\* autodiff the callbacks ran, finished or abandoned, for a sweep that found all adjoints zero
\* and during which no callback called set_zero_all_adjoints() or
\* set_zero_all_adjoints_nested().
THEOREM GradientAlwaysCorrect == SweepSpec => []GradientCorrect
BY SweepInvariance, InvIsGradient, PTL
=============================================================================
