-------------------------- MODULE ReduceSumProofs --------------------------
(***************************************************************************)
(* Theorems about ReduceSum, for any number of terms, any grain size, any   *)
(* threads and both partitioners.  The tasks that have not completed and    *)
(* the finish tasks that have not run are a binary tree.  lo, hi and first  *)
(* say of a finish task what its fields do not: the terms below it are      *)
(* lo[g] .. hi[g] - 1, its own number lies between its children, and        *)
(* first[g] is the body that accumulates the terms on its left.             *)
(***************************************************************************)
EXTENDS ReduceSum, TLAPS

End == NumTerms + 1

\* The terms from a up to b.
Interval(a, b) == [i \in 1 .. b - a |-> a + i - 1]

Started(s) == task[s].status \in {"balance", "function"}
Active(s) == task[s].status \in {"spawned", "balance", "function"}

\* Finish tasks that have not run.
Open(g) == ~node[g].done

----------------------------------------------------------------------------
(* The threads *)

Statuses == {"none", "spawned", "balance", "function", "done"}
Sides == {"root", "left", "right"}

Task == [status : Statuses, cuts : Seq(1 .. End), body : 0 .. NumTerms,
         parent : 0 .. NumTerms, context : Sides]
Node == [refs : Int, parent : 0 .. NumTerms, context : Sides, body : 0 .. NumTerms,
         zombie : BOOLEAN, done : BOOLEAN]

Types ==
  /\ auto \in BOOLEAN
  /\ task \in [Terms -> Task]
  /\ node \in [0 .. NumTerms -> Node]
  /\ sum_ \in [Terms -> Seq(Terms)]
  /\ args_adjoints_ \in [Terms -> Seq(Terms)]
  /\ adj \in [Terms -> Seq(Terms)]
  /\ partials \in [Terms -> Nat]
  /\ threw \subseteq Terms
  /\ caller \in {"waiting", "returned", "threw"}

\* A task that was started is once on one thread's stack.
StackedAreStarted ==
  \A th \in Threads, i \in Nat : i \in 1 .. Len(running[th]) => Started(running[th][i])
StackedOnce ==
  \A th, other \in Threads, i, j \in Nat :
    i \in 1 .. Len(running[th]) /\ j \in 1 .. Len(running[other])
      /\ running[th][i] = running[other][j] => th = other /\ i = j
StartedAreStacked ==
  \A s \in Terms : Started(s) =>
    \E th \in Threads, i \in Nat : i \in 1 .. Len(running[th]) /\ running[th][i] = s

Stacks ==
  /\ running \in [Threads -> Seq(Terms)]
  /\ scopes \in [Threads -> Seq(Terms)]
  /\ StackedAreStarted /\ StackedOnce /\ StartedAreStacked

\* What ScopesMatchFunctions says of one thread.
ScopeFits(th) ==
  /\ \A i \in 1 .. Len(running[th]) - 1 : InFunction(running[th][i])
  /\ scopes[th] = IF running[th] # << >> /\ ~InFunction(Top(th))
                  THEN Front(running[th]) ELSE running[th]

----------------------------------------------------------------------------
(* The tree *)

TaskAt(s, p, side) == Active(s) /\ task[s].parent = p /\ task[s].context = side
NodeAt(g, p, side) == Open(g) /\ node[g].parent = p /\ node[g].context = side

\* A child of p on that side has not completed.
Busy(p, side) ==
  (\E s \in Terms : TaskAt(s, p, side)) \/ (\E g \in Terms : NodeAt(g, p, side))

LeftDone(g) == ~Busy(g, "left")
RightDone(g) == ~Busy(g, "right")
RootDone == ~Busy(0, "root")

Ascending(c) == \A i, j \in 1 .. Len(c) : i < j => c[i] < c[j]

\* A task has ranges left until it completes, in the order of the terms.
CutsFit(s) ==
  /\ task[s].cuts # << >> /\ s <= task[s].cuts[1]
  /\ Ascending(task[s].cuts)
  /\ InFunction(s) => Len(task[s].cuts) > 1

Upto(s) == Last(task[s].cuts)

\* The ranges of a task end where those of the next task or finish task begin.
TaskFits(s, lo, hi) ==
  LET p == task[s].parent
  IN  /\ task[s].context = "root" => s = 1 /\ p = 0 /\ Upto(s) = End
      /\ task[s].context = "left" =>
           p \in Terms /\ Open(p) /\ s = lo[p] /\ Upto(s) = p /\ Started(s)
      /\ task[s].context = "right" => p = s /\ Open(s) /\ Upto(s) = hi[s]
      /\ \A i \in Terms : s < i /\ i < Upto(s) => task[i].status = "none"

NodeFits(g, lo, hi) ==
  LET p == node[g].parent
  IN  /\ lo[g] < g /\ g < hi[g]
      /\ node[g].context = "root" => p = 0 /\ lo[g] = 1 /\ hi[g] = End
      /\ node[g].context = "left" => p \in Terms /\ Open(p) /\ lo[g] = lo[p] /\ hi[g] = p
      /\ node[g].context = "right" => p \in Terms /\ Open(p) /\ lo[g] = p /\ hi[g] = hi[p]
      /\ lo[g] # 1 => Open(lo[g]) /\ hi[g] <= hi[lo[g]]

Count(busy) == IF busy THEN 1 ELSE 0

\* A finish task counts its children, and where a side is done nothing is left of it.
NodeCounts(g, lo, hi) ==
  /\ node[g].refs = Count(Busy(g, "left")) + Count(Busy(g, "right"))
  /\ LeftDone(g) => \A i \in Terms : lo[g] < i /\ i < g => ~Open(i)
  /\ RightDone(g) => \A i \in Terms : g < i /\ i < hi[g] => ~Open(i)
  /\ \A h \in Terms : Open(h) /\ h # g =>
       node[h].parent # node[g].parent \/ node[h].context # node[g].context

Shape(lo, hi) ==
  /\ lo \in [Terms -> Terms] /\ hi \in [Terms -> 1 .. End]
  /\ \A s \in Terms : Active(s) => CutsFit(s) /\ TaskFits(s, lo, hi)
  /\ \A g \in Terms : Open(g) => NodeFits(g, lo, hi) /\ NodeCounts(g, lo, hi)
  /\ \A i \in Terms : task[i].status = "none" => node[i] = NoNode
  /\ node[0].refs = Count(Busy(0, "root"))
  /\ RootDone => \A g \in Terms : ~Open(g)

----------------------------------------------------------------------------
(* The bodies *)

\* Body b is made before term i is reached and lives until term e.
Covers(b, i, e, hi) ==
  b = 1 \/ (b \in Terms /\ Open(b) /\ node[b].zombie /\ b <= i /\ e <= hi[b])

\* The body that accumulates the terms on the right of g.
Second(g, first) == IF node[g].zombie THEN g ELSE first[g]

TaskBody(s, hi, first) ==
  LET b == task[s].body
      p == task[s].parent
  IN  /\ Covers(b, s, Upto(s), hi)
      /\ task[s].context = "root" => b = 1
      /\ task[s].context = "left" => b = first[p]
      /\ task[s].context = "right" =>
           IF task[s].status # "spawned" THEN b = Second(s, first)
           ELSE IF auto THEN b = first[s] /\ ~node[s].zombie ELSE b = s

NodeBody(g, hi, first) ==
  LET p == node[g].parent
  IN  /\ Covers(first[g], g, hi[g], hi) /\ first[g] # g
      /\ node[g].context = "root" => first[g] = 1
      /\ node[g].context = "left" => first[g] = first[p]
      /\ node[g].context = "right" => first[g] = Second(p, first)
      /\ node[g].body \in {0, first[g]}
      /\ ~auto => node[g].zombie /\ node[g].body = first[g]
      /\ auto /\ ~LeftDone(g) => node[g].body = 0
      /\ ~is_cancelled /\ LeftDone(g) => node[g].body = first[g]
      /\ node[g].zombie \/ LeftDone(g) \/ task[g].status = "spawned"
           \/ (is_cancelled /\ RightDone(g))

\* What was accumulated on the left of g, and on its right when that had no body of its
\* own, waits in first[g] for the finish task or for the right child.
Holds(g) ==
  /\ Open(g) /\ LeftDone(g)
  /\ node[g].zombie \/ RightDone(g) \/ task[g].status = "spawned"

Apart(first) ==
  /\ \A s, t \in Terms : Started(s) /\ Started(t) /\ s # t => task[s].body # task[t].body
  /\ \A s, g \in Terms : Started(s) /\ Holds(g) => task[s].body # first[g]
  /\ \A g, h \in Terms : Holds(g) /\ Holds(h) /\ g # h => first[g] # first[h]

BodiesFit(hi, first) ==
  /\ first \in [Terms -> Terms]
  /\ \A s \in Terms : Active(s) => TaskBody(s, hi, first)
  /\ \A g \in Terms : Open(g) => NodeBody(g, hi, first)
  /\ Apart(first)

AdjointsReset == \A s \in Terms : InFunction(s) => adj[task[s].body] = << >>

Bodies(hi, first) == BodiesFit(hi, first) /\ AdjointsReset

----------------------------------------------------------------------------
(* What was accumulated *)

Has(b, upto) == sum_[b] = Interval(b, upto) /\ args_adjoints_[b] = Interval(b, upto)

Todo(i) == \E s \in Terms : Active(s) /\ task[s].cuts[1] <= i /\ i < Upto(s)

Exact(hi, first) ==
  /\ \A s \in Terms : Started(s) => Has(task[s].body, task[s].cuts[1])
  /\ \A s \in Terms : task[s].status = "spawned" => task[s].cuts[1] = s
  /\ task[1].status = "spawned" => Has(1, 1)
  /\ \A g \in Terms : Holds(g) =>
       Has(first[g], IF ~node[g].zombie /\ RightDone(g) THEN hi[g] ELSE g)
  /\ \A g \in Terms : Open(g) /\ node[g].zombie /\ RightDone(g) => Has(g, hi[g])
  /\ \A g \in Terms : Open(g) /\ node[g].zombie /\ task[g].status = "spawned" => Has(g, g)
  /\ \A g \in Terms \ {1} : ~node[g].zombie => Has(g, g)
  /\ RootDone => Has(1, End)
  /\ \A i \in Terms : partials[i] = IF Todo(i) THEN 0 ELSE 1

Ended ==
  /\ caller # "waiting" => RootDone
  /\ caller = "returned" => ~is_cancelled

\* No child counts on a finish task that has run, or that there is not yet.
Released == \A g \in Terms : ~Open(g) => node[g].refs = 0

Tree(lo, hi, first) ==
  Shape(lo, hi) /\ Bodies(hi, first) /\ (~is_cancelled => Exact(hi, first))

ReduceInv ==
  /\ Types /\ Stacks /\ ScopesMatchFunctions /\ Ended /\ Released
  /\ \E lo, hi, first : Tree(lo, hi, first)

----------------------------------------------------------------------------
(* Sequences *)

\* What appending to a sequence and taking its ends yields.
LEMMA SeqFacts ==
  ASSUME NEW S, NEW s \in Seq(S)
  PROVE  /\ Len(s) \in Nat
         /\ \A i \in 1 .. Len(s) : s[i] \in S
         /\ s # << >> => /\ Len(s) >= 1
                         /\ Last(s) = s[Len(s)] /\ Last(s) \in S /\ s[1] \in S
                         /\ Front(s) \in Seq(S) /\ Len(Front(s)) = Len(s) - 1
                         /\ \A i \in 1 .. Len(s) - 1 : Front(s)[i] = s[i]
                         /\ Tail(s) \in Seq(S) /\ Len(Tail(s)) = Len(s) - 1
                         /\ \A i \in 1 .. Len(s) - 1 : Tail(s)[i] = s[i + 1]
<1>1. s # << >> => Len(s) >= 1
  OBVIOUS
<1>2. s # << >> => Last(s) = s[Len(s)] /\ Last(s) \in S /\ s[1] \in S
  BY <1>1 DEF Last
<1>3. ASSUME s # << >>
      PROVE  /\ Front(s) \in Seq(S) /\ Len(Front(s)) = Len(s) - 1
             /\ \A i \in 1 .. Len(s) - 1 : Front(s)[i] = s[i]
  <2>1. Front(s) = [i \in 1 .. Len(s) - 1 |-> s[i]]
    BY <1>1, <1>3 DEF Front
  <2>. QED
    BY <2>1, <1>1, <1>3
<1>4. s # << >> => /\ Tail(s) \in Seq(S) /\ Len(Tail(s)) = Len(s) - 1
                   /\ \A i \in 1 .. Len(s) - 1 : Tail(s)[i] = s[i + 1]
  BY <1>1
<1>. QED
  BY <1>1, <1>2, <1>3, <1>4

LEMMA SeqEqual ==
  ASSUME NEW S, NEW s \in Seq(S), NEW t \in Seq(S), Len(s) = Len(t),
         \A i \in 1 .. Len(s) : s[i] = t[i]
  PROVE  s = t
  OBVIOUS

LEMMA AppendFacts ==
  ASSUME NEW S, NEW s \in Seq(S), NEW e \in S
  PROVE  /\ Append(s, e) \in Seq(S) /\ Append(s, e) # << >>
         /\ Len(Append(s, e)) = Len(s) + 1 /\ Append(s, e)[Len(s) + 1] = e
         /\ \A i \in 1 .. Len(s) : Append(s, e)[i] = s[i]
         /\ Last(Append(s, e)) = e /\ Front(Append(s, e)) = s
<1>1. /\ Append(s, e) \in Seq(S) /\ Append(s, e) # << >>
      /\ Len(Append(s, e)) = Len(s) + 1 /\ Append(s, e)[Len(s) + 1] = e
      /\ \A i \in 1 .. Len(s) : Append(s, e)[i] = s[i]
  OBVIOUS
<1>2. Last(Append(s, e)) = e
  BY <1>1, SeqFacts
<1>3. Front(Append(s, e)) = s
  <2>. DEFINE t == Append(s, e)
  <2>. HIDE DEF t
  <2>1. /\ t \in Seq(S) /\ t # << >> /\ Len(t) = Len(s) + 1
        /\ \A i \in 1 .. Len(s) : t[i] = s[i]
    BY <1>1 DEF t
  <2>2. /\ Front(t) \in Seq(S) /\ Len(Front(t)) = Len(t) - 1
        /\ \A i \in 1 .. Len(t) - 1 : Front(t)[i] = t[i]
    BY <2>1, SeqFacts
  <2>3. Len(Front(t)) = Len(s) /\ \A i \in 1 .. Len(Front(t)) : Front(t)[i] = s[i]
    BY <2>1, <2>2
  <2>4. Front(t) = s
    BY <2>2, <2>3, SeqEqual
  <2>. QED
    BY <2>4 DEF t
<1>. QED
  BY <1>1, <1>2, <1>3

LEMMA Concatenated ==
  ASSUME NEW S, NEW s \in Seq(S), NEW t \in Seq(S)
  PROVE  /\ s \o t \in Seq(S) /\ Len(s \o t) = Len(s) + Len(t)
         /\ \A i \in 1 .. Len(s) : (s \o t)[i] = s[i]
         /\ \A i \in Len(s) + 1 .. Len(s) + Len(t) : (s \o t)[i] = t[i - Len(s)]
  OBVIOUS

LEMMA IntervalFacts ==
  ASSUME NEW a \in Int, NEW b \in Int, a <= b
  PROVE  /\ Interval(a, b) \in Seq(Int) /\ Len(Interval(a, b)) = b - a
         /\ \A i \in 1 .. b - a : Interval(a, b)[i] = a + i - 1
BY DEF Interval

LEMMA IntervalEmpty ==
  ASSUME NEW a \in Int
  PROVE  Interval(a, a) = << >>
<1>1. Interval(a, a) \in Seq(Int) /\ Len(Interval(a, a)) = 0
  BY DEF Interval
<1>. QED
  BY <1>1

LEMMA IntervalsJoin ==
  ASSUME NEW a \in Int, NEW b \in Int, NEW c \in Int, a <= b, b <= c
  PROVE  Interval(a, b) \o Interval(b, c) = Interval(a, c)
<1>. DEFINE s == Interval(a, b)
            t == Interval(b, c)
            u == Interval(a, c)
<1>0. a <= c
  OBVIOUS
<1>1. /\ s \in Seq(Int) /\ Len(s) = b - a
      /\ \A i \in 1 .. b - a : s[i] = a + i - 1
  BY IntervalFacts
<1>2. /\ t \in Seq(Int) /\ Len(t) = c - b
      /\ \A i \in 1 .. c - b : t[i] = b + i - 1
  BY IntervalFacts
<1>3. /\ u \in Seq(Int) /\ Len(u) = c - a
      /\ \A i \in 1 .. c - a : u[i] = a + i - 1
  BY <1>0, IntervalFacts
<1>. HIDE DEF s, t, u
<1>4. /\ s \o t \in Seq(Int) /\ Len(s \o t) = c - a
      /\ \A i \in 1 .. Len(s) : (s \o t)[i] = s[i]
      /\ \A i \in Len(s) + 1 .. Len(s) + Len(t) : (s \o t)[i] = t[i - Len(s)]
  <2>1. s \in Seq(Int) /\ t \in Seq(Int)
    BY <1>1, <1>2
  <2>2. /\ s \o t \in Seq(Int) /\ Len(s \o t) = Len(s) + Len(t)
        /\ \A i \in 1 .. Len(s) : (s \o t)[i] = s[i]
        /\ \A i \in Len(s) + 1 .. Len(s) + Len(t) : (s \o t)[i] = t[i - Len(s)]
    BY <2>1, Concatenated
  <2>3. Len(s) + Len(t) = c - a
    BY <1>1, <1>2
  <2>. QED
    BY <2>2, <2>3
<1>5. \A i \in 1 .. Len(s \o t) : (s \o t)[i] = u[i]
  <2>. SUFFICES ASSUME NEW i \in 1 .. c - a
                PROVE  (s \o t)[i] = u[i]
    BY <1>4
  <2>0. i \in Int /\ 1 <= i /\ i <= c - a /\ (i <= b - a \/ i > b - a)
    OBVIOUS
  <2>1. CASE i <= b - a
    <3>1. i \in 1 .. Len(s) /\ i \in 1 .. b - a
      BY <2>0, <2>1, <1>1
    <3>2. (s \o t)[i] = a + i - 1
      BY <3>1, <1>1, <1>4
    <3>. QED
      BY <3>2, <1>3
  <2>2. CASE i > b - a
    <3>1. (s \o t)[i] = t[i - (b - a)] /\ i - (b - a) \in 1 .. c - b
      BY <2>0, <2>2, <1>1, <1>2, <1>4
    <3>. QED
      BY <3>1, <1>2, <1>3
  <2>. QED
    BY <2>0, <2>1, <2>2
<1>6. s \o t = u
  BY <1>3, <1>4, <1>5, SeqEqual
<1>. QED
  BY <1>6 DEF s, t, u

LEMMA IntervalIn ==
  ASSUME NEW a \in Terms, NEW b \in 1 .. End, a <= b
  PROVE  Interval(a, b) \in Seq(Terms) /\ ToSet(Interval(a, b)) = a .. b - 1
<1>1. Interval(a, b) \in Seq(Terms)
  BY ReduceSumAssumption DEF Interval, Terms, End
<1>2. ASSUME NEW i \in a .. b - 1
      PROVE  i \in ToSet(Interval(a, b))
  <2>1. i - a + 1 \in 1 .. b - a /\ Interval(a, b)[i - a + 1] = i
    BY DEF Interval, Terms, End
  <2>2. DOMAIN Interval(a, b) = 1 .. b - a
    BY DEF Interval
  <2>. QED
    BY <2>1, <2>2 DEF ToSet
<1>3. ASSUME NEW i \in ToSet(Interval(a, b))
      PROVE  i \in a .. b - 1
  BY <1>3 DEF ToSet, Interval, Terms, End
<1>. QED
  BY <1>1, <1>2, <1>3

----------------------------------------------------------------------------
(* What the tree excludes *)

LEMMA TaskFacts ==
  ASSUME Types, NEW s \in Terms
  PROVE  /\ task[s].status \in Statuses /\ task[s].cuts \in Seq(1 .. End)
         /\ task[s].body \in 0 .. NumTerms /\ task[s].parent \in 0 .. NumTerms
         /\ task[s].context \in Sides
  BY DEF Types, Task

LEMMA NodeFacts ==
  ASSUME Types, NEW g \in 0 .. NumTerms
  PROVE  /\ node[g].refs \in Int /\ node[g].parent \in 0 .. NumTerms
         /\ node[g].context \in Sides /\ node[g].body \in 0 .. NumTerms
         /\ node[g].zombie \in BOOLEAN /\ node[g].done \in BOOLEAN
  BY DEF Types, Node

LEMMA TermsAre == Terms \subseteq 0 .. NumTerms /\ 1 \in Terms /\ Terms = 1 .. End - 1
                  /\ NumTerms \in Nat /\ End \in Nat /\ \A i \in Terms : i \in Nat /\ i # 0
  BY ReduceSumAssumption DEF Terms, End

\* A task with another status, and one with other ranges.
LEMMA TaskStatus ==
  ASSUME NEW t \in Task, NEW x \in Statuses, NEW r, r = [t EXCEPT !.status = x]
  PROVE  /\ r \in Task /\ r.status = x /\ r.cuts = t.cuts
         /\ r.body = t.body /\ r.parent = t.parent /\ r.context = t.context
<1>1. /\ r.status = x /\ r.cuts = t.cuts
      /\ r.body = t.body /\ r.parent = t.parent /\ r.context = t.context
  BY DEF Task
<1>2. r \in Task
  BY DEF Task
<1>. QED
  BY <1>1, <1>2

LEMMA TaskCuts ==
  ASSUME NEW t \in Task, NEW x \in Seq(1 .. End), NEW r, r = [t EXCEPT !.cuts = x]
  PROVE  /\ r \in Task /\ r.status = t.status /\ r.cuts = x
         /\ r.body = t.body /\ r.parent = t.parent /\ r.context = t.context
<1>1. /\ r.status = t.status /\ r.cuts = x
      /\ r.body = t.body /\ r.parent = t.parent /\ r.context = t.context
  BY DEF Task
<1>2. r \in Task
  BY DEF Task
<1>. QED
  BY <1>1, <1>2

\* The step that gives one task another status.
LEMMA StatusTypes ==
  ASSUME Types, NEW s \in Terms, NEW x \in Statuses, task' = [task EXCEPT ![s].status = x]
  PROVE  task' \in [Terms -> Task]
<1>1. task' = [task EXCEPT ![s] = [task[s] EXCEPT !.status = x]]
  OBVIOUS
<1>2. task \in [Terms -> Task] /\ task[s] \in Task
  BY DEF Types
<1>3. [task[s] EXCEPT !.status = x] \in Task
  BY <1>2, TaskStatus
<1>. QED
  BY <1>1, <1>2, <1>3

\* The ranges that a task has left.
LEMMA CutsFacts ==
  ASSUME Types, NEW s \in Terms, CutsFit(s)
  PROVE  /\ task[s].cuts \in Seq(1 .. End) /\ Len(task[s].cuts) \in Nat
         /\ Len(task[s].cuts) >= 1 /\ Upto(s) = task[s].cuts[Len(task[s].cuts)]
         /\ task[s].cuts[1] \in 1 .. End /\ Upto(s) \in 1 .. End
         /\ s <= task[s].cuts[1] /\ task[s].cuts[1] <= Upto(s)
         /\ Len(task[s].cuts) = 1 => task[s].cuts[1] = Upto(s)
         /\ Len(task[s].cuts) > 1 => /\ task[s].cuts[2] \in 1 .. End
                                     /\ task[s].cuts[1] < task[s].cuts[2]
                                     /\ task[s].cuts[2] <= Upto(s)
                                     /\ task[s].cuts[1] \in Terms
<1>. DEFINE c == task[s].cuts
<1>1. c \in Seq(1 .. End) /\ c # << >> /\ s <= c[1]
  BY TaskFacts DEF CutsFit
<1>2. \A i, j \in 1 .. Len(c) : i < j => c[i] < c[j]
  BY DEF CutsFit, Ascending
<1>. HIDE DEF c
<1>3. /\ Len(c) \in Nat /\ Len(c) >= 1 /\ Last(c) = c[Len(c)]
      /\ \A i \in 1 .. Len(c) : c[i] \in 1 .. End
  BY <1>1, SeqFacts
<1>4. c[1] \in 1 .. End /\ c[Len(c)] \in 1 .. End
  BY <1>3
<1>5. CASE Len(c) = 1
  <2>. QED
    BY <1>1, <1>3, <1>4, <1>5, TermsAre DEF c, Upto
<1>6. CASE Len(c) > 1
  <2>1. 1 \in 1 .. Len(c) /\ 2 \in 1 .. Len(c) /\ Len(c) \in 1 .. Len(c)
    BY <1>3, <1>6
  <2>2. c[1] < c[2] /\ c[1] < c[Len(c)] /\ c[2] \in 1 .. End
    BY <2>1, <1>2, <1>3, <1>6
  <2>3. c[2] <= c[Len(c)]
    <3>1. CASE Len(c) = 2
      BY <3>1, <2>2, <1>4, TermsAre
    <3>2. CASE Len(c) > 2
      BY <3>2, <2>1, <2>2, <1>2, <1>4, TermsAre
    <3>. QED
      BY <3>1, <3>2, <1>3, <1>6
  <2>4. c[1] \in Terms /\ c[1] <= c[Len(c)]
    BY <2>2, <1>4, TermsAre
  <2>. QED
    BY <1>1, <1>3, <1>4, <1>6, <2>2, <2>3, <2>4 DEF c, Upto
<1>7. Len(c) = 1 \/ Len(c) > 1
  <2>1. PICK n \in Nat : n = Len(c) /\ n >= 1
    BY <1>3
  <2>2. n = 1 \/ n > 1
    BY <2>1
  <2>. QED
    BY <2>1, <2>2
<1>. QED
  BY <1>5, <1>6, <1>7

\* What Shape says of one task and of one finish task.
LEMMA TaskShape ==
  ASSUME Types, NEW lo, NEW hi, Shape(lo, hi), NEW s \in Terms, Active(s)
  PROVE  /\ CutsFit(s) /\ TaskFits(s, lo, hi)
         /\ s < Upto(s) /\ Upto(s) \in 1 .. End
         /\ task[s].context = "root" => s = 1 /\ task[s].parent = 0 /\ Upto(s) = End
         /\ task[s].context = "left" =>
              /\ task[s].parent \in Terms /\ Open(task[s].parent) /\ Started(s)
              /\ s = lo[task[s].parent] /\ Upto(s) = task[s].parent
         /\ task[s].context = "right" =>
              task[s].parent = s /\ Open(s) /\ s # 1 /\ Upto(s) = hi[s]
         /\ task[s].context \in Sides
<1>1. CutsFit(s) /\ TaskFits(s, lo, hi)
  BY DEF Shape
<1>2. Upto(s) \in 1 .. End /\ task[s].context \in Sides
  BY <1>1, CutsFacts, TaskFacts
<1>3. task[s].context = "root" => s = 1 /\ task[s].parent = 0 /\ Upto(s) = End
  BY <1>1 DEF TaskFits
<1>4. task[s].context = "left" =>
        /\ task[s].parent \in Terms /\ Open(task[s].parent) /\ Started(s)
        /\ s = lo[task[s].parent] /\ Upto(s) = task[s].parent
  BY <1>1 DEF TaskFits
<1>5. task[s].context = "right" => task[s].parent = s /\ Open(s) /\ Upto(s) = hi[s]
  BY <1>1 DEF TaskFits
<1>6. \A g \in Terms : Open(g) => lo[g] < g /\ g < hi[g] /\ lo[g] \in Terms
  BY DEF Shape, NodeFits
<1>7. s < Upto(s)
  BY <1>2, <1>3, <1>4, <1>5, <1>6, TermsAre DEF Sides
<1>8. ~Open(1)
  BY <1>6, TermsAre
<1>. QED
  BY <1>1, <1>2, <1>3, <1>4, <1>5, <1>7, <1>8

LEMMA NodeShape ==
  ASSUME Types, NEW lo, NEW hi, Shape(lo, hi), NEW g \in Terms, Open(g)
  PROVE  /\ NodeFits(g, lo, hi) /\ NodeCounts(g, lo, hi)
         /\ lo[g] < g /\ g < hi[g] /\ lo[g] \in Terms /\ hi[g] \in 1 .. End /\ g # 1
         /\ node[g].context = "root" => node[g].parent = 0 /\ lo[g] = 1 /\ hi[g] = End
         /\ node[g].context = "left" => /\ node[g].parent \in Terms /\ Open(node[g].parent)
                                        /\ lo[g] = lo[node[g].parent] /\ hi[g] = node[g].parent
         /\ node[g].context = "right" => /\ node[g].parent \in Terms /\ Open(node[g].parent)
                                         /\ lo[g] = node[g].parent
                                         /\ hi[g] = hi[node[g].parent]
         /\ lo[g] # 1 => Open(lo[g]) /\ hi[g] <= hi[lo[g]]
         /\ node[g].context \in Sides
<1>1. NodeFits(g, lo, hi) /\ NodeCounts(g, lo, hi) /\ lo[g] \in Terms /\ hi[g] \in 1 .. End
  BY DEF Shape
<1>2. node[g].context \in Sides
  BY NodeFacts, TermsAre
<1>3. lo[g] < g /\ g < hi[g] /\ g # 1
  BY <1>1, TermsAre DEF NodeFits
<1>. QED
  BY <1>1, <1>2, <1>3 DEF NodeFits

\* There is nothing inside the terms of a task.
LEMMA Inside ==
  ASSUME Types, NEW lo, NEW hi, Shape(lo, hi), NEW s \in Terms, Active(s),
         NEW i \in Terms, s < i, i < Upto(s)
  PROVE  task[i].status = "none" /\ node[i] = NoNode /\ ~Active(i) /\ ~Open(i)
<1>1. task[i].status = "none"
  BY TaskShape DEF TaskFits
<1>2. node[i] = NoNode
  BY <1>1 DEF Shape
<1>. QED
  BY <1>1, <1>2 DEF Active, Open, NoNode

\* A task is the only child of its parent on its side.
LEMMA OnlyTask ==
  ASSUME Types, NEW lo, NEW hi, Shape(lo, hi), NEW s \in Terms, Active(s)
  PROVE  /\ \A t \in Terms : TaskAt(t, task[s].parent, task[s].context) => t = s
         /\ \A h \in Terms : ~NodeAt(h, task[s].parent, task[s].context)
<1>1. ASSUME NEW t \in Terms, TaskAt(t, task[s].parent, task[s].context)
      PROVE  t = s
  <2>1. Active(t) /\ task[t].parent = task[s].parent /\ task[t].context = task[s].context
    BY <1>1 DEF TaskAt
  <2>. QED
    BY <2>1, TaskShape DEF Sides
<1>2. ASSUME NEW h \in Terms, NodeAt(h, task[s].parent, task[s].context)
      PROVE  FALSE
  <2>1. Open(h) /\ node[h].parent = task[s].parent /\ node[h].context = task[s].context
    BY <1>2 DEF NodeAt
  <2>2. lo[h] = s /\ hi[h] = Upto(s) /\ lo[h] < h /\ h < hi[h]
    BY <2>1, TaskShape, NodeShape DEF Sides
  <2>. QED
    BY <2>1, <2>2, Inside
<1>. QED
  BY <1>1, <1>2

LEMMA BusyWith ==
  ASSUME NEW s \in Terms
  PROVE  /\ Active(s) => Busy(task[s].parent, task[s].context)
         /\ Open(s) => Busy(node[s].parent, node[s].context)
  BY DEF Busy, TaskAt, NodeAt

\* Where a side of a finish task is done no task is left.
LEMMA RightEmpty ==
  ASSUME Types, NEW lo, NEW hi, Shape(lo, hi), NEW g \in Terms, Open(g), RightDone(g),
         NEW s \in Terms, Active(s)
  PROVE  s < g \/ hi[g] <= s
<1>. SUFFICES ASSUME g <= s, s < hi[g]
              PROVE  FALSE
  BY NodeShape, TermsAre
<1>1. \A i \in Terms : g < i /\ i < hi[g] => ~Open(i)
  BY NodeShape DEF NodeCounts
<1>2. g # 1 /\ hi[g] \in 1 .. End /\ g < hi[g]
  BY NodeShape
<1>3. CASE task[s].context = "root"
  BY <1>3, <1>2, TaskShape, TermsAre
<1>4. CASE task[s].context = "right"
  <2>1. Open(s) /\ task[s].parent = s
    BY <1>4, TaskShape
  <2>2. s = g
    BY <2>1, <1>1, TermsAre
  <2>. QED
    BY <2>1, <2>2, <1>4, BusyWith DEF RightDone
<1>5. CASE task[s].context = "left"
  <2>. DEFINE p == task[s].parent
  <2>1. p \in Terms /\ Open(p) /\ lo[p] = s
    BY <1>5, TaskShape
  <2>2. Open(s) /\ hi[p] <= hi[s] /\ s < p /\ p < hi[p] /\ hi[p] \in 1 .. End
    <3>1. s # 1
      BY <1>2, TermsAre
    <3>. QED
      BY <3>1, <2>1, NodeShape
  <2>3. s = g
    BY <2>2, <1>1, TermsAre
  <2>4. g < p /\ p < hi[g]
    BY <2>2, <2>3, <2>1, <1>2, TermsAre
  <2>. QED
    BY <2>1, <2>4, <1>1
<1>. QED
  BY <1>3, <1>4, <1>5, TaskShape DEF Sides

LEMMA LeftEmpty ==
  ASSUME Types, NEW lo, NEW hi, Shape(lo, hi), NEW g \in Terms, Open(g), LeftDone(g),
         NEW s \in Terms, Active(s)
  PROVE  s <= lo[g] \/ g <= s
<1>. SUFFICES ASSUME lo[g] < s, s < g
              PROVE  FALSE
  BY NodeShape, TermsAre
<1>1. ~Open(s)
  BY NodeShape DEF NodeCounts
<1>2. s # 1
  BY NodeShape, TermsAre
<1>3. task[s].context = "left"
  BY <1>1, <1>2, TaskShape DEF Sides
<1>4. task[s].parent \in Terms /\ Open(task[s].parent) /\ lo[task[s].parent] = s
  BY <1>3, TaskShape
<1>. QED
  BY <1>1, <1>2, <1>4, NodeShape

LEMMA NothingLeft ==
  ASSUME Types, NEW lo, NEW hi, Shape(lo, hi), RootDone
  PROVE  \A s \in Terms : ~Active(s) /\ ~Open(s)
<1>1. \A g \in Terms : ~Open(g)
  BY DEF Shape
<1>2. ASSUME NEW s \in Terms, Active(s)
      PROVE  FALSE
  <2>1. task[s].context = "root" /\ task[s].parent = 0
    BY <1>1, <1>2, TaskShape DEF Sides
  <2>. QED
    BY <2>1, <1>2, BusyWith DEF RootDone
<1>. QED
  BY <1>1, <1>2

\* A task that waits for a thread is a right child or the only task.
LEMMA Spawned ==
  ASSUME Types, NEW lo, NEW hi, Shape(lo, hi), NEW s \in Terms, task[s].status = "spawned"
  PROVE  /\ Active(s) /\ ~Started(s)
         /\ \/ task[s].context = "right" /\ task[s].parent = s /\ Open(s) /\ s # 1
               /\ Upto(s) = hi[s] /\ ~RightDone(s)
            \/ /\ task[s].context = "root" /\ s = 1 /\ ~RootDone
               /\ \A t \in Terms : t # 1 => ~Active(t)
               /\ \A g \in Terms : ~Open(g)
<1>1. Active(s) /\ ~Started(s)
  BY DEF Active, Started
<1>2. CASE task[s].context = "right"
  <2>1. task[s].parent = s /\ Open(s) /\ s # 1 /\ Upto(s) = hi[s]
    BY <1>1, <1>2, TaskShape
  <2>2. ~RightDone(s)
    BY <1>1, <1>2, <2>1, BusyWith DEF RightDone
  <2>. QED
    BY <1>1, <1>2, <2>1, <2>2
<1>3. CASE task[s].context = "root"
  <2>1. s = 1 /\ Upto(s) = End /\ task[s].parent = 0
    BY <1>1, <1>3, TaskShape
  <2>2. ~RootDone
    BY <1>1, <1>3, <2>1, BusyWith DEF RootDone
  <2>3. ASSUME NEW t \in Terms, t # 1
        PROVE  ~Active(t) /\ ~Open(t)
    <3>1. s < t /\ t < Upto(s)
      BY <2>1, <2>3, TermsAre
    <3>. QED
      BY <3>1, <1>1, Inside
  <2>4. ~Open(1)
    BY NodeShape, TermsAre
  <2>. QED
    BY <1>1, <1>3, <2>1, <2>2, <2>3, <2>4
<1>. QED
  BY <1>1, <1>2, <1>3, TaskShape DEF Sides

----------------------------------------------------------------------------
(* What the actions do to the tree *)

SameNode(g) == /\ node'[g].done = node[g].done /\ node'[g].parent = node[g].parent
               /\ node'[g].context = node[g].context

\* Nothing is begun or completed.
Kept ==
  /\ \A s \in Terms : /\ Active(s)' <=> Active(s)
                      /\ Started(s) => Started(s)'
                      /\ task'[s].status = "none" <=> task[s].status = "none"
                      /\ task'[s].parent = task[s].parent /\ task'[s].context = task[s].context
                      /\ Active(s) => CutsFit(s)' /\ Upto(s)' = Upto(s)
  /\ \A g \in 0 .. NumTerms : SameNode(g) /\ node'[g].refs = node[g].refs
  /\ \A i \in Terms : task[i].status = "none" => node'[i] = node[i]

LEMMA KeptBusy ==
  ASSUME Kept, NEW p, NEW side
  PROVE  Busy(p, side)' <=> Busy(p, side)
<1>1. \A s \in Terms : TaskAt(s, p, side)' <=> TaskAt(s, p, side)
  BY DEF Kept, TaskAt
<1>2. \A g \in Terms : NodeAt(g, p, side)' <=> NodeAt(g, p, side)
  BY TermsAre DEF Kept, SameNode, NodeAt, Open
<1>. QED
  BY <1>1, <1>2 DEF Busy

LEMMA KeptShape ==
  ASSUME Types, NEW lo, NEW hi, Shape(lo, hi), Kept
  PROVE  Shape(lo, hi)'
<1>1. \A p, side : Busy(p, side)' <=> Busy(p, side)
  BY KeptBusy
<1>2. \A g \in 0 .. NumTerms : Open(g)' <=> Open(g)
  BY DEF Kept, SameNode, Open
<1>3. ASSUME NEW s \in Terms, Active(s)'
      PROVE  CutsFit(s)' /\ TaskFits(s, lo, hi)'
  <2>1. Active(s) /\ CutsFit(s)' /\ Upto(s)' = Upto(s) /\ (Started(s) => Started(s)')
    BY <1>3 DEF Kept
  <2>2. TaskFits(s, lo, hi)
    BY <2>1, TaskShape
  <2>3. task'[s].parent = task[s].parent /\ task'[s].context = task[s].context
    BY DEF Kept
  <2>4. \A i \in Terms : task'[i].status = "none" <=> task[i].status = "none"
    BY DEF Kept
  <2>5. TaskFits(s, lo, hi)'
    BY <2>1, <2>2, <2>3, <2>4, <1>2, TermsAre DEF TaskFits
  <2>. QED
    BY <2>1, <2>5
<1>4. ASSUME NEW g \in Terms, Open(g)'
      PROVE  NodeFits(g, lo, hi)' /\ NodeCounts(g, lo, hi)'
  <2>1. Open(g) /\ lo[g] \in Terms
    BY <1>2, <1>4, TermsAre DEF Shape
  <2>2. NodeFits(g, lo, hi) /\ NodeCounts(g, lo, hi)
    BY <2>1, NodeShape
  <2>3. \A h \in Terms : /\ node'[h].parent = node[h].parent
                         /\ node'[h].context = node[h].context /\ node'[h].refs = node[h].refs
    BY TermsAre DEF Kept, SameNode
  <2>4. NodeFits(g, lo, hi)'
    BY <2>1, <2>2, <2>3, <1>2, TermsAre DEF NodeFits
  <2>5. NodeCounts(g, lo, hi)'
    BY <2>2, <2>3, <1>1, <1>2, TermsAre DEF NodeCounts, LeftDone, RightDone
  <2>. QED
    BY <2>4, <2>5
<1>5. ASSUME NEW i \in Terms, task'[i].status = "none"
      PROVE  node'[i] = NoNode
  BY <1>5 DEF Kept, Shape
<1>6. node'[0].refs = Count(Busy(0, "root"))'
  BY <1>1, TermsAre DEF Kept, Shape, Count
<1>7. RootDone' => \A g \in Terms : ~Open(g)'
  BY <1>1, <1>2, TermsAre DEF Shape, RootDone
<1>. QED
  BY <1>3, <1>4, <1>5, <1>6, <1>7 DEF Shape

\* A task completes.
TaskEnds(s) ==
  LET p == task[s].parent
  IN  /\ Active(s) /\ task'[s].status = "done"
      /\ \A t \in Terms \ {s} : task'[t] = task[t]
      /\ \A g \in 0 .. NumTerms : SameNode(g) /\ node'[g].zombie = node[g].zombie
                                  /\ (g # p => node'[g] = node[g])
      /\ node'[p].refs = node[p].refs - 1

LEMMA TaskEndsBusy ==
  ASSUME Types, NEW lo, NEW hi, Shape(lo, hi), NEW s \in Terms, TaskEnds(s)
  PROVE  /\ \A p, side : Busy(p, side)' <=>
              Busy(p, side) /\ ~(p = task[s].parent /\ side = task[s].context)
         /\ \A t \in Terms : Active(t)' <=> Active(t) /\ t # s
         /\ \A g \in 0 .. NumTerms : Open(g)' <=> Open(g)
<1>1. \A t \in Terms : Active(t)' <=> Active(t) /\ t # s
  BY DEF TaskEnds, Active
<1>2. \A g \in 0 .. NumTerms : Open(g)' <=> Open(g)
  BY DEF TaskEnds, SameNode, Open
<1>3. ASSUME NEW p, NEW side
      PROVE  Busy(p, side)' <=>
               Busy(p, side) /\ ~(p = task[s].parent /\ side = task[s].context)
  <2>1. \A t \in Terms : TaskAt(t, p, side)' <=> TaskAt(t, p, side) /\ t # s
    BY <1>1 DEF TaskEnds, TaskAt
  <2>2. \A g \in Terms : NodeAt(g, p, side)' <=> NodeAt(g, p, side)
    BY <1>2, TermsAre DEF TaskEnds, SameNode, NodeAt
  <2>3. Active(s)
    BY DEF TaskEnds
  <2>4. TaskAt(s, p, side) <=> p = task[s].parent /\ side = task[s].context
    BY <2>3 DEF TaskAt
  <2>5. p = task[s].parent /\ side = task[s].context =>
          /\ \A t \in Terms : TaskAt(t, p, side) => t = s
          /\ \A g \in Terms : ~NodeAt(g, p, side)
    BY <2>3, OnlyTask
  <2>. QED
    BY <2>1, <2>2, <2>4, <2>5 DEF Busy
<1>. QED
  BY <1>1, <1>2, <1>3

LEMMA TaskEndsShape ==
  ASSUME Types, NEW lo, NEW hi, Shape(lo, hi), NEW s \in Terms, TaskEnds(s)
  PROVE  Shape(lo, hi)'
<1>. DEFINE p == task[s].parent
            side == task[s].context
<1>0. Active(s) /\ s < Upto(s) /\ Upto(s) \in 1 .. End /\ side \in Sides
  BY TaskShape DEF TaskEnds
<1>1. \A q, d : Busy(q, d)' <=> Busy(q, d) /\ ~(q = p /\ d = side)
  BY TaskEndsBusy
<1>2. \A t \in Terms : Active(t)' <=> Active(t) /\ t # s
  BY TaskEndsBusy
<1>3. \A g \in 0 .. NumTerms : Open(g)' <=> Open(g)
  BY TaskEndsBusy
<1>4. \A t \in Terms \ {s} : task'[t] = task[t]
  BY DEF TaskEnds
<1>5. Busy(p, side)
  BY <1>0, BusyWith
<1>6. ASSUME NEW t \in Terms, Active(t)'
      PROVE  CutsFit(t)' /\ TaskFits(t, lo, hi)'
  <2>1. Active(t) /\ t # s /\ task'[t] = task[t]
    BY <1>2, <1>4, <1>6
  <2>2. CutsFit(t) /\ TaskFits(t, lo, hi)
    BY <2>1, TaskShape
  <2>3. \A i \in Terms : task[i].status = "none" => task'[i].status = "none"
    BY <1>0, <1>4 DEF Active
  <2>4. CutsFit(t)' /\ Upto(t)' = Upto(t) /\ (Started(t)' <=> Started(t))
    BY <2>1, <2>2 DEF CutsFit, Upto, Started, InFunction
  <2>5. TaskFits(t, lo, hi)'
    BY <2>1, <2>2, <2>3, <2>4, <1>3, TermsAre DEF TaskFits
  <2>. QED
    BY <2>4, <2>5
<1>7. ASSUME NEW g \in Terms, Open(g)'
      PROVE  NodeFits(g, lo, hi)' /\ NodeCounts(g, lo, hi)'
  <2>1. Open(g) /\ lo[g] \in Terms
    BY <1>3, <1>7, TermsAre DEF Shape
  <2>2. NodeFits(g, lo, hi) /\ NodeCounts(g, lo, hi)
    BY <2>1, NodeShape
  <2>3. \A h \in 0 .. NumTerms : node'[h].parent = node[h].parent
                                 /\ node'[h].context = node[h].context
    BY DEF TaskEnds, SameNode
  <2>4. NodeFits(g, lo, hi)'
    BY <2>1, <2>2, <2>3, <1>3, TermsAre DEF NodeFits
  <2>5. node'[g].refs = (Count(Busy(g, "left")) + Count(Busy(g, "right")))'
    <3>1. CASE g # p
      <4>1. node'[g] = node[g]
        BY <3>1, TermsAre DEF TaskEnds
      <4>. QED
        BY <4>1, <3>1, <2>2, <1>1 DEF NodeCounts, Count
    <3>2. CASE g = p
      <4>1. node'[g].refs = node[g].refs - 1 /\ side \in {"left", "right"}
        BY <3>2, <1>0, TaskShape, TermsAre DEF TaskEnds, Sides
      <4>2. CASE side = "left"
        BY <4>1, <4>2, <3>2, <2>2, <1>1, <1>5 DEF NodeCounts, Count
      <4>3. CASE side = "right"
        BY <4>1, <4>3, <3>2, <2>2, <1>1, <1>5 DEF NodeCounts, Count
      <4>. QED
        BY <4>1, <4>2, <4>3
    <3>. QED
      BY <3>1, <3>2
  <2>6. ASSUME LeftDone(g)', NEW i \in Terms, lo[g] < i, i < g
        PROVE  ~Open(i)
    <3>1. CASE LeftDone(g)
      BY <3>1, <2>2, <2>6 DEF NodeCounts
    <3>2. CASE ~LeftDone(g)
      <4>1. g = p /\ side = "left"
        BY <3>2, <2>6, <1>1 DEF LeftDone
      <4>2. lo[g] = s /\ Upto(s) = g
        BY <4>1, <1>0, TaskShape
      <4>. QED
        BY <4>2, <2>6, <1>0, Inside
    <3>. QED
      BY <3>1, <3>2
  <2>7. ASSUME RightDone(g)', NEW i \in Terms, g < i, i < hi[g]
        PROVE  ~Open(i)
    <3>1. CASE RightDone(g)
      BY <3>1, <2>2, <2>7 DEF NodeCounts
    <3>2. CASE ~RightDone(g)
      <4>1. g = p /\ side = "right"
        BY <3>2, <2>7, <1>1 DEF RightDone
      <4>2. g = s /\ Upto(s) = hi[g]
        BY <4>1, <1>0, TaskShape
      <4>. QED
        BY <4>2, <2>7, <1>0, Inside
    <3>. QED
      BY <3>1, <3>2
  <2>8. \A h \in Terms : Open(h) /\ h # g =>
          node[h].parent # node[g].parent \/ node[h].context # node[g].context
    BY <2>2 DEF NodeCounts
  <2>9. NodeCounts(g, lo, hi)'
    BY <2>3, <2>5, <2>6, <2>7, <2>8, <1>3, TermsAre DEF NodeCounts
  <2>. QED
    BY <2>4, <2>9
<1>8. ASSUME NEW i \in Terms, task'[i].status = "none"
      PROVE  node'[i] = NoNode
  <2>1. i # s /\ task[i].status = "none"
    BY <1>8, <1>4 DEF TaskEnds
  <2>2. node[i] = NoNode
    BY <2>1 DEF Shape
  <2>3. i # p
    BY <2>2, <1>0, TaskShape, TermsAre DEF Open, NoNode, Sides
  <2>. QED
    BY <2>2, <2>3, TermsAre DEF TaskEnds
<1>9. node'[0].refs = Count(Busy(0, "root"))'
  <2>1. node[0].refs = Count(Busy(0, "root"))
    BY DEF Shape
  <2>2. CASE p # 0
    <3>1. node'[0] = node[0]
      BY <2>2, TermsAre DEF TaskEnds
    <3>. QED
      BY <3>1, <2>1, <2>2, <1>1 DEF Count
  <2>3. CASE p = 0
    <3>1. node'[0].refs = node[0].refs - 1 /\ side = "root"
      BY <2>3, <1>0, TaskShape, TermsAre DEF TaskEnds, Sides
    <3>. QED
      BY <3>1, <2>1, <2>3, <1>1, <1>5 DEF Count
  <2>. QED
    BY <2>2, <2>3
<1>10. ASSUME RootDone', NEW g \in Terms
       PROVE  ~Open(g)
  <2>1. CASE RootDone
    BY <2>1, NothingLeft
  <2>2. CASE ~RootDone
    <3>1. p = 0 /\ side = "root"
      BY <2>2, <1>10, <1>1 DEF RootDone
    <3>2. s = 1 /\ Upto(s) = End
      BY <3>1, <1>0, TaskShape
    <3>3. CASE g = 1
      BY <3>3, NodeShape
    <3>4. CASE g # 1
      BY <3>2, <3>4, <1>0, Inside, TermsAre
    <3>. QED
      BY <3>3, <3>4
  <2>. QED
    BY <2>1, <2>2
<1>. QED
  BY <1>3, <1>6, <1>7, <1>8, <1>9, <1>10, TermsAre DEF Shape

\* A finish task runs.
NodeEnds(f) ==
  LET p == node[f].parent
  IN  /\ Open(f) /\ LeftDone(f) /\ RightDone(f)
      /\ task' = task
      /\ node'[f].done
      /\ \A g \in 0 .. NumTerms : /\ g # f => SameNode(g)
                                  /\ node'[g].zombie = node[g].zombie
                                  /\ g # f /\ g # p => node'[g] = node[g]
      /\ node'[p].refs = node[p].refs - 1

LEMMA NodeEndsBusy ==
  ASSUME Types, NEW lo, NEW hi, Shape(lo, hi), NEW f \in Terms, NodeEnds(f)
  PROVE  /\ \A p, side : Busy(p, side)' <=>
              Busy(p, side) /\ ~(p = node[f].parent /\ side = node[f].context)
         /\ \A g \in 0 .. NumTerms : Open(g)' <=> Open(g) /\ g # f
         /\ \A t \in Terms : Active(t)' <=> Active(t)
         /\ \A t \in Terms : Active(t) => ~(task[t].parent = node[f].parent
                                            /\ task[t].context = node[f].context)
<1>1. \A g \in 0 .. NumTerms : Open(g)' <=> Open(g) /\ g # f
  BY DEF NodeEnds, SameNode, Open
<1>2. Open(f)
  BY DEF NodeEnds
<1>3. \A t \in Terms : Active(t)' <=> Active(t)
  BY DEF NodeEnds, Active
<1>4. ASSUME NEW p, NEW side
      PROVE  Busy(p, side)' <=>
               Busy(p, side) /\ ~(p = node[f].parent /\ side = node[f].context)
  <2>1. \A t \in Terms : TaskAt(t, p, side)' <=> TaskAt(t, p, side)
    BY <1>3 DEF NodeEnds, TaskAt
  <2>2. \A g \in Terms : NodeAt(g, p, side)' <=> NodeAt(g, p, side) /\ g # f
    BY <1>1, TermsAre DEF NodeEnds, SameNode, NodeAt
  <2>3. NodeAt(f, p, side) <=> p = node[f].parent /\ side = node[f].context
    BY <1>2 DEF NodeAt
  <2>4. ASSUME p = node[f].parent, side = node[f].context
        PROVE  /\ \A t \in Terms : ~TaskAt(t, p, side)
               /\ \A g \in Terms : NodeAt(g, p, side) => g = f
    <3>1. ASSUME NEW t \in Terms, TaskAt(t, p, side)
          PROVE  FALSE
      <4>1. Active(t) /\ task[t].parent = p /\ task[t].context = side
        BY <3>1 DEF TaskAt
      <4>2. ~NodeAt(f, task[t].parent, task[t].context)
        BY <4>1, OnlyTask
      <4>. QED
        BY <4>1, <4>2, <2>3, <2>4
    <3>2. ASSUME NEW g \in Terms, NodeAt(g, p, side)
          PROVE  g = f
      <4>1. NodeCounts(f, lo, hi)
        BY <1>2, NodeShape
      <4>. QED
        BY <4>1, <3>2, <2>4 DEF NodeCounts, NodeAt
    <3>. QED
      BY <3>1, <3>2
  <2>. QED
    BY <2>1, <2>2, <2>3, <2>4 DEF Busy
<1>5. ASSUME NEW t \in Terms, Active(t), task[t].parent = node[f].parent,
             task[t].context = node[f].context
      PROVE  FALSE
  <2>1. ~NodeAt(f, task[t].parent, task[t].context)
    BY <1>5, OnlyTask
  <2>. QED
    BY <2>1, <1>2, <1>5 DEF NodeAt
<1>. QED
  BY <1>1, <1>3, <1>4, <1>5

LEMMA NodeEndsShape ==
  ASSUME Types, NEW lo, NEW hi, Shape(lo, hi), NEW f \in Terms, NodeEnds(f)
  PROVE  Shape(lo, hi)'
<1>. DEFINE p == node[f].parent
            side == node[f].context
<1>0. Open(f) /\ LeftDone(f) /\ RightDone(f) /\ task' = task /\ lo[f] < f /\ f < hi[f]
      /\ side \in Sides
  BY NodeShape DEF NodeEnds
<1>1. \A q, d : Busy(q, d)' <=> Busy(q, d) /\ ~(q = p /\ d = side)
  BY NodeEndsBusy
<1>2. \A t \in Terms : Active(t)' <=> Active(t)
  BY NodeEndsBusy
<1>3. \A g \in 0 .. NumTerms : Open(g)' <=> Open(g) /\ g # f
  BY NodeEndsBusy
<1>4. \A i \in Terms : lo[f] < i /\ i < hi[f] /\ i # f => ~Open(i)
  <2>1. NodeCounts(f, lo, hi)
    BY <1>0, NodeShape
  <2>. QED
    BY <2>1, <1>0, TermsAre DEF NodeCounts, Shape
<1>5. Busy(p, side) /\ p # f
  <2>1. p # f
    BY <1>0, NodeShape, TermsAre DEF Sides
  <2>. QED
    BY <2>1, <1>0, BusyWith
<1>6. ASSUME NEW t \in Terms, Active(t)'
      PROVE  CutsFit(t)' /\ TaskFits(t, lo, hi)'
  <2>1. Active(t)
    BY <1>2, <1>6
  <2>2. CutsFit(t) /\ TaskFits(t, lo, hi)
    BY <2>1, TaskShape
  <2>3. CutsFit(t)' /\ Upto(t)' = Upto(t) /\ (Started(t)' <=> Started(t))
    BY <2>2, <1>0 DEF CutsFit, Upto, Started, InFunction
  <2>4. task[t].context \in {"left", "right"} => task[t].parent # f
    BY <2>1, <1>0, BusyWith DEF LeftDone, RightDone
  <2>5. TaskFits(t, lo, hi)'
    BY <2>2, <2>3, <2>4, <1>0, <1>3, TermsAre DEF TaskFits
  <2>. QED
    BY <2>3, <2>5
<1>7. ASSUME NEW g \in Terms, Open(g)'
      PROVE  NodeFits(g, lo, hi)' /\ NodeCounts(g, lo, hi)'
  <2>1. Open(g) /\ g # f /\ lo[g] \in Terms
    BY <1>3, <1>7, TermsAre DEF Shape
  <2>2. NodeFits(g, lo, hi) /\ NodeCounts(g, lo, hi)
    BY <2>1, NodeShape
  <2>3. \A h \in 0 .. NumTerms : h # f => node'[h].parent = node[h].parent
                                          /\ node'[h].context = node[h].context
    BY DEF NodeEnds, SameNode
  <2>4. node[g].context \in {"left", "right"} => node[g].parent # f
    BY <2>1, <1>0, BusyWith DEF LeftDone, RightDone
  <2>5. lo[g] # 1 => lo[g] # f
    <3>1. ASSUME lo[g] = f, lo[g] # 1
          PROVE  FALSE
      <4>1. f < g /\ g < hi[g] /\ hi[g] <= hi[f] /\ hi[g] \in 1 .. End /\ hi[f] \in 1 .. End
        BY <3>1, <2>1, <1>0, NodeShape
      <4>2. lo[f] < g /\ g < hi[f] /\ lo[f] \in Terms
        BY <4>1, <1>0, NodeShape, TermsAre
      <4>. QED
        BY <4>2, <2>1, <1>4
    <3>. QED
      BY <3>1
  <2>6. NodeFits(g, lo, hi)'
    BY <2>1, <2>2, <2>3, <2>4, <2>5, <1>3, TermsAre DEF NodeFits
  <2>7. node'[g].refs = (Count(Busy(g, "left")) + Count(Busy(g, "right")))'
    <3>1. CASE g # p
      <4>1. node'[g] = node[g]
        BY <3>1, <2>1, TermsAre DEF NodeEnds
      <4>. QED
        BY <4>1, <3>1, <2>2, <1>1 DEF NodeCounts, Count
    <3>2. CASE g = p
      <4>1. node'[g].refs = node[g].refs - 1 /\ side \in {"left", "right"}
        BY <3>2, <1>0, NodeShape, TermsAre DEF NodeEnds, Sides
      <4>2. CASE side = "left"
        BY <4>1, <4>2, <3>2, <2>2, <1>1, <1>5 DEF NodeCounts, Count
      <4>3. CASE side = "right"
        BY <4>1, <4>3, <3>2, <2>2, <1>1, <1>5 DEF NodeCounts, Count
      <4>. QED
        BY <4>1, <4>2, <4>3
    <3>. QED
      BY <3>1, <3>2
  <2>8. ASSUME LeftDone(g)', NEW i \in Terms, lo[g] < i, i < g, i # f
        PROVE  ~Open(i)
    <3>1. CASE LeftDone(g)
      BY <3>1, <2>2, <2>8 DEF NodeCounts
    <3>2. CASE ~LeftDone(g)
      <4>1. g = p /\ side = "left"
        BY <3>2, <2>8, <1>1 DEF LeftDone
      <4>2. lo[f] = lo[g] /\ hi[f] = g
        BY <4>1, <1>0, NodeShape
      <4>. QED
        BY <4>2, <2>8, <1>4
    <3>. QED
      BY <3>1, <3>2
  <2>9. ASSUME RightDone(g)', NEW i \in Terms, g < i, i < hi[g], i # f
        PROVE  ~Open(i)
    <3>1. CASE RightDone(g)
      BY <3>1, <2>2, <2>9 DEF NodeCounts
    <3>2. CASE ~RightDone(g)
      <4>1. g = p /\ side = "right"
        BY <3>2, <2>9, <1>1 DEF RightDone
      <4>2. lo[f] = g /\ hi[f] = hi[g]
        BY <4>1, <1>0, NodeShape
      <4>. QED
        BY <4>2, <2>9, <1>4
    <3>. QED
      BY <3>1, <3>2
  <2>10. \A h \in Terms : Open(h) /\ h # g =>
           node[h].parent # node[g].parent \/ node[h].context # node[g].context
    BY <2>2 DEF NodeCounts
  <2>11. NodeCounts(g, lo, hi)'
    BY <2>1, <2>3, <2>7, <2>8, <2>9, <2>10, <1>3, TermsAre DEF NodeCounts
  <2>. QED
    BY <2>6, <2>11
<1>8. ASSUME NEW i \in Terms, task'[i].status = "none"
      PROVE  node'[i] = NoNode
  <2>1. node[i] = NoNode
    BY <1>8, <1>0 DEF Shape
  <2>2. i # f /\ i # p
    BY <2>1, <1>0, NodeShape, TermsAre DEF Open, NoNode, Sides
  <2>. QED
    BY <2>1, <2>2, TermsAre DEF NodeEnds
<1>9. node'[0].refs = Count(Busy(0, "root"))'
  <2>1. node[0].refs = Count(Busy(0, "root"))
    BY DEF Shape
  <2>2. CASE p # 0
    <3>1. node'[0] = node[0]
      BY <2>2, TermsAre DEF NodeEnds
    <3>. QED
      BY <3>1, <2>1, <2>2, <1>1 DEF Count
  <2>3. CASE p = 0
    <3>1. node'[0].refs = node[0].refs - 1 /\ side = "root"
      BY <2>3, <1>0, NodeShape, TermsAre DEF NodeEnds, Sides
    <3>. QED
      BY <3>1, <2>1, <2>3, <1>1, <1>5 DEF Count
  <2>. QED
    BY <2>2, <2>3
<1>10. ASSUME RootDone', NEW g \in Terms, g # f
       PROVE  ~Open(g)
  <2>1. CASE RootDone
    BY <2>1, NothingLeft
  <2>2. CASE ~RootDone
    <3>1. p = 0 /\ side = "root"
      BY <2>2, <1>10, <1>1 DEF RootDone
    <3>2. lo[f] = 1 /\ hi[f] = End
      BY <3>1, <1>0, NodeShape, TermsAre
    <3>3. CASE g = 1
      BY <3>3, NodeShape
    <3>4. CASE g # 1
      BY <3>2, <3>4, <1>4, <1>10, TermsAre
    <3>. QED
      BY <3>3, <3>4
  <2>. QED
    BY <2>1, <2>2
<1>. QED
  BY <1>3, <1>6, <1>7, <1>8, <1>9, <1>10, TermsAre DEF Shape

\* The last range of task s is offered, under a finish task that takes its place.
Offers(s, right) ==
  /\ Started(s) /\ task'[s].status = task[s].status /\ task'[s].body = task[s].body
  /\ s < right /\ right < Upto(s)
  /\ \A t \in Terms : t # s /\ t # right => task'[t] = task[t]
  /\ task'[s].parent = right /\ task'[s].context = "left"
  /\ CutsFit(s)' /\ Upto(s)' = right /\ task'[s].cuts[1] = task[s].cuts[1]
  /\ task'[right].status = "spawned"
  /\ task'[right].parent = right /\ task'[right].context = "right"
  /\ CutsFit(right)' /\ Upto(right)' = Upto(s) /\ task'[right].cuts[1] = right
  /\ \A g \in 0 .. NumTerms : g # right => node'[g] = node[g]
  /\ node'[right].refs = 2 /\ node'[right].parent = task[s].parent
  /\ node'[right].context = task[s].context /\ ~node'[right].done

LEMMA OffersBusy ==
  ASSUME Types, NEW lo, NEW hi, Shape(lo, hi), NEW s \in Terms, NEW right \in Terms,
         Offers(s, right)
  PROVE  /\ task[right].status = "none" /\ node[right] = NoNode /\ ~Active(right) /\ ~Open(right)
         /\ \A t \in Terms : Active(t)' <=> Active(t) \/ t = right
         /\ \A g \in 0 .. NumTerms : Open(g)' <=> Open(g) \/ g = right
         /\ \A p, side : p # right => (Busy(p, side)' <=> Busy(p, side))
         /\ Busy(right, "left")' /\ Busy(right, "right")'
<1>0. Started(s) /\ Active(s) /\ s # right
  BY TermsAre DEF Offers, Active, Started
<1>1. task[right].status = "none" /\ node[right] = NoNode /\ ~Active(right) /\ ~Open(right)
  BY <1>0, Inside DEF Offers
<1>2. \A t \in Terms : Active(t)' <=> Active(t) \/ t = right
  BY <1>0 DEF Offers, Active
<1>3. \A g \in 0 .. NumTerms : Open(g)' <=> Open(g) \/ g = right
  BY DEF Offers, Open
<1>4. ASSUME NEW p, NEW side, p # right
      PROVE  Busy(p, side)' <=> Busy(p, side)
  <2>1. \A t \in Terms : TaskAt(t, p, side)' <=> TaskAt(t, p, side) /\ t # s
    BY <1>1, <1>2, <1>4 DEF Offers, TaskAt
  <2>2. \A g \in Terms : NodeAt(g, p, side)' <=>
          NodeAt(g, p, side) \/ (g = right /\ TaskAt(s, p, side))
    BY <1>0, <1>1, <1>3, TermsAre DEF Offers, NodeAt, TaskAt
  <2>. QED
    BY <2>1, <2>2 DEF Busy
<1>5. Busy(right, "left")' /\ Busy(right, "right")'
  <2>1. TaskAt(s, right, "left")' /\ TaskAt(right, right, "right")'
    BY <1>0, <1>2 DEF Offers, TaskAt
  <2>. QED
    BY <2>1 DEF Busy
<1>. QED
  BY <1>1, <1>2, <1>3, <1>4, <1>5

\* Where a side of a finish task is done there is no range left either.
LEMMA RangeIsBusy ==
  ASSUME Types, NEW lo, NEW hi, Shape(lo, hi), NEW s \in Terms, Active(s),
         NEW r \in Terms, s < r, r < Upto(s), NEW g \in Terms, Open(g)
  PROVE  /\ lo[g] < r /\ r < g => ~LeftDone(g)
         /\ g < r /\ r < hi[g] => ~RightDone(g)
<1>0. /\ lo[g] < g /\ g < hi[g] /\ lo[g] \in Terms /\ hi[g] \in 1 .. End /\ g # 1
      /\ lo[g] # 1 => Open(lo[g]) /\ hi[g] <= hi[lo[g]]
      /\ NodeCounts(g, lo, hi)
  BY NodeShape
<1>1. s < Upto(s) /\ Upto(s) \in 1 .. End
  BY TaskShape
<1>2. \A i \in Terms : s < i /\ i < Upto(s) => ~Open(i)
  BY Inside
<1>3. ASSUME lo[g] < r, r < g, LeftDone(g)
      PROVE  FALSE
  <2>1. \A i \in Terms : lo[g] < i /\ i < g => ~Open(i)
    BY <1>0, <1>3 DEF NodeCounts
  <2>2. s <= lo[g]
    BY <1>0, <1>3, LeftEmpty, TermsAre
  <2>3. s < g /\ Upto(s) <= g
    BY <2>2, <1>0, <1>1, <1>2, TermsAre
  <2>4. CASE task[s].context = "root"
    BY <2>3, <2>4, <1>0, TaskShape, TermsAre
  <2>5. CASE task[s].context = "left"
    <3>1. Upto(s) \in Terms /\ Open(Upto(s)) /\ task[s].parent = Upto(s)
      BY <2>5, TaskShape
    <3>2. Upto(s) = g
      BY <3>1, <2>1, <2>3, <1>3, <1>0, TermsAre
    <3>. QED
      BY <3>1, <3>2, <2>5, <1>3, BusyWith DEF LeftDone
  <2>6. CASE task[s].context = "right"
    <3>1. Upto(s) = hi[s] /\ s # 1
      BY <2>6, TaskShape
    <3>2. s # lo[g]
      BY <3>1, <2>3, <1>0, <1>1, TermsAre
    <3>3. s < lo[g] /\ lo[g] < Upto(s) /\ lo[g] # 1
      BY <3>2, <2>2, <1>0, <1>1, <1>3, TermsAre
    <3>. QED
      BY <3>3, <1>0, <1>2
  <2>. QED
    BY <2>4, <2>5, <2>6, TaskShape DEF Sides
<1>4. ASSUME g < r, r < hi[g], RightDone(g)
      PROVE  FALSE
  <2>1. s < g
    BY <1>0, <1>1, <1>4, RightEmpty, TermsAre
  <2>. QED
    BY <2>1, <1>1, <1>2, <1>4, TermsAre
<1>. QED
  BY <1>3, <1>4

LEMMA OffersShape ==
  ASSUME Types, NEW lo, NEW hi, Shape(lo, hi), NEW s \in Terms, NEW right \in Terms,
         Offers(s, right), NEW lo2, NEW hi2,
         lo2 = [lo EXCEPT ![right] = s], hi2 = [hi EXCEPT ![right] = Upto(s)]
  PROVE  Shape(lo2, hi2)'
<1>. SUFFICES ASSUME NEW p, NEW side, NEW last,
                     p = task[s].parent, side = task[s].context, last = Upto(s)
              PROVE  Shape(lo2, hi2)'
  OBVIOUS
<1>0. /\ Started(s) /\ Active(s) /\ s # right /\ s < right /\ right < last /\ last \in 1 .. End
      /\ side \in Sides
  BY TaskShape, TermsAre DEF Offers, Active, Started
<1>14. /\ side = "root" => s = 1 /\ p = 0 /\ last = End
       /\ side = "left" => p \in Terms /\ Open(p) /\ s = lo[p] /\ last = p
       /\ side = "right" => p = s /\ Open(s) /\ last = hi[s]
  BY <1>0, TaskShape
<1>1. task[right].status = "none" /\ node[right] = NoNode /\ ~Active(right) /\ ~Open(right)
  BY OffersBusy
<1>2. \A t \in Terms : Active(t)' <=> Active(t) \/ t = right
  BY OffersBusy
<1>3. \A g \in 0 .. NumTerms : Open(g)' <=> Open(g) \/ g = right
  BY OffersBusy
<1>4. \A q, d : q # right => (Busy(q, d)' <=> Busy(q, d))
  BY OffersBusy
<1>5. Busy(right, "left")' /\ Busy(right, "right")'
  BY OffersBusy
<1>6. /\ lo2 \in [Terms -> Terms] /\ hi2 \in [Terms -> 1 .. End]
      /\ lo2[right] = s /\ hi2[right] = last
      /\ \A g \in Terms : g # right => lo2[g] = lo[g] /\ hi2[g] = hi[g]
  BY <1>0 DEF Shape
<1>7. \A i \in Terms : s < i /\ i < last => task[i].status = "none" /\ ~Open(i) /\ ~Active(i)
  BY <1>0, Inside
<1>8. p # right
  BY <1>0, <1>1, TaskShape, TermsAre DEF Sides
<1>9. ASSUME NEW t \in Terms, Active(t)'
      PROVE  CutsFit(t)' /\ TaskFits(t, lo2, hi2)'
  <2>1. CASE t = s
    <3>1. /\ CutsFit(t)' /\ Upto(t)' = right /\ task'[t].parent = right
          /\ task'[t].context = "left" /\ Started(t)'
      BY <2>1, <1>0 DEF Offers, Started
    <3>2. \A i \in Terms : s < i /\ i < right => task'[i].status = "none"
      BY <1>0, <1>7, TermsAre DEF Offers
    <3>4. Open(right)' /\ t = lo2[right]
      BY <2>1, <1>3, <1>6, TermsAre
    <3>5. \A i \in Terms : t < i /\ i < Upto(t)' => task'[i].status = "none"
      BY <2>1, <3>1, <3>2
    <3>3. TaskFits(t, lo2, hi2)'
      BY <3>1, <3>4, <3>5 DEF TaskFits
    <3>. QED
      BY <3>1, <3>3
  <2>2. CASE t = right
    <3>1. /\ CutsFit(t)' /\ Upto(t)' = last /\ task'[t].parent = right
          /\ task'[t].context = "right"
      BY <2>2 DEF Offers
    <3>2. \A i \in Terms : right < i /\ i < last => task'[i].status = "none"
      BY <1>0, <1>7, TermsAre DEF Offers
    <3>3. Open(t)' /\ Upto(t)' = hi2[t]
      BY <2>2, <3>1, <1>3, <1>6, TermsAre
    <3>4. \A i \in Terms : t < i /\ i < Upto(t)' => task'[i].status = "none"
      BY <2>2, <3>1, <3>2
    <3>5. TaskFits(t, lo2, hi2)'
      BY <2>2, <3>1, <3>3, <3>4 DEF TaskFits
    <3>. QED
      BY <3>1, <3>5
  <2>3. CASE t # s /\ t # right
    <3>1. Active(t) /\ task'[t] = task[t]
      BY <2>3, <1>2, <1>9 DEF Offers
    <3>2. CutsFit(t) /\ TaskFits(t, lo, hi) /\ Upto(t) \in 1 .. End
      BY <3>1, TaskShape
    <3>3. CutsFit(t)' /\ Upto(t)' = Upto(t) /\ (Started(t)' <=> Started(t))
      BY <3>1, <3>2 DEF CutsFit, Upto, Started, InFunction
    <3>4. \A i \in Terms : t < i /\ i < Upto(t) => task[i].status = "none" /\ ~Active(i)
      BY <3>1, Inside
    <3>5. ~(t < right /\ right < Upto(t))
      <4>1. CASE t < s
        BY <4>1, <3>4, <3>2, <1>0, TermsAre
      <4>2. CASE t > s
        BY <4>2, <3>1, <1>0, <1>7, TermsAre
      <4>. QED
        BY <4>1, <4>2, <2>3, TermsAre
    <3>6. \A i \in Terms : t < i /\ i < Upto(t) => task'[i].status = "none"
      BY <3>4, <3>5, <1>0 DEF Offers
    <3>7. task[t].parent # right /\ (task[t].context = "right" => t # right)
      BY <3>1, <1>1, <2>3, TaskShape, TermsAre DEF Sides
    <3>9. task[t].context = "left" =>
            /\ task[t].parent \in Terms /\ Open(task[t].parent)' /\ t = lo2[task[t].parent]
            /\ Upto(t)' = task[t].parent /\ Started(t)'
      <4>. SUFFICES ASSUME task[t].context = "left", NEW q, q = task[t].parent
                    PROVE  /\ q \in Terms /\ ~node'[q].done /\ t = lo2[q]
                           /\ Upto(t)' = q /\ Started(t)'
        BY <3>1 DEF Open
      <4>1. q \in Terms /\ Open(q) /\ t = lo[q] /\ Upto(t) = q /\ Started(t) /\ q # right
        BY <3>1, <3>7, TaskShape
      <4>2. Open(q)'
        BY <4>1, <1>3, TermsAre
      <4>3. Upto(t)' = q /\ Started(t)'
        BY <4>1, <3>3
      <4>4. ~node'[q].done
        BY <4>2 DEF Open
      <4>5. t = lo2[q]
        BY <4>1, <1>6
      <4>. QED
        BY <4>1, <4>3, <4>4, <4>5
    <3>10. task[t].context = "right" => task[t].parent = t /\ Open(t)' /\ Upto(t)' = hi2[t]
      <4>. SUFFICES ASSUME task[t].context = "right"
                    PROVE  task[t].parent = t /\ Open(t)' /\ Upto(t)' = hi2[t]
        OBVIOUS
      <4>1. task[t].parent = t /\ Open(t) /\ Upto(t) = hi[t] /\ t # right
        BY <3>2, <3>7 DEF TaskFits
      <4>2. Open(t)'
        BY <4>1, <1>3, TermsAre
      <4>. QED
        BY <4>1, <4>2, <3>3, <1>6
    <3>11. task[t].context = "root" => t = 1 /\ task[t].parent = 0 /\ Upto(t)' = End
      BY <3>1, <3>3, TaskShape
    <3>12. \A i \in Terms : t < i /\ i < Upto(t)' => task'[i].status = "none"
      BY <3>3, <3>6
    <3>8. TaskFits(t, lo2, hi2)'
      BY <3>1, <3>9, <3>10, <3>11, <3>12 DEF TaskFits
    <3>. QED
      BY <3>3, <3>8
  <2>. QED
    BY <2>1, <2>2, <2>3
<1>10. ASSUME NEW g \in Terms, Open(g)'
       PROVE  NodeFits(g, lo2, hi2)' /\ NodeCounts(g, lo2, hi2)'
  <2>1. CASE g = right
    <3>1. /\ node'[g].parent = p /\ node'[g].context = side /\ node'[g].refs = 2
      BY <2>1 DEF Offers
    <3>2. NodeFits(g, lo2, hi2)'
      <4>1. CASE side = "root"
        <5>1. p = 0 /\ s = 1 /\ last = End
          BY <4>1, <1>14
        <5>. QED
          BY <5>1, <4>1, <3>1, <2>1, <1>0, <1>6 DEF NodeFits
      <4>2. CASE side = "left"
        <5>1. p \in Terms /\ Open(p) /\ s = lo[p] /\ last = p
          BY <4>2, <1>14
        <5>2. p < hi[p] /\ hi[p] \in 1 .. End
          BY <5>1, NodeShape
        <5>6. lo[p] # 1 => Open(lo[p]) /\ hi[p] <= hi[lo[p]]
          <6>1. NodeFits(p, lo, hi)
            BY <5>1, NodeShape
          <6>. QED
            BY <6>1 DEF NodeFits
        <5>7. hi[s] \in 1 .. End
          BY DEF Shape
        <5>3. s # 1 => Open(s) /\ last <= hi[s]
          <6>1. s # 1 => Open(s) /\ hi[p] <= hi[s]
            BY <5>1, <5>6
          <6>2. hi[p] <= hi[s] => last <= hi[s]
            <7>1. last \in Nat
              BY <5>1, TermsAre
            <7>2. hi[p] \in Nat /\ hi[s] \in Nat
              <8>1. \A i \in 1 .. End : i \in Nat
                BY TermsAre
              <8>. QED
                BY <8>1, <5>2, <5>7
            <7>3. last < hi[p]
              BY <5>1, <5>2
            <7>. QED
              BY <7>1, <7>2, <7>3
          <6>. QED
            BY <6>1, <6>2
        <5>4. Open(p)' /\ lo2[p] = s /\ hi2[g] = p /\ lo2[g] = s
          BY <5>1, <2>1, <1>3, <1>6, <1>8, TermsAre
        <5>5. s # 1 => Open(s)' /\ hi2[g] <= hi2[s]
          <6>1. hi2[s] = hi[s]
            BY <1>0, <1>6
          <6>. QED
            BY <6>1, <5>1, <5>3, <5>4, <1>3, TermsAre
        <5>. QED
          BY <5>1, <5>4, <5>5, <4>2, <3>1, <2>1, <1>0 DEF NodeFits
      <4>3. CASE side = "right"
        <5>1. p = s /\ Open(s) /\ last = hi[s]
          BY <4>3, <1>14
        <5>3. hi2[s] = hi[s] /\ hi2[g] = last /\ lo2[g] = s
          BY <2>1, <1>0, <1>6
        <5>4. Open(s)'
          BY <5>1, <1>3, TermsAre
        <5>2. /\ Open(p)' /\ lo2[g] = p /\ hi2[g] = hi2[p] /\ hi2[g] = last /\ p = s
              /\ hi2[g] <= hi2[s]
          BY <5>1, <5>3, <5>4, <1>0
        <5>. QED
          BY <5>2, <4>3, <3>1, <2>1, <1>0 DEF NodeFits
      <4>. QED
        BY <4>1, <4>2, <4>3, <1>0 DEF Sides
    <3>3. \A h \in Terms : Open(h)' /\ h # g =>
            node'[h].parent # node'[g].parent \/ node'[h].context # node'[g].context
      <4>1. \A h \in Terms : ~NodeAt(h, p, side)
        BY <1>0, OnlyTask
      <4>. QED
        BY <4>1, <3>1, <2>1, <1>3, TermsAre DEF NodeAt, Offers
    <3>4. NodeCounts(g, lo2, hi2)'
      BY <3>1, <3>3, <2>1, <1>5 DEF NodeCounts, LeftDone, RightDone, Count
    <3>. QED
      BY <3>2, <3>4
  <2>2. CASE g # right
    <3>1. Open(g) /\ node'[g] = node[g]
      BY <2>2, <1>3, <1>10, TermsAre DEF Offers
    <3>2. NodeFits(g, lo, hi) /\ NodeCounts(g, lo, hi) /\ lo[g] \in Terms
      BY <3>1, NodeShape
    <3>3. node[g].parent # right /\ (lo[g] # 1 => lo[g] # right)
      BY <3>1, <1>1, NodeShape, TermsAre DEF Sides
    <3>12. /\ lo2[g] = lo[g] /\ hi2[g] = hi[g]
           /\ lo[g] # 1 => Open(lo[g])' /\ hi2[g] <= hi2[lo2[g]]
      <4>1. lo2[g] = lo[g] /\ hi2[g] = hi[g]
        BY <2>2, <1>6
      <4>2. ASSUME lo[g] # 1
            PROVE  Open(lo[g])' /\ hi2[g] <= hi2[lo2[g]]
        <5>1. Open(lo[g]) /\ hi[g] <= hi[lo[g]] /\ lo[g] \in Terms
          BY <4>2, <3>1, NodeShape
        <5>2. hi2[lo[g]] = hi[lo[g]]
          BY <5>1, <4>2, <3>3, <1>6
        <5>. QED
          BY <5>1, <5>2, <4>1, <1>3, TermsAre
      <4>. QED
        BY <4>1, <4>2
    <3>13. node[g].context # "root" =>
             /\ Open(node[g].parent)' /\ lo2[node[g].parent] = lo[node[g].parent]
             /\ hi2[node[g].parent] = hi[node[g].parent]
      BY <3>1, <3>3, <1>3, <1>6, NodeShape, TermsAre DEF Sides, Open
    <3>4. NodeFits(g, lo2, hi2)'
      BY <3>1, <3>2, <3>12, <3>13 DEF NodeFits
    <3>5. (LeftDone(g)' <=> LeftDone(g)) /\ (RightDone(g)' <=> RightDone(g))
      BY <2>2, <1>4 DEF LeftDone, RightDone
    <3>6. node'[g].refs = (Count(Busy(g, "left")) + Count(Busy(g, "right")))'
      BY <3>1, <3>2, <2>2, <1>4 DEF NodeCounts, Count
    <3>7. /\ lo[g] < right /\ right < g => ~LeftDone(g)
          /\ g < right /\ right < hi[g] => ~RightDone(g)
      BY <3>1, <1>0, RangeIsBusy
    <3>8. ASSUME LeftDone(g)', NEW i \in Terms, lo[g] < i, i < g
          PROVE  ~Open(i)'
      BY <3>2, <3>5, <3>7, <3>8, <1>3, TermsAre DEF NodeCounts
    <3>9. ASSUME RightDone(g)', NEW i \in Terms, g < i, i < hi[g]
          PROVE  ~Open(i)'
      BY <3>2, <3>5, <3>7, <3>9, <1>3, TermsAre DEF NodeCounts
    <3>10. ASSUME NEW h \in Terms, Open(h)', h # g
           PROVE  node'[h].parent # node'[g].parent \/ node'[h].context # node'[g].context
      <4>1. CASE h = right
        <5>1. ~NodeAt(g, p, side)
          BY <1>0, OnlyTask
        <5>. QED
          BY <5>1, <4>1, <3>1 DEF NodeAt, Offers
      <4>2. CASE h # right
        <5>1. Open(h) /\ node'[h] = node[h]
          BY <4>2, <3>10, <1>3, TermsAre DEF Offers
        <5>. QED
          BY <5>1, <3>1, <3>2, <3>10 DEF NodeCounts
      <4>. QED
        BY <4>1, <4>2
    <3>11. NodeCounts(g, lo2, hi2)'
      BY <2>2, <3>6, <3>8, <3>9, <3>10, <1>6 DEF NodeCounts
    <3>. QED
      BY <3>4, <3>11
  <2>. QED
    BY <2>1, <2>2
<1>11. ASSUME NEW i \in Terms, task'[i].status = "none"
       PROVE  node'[i] = NoNode
  <2>1. i # right /\ i # s
    BY <1>11, <1>0 DEF Offers, Started
  <2>2. task[i].status = "none"
    BY <2>1, <1>11 DEF Offers
  <2>3. node[i] = NoNode
    BY <2>2 DEF Shape
  <2>. QED
    BY <2>1, <2>3, TermsAre DEF Offers
<1>12. node'[0].refs = Count(Busy(0, "root"))'
  <2>1. node[0].refs = Count(Busy(0, "root")) /\ 0 # right
    BY TermsAre DEF Shape
  <2>2. node'[0] = node[0]
    BY <2>1, TermsAre DEF Offers
  <2>. QED
    BY <2>1, <2>2, <1>4 DEF Count
<1>13. RootDone' => \A g \in Terms : ~Open(g)'
  <2>1. RootDone' <=> RootDone
    BY <1>4, TermsAre DEF RootDone
  <2>2. ~RootDone
    BY <1>0, NothingLeft
  <2>. QED
    BY <2>1, <2>2
<1>. QED
  BY <1>6, <1>9, <1>10, <1>11, <1>12, <1>13 DEF Shape

----------------------------------------------------------------------------
(* What the actions do to the ranges of a task *)

\* Halving the first range.
LEMMA SplitCuts ==
  ASSUME NEW c \in Seq(1 .. End), Len(c) >= 2, Ascending(c), NEW m \in Int,
         c[1] < m, m < c[2]
  PROVE  LET d == <<c[1], m>> \o Tail(c)
         IN  /\ d \in Seq(1 .. End) /\ Len(d) = Len(c) + 1 /\ Ascending(d)
             /\ d[1] = c[1] /\ Last(d) = Last(c)
<1>. DEFINE a == <<c[1], m>>
            b == Tail(c)
            d == a \o b
<1>0. c # << >>
  OBVIOUS
<1>1. /\ Len(c) \in Nat /\ \A i \in 1 .. Len(c) : c[i] \in 1 .. End
      /\ c # << >> /\ Last(c) = c[Len(c)]
  BY <1>0, SeqFacts
<1>2. c[1] \in 1 .. End /\ c[2] \in 1 .. End /\ m \in 1 .. End
  BY <1>1, TermsAre
<1>3. a \in Seq(1 .. End) /\ Len(a) = 2 /\ a[1] = c[1] /\ a[2] = m
  BY <1>2
<1>4. /\ b \in Seq(1 .. End) /\ Len(b) = Len(c) - 1
      /\ \A i \in 1 .. Len(c) - 1 : b[i] = c[i + 1]
  BY <1>1, SeqFacts
<1>. HIDE DEF a, b
<1>5. /\ d \in Seq(1 .. End) /\ Len(d) = Len(c) + 1
      /\ \A i \in 1 .. 2 : d[i] = a[i]
      /\ \A i \in 3 .. Len(c) + 1 : d[i] = b[i - 2]
  <2>1. d \in Seq(1 .. End) /\ Len(d) = Len(a) + Len(b)
    BY <1>3, <1>4, Concatenated
  <2>2. \A i \in 1 .. Len(a) : d[i] = a[i]
    BY <1>3, <1>4, Concatenated
  <2>3. \A i \in Len(a) + 1 .. Len(a) + Len(b) : d[i] = b[i - Len(a)]
    BY <1>3, <1>4, Concatenated
  <2>. QED
    BY <2>1, <2>2, <2>3, <1>1, <1>3, <1>4
<1>. HIDE DEF d
<1>6. d[1] = c[1] /\ d[2] = m
  BY <1>3, <1>5
<1>7. \A i \in 3 .. Len(c) + 1 : d[i] = c[i - 1]
  <2>1. PICK n \in Nat : n = Len(c)
    BY <1>1
  <2>2. ASSUME NEW i \in 3 .. n + 1
        PROVE  d[i] = c[i - 1]
    <3>1. i - 2 \in 1 .. n - 1 /\ (i - 2) + 1 = i - 1
      BY <2>1
    <3>2. d[i] = b[i - 2] /\ b[i - 2] = c[(i - 2) + 1]
      BY <2>1, <3>1, <1>4, <1>5
    <3>. QED
      BY <3>1, <3>2
  <2>. QED
    BY <2>1, <2>2
<1>8. \A i \in 3 .. Len(c) + 1 : m < d[i]
  <2>. SUFFICES ASSUME NEW i \in 3 .. Len(c) + 1
                PROVE  m < c[i - 1]
    BY <1>7
  <2>1. i - 1 \in 1 .. Len(c) /\ 2 \in 1 .. Len(c) /\ (i - 1 = 2 \/ 2 < i - 1)
    BY <1>1
  <2>2. c[2] <= c[i - 1] /\ c[i - 1] \in 1 .. End
    <3>1. PICK k \in 1 .. Len(c) : k = i - 1 /\ (k = 2 \/ 2 < k)
      BY <2>1
    <3>2. c[k] \in 1 .. End
      BY <1>1
    <3>3. 2 < k => c[2] < c[k]
      BY <2>1 DEF Ascending
    <3>4. c[2] \in Nat /\ c[k] \in Nat
      <4>1. \A x \in 1 .. End : x \in Nat
        BY TermsAre
      <4>. QED
        BY <4>1, <3>2, <1>2
    <3>5. c[2] <= c[k]
      <4>1. CASE k = 2
        BY <4>1, <3>4
      <4>2. CASE 2 < k
        BY <4>2, <3>3, <3>4
      <4>. QED
        BY <4>1, <4>2, <3>1
    <3>. QED
      BY <3>1, <3>2, <3>5
  <2>. QED
    BY <2>2, <1>2, TermsAre
<1>9. Ascending(d)
  <2>. SUFFICES ASSUME NEW i \in 1 .. Len(c) + 1, NEW j \in 1 .. Len(c) + 1, i < j
                PROVE  d[i] < d[j]
    BY <1>5 DEF Ascending
  <2>1. CASE i >= 3
    <3>1. /\ i \in 3 .. Len(c) + 1 /\ j \in 3 .. Len(c) + 1
          /\ i - 1 \in 1 .. Len(c) /\ j - 1 \in 1 .. Len(c) /\ i - 1 < j - 1
      BY <2>1, <1>1
    <3>. QED
      BY <3>1, <1>7 DEF Ascending
  <2>2. CASE i = 2
    <3>1. j \in 3 .. Len(c) + 1
      BY <2>2, <1>1
    <3>. QED
      BY <2>2, <3>1, <1>6, <1>8
  <2>3. CASE i = 1
    <3>1. j = 2 \/ j \in 3 .. Len(c) + 1
      BY <2>3, <1>1
    <3>2. j \in 3 .. Len(c) + 1 => c[1] < d[j]
      <4>1. ASSUME j \in 3 .. Len(c) + 1
            PROVE  d[j] \in 1 .. End
        <5>1. \A k \in 1 .. Len(d) : d[k] \in 1 .. End
          BY <1>5, SeqFacts
        <5>2. j \in 1 .. Len(d)
          BY <4>1, <1>5, <1>1
        <5>. QED
          BY <5>1, <5>2
      <4>. QED
        BY <4>1, <1>8, <1>2, TermsAre
    <3>. QED
      BY <3>1, <3>2, <2>3, <1>6
  <2>4. i = 1 \/ i = 2 \/ i >= 3
    BY <1>1
  <2>. QED
    BY <2>1, <2>2, <2>3, <2>4
<1>10. Last(d) = Last(c)
  <2>1. d # << >> /\ Last(d) = d[Len(c) + 1]
    BY <1>1, <1>5, SeqFacts
  <2>2. Len(c) + 1 \in 3 .. Len(c) + 1 /\ Len(c) + 1 - 1 = Len(c)
    BY <1>1
  <2>3. d[Len(c) + 1] = c[Len(c)]
    BY <2>2, <1>7
  <2>. QED
    BY <2>1, <2>3, <1>1
<1>. QED
  BY <1>5, <1>6, <1>9, <1>10 DEF d, a, b

\* The first range is done.
LEMMA TailCuts ==
  ASSUME NEW c \in Seq(1 .. End), Len(c) > 1, Ascending(c)
  PROVE  /\ Tail(c) \in Seq(1 .. End) /\ Tail(c) # << >> /\ Ascending(Tail(c))
         /\ Tail(c)[1] = c[2] /\ Last(Tail(c)) = Last(c)
<1>. DEFINE b == Tail(c)
<1>0. c # << >>
  OBVIOUS
<1>1. /\ Len(c) \in Nat /\ c # << >> /\ Last(c) = c[Len(c)]
      /\ b \in Seq(1 .. End) /\ Len(b) = Len(c) - 1
      /\ \A i \in 1 .. Len(c) - 1 : b[i] = c[i + 1]
  BY <1>0, SeqFacts
<1>. HIDE DEF b
<1>2. b # << >> /\ Last(b) = b[Len(b)]
  BY <1>1, SeqFacts
<1>3. Ascending(b)
  <2>. SUFFICES ASSUME NEW i \in 1 .. Len(c) - 1, NEW j \in 1 .. Len(c) - 1, i < j
                PROVE  c[i + 1] < c[j + 1]
    BY <1>1 DEF Ascending
  <2>1. i + 1 \in 1 .. Len(c) /\ j + 1 \in 1 .. Len(c) /\ i + 1 < j + 1
    BY <1>1
  <2>. QED
    BY <2>1 DEF Ascending
<1>4. b[1] = c[2] /\ b[Len(b)] = c[Len(c)]
  <2>1. 1 \in 1 .. Len(c) - 1 /\ Len(b) \in 1 .. Len(c) - 1 /\ Len(b) + 1 = Len(c) /\ 1 + 1 = 2
    BY <1>1
  <2>2. b[1] = c[1 + 1] /\ b[Len(b)] = c[Len(b) + 1]
    BY <2>1, <1>1
  <2>. QED
    BY <2>1, <2>2
<1>. QED
  BY <1>1, <1>2, <1>3, <1>4 DEF b

\* The last range is given away.
LEMMA FrontCuts ==
  ASSUME NEW c \in Seq(1 .. End), Len(c) > 2, Ascending(c)
  PROVE  /\ Front(c) \in Seq(1 .. End) /\ Len(Front(c)) > 1 /\ Ascending(Front(c))
         /\ Front(c)[1] = c[1] /\ Last(Front(c)) = c[Len(c) - 1]
         /\ c[1] < c[Len(c) - 1] /\ c[Len(c) - 1] < Last(c)
         /\ c[1] \in 1 .. End /\ c[Len(c) - 1] \in 1 .. End /\ Last(c) \in 1 .. End
<1>. DEFINE b == Front(c)
<1>0. c # << >>
  OBVIOUS
<1>1. /\ Len(c) \in Nat /\ c # << >> /\ Last(c) = c[Len(c)]
      /\ b \in Seq(1 .. End) /\ Len(b) = Len(c) - 1
      /\ \A i \in 1 .. Len(c) - 1 : b[i] = c[i]
      /\ \A i \in 1 .. Len(c) : c[i] \in 1 .. End
  BY <1>0, SeqFacts
<1>. HIDE DEF b
<1>2. /\ 1 \in 1 .. Len(c) /\ Len(c) - 1 \in 1 .. Len(c) /\ Len(c) \in 1 .. Len(c)
      /\ 1 < Len(c) - 1 /\ Len(c) - 1 < Len(c) /\ 1 \in 1 .. Len(c) - 1
      /\ Len(c) - 1 \in 1 .. Len(c) - 1
  BY <1>1
<1>3. /\ c[1] < c[Len(c) - 1] /\ c[Len(c) - 1] < c[Len(c)]
      /\ c[1] \in 1 .. End /\ c[Len(c) - 1] \in 1 .. End /\ c[Len(c)] \in 1 .. End
  BY <1>1, <1>2 DEF Ascending
<1>4. b # << >> /\ Last(b) = b[Len(b)]
  BY <1>1, SeqFacts
<1>5. Ascending(b)
  <2>1. \A i \in 1 .. Len(c) - 1 : i \in 1 .. Len(c)
    BY <1>1
  <2>. QED
    BY <2>1, <1>1 DEF Ascending
<1>6. b[1] = c[1] /\ b[Len(b)] = c[Len(c) - 1] /\ Len(b) > 1
  BY <1>1, <1>2
<1>. QED
  BY <1>1, <1>3, <1>4, <1>5, <1>6 DEF b

LEMMA PairCuts ==
  ASSUME NEW r \in 1 .. End, NEW l \in 1 .. End, r < l
  PROVE  /\ <<r, l>> \in Seq(1 .. End) /\ <<r, l>> # << >> /\ Len(<<r, l>>) = 2
         /\ Ascending(<<r, l>>) /\ <<r, l>>[1] = r /\ Last(<<r, l>>) = l
<1>. DEFINE c == <<r, l>>
<1>1. c \in Seq(1 .. End) /\ c # << >> /\ Len(c) = 2 /\ c[1] = r /\ c[2] = l
  OBVIOUS
<1>. HIDE DEF c
<1>2. Last(c) = l
  BY <1>1, SeqFacts
<1>3. Ascending(c)
  <2>. SUFFICES ASSUME NEW i \in 1 .. 2, NEW j \in 1 .. 2, i < j
                PROVE  c[i] < c[j]
    BY <1>1 DEF Ascending
  <2>1. i = 1 /\ j = 2
    OBVIOUS
  <2>. QED
    BY <2>1, <1>1
<1>. QED
  BY <1>1, <1>2, <1>3 DEF c

----------------------------------------------------------------------------
(* The actions of a thread *)

LEMMA TopFacts ==
  ASSUME Stacks, NEW th \in Threads, running[th] # << >>
  PROVE  /\ Top(th) \in Terms /\ Started(Top(th)) /\ Active(Top(th))
         /\ Top(th) = running[th][Len(running[th])] /\ Len(running[th]) \in 1 .. Len(running[th])
         /\ Len(running[th]) \in Nat
<1>1. running[th] \in Seq(Terms)
  BY DEF Stacks
<1>2. /\ Len(running[th]) \in Nat /\ Len(running[th]) >= 1
      /\ Top(th) = running[th][Len(running[th])] /\ Top(th) \in Terms
  BY <1>1, SeqFacts DEF Top
<1>3. Started(Top(th))
  BY <1>2 DEF Stacks, StackedAreStarted
<1>. QED
  BY <1>2, <1>3 DEF Started, Active

\* A step that changes one task, not its place in the tree.
LEMMA KeptBy ==
  ASSUME NEW s \in Terms, Active(s), Active(s)', Started(s) => Started(s)',
         task'[s].parent = task[s].parent, task'[s].context = task[s].context,
         CutsFit(s)', Upto(s)' = Upto(s),
         \A t \in Terms : t # s => task'[t] = task[t],
         \A t \in Terms : Active(t) => CutsFit(t),
         \A g \in 0 .. NumTerms : SameNode(g) /\ node'[g].refs = node[g].refs
                                  /\ (g # s => node'[g] = node[g])
  PROVE  Kept
<1>1. task[s].status # "none" /\ task'[s].status # "none"
  BY DEF Active
<1>2. ASSUME NEW t \in Terms, t # s
      PROVE  /\ Active(t)' <=> Active(t)
             /\ Started(t)' <=> Started(t)
             /\ task'[t].status = "none" <=> task[t].status = "none"
             /\ task'[t].parent = task[t].parent /\ task'[t].context = task[t].context
             /\ Active(t) => CutsFit(t)' /\ Upto(t)' = Upto(t)
  <2>1. task'[t] = task[t]
    BY <1>2
  <2>. QED
    BY <2>1 DEF Active, Started, CutsFit, Upto, InFunction
<1>. QED
  BY <1>1, <1>2, TermsAre DEF Kept

LEMMA TakeKeeps ==
  ASSUME Types, NEW lo, NEW hi, Shape(lo, hi), NEW th \in Threads, NEW s \in Terms, Take(th, s)
  PROVE  /\ task[s].status = "spawned" /\ task'[s].status = "balance" /\ ~is_cancelled
         /\ task'[s].cuts = task[s].cuts
         /\ \A t \in Terms : t # s => task'[t] = task[t]
         /\ \A g \in 0 .. NumTerms : g # s => node'[g] = node[g]
         /\ node'[s].body = node[s].body
         /\ task[s].context = "right" /\ node[s].body = 0 =>
              task'[s].body = s /\ node'[s].zombie
         /\ ~(task[s].context = "right" /\ node[s].body = 0) =>
              task'[s].body = task[s].body /\ node'[s] = node[s]
         /\ Kept
<1>1. /\ task[s].status = "spawned" /\ ~is_cancelled
      /\ \A t \in Terms : t # s => task'[t] = task[t]
      /\ \A g \in 0 .. NumTerms : g # s => node'[g] = node[g]
  BY DEF Take, Types
<1>2. /\ task'[s].status = "balance" /\ task'[s].cuts = task[s].cuts
      /\ task'[s].parent = task[s].parent /\ task'[s].context = task[s].context
  BY DEF Take, Types, Task
<1>3. /\ task[s].context = "right" /\ node[s].body = 0 => task'[s].body = s /\ node'[s].zombie
      /\ ~(task[s].context = "right" /\ node[s].body = 0) =>
           task'[s].body = task[s].body /\ node'[s] = node[s]
      /\ SameNode(s) /\ node'[s].refs = node[s].refs /\ node'[s].body = node[s].body
  BY TermsAre DEF Take, Types, Task, Node, SameNode
<1>4. Active(s) /\ Active(s)' /\ Started(s)'
  BY <1>1, <1>2 DEF Active, Started
<1>5. CutsFit(s)
  BY <1>4, TaskShape
<1>6. CutsFit(s)' /\ Upto(s)' = Upto(s)
  BY <1>2, <1>5 DEF CutsFit, Upto, InFunction
<1>7. \A t \in Terms : Active(t) => CutsFit(t)
  BY DEF Shape
<1>8. \A g \in 0 .. NumTerms : SameNode(g) /\ node'[g].refs = node[g].refs
                               /\ (g # s => node'[g] = node[g])
  BY <1>1, <1>3 DEF SameNode
<1>9. Kept
  BY <1>1, <1>2, <1>4, <1>6, <1>7, <1>8, KeptBy
<1>. QED
  BY <1>1, <1>2, <1>3, <1>9

\* The middle of a range that is larger than the grain size lies inside it.
LEMMA Middle ==
  ASSUME NEW x \in Nat, NEW y \in Nat, NEW g \in Nat, g >= 1, y - x > g
  PROVE  /\ x + (y - x) \div 2 \in Int
         /\ x < x + (y - x) \div 2 /\ x + (y - x) \div 2 < y
<1>1. PICK k \in Nat : k = y - x /\ k >= 2
  OBVIOUS
<1>2. k \div 2 \in Nat /\ 0 < k \div 2 /\ k \div 2 < k
  BY <1>1
<1>3. PICK h \in Nat : h = k \div 2
  BY <1>2
<1>4. x + h \in Int /\ x < x + h /\ x + h < y
  BY <1>1, <1>2, <1>3
<1>. QED
  BY <1>1, <1>3, <1>4

LEMMA SplitKeeps ==
  ASSUME Types, Stacks, NEW lo, NEW hi, Shape(lo, hi), NEW th \in Threads, Split(th)
  PROVE  \E s \in Terms :
           /\ task[s].status = "balance" /\ task'[s].status = "balance"
           /\ task'[s].cuts \in Seq(1 .. End) /\ task'[s].cuts[1] = task[s].cuts[1]
           /\ task'[s].body = task[s].body
           /\ \A t \in Terms : t # s => task'[t] = task[t]
           /\ Kept
<1>a. SUFFICES ASSUME NEW s, s = Top(th), NEW c, c = task[s].cuts,
                      NEW m, m = c[1] + (c[2] - c[1]) \div 2, NEW d, d = <<c[1], m>> \o Tail(c)
               PROVE  /\ s \in Terms /\ task[s].status = "balance" /\ task'[s].status = "balance"
                      /\ task'[s].cuts \in Seq(1 .. End) /\ task'[s].cuts[1] = task[s].cuts[1]
                      /\ task'[s].body = task[s].body
                      /\ \A t \in Terms : t # s => task'[t] = task[t]
                      /\ Kept
  OBVIOUS
<1>0. running[th] # << >> /\ task[s].status = "balance" /\ node' = node
      /\ Len(c) >= 2 /\ Divisible(c[1], c[2]) /\ task' = [task EXCEPT ![s].cuts = d]
  BY <1>a DEF Split
<1>1. s \in Terms /\ Active(s)
  BY <1>0, <1>a, TopFacts
<1>2. CutsFit(s) /\ c \in Seq(1 .. End)
  BY <1>1, <1>a, TaskShape, TaskFacts
<1>3. Ascending(c) /\ s <= c[1] /\ Len(c) \in Nat /\ c[1] \in 1 .. End /\ c[2] \in 1 .. End
      /\ c[1] < c[2]
  <2>1. Len(c) > 1 /\ Len(c) \in Nat
    BY <1>0, <1>2
  <2>2. c[1] \in 1 .. End /\ c[2] \in 1 .. End /\ c[1] < c[2] /\ s <= c[1]
    BY <1>1, <1>2, <1>a, <2>1, CutsFacts
  <2>. QED
    BY <1>2, <1>a, <2>1, <2>2 DEF CutsFit
<1>4. m \in Int /\ c[1] < m /\ m < c[2]
  <2>1. c[1] \in Nat /\ c[2] \in Nat /\ c[2] - c[1] > Grainsize /\ Grainsize >= 1
    <3>1. \A i \in 1 .. End : i \in Nat
      BY TermsAre
    <3>2. c[1] \in Nat /\ c[2] \in Nat
      BY <3>1, <1>3
    <3>3. c[2] - c[1] > Grainsize
      BY <1>0 DEF Divisible
    <3>. QED
      BY <3>2, <3>3, ReduceSumAssumption
  <2>2. PICK x \in Nat, y \in Nat, g \in Nat :
          x = c[1] /\ y = c[2] /\ g = Grainsize /\ g >= 1 /\ y - x > g
    BY <2>1, ReduceSumAssumption
  <2>3. m = x + (y - x) \div 2
    BY <1>a, <2>2
  <2>. QED
    BY <2>2, <2>3, Middle
<1>5. d \in Seq(1 .. End) /\ Len(d) = Len(c) + 1 /\ Ascending(d)
      /\ d[1] = c[1] /\ Last(d) = Last(c)
  <2>1. c \in Seq(1 .. End) /\ Len(c) >= 2 /\ Ascending(c) /\ m \in Int /\ c[1] < m /\ m < c[2]
    BY <1>0, <1>2, <1>3, <1>4
  <2>2. LET e == <<c[1], m>> \o Tail(c)
        IN  /\ e \in Seq(1 .. End) /\ Len(e) = Len(c) + 1 /\ Ascending(e)
            /\ e[1] = c[1] /\ Last(e) = Last(c)
    BY <2>1, SplitCuts
  <2>. QED
    BY <1>a, <2>2
<1>6. task'[s].cuts = d /\ task'[s].status = "balance" /\ task'[s].body = task[s].body
      /\ task'[s].parent = task[s].parent /\ task'[s].context = task[s].context
      /\ \A t \in Terms : t # s => task'[t] = task[t]
  <2>1. PICK r : r = [task[s] EXCEPT !.cuts = d]
    OBVIOUS
  <2>2. task \in [Terms -> Task] /\ task[s] \in Task
    BY <1>1 DEF Types
  <2>3. task'[s] = r /\ \A t \in Terms : t # s => task'[t] = task[t]
    BY <1>0, <1>1, <2>1, <2>2
  <2>4. /\ r.status = task[s].status /\ r.cuts = d
        /\ r.body = task[s].body /\ r.parent = task[s].parent /\ r.context = task[s].context
    BY <1>5, <2>1, <2>2, TaskCuts
  <2>. QED
    BY <1>0, <2>3, <2>4
<1>7. Upto(s)' = Upto(s)
  BY <1>a, <1>5, <1>6 DEF Upto
<1>8. CutsFit(s)'
  <2>1. d # << >>
    BY <1>3, <1>5
  <2>. QED
    BY <2>1, <1>3, <1>5, <1>6 DEF CutsFit, InFunction
<1>9. Kept
  <2>1. Active(s)' /\ Started(s)'
    BY <1>6 DEF Active, Started
  <2>2. \A t \in Terms : Active(t) => CutsFit(t)
    BY DEF Shape
  <2>3. \A g \in 0 .. NumTerms : SameNode(g) /\ node'[g].refs = node[g].refs
                                 /\ (g # s => node'[g] = node[g])
    BY <1>0 DEF SameNode
  <2>. QED
    BY <2>1, <2>2, <2>3, <1>1, <1>6, <1>7, <1>8, KeptBy
<1>. QED
  BY <1>a, <1>0, <1>1, <1>5, <1>6, <1>9

LEMMA EnterKeeps ==
  ASSUME Types, Stacks, NEW lo, NEW hi, Shape(lo, hi), NEW th \in Threads, EnterFunction(th)
  PROVE  \E s \in Terms :
           /\ task[s].status = "balance" /\ task'[s].status = "function"
           /\ task'[s].cuts = task[s].cuts /\ task'[s].body = task[s].body
           /\ \A t \in Terms : t # s => task'[t] = task[t]
           /\ adj' = [adj EXCEPT ![task[s].body] = << >>]
           /\ Kept
<1>. SUFFICES ASSUME NEW s, s = Top(th)
              PROVE  /\ s \in Terms /\ task[s].status = "balance" /\ task'[s].status = "function"
                     /\ task'[s].cuts = task[s].cuts /\ task'[s].body = task[s].body
                     /\ \A t \in Terms : t # s => task'[t] = task[t]
                     /\ adj' = [adj EXCEPT ![task[s].body] = << >>]
                     /\ Kept
  OBVIOUS
<1>0. /\ running[th] # << >> /\ task[s].status = "balance" /\ node' = node
      /\ Len(task[s].cuts) > 1 /\ task' = [task EXCEPT ![s].status = "function"]
      /\ adj' = [adj EXCEPT ![task[s].body] = << >>]
  BY DEF EnterFunction
<1>1. s \in Terms /\ Active(s)
  BY <1>0, TopFacts
<1>2. CutsFit(s)
  BY <1>1, TaskShape
<1>3. /\ task'[s].status = "function" /\ task'[s].cuts = task[s].cuts
      /\ task'[s].body = task[s].body
      /\ task'[s].parent = task[s].parent /\ task'[s].context = task[s].context
      /\ \A t \in Terms : t # s => task'[t] = task[t]
  BY <1>0, <1>1 DEF Types, Task
<1>4. CutsFit(s)' /\ Upto(s)' = Upto(s) /\ Active(s)' /\ Started(s)'
  BY <1>0, <1>2, <1>3 DEF CutsFit, Upto, InFunction, Active, Started
<1>5. Kept
  <2>1. \A t \in Terms : Active(t) => CutsFit(t)
    BY DEF Shape
  <2>2. \A g \in 0 .. NumTerms : SameNode(g) /\ node'[g].refs = node[g].refs
                                 /\ (g # s => node'[g] = node[g])
    BY <1>0 DEF SameNode
  <2>. QED
    BY <2>1, <2>2, <1>1, <1>3, <1>4, KeptBy
<1>. QED
  BY <1>0, <1>1, <1>3, <1>5

\* The user function of task s returns after the terms up to the next range.
Returns(s, from, upto) ==
  /\ from \in 1 .. End /\ upto \in 1 .. End /\ s <= from /\ from < upto /\ upto <= Upto(s)
  /\ InFunction(s) /\ task'[s].status = "balance" /\ task'[s].body = task[s].body
  /\ task'[s].cuts \in Seq(1 .. End)
  /\ from = task[s].cuts[1] /\ upto = task'[s].cuts[1]
  /\ \A t \in Terms : t # s => task'[t] = task[t]
  /\ adj' = [adj EXCEPT ![task[s].body] = @ \o Interval(from, upto)]
  /\ sum_' = [sum_ EXCEPT ![task[s].body] = @ \o Interval(from, upto)]
  /\ args_adjoints_' = [args_adjoints_ EXCEPT ![task[s].body] = @ \o adj'[task[s].body]]
  /\ partials' = [i \in Terms |-> partials[i]
                    + (IF i \in ToSet(Interval(from, upto)) THEN 1 ELSE 0)]
  /\ Kept

LEMMA ReturnsKeeps ==
  ASSUME Types, Stacks, NEW lo, NEW hi, Shape(lo, hi), NEW th \in Threads, FunctionReturns(th)
  PROVE  \E s \in Terms : Returns(s, task[s].cuts[1], task'[s].cuts[1])
<1>. SUFFICES ASSUME NEW s, s = Top(th), NEW c, c = task[s].cuts,
                     NEW from, from = c[1], NEW upto, upto = c[2]
              PROVE  s \in Terms /\ Returns(s, from, upto) /\ upto = task'[s].cuts[1]
  OBVIOUS
<1>0. /\ running[th] # << >> /\ InFunction(s) /\ node' = node
      /\ task' = [task EXCEPT ![s].status = "balance", ![s].cuts = Tail(@)]
  BY DEF FunctionReturns
<1>1. s \in Terms /\ Active(s)
  BY <1>0, TopFacts
<1>2. CutsFit(s) /\ c \in Seq(1 .. End)
  BY <1>1, TaskShape, TaskFacts
<1>3. /\ Ascending(c) /\ s <= c[1] /\ Len(c) > 1 /\ c[1] \in 1 .. End /\ c[2] \in 1 .. End
      /\ c[1] < c[2] /\ c[2] <= Upto(s)
  BY <1>0, <1>1, <1>2, CutsFacts DEF CutsFit
<1>4. Piece(s) = Interval(from, upto)
  BY DEF Piece, Interval
<1>5. /\ adj' = [adj EXCEPT ![task[s].body] = @ \o Interval(from, upto)]
      /\ sum_' = [sum_ EXCEPT ![task[s].body] = @ \o Interval(from, upto)]
      /\ args_adjoints_' = [args_adjoints_ EXCEPT ![task[s].body] = @ \o adj'[task[s].body]]
      /\ partials' = [i \in Terms |-> partials[i]
                        + (IF i \in ToSet(Interval(from, upto)) THEN 1 ELSE 0)]
  BY <1>4 DEF FunctionReturns
<1>6. /\ Tail(c) \in Seq(1 .. End) /\ Tail(c) # << >> /\ Ascending(Tail(c))
      /\ Tail(c)[1] = c[2] /\ Last(Tail(c)) = Last(c)
  BY <1>2, <1>3, TailCuts
<1>7. /\ task'[s].status = "balance" /\ task'[s].body = task[s].body /\ task'[s].cuts = Tail(c)
      /\ task'[s].parent = task[s].parent /\ task'[s].context = task[s].context
      /\ \A t \in Terms : t # s => task'[t] = task[t]
  BY <1>0, <1>1 DEF Types, Task
<1>8. Upto(s)' = Upto(s) /\ Active(s)' /\ Started(s)'
  BY <1>6, <1>7 DEF Upto, Active, Started
<1>9. CutsFit(s)'
  <2>1. s <= Tail(c)[1]
    BY <1>1, <1>3, <1>6, TermsAre
  <2>. QED
    BY <2>1, <1>6, <1>7 DEF CutsFit, InFunction
<1>10. Kept
  <2>1. \A t \in Terms : Active(t) => CutsFit(t)
    BY DEF Shape
  <2>2. \A g \in 0 .. NumTerms : SameNode(g) /\ node'[g].refs = node[g].refs
                                 /\ (g # s => node'[g] = node[g])
    BY <1>0 DEF SameNode
  <2>. QED
    BY <2>1, <2>2, <1>1, <1>7, <1>8, <1>9, KeptBy
<1>. QED
  BY <1>0, <1>1, <1>3, <1>5, <1>6, <1>7, <1>10 DEF Returns

\* A task completes; a left child tells its parent its body unless an exception keeps it
\* from doing so.
TaskGoes(s) ==
  /\ TaskEnds(s)
  /\ node'[task[s].parent].body = node[task[s].parent].body
       \/ (task[s].context = "left" /\ node'[task[s].parent].body = task[s].body)
  /\ task[s].context = "left" /\ threw' = {} => node'[task[s].parent].body = task[s].body
  /\ threw \subseteq threw'
  /\ threw' = {} => Started(s) /\ Len(task[s].cuts) = 1
  /\ task[s].status = "spawned" => is_cancelled
  /\ UNCHANGED <<auto, bodies>>

SameButBody(m, n) == /\ m.refs = n.refs /\ m.parent = n.parent /\ m.context = n.context
                     /\ m.zombie = n.zombie /\ m.done = n.done

LEMMA NodeTold ==
  ASSUME NEW n \in Node, NEW b \in 0 .. NumTerms, NEW r, r = [n EXCEPT !.body = b]
  PROVE  r \in Node /\ SameButBody(r, n) /\ r.body = b
<1>1. r \in Node
  BY DEF Node
<1>2. SameButBody(r, n)
  BY DEF Node, SameButBody
<1>3. r.body = b
  BY DEF Node
<1>. QED
  BY <1>1, <1>2, <1>3

LEMMA CompleteEnds ==
  ASSUME Types, Stacks, NEW lo, NEW hi, Shape(lo, hi), NEW th \in Threads, Complete(th)
  PROVE  \E s \in Terms : TaskGoes(s)
<1>. SUFFICES ASSUME NEW s, s = Top(th), NEW p, p = task[s].parent
              PROVE  s \in Terms /\ TaskGoes(s)
  OBVIOUS
<1>0. /\ running[th] # << >> /\ task[s].status = "balance"
      /\ Len(task[s].cuts) = 1 \/ is_cancelled
      /\ task' = [task EXCEPT ![s].status = "done"]
      /\ node' = Release(IF task[s].context = "left"
                         THEN [node EXCEPT ![p].body = task[s].body] ELSE node, p)
      /\ threw' = threw /\ UNCHANGED <<auto, bodies>>
  BY DEF Complete
<1>1. s \in Terms /\ Active(s) /\ Started(s)
  BY <1>0, TopFacts
<1>2. p \in 0 .. NumTerms
  BY <1>1, TaskFacts
<1>3. /\ \A g \in 0 .. NumTerms : SameNode(g) /\ node'[g].zombie = node[g].zombie
                                  /\ (g # p => node'[g] = node[g])
      /\ node'[p].refs = node[p].refs - 1
      /\ task[s].context = "left" => node'[p].body = task[s].body
      /\ task[s].context # "left" => node'[p].body = node[p].body
  <2>1. PICK told : told = IF task[s].context = "left"
                           THEN [node EXCEPT ![p].body = task[s].body] ELSE node
    OBVIOUS
  <2>2. node \in [0 .. NumTerms -> Node] /\ task[s].body \in 0 .. NumTerms
    BY <1>1, TaskFacts DEF Types
  <2>3. /\ told \in [0 .. NumTerms -> Node]
        /\ \A g \in 0 .. NumTerms : SameButBody(told[g], node[g])
                                       /\ (g # p => told[g] = node[g])
        /\ task[s].context = "left" => told[p].body = task[s].body
        /\ task[s].context # "left" => told[p].body = node[p].body
    <3>1. CASE task[s].context = "left"
      <4>1. told = [node EXCEPT ![p] = [node[p] EXCEPT !.body = task[s].body]]
        BY <2>1, <3>1
      <4>2. PICK r : r = [node[p] EXCEPT !.body = task[s].body]
        OBVIOUS
      <4>3. r \in Node /\ SameButBody(r, node[p]) /\ r.body = task[s].body
        BY <2>2, <4>2, <1>2, NodeTold
      <4>4. \A g \in 0 .. NumTerms : told[g] = IF g = p THEN r ELSE node[g]
        BY <2>2, <4>1, <4>2
      <4>5. told \in [0 .. NumTerms -> Node]
        BY <2>2, <4>1, <4>2, <4>3
      <4>. QED
        BY <3>1, <4>3, <4>4, <4>5, <1>2 DEF SameButBody
    <3>2. CASE task[s].context # "left"
      BY <2>1, <2>2, <3>2 DEF SameButBody
    <3>. QED
      BY <3>1, <3>2
  <2>4. node' = [told EXCEPT ![p] = [told[p] EXCEPT !.refs = @ - 1]]
    BY <1>0, <2>1 DEF Release
  <2>5. PICK r : r = [told[p] EXCEPT !.refs = @ - 1]
    OBVIOUS
  <2>6. /\ r.refs = told[p].refs - 1 /\ r.body = told[p].body
        /\ r.parent = told[p].parent /\ r.context = told[p].context
        /\ r.zombie = told[p].zombie /\ r.done = told[p].done
    <3>1. told[p] \in Node
      BY <2>3, <1>2
    <3>. QED
      BY <2>5, <3>1 DEF Node
  <2>7. \A g \in 0 .. NumTerms : node'[g] = IF g = p THEN r ELSE told[g]
    BY <2>3, <2>4, <2>5
  <2>8. node'[p] = r
    BY <1>2, <2>7
  <2>9. \A g \in 0 .. NumTerms : /\ SameNode(g) /\ node'[g].zombie = node[g].zombie
                                 /\ (g # p => node'[g] = node[g])
    BY <2>3, <2>6, <2>7 DEF SameButBody, SameNode
  <2>. QED
    BY <1>2, <2>3, <2>6, <2>8, <2>9 DEF SameButBody
<1>4. task'[s].status = "done" /\ \A t \in Terms \ {s} : task'[t] = task[t]
  BY <1>0, <1>1 DEF Types, Task
<1>5. TaskEnds(s)
  BY <1>1, <1>3, <1>4 DEF TaskEnds
<1>. QED
  BY <1>0, <1>1, <1>3, <1>5 DEF TaskGoes, is_cancelled

LEMMA ThrowsEnds ==
  ASSUME Types, Stacks, NEW lo, NEW hi, Shape(lo, hi), NEW th \in Threads, FunctionThrows(th)
  PROVE  \E s \in Terms : TaskGoes(s)
<1>. SUFFICES ASSUME NEW s, s = Top(th), NEW p, p = task[s].parent
              PROVE  s \in Terms /\ TaskGoes(s)
  OBVIOUS
<1>0. /\ running[th] # << >> /\ InFunction(s)
      /\ task' = [task EXCEPT ![s].status = "done"] /\ node' = Release(node, p)
      /\ threw' = threw \cup {s} /\ UNCHANGED <<auto, bodies>>
  BY DEF FunctionThrows
<1>1. s \in Terms /\ Active(s) /\ Started(s)
  BY <1>0, TopFacts
<1>2. p \in 0 .. NumTerms
  BY <1>1, TaskFacts
<1>3. /\ \A g \in 0 .. NumTerms : SameNode(g) /\ node'[g].zombie = node[g].zombie
                                  /\ (g # p => node'[g] = node[g])
      /\ node'[p].refs = node[p].refs - 1 /\ node'[p].body = node[p].body
  BY <1>0, <1>2 DEF Release, Types, Node, SameNode
<1>4. task'[s].status = "done" /\ \A t \in Terms \ {s} : task'[t] = task[t]
  BY <1>0, <1>1 DEF Types, Task
<1>5. TaskEnds(s)
  BY <1>1, <1>3, <1>4 DEF TaskEnds
<1>6. threw' # {} /\ task[s].status # "spawned"
  BY <1>0 DEF InFunction
<1>. QED
  BY <1>0, <1>1, <1>3, <1>5, <1>6 DEF TaskGoes

LEMMA SkipEnds ==
  ASSUME Types, NEW s \in Terms, Skip(s)
  PROVE  TaskGoes(s)
<1>. SUFFICES ASSUME NEW p, p = task[s].parent
              PROVE  TaskGoes(s)
  OBVIOUS
<1>0. /\ task[s].status = "spawned" /\ is_cancelled
      /\ task' = [task EXCEPT ![s].status = "done"] /\ node' = Release(node, p)
      /\ threw' = threw /\ UNCHANGED <<auto, bodies>>
  BY DEF Skip
<1>1. Active(s)
  BY <1>0 DEF Active
<1>2. p \in 0 .. NumTerms
  BY TaskFacts
<1>3. /\ \A g \in 0 .. NumTerms : SameNode(g) /\ node'[g].zombie = node[g].zombie
                                  /\ (g # p => node'[g] = node[g])
      /\ node'[p].refs = node[p].refs - 1 /\ node'[p].body = node[p].body
  BY <1>0, <1>2 DEF Release, Types, Node, SameNode
<1>4. task'[s].status = "done" /\ \A t \in Terms \ {s} : task'[t] = task[t]
  BY <1>0 DEF Types, Task
<1>5. TaskEnds(s)
  BY <1>1, <1>3, <1>4 DEF TaskEnds
<1>. QED
  BY <1>0, <1>3, <1>5 DEF TaskGoes, is_cancelled

\* A finish task runs, joining its own body to the first unless the group was cancelled.
NodeGoes(f) ==
  LET p == node[f].parent
  IN  /\ NodeEnds(f)
      /\ IF node[f].zombie /\ ~is_cancelled
         THEN /\ sum_' = Joined(sum_, node[f].body, f)
              /\ args_adjoints_' = Joined(args_adjoints_, node[f].body, f)
         ELSE UNCHANGED <<sum_, args_adjoints_>>
      /\ node'[p].body = IF node[f].context = "left" /\ ~is_cancelled
                         THEN node[f].body ELSE node[p].body
      /\ UNCHANGED <<auto, threw, adj, partials>>

LEMMA NodeReleased ==
  ASSUME NEW n \in Node, NEW r, r = [n EXCEPT !.refs = @ - 1]
  PROVE  /\ r \in Node /\ r.refs = n.refs - 1 /\ r.body = n.body /\ r.done = n.done
         /\ r.parent = n.parent /\ r.context = n.context /\ r.zombie = n.zombie
<1>1. r \in Node
  BY DEF Node
<1>2. r.refs = n.refs - 1 /\ r.body = n.body /\ r.done = n.done
  BY DEF Node
<1>3. r.parent = n.parent /\ r.context = n.context /\ r.zombie = n.zombie
  BY DEF Node
<1>. QED
  BY <1>1, <1>2, <1>3

LEMMA NodeDone ==
  ASSUME NEW n \in Node, NEW r, r = [n EXCEPT !.done = TRUE]
  PROVE  r \in Node /\ r.done /\ r.zombie = n.zombie
  BY DEF Node

LEMMA FinishEnds ==
  ASSUME Types, NEW lo, NEW hi, Shape(lo, hi), NEW f \in Terms, Finish(f)
  PROVE  NodeGoes(f)
<1>. SUFFICES ASSUME NEW p, p = node[f].parent,
                     NEW told, told = IF node[f].context = "left" /\ ~is_cancelled
                                      THEN [node EXCEPT ![p].body = node[f].body] ELSE node,
                     NEW released, released = Release(told, p)
              PROVE  NodeGoes(f)
  OBVIOUS
<1>0. /\ node[f].refs = 0 /\ ~node[f].done /\ task' = task
      /\ IF node[f].zombie /\ ~is_cancelled
         THEN /\ sum_' = Joined(sum_, node[f].body, f)
              /\ args_adjoints_' = Joined(args_adjoints_, node[f].body, f)
         ELSE UNCHANGED <<sum_, args_adjoints_>>
      /\ node' = [released EXCEPT ![f].done = TRUE]
      /\ UNCHANGED <<auto, threw, adj, partials>>
  BY DEF Finish
<1>1. Open(f)
  BY <1>0 DEF Open
<1>2. LeftDone(f) /\ RightDone(f)
  <2>1. NodeCounts(f, lo, hi)
    BY <1>1, NodeShape
  <2>. QED
    BY <2>1, <1>0 DEF NodeCounts, Count, LeftDone, RightDone
<1>3. p \in 0 .. NumTerms /\ p # f
  <2>1. p \in 0 .. NumTerms
    BY NodeFacts, TermsAre
  <2>2. p # f
    BY <1>1, NodeShape, TermsAre DEF Sides
  <2>. QED
    BY <2>1, <2>2
<1>4. f \in 0 .. NumTerms
  BY TermsAre
<1>5. /\ told \in [0 .. NumTerms -> Node]
      /\ \A g \in 0 .. NumTerms : SameButBody(told[g], node[g]) /\ (g # p => told[g] = node[g])
      /\ told[p].body = IF node[f].context = "left" /\ ~is_cancelled
                        THEN node[f].body ELSE node[p].body
  <2>1. CASE node[f].context = "left" /\ ~is_cancelled
    <3>1. told = [node EXCEPT ![p].body = node[f].body]
      BY <2>1
    <3>2. node[f].body \in 0 .. NumTerms /\ node \in [0 .. NumTerms -> Node]
      BY <1>4, NodeFacts DEF Types
    <3>5. /\ \A g \in 0 .. NumTerms : g # p => told[g] = node[g]
          /\ told[p] = [node[p] EXCEPT !.body = node[f].body]
          /\ node[p] \in Node
      BY <3>1, <3>2, <1>3
    <3>6. /\ told[p] \in Node
          /\ told[p].body = node[f].body /\ SameButBody(told[p], node[p])
      BY <3>2, <3>5, NodeTold
    <3>3. told \in [0 .. NumTerms -> Node]
      BY <3>1, <3>2, <3>5, <3>6, <1>3
    <3>4. /\ \A g \in 0 .. NumTerms : g # p => told[g] = node[g]
          /\ told[p].body = node[f].body /\ SameButBody(told[p], node[p])
      BY <3>5, <3>6
    <3>. QED
      BY <3>3, <3>4, <2>1 DEF SameButBody
  <2>2. CASE ~(node[f].context = "left" /\ ~is_cancelled)
    BY <2>2, <1>3, <1>4 DEF Types, SameButBody
  <2>. QED
    BY <2>1, <2>2
<1>6. /\ released \in [0 .. NumTerms -> Node]
      /\ \A g \in 0 .. NumTerms : g # p => released[g] = told[g]
      /\ released[p].refs = told[p].refs - 1 /\ released[p].body = told[p].body
      /\ released[p].done = told[p].done /\ released[p].parent = told[p].parent
      /\ released[p].context = told[p].context /\ released[p].zombie = told[p].zombie
  <2>1. released = [told EXCEPT ![p].refs = @ - 1]
    BY DEF Release
  <2>2. /\ \A g \in 0 .. NumTerms : g # p => released[g] = told[g]
        /\ released[p] = [told[p] EXCEPT !.refs = @ - 1] /\ told[p] \in Node
    BY <2>1, <1>3, <1>5
  <2>3. /\ released[p] \in Node
        /\ released[p].refs = told[p].refs - 1 /\ released[p].body = told[p].body
        /\ released[p].done = told[p].done /\ released[p].parent = told[p].parent
        /\ released[p].context = told[p].context /\ released[p].zombie = told[p].zombie
    <3>. DEFINE n == told[p]
                r == released[p]
    <3>1. n \in Node /\ r = [n EXCEPT !.refs = @ - 1]
      BY <2>2
    <3>. HIDE DEF n, r
    <3>2. /\ r \in Node /\ r.refs = n.refs - 1 /\ r.body = n.body /\ r.done = n.done
          /\ r.parent = n.parent /\ r.context = n.context /\ r.zombie = n.zombie
      BY <3>1, NodeReleased
    <3>. QED
      BY <3>2 DEF n, r
  <2>4. released \in [0 .. NumTerms -> Node]
    BY <2>1, <2>2, <2>3, <1>3, <1>5
  <2>. QED
    BY <2>2, <2>3, <2>4
<1>7. /\ \A g \in 0 .. NumTerms : g # f => node'[g] = released[g]
      /\ node'[f].done /\ node'[f].zombie = released[f].zombie
  <2>1. /\ \A g \in 0 .. NumTerms : g # f => node'[g] = released[g]
        /\ node'[f] = [released[f] EXCEPT !.done = TRUE] /\ released[f] \in Node
    BY <1>0, <1>4, <1>6
  <2>. QED
    BY <2>1, NodeDone
<1>8. /\ \A g \in 0 .. NumTerms : /\ g # f => SameNode(g)
                                  /\ node'[g].zombie = node[g].zombie
                                  /\ g # f /\ g # p => node'[g] = node[g]
      /\ node'[p].refs = node[p].refs - 1 /\ node'[p].body = told[p].body
  <2>1. ASSUME NEW g \in 0 .. NumTerms
        PROVE  /\ g # f => SameNode(g)
               /\ node'[g].zombie = node[g].zombie
               /\ g # f /\ g # p => node'[g] = node[g]
    <3>1. SameButBody(told[g], node[g]) /\ (g # p => told[g] = node[g])
      BY <1>5
    <3>2. /\ released[g].done = told[g].done /\ released[g].parent = told[g].parent
          /\ released[g].context = told[g].context /\ released[g].zombie = told[g].zombie
          /\ g # p => released[g] = told[g]
      BY <1>6
    <3>3. (g # f => node'[g] = released[g]) /\ node'[g].zombie = released[g].zombie
      BY <1>7
    <3>. QED
      BY <3>1, <3>2, <3>3 DEF SameNode, SameButBody
  <2>2. node'[p] = released[p] /\ told[p].refs = node[p].refs
    BY <1>3, <1>5, <1>7 DEF SameButBody
  <2>. QED
    BY <2>1, <2>2, <1>6
<1>9. NodeEnds(f)
  BY <1>0, <1>1, <1>2, <1>7, <1>8 DEF NodeEnds
<1>. QED
  BY <1>0, <1>5, <1>8, <1>9 DEF NodeGoes

\* The bodies of a task that is offered: with the automatic partitioner both children go
\* on with one body, otherwise the right child has its own.
OffersBody(s, right) ==
  /\ Offers(s, right)
  /\ node'[right].body = (IF auto THEN 0 ELSE task[s].body)
  /\ node'[right].zombie = ~auto
  /\ task'[right].body = (IF auto THEN task[s].body ELSE right)
  /\ UNCHANGED <<auto, bodies, threw>>

LEMMA OfferOffers ==
  ASSUME Types, Stacks, NEW lo, NEW hi, Shape(lo, hi), NEW th \in Threads, Offer(th)
  PROVE  \E s, right \in Terms : OffersBody(s, right)
<1>. SUFFICES ASSUME NEW s, s = Top(th), NEW c, c = task[s].cuts,
                     NEW right, right = c[Len(c) - 1]
              PROVE  s \in Terms /\ right \in Terms /\ OffersBody(s, right)
  OBVIOUS
<1>0. /\ running[th] # << >> /\ task[s].status = "balance" /\ Len(c) > 2
      /\ node' = [node EXCEPT ![right] =
             [refs |-> 2, parent |-> task[s].parent, context |-> task[s].context,
              body |-> IF auto THEN 0 ELSE task[s].body, zombie |-> ~auto, done |-> FALSE]]
      /\ task' = [task EXCEPT
             ![s] = [@ EXCEPT !.cuts = Front(c), !.parent = right, !.context = "left"],
             ![right] = [status |-> "spawned", cuts |-> <<right, Last(c)>>,
                         body |-> IF auto THEN task[s].body ELSE right,
                         parent |-> right, context |-> "right"]]
      /\ UNCHANGED <<auto, bodies, threw>>
  BY DEF Offer
<1>1. s \in Terms /\ Active(s) /\ Started(s)
  BY <1>0, TopFacts
<1>2. CutsFit(s) /\ c \in Seq(1 .. End)
  BY <1>1, TaskShape, TaskFacts
<1>3. Ascending(c) /\ s <= c[1]
  BY <1>2 DEF CutsFit
<1>4. /\ Front(c) \in Seq(1 .. End) /\ Len(Front(c)) > 1 /\ Ascending(Front(c))
      /\ Front(c)[1] = c[1] /\ Last(Front(c)) = right
      /\ c[1] < right /\ right < Last(c)
      /\ c[1] \in 1 .. End /\ right \in 1 .. End /\ Last(c) \in 1 .. End
  BY <1>0, <1>2, <1>3, FrontCuts
<1>5. right \in Terms /\ s < right /\ s # right
  BY <1>1, <1>3, <1>4, TermsAre
<1>6. /\ <<right, Last(c)>> # << >> /\ Len(<<right, Last(c)>>) = 2
      /\ Ascending(<<right, Last(c)>>) /\ <<right, Last(c)>>[1] = right
      /\ Last(<<right, Last(c)>>) = Last(c)
  BY <1>4, PairCuts
<1>7. /\ \A t \in Terms : t # s /\ t # right => task'[t] = task[t]
      /\ task'[s].status = task[s].status /\ task'[s].body = task[s].body
      /\ task'[s].cuts = Front(c) /\ task'[s].parent = right /\ task'[s].context = "left"
      /\ task'[right] = [status |-> "spawned", cuts |-> <<right, Last(c)>>,
                         body |-> IF auto THEN task[s].body ELSE right,
                         parent |-> right, context |-> "right"]
  <2>1. task \in [Terms -> Task] /\ task[s] \in Task
    BY <1>1 DEF Types
  <2>2. PICK l : l = [task[s] EXCEPT !.cuts = Front(c), !.parent = right, !.context = "left"]
    OBVIOUS
  <2>3. /\ l.status = task[s].status /\ l.body = task[s].body
        /\ l.cuts = Front(c) /\ l.parent = right /\ l.context = "left"
    BY <2>1, <2>2 DEF Task
  <2>4. /\ task'[s] = l
        /\ task'[right] = [status |-> "spawned", cuts |-> <<right, Last(c)>>,
                            body |-> IF auto THEN task[s].body ELSE right,
                            parent |-> right, context |-> "right"]
        /\ \A t \in Terms : t # s /\ t # right => task'[t] = task[t]
    BY <1>0, <1>1, <1>5, <2>1, <2>2
  <2>. QED
    BY <2>3, <2>4
<1>8. /\ \A g \in 0 .. NumTerms : g # right => node'[g] = node[g]
      /\ node'[right] =
             [refs |-> 2, parent |-> task[s].parent, context |-> task[s].context,
              body |-> IF auto THEN 0 ELSE task[s].body, zombie |-> ~auto, done |-> FALSE]
  BY <1>0, <1>5, TermsAre DEF Types
<1>9. CutsFit(s)' /\ Upto(s)' = right
  <2>1. Front(c) # << >>
    BY <1>4
  <2>. QED
    BY <2>1, <1>3, <1>4, <1>7 DEF CutsFit, Upto, InFunction
<1>10. CutsFit(right)' /\ Upto(right)' = Upto(s)
  <2>1. PICK d : /\ d = <<right, Last(c)>> /\ d # << >> /\ Ascending(d) /\ d[1] = right
                 /\ Last(d) = Last(c)
    BY <1>6
  <2>2. task'[right].cuts = d /\ task'[right].status = "spawned"
    BY <1>7, <2>1
  <2>3. Upto(right)' = Upto(s)
    BY <2>1, <2>2 DEF Upto
  <2>4. right <= right
    BY <1>4
  <2>5. CutsFit(right)'
    BY <2>1, <2>2, <2>4 DEF CutsFit, InFunction
  <2>. QED
    BY <2>3, <2>5
<1>11. Offers(s, right)
  <2>1. right < Upto(s)
    BY <1>4 DEF Upto
  <2>2. /\ task'[right].status = "spawned" /\ task'[right].cuts[1] = right
        /\ task'[right].parent = right /\ task'[right].context = "right"
    BY <1>6, <1>7
  <2>3. /\ node'[right].refs = 2 /\ node'[right].parent = task[s].parent
        /\ node'[right].context = task[s].context /\ ~node'[right].done
    BY <1>8
  <2>. QED
    BY <2>1, <2>2, <2>3, <1>1, <1>4, <1>5, <1>7, <1>8, <1>9, <1>10 DEF Offers
<1>12. /\ task'[right].body = (IF auto THEN task[s].body ELSE right)
       /\ node'[right].body = (IF auto THEN 0 ELSE task[s].body)
       /\ node'[right].zombie = ~auto
  BY <1>7, <1>8
<1>. QED
  BY <1>0, <1>1, <1>5, <1>11, <1>12 DEF OffersBody

LEMMA ReturnKeeps ==
  ASSUME NEW lo, NEW hi, Shape(lo, hi), UNCHANGED <<task, node>>
  PROVE  Kept
<1>1. \A s \in Terms : Active(s) => CutsFit(s)
  BY DEF Shape
<1>. QED
  BY <1>1 DEF Kept, SameNode, Active, Started, CutsFit, Upto, InFunction

----------------------------------------------------------------------------
(* The types and the threads *)

LEMMA ReleaseTypes ==
  ASSUME NEW n \in [0 .. NumTerms -> Node], NEW p \in 0 .. NumTerms
  PROVE  Release(n, p) \in [0 .. NumTerms -> Node]
<1>1. Release(n, p) = [n EXCEPT ![p].refs = @ - 1]
  BY DEF Release
<1>2. Release(n, p) = [n EXCEPT ![p] = [n[p] EXCEPT !.refs = @ - 1]]
  BY <1>1
<1>3. [n[p] EXCEPT !.refs = @ - 1] \in Node
  BY NodeReleased
<1>. QED
  BY <1>2, <1>3

LEMMA ToldTypes ==
  ASSUME NEW n \in [0 .. NumTerms -> Node], NEW p \in 0 .. NumTerms, NEW b \in 0 .. NumTerms
  PROVE  [n EXCEPT ![p].body = b] \in [0 .. NumTerms -> Node]
<1>1. [n EXCEPT ![p].body = b] = [n EXCEPT ![p] = [n[p] EXCEPT !.body = b]]
  OBVIOUS
<1>2. [n[p] EXCEPT !.body = b] \in Node
  BY NodeTold
<1>. QED
  BY <1>1, <1>2

\* What one body accumulates.
LEMMA BodyTypes ==
  ASSUME NEW f \in [Terms -> Seq(Terms)], NEW b \in Terms, NEW s \in Seq(Terms)
  PROVE  /\ [f EXCEPT ![b] = @ \o s] \in [Terms -> Seq(Terms)]
         /\ [f EXCEPT ![b] = s] \in [Terms -> Seq(Terms)]
         /\ [f EXCEPT ![b] = @ \o s][b] = f[b] \o s
         /\ \A c \in Terms : c # b => [f EXCEPT ![b] = @ \o s][c] = f[c]
<1>1. f[b] \o s \in Seq(Terms)
  BY Concatenated
<1>. QED
  BY <1>1

LEMMA TypesSplit ==
  ASSUME Types, Stacks, NEW lo, NEW hi, Shape(lo, hi), NEW th \in Threads, Split(th)
  PROVE  Types'
<1>1. PICK s \in Terms : task'[s].cuts \in Seq(1 .. End)
                         /\ s = Top(th)
  <2>1. \E s \in Terms : s = Top(th)
    BY TopFacts DEF Split
  <2>2. PICK s \in Terms : /\ task'[s].cuts \in Seq(1 .. End)
                           /\ \A t \in Terms : t # s => task'[t] = task[t]
    BY SplitKeeps
  <2>3. PICK t \in Terms : t = Top(th)
    BY <2>1
  <2>4. task'[t].cuts \in Seq(1 .. End)
    BY <2>2, TaskFacts
  <2>. QED
    BY <2>3, <2>4
<1>2. PICK c \in Seq(1 .. End) : task' = [task EXCEPT ![s] = [task[s] EXCEPT !.cuts = c]]
  <2>1. task' = [task EXCEPT ![s].cuts = <<task[s].cuts[1], task[s].cuts[1]
                   + (task[s].cuts[2] - task[s].cuts[1]) \div 2>> \o Tail(task[s].cuts)]
    BY <1>1 DEF Split
  <2>2. PICK c : /\ c = <<task[s].cuts[1], task[s].cuts[1]
                          + (task[s].cuts[2] - task[s].cuts[1]) \div 2>> \o Tail(task[s].cuts)
                 /\ task' = [task EXCEPT ![s] = [task[s] EXCEPT !.cuts = c]]
    BY <2>1
  <2>3. task'[s].cuts = c
    <3>1. task \in [Terms -> Task] /\ task[s] \in Task
      BY DEF Types
    <3>2. task'[s] = [task[s] EXCEPT !.cuts = c]
      BY <2>2, <3>1
    <3>. QED
      BY <3>1, <3>2 DEF Task
  <2>. QED
    BY <1>1, <2>2, <2>3
<1>3. task' \in [Terms -> Task]
  <2>1. task \in [Terms -> Task] /\ task[s] \in Task
    BY DEF Types
  <2>2. [task[s] EXCEPT !.cuts = c] \in Task
    BY <2>1, TaskCuts
  <2>. QED
    BY <1>2, <2>1, <2>2
<1>. QED
  BY <1>3 DEF Split, Types, bodies

LEMMA TypesEnter ==
  ASSUME Types, Stacks, NEW th \in Threads, EnterFunction(th)
  PROVE  Types'
<1>1. PICK s \in Terms : s = Top(th)
  BY TopFacts DEF EnterFunction
<1>2. task' \in [Terms -> Task]
  <2>1. task' = [task EXCEPT ![s].status = "function"] /\ "function" \in Statuses
    BY <1>1 DEF EnterFunction, Statuses
  <2>. QED
    BY <2>1, StatusTypes
<1>3. adj' \in [Terms -> Seq(Terms)]
  <2>1. << >> \in Seq(Terms)
    OBVIOUS
  <2>. QED
    BY <2>1 DEF EnterFunction, Types
<1>. QED
  BY <1>2, <1>3 DEF EnterFunction, Types, bodies

LEMMA TypesReturns ==
  ASSUME Types, Stacks, NEW lo, NEW hi, Shape(lo, hi), NEW first, Bodies(hi, first),
         NEW th \in Threads, FunctionReturns(th)
  PROVE  Types'
<1>1. PICK s \in Terms : Returns(s, task[s].cuts[1], task'[s].cuts[1])
  BY ReturnsKeeps
<1>2. PICK from, upto, b : from = task[s].cuts[1] /\ upto = task'[s].cuts[1] /\ b = task[s].body
  OBVIOUS
<1>3. Returns(s, from, upto) /\ Active(s) /\ from \in Terms /\ upto \in 1 .. End /\ from <= upto
  <2>1. Returns(s, from, upto)
    BY <1>1, <1>2
  <2>2. from \in 1 .. End /\ upto \in 1 .. End /\ from < upto /\ Active(s)
    BY <2>1 DEF Returns, Active, InFunction
  <2>3. from \in Terms /\ from <= upto
    BY <2>2, TermsAre
  <2>. QED
    BY <2>1, <2>2, <2>3
<1>4. b \in Terms
  BY <1>2, <1>3, TermsAre DEF Bodies, BodiesFit, TaskBody, Covers
<1>5. Interval(from, upto) \in Seq(Terms)
  BY <1>3, IntervalIn
<1>6. adj' \in [Terms -> Seq(Terms)] /\ sum_' \in [Terms -> Seq(Terms)]
  <2>1. /\ adj' = [adj EXCEPT ![b] = @ \o Interval(from, upto)]
        /\ sum_' = [sum_ EXCEPT ![b] = @ \o Interval(from, upto)]
    BY <1>2, <1>3 DEF Returns
  <2>. QED
    BY <2>1, <1>4, <1>5, BodyTypes DEF Types
<1>7. args_adjoints_' \in [Terms -> Seq(Terms)]
  <2>1. args_adjoints_' = [args_adjoints_ EXCEPT ![b] = @ \o adj'[b]]
    BY <1>2, <1>3 DEF Returns
  <2>2. adj'[b] \in Seq(Terms)
    BY <1>4, <1>6
  <2>. QED
    BY <2>1, <2>2, <1>4, BodyTypes DEF Types
<1>8. partials' \in [Terms -> Nat]
  <2>1. \A i \in Terms : partials[i] \in Nat
    BY DEF Types
  <2>2. partials' = [i \in Terms |-> partials[i]
                     + (IF i \in ToSet(Interval(from, upto)) THEN 1 ELSE 0)]
    BY <1>3 DEF Returns
  <2>. QED
    BY <2>1, <2>2
<1>9. task' \in [Terms -> Task]
  <2>1. task' = [task EXCEPT ![Top(th)].status = "balance", ![Top(th)].cuts = Tail(@)]
    BY DEF FunctionReturns
  <2>2. PICK t \in Terms : t = Top(th) /\ Active(t)
    BY TopFacts DEF FunctionReturns
  <2>3. Tail(task[t].cuts) \in Seq(1 .. End)
    BY <2>2, TaskShape, TaskFacts, SeqFacts DEF CutsFit
  <2>4. task \in [Terms -> Task] /\ task[t] \in Task /\ "balance" \in Statuses
    BY DEF Types, Statuses
  <2>5. PICK r : r = [task[t] EXCEPT !.status = "balance"]
    OBVIOUS
  <2>6. r \in Task /\ r.cuts = task[t].cuts
    BY <2>4, <2>5, TaskStatus
  <2>7. task' = [[task EXCEPT ![t] = r] EXCEPT ![t] = [r EXCEPT !.cuts = Tail(task[t].cuts)]]
    BY <2>1, <2>2, <2>4, <2>5, <2>6
  <2>8. [r EXCEPT !.cuts = Tail(task[t].cuts)] \in Task
    BY <2>3, <2>6, TaskCuts
  <2>. QED
    BY <2>4, <2>6, <2>7, <2>8
<1>. QED
  BY <1>6, <1>7, <1>8, <1>9 DEF FunctionReturns, Types

LEMMA TypesThrows ==
  ASSUME Types, Stacks, NEW th \in Threads, FunctionThrows(th)
  PROVE  Types'
<1>1. PICK s \in Terms : s = Top(th)
  BY TopFacts DEF FunctionThrows
<1>2. task' \in [Terms -> Task]
  <2>1. task' = [task EXCEPT ![s].status = "done"] /\ "done" \in Statuses
    BY <1>1 DEF FunctionThrows, Statuses
  <2>. QED
    BY <2>1, StatusTypes
<1>3. task[s].parent \in 0 .. NumTerms
  BY TaskFacts
<1>4. node' \in [0 .. NumTerms -> Node]
  BY <1>1, <1>3, ReleaseTypes DEF FunctionThrows, Types
<1>. QED
  BY <1>1, <1>2, <1>4 DEF FunctionThrows, Types, bodies

LEMMA TypesSkip ==
  ASSUME Types, NEW s \in Terms, Skip(s)
  PROVE  Types'
<1>2. task' \in [Terms -> Task]
  <2>1. task' = [task EXCEPT ![s].status = "done"] /\ "done" \in Statuses
    BY DEF Skip, Statuses
  <2>. QED
    BY <2>1, StatusTypes
<1>3. task[s].parent \in 0 .. NumTerms
  BY TaskFacts
<1>4. node' \in [0 .. NumTerms -> Node]
  BY <1>3, ReleaseTypes DEF Skip, Types
<1>. QED
  BY <1>2, <1>4 DEF Skip, Types, bodies

LEMMA TypesComplete ==
  ASSUME Types, Stacks, NEW th \in Threads, Complete(th)
  PROVE  Types'
<1>1. PICK s \in Terms : s = Top(th)
  BY TopFacts DEF Complete
<1>2. task' \in [Terms -> Task]
  <2>1. task' = [task EXCEPT ![s].status = "done"] /\ "done" \in Statuses
    BY <1>1 DEF Complete, Statuses
  <2>. QED
    BY <2>1, StatusTypes
<1>3. task[s].parent \in 0 .. NumTerms /\ task[s].body \in 0 .. NumTerms
  BY TaskFacts
<1>4. PICK p, n : /\ p = task[s].parent
                  /\ n = IF task[s].context = "left"
                         THEN [node EXCEPT ![p].body = task[s].body] ELSE node
  OBVIOUS
<1>5. n \in [0 .. NumTerms -> Node]
  BY <1>3, <1>4, ToldTypes DEF Types
<1>6. node' = Release(n, p)
  BY <1>1, <1>4 DEF Complete
<1>7. node' \in [0 .. NumTerms -> Node]
  BY <1>3, <1>4, <1>5, <1>6, ReleaseTypes
<1>. QED
  BY <1>2, <1>7 DEF Complete, Types, bodies

LEMMA TypesTake ==
  ASSUME Types, NEW th \in Threads, NEW s \in Terms, Take(th, s)
  PROVE  Types'
<1>1. task' \in [Terms -> Task]
  <2>1. PICK b \in 0 .. NumTerms :
          b = IF task[s].context = "right" /\ node[s].body = 0 THEN s ELSE task[s].body
    BY TaskFacts, TermsAre
  <2>2. task' = [task EXCEPT ![s] = [task[s] EXCEPT !.status = "balance", !.body = b]]
    BY <2>1 DEF Take, Types, Task
  <2>3. task \in [Terms -> Task] /\ task[s] \in Task /\ "balance" \in Statuses
    BY DEF Types, Statuses
  <2>4. [task[s] EXCEPT !.status = "balance", !.body = b] \in Task
    <3>1. PICK r : r = [task[s] EXCEPT !.status = "balance"]
      OBVIOUS
    <3>2. r \in Task
      BY <2>3, <3>1, TaskStatus
    <3>3. [r EXCEPT !.body = b] \in Task
      BY <2>1, <3>2 DEF Task
    <3>4. [task[s] EXCEPT !.status = "balance", !.body = b] = [r EXCEPT !.body = b]
      BY <3>1
    <3>. QED
      BY <3>3, <3>4
  <2>. QED
    BY <2>2, <2>3, <2>4
<1>2. node' \in [0 .. NumTerms -> Node]
  <2>1. [node EXCEPT ![s].zombie = TRUE] \in [0 .. NumTerms -> Node]
    <3>1. [node EXCEPT ![s].zombie = TRUE] = [node EXCEPT ![s] = [node[s] EXCEPT !.zombie = TRUE]]
      OBVIOUS
    <3>2. node[s] \in Node /\ s \in 0 .. NumTerms
      BY TermsAre DEF Types
    <3>3. [node[s] EXCEPT !.zombie = TRUE] \in Node
      BY <3>2 DEF Node
    <3>. QED
      BY <3>1, <3>2, <3>3 DEF Types
  <2>. QED
    BY <2>1 DEF Take, Types
<1>. QED
  BY <1>1, <1>2 DEF Take, Types, bodies

LEMMA TypesOffer ==
  ASSUME Types, Stacks, NEW lo, NEW hi, Shape(lo, hi), NEW th \in Threads, Offer(th)
  PROVE  Types'
<1>. SUFFICES ASSUME NEW s, s = Top(th), NEW c, c = task[s].cuts,
                     NEW right, right = c[Len(c) - 1]
              PROVE  Types'
  OBVIOUS
<1>0. /\ running[th] # << >> /\ Len(c) > 2
      /\ node' = [node EXCEPT ![right] =
             [refs |-> 2, parent |-> task[s].parent, context |-> task[s].context,
              body |-> IF auto THEN 0 ELSE task[s].body, zombie |-> ~auto, done |-> FALSE]]
      /\ task' = [task EXCEPT
             ![s] = [@ EXCEPT !.cuts = Front(c), !.parent = right, !.context = "left"],
             ![right] = [status |-> "spawned", cuts |-> <<right, Last(c)>>,
                         body |-> IF auto THEN task[s].body ELSE right,
                         parent |-> right, context |-> "right"]]
  BY DEF Offer
<1>1. s \in Terms /\ Active(s)
  BY <1>0, TopFacts
<1>2. CutsFit(s) /\ c \in Seq(1 .. End)
  BY <1>1, TaskShape, TaskFacts
<1>3. /\ Front(c) \in Seq(1 .. End) /\ c[1] < right /\ right < Last(c)
      /\ c[1] \in 1 .. End /\ right \in 1 .. End /\ Last(c) \in 1 .. End
  BY <1>0, <1>2, FrontCuts DEF CutsFit
<1>4. right \in Terms
  BY <1>3, TermsAre
<1>5. <<right, Last(c)>> \in Seq(1 .. End)
  BY <1>3
<1>6. /\ task[s].parent \in 0 .. NumTerms /\ task[s].context \in Sides
      /\ task[s].body \in 0 .. NumTerms
  BY <1>1, TaskFacts
<1>7. node' \in [0 .. NumTerms -> Node]
  <2>1. [refs |-> 2, parent |-> task[s].parent, context |-> task[s].context,
         body |-> IF auto THEN 0 ELSE task[s].body, zombie |-> ~auto, done |-> FALSE] \in Node
    BY <1>6, TermsAre DEF Node, Types
  <2>. QED
    BY <2>1, <1>0 DEF Types
<1>8. task' \in [Terms -> Task]
  <2>1. [status |-> "spawned", cuts |-> <<right, Last(c)>>,
         body |-> IF auto THEN task[s].body ELSE right,
         parent |-> right, context |-> "right"] \in Task
    BY <1>4, <1>5, <1>6, TermsAre DEF Task, Statuses, Sides
  <2>2. [task[s] EXCEPT !.cuts = Front(c), !.parent = right, !.context = "left"] \in Task
    <3>1. task[s] \in Task
      BY <1>1 DEF Types
    <3>. QED
      BY <3>1, <1>3, <1>4, TermsAre DEF Task, Sides
  <2>. QED
    BY <2>1, <2>2, <1>0 DEF Types
<1>. QED
  BY <1>7, <1>8 DEF Offer, Types, bodies

LEMMA TypesFinish ==
  ASSUME Types, NEW lo, NEW hi, Shape(lo, hi), NEW first, Bodies(hi, first),
         NEW f \in Terms, Finish(f)
  PROVE  Types'
<1>0. NodeGoes(f) /\ Open(f) /\ f \in 0 .. NumTerms
  BY FinishEnds, TermsAre DEF Finish, Open
<1>1. node[f].body \in 0 .. NumTerms /\ node[f].parent \in 0 .. NumTerms
  BY <1>0, NodeFacts
<1>2. node' \in [0 .. NumTerms -> Node]
  <2>1. PICK p, told, n : /\ p = node[f].parent
                          /\ told = IF node[f].context = "left" /\ ~is_cancelled
                                    THEN [node EXCEPT ![p].body = node[f].body] ELSE node
                          /\ n = Release(told, p)
    OBVIOUS
  <2>2. told \in [0 .. NumTerms -> Node]
    BY <2>1, <1>1, ToldTypes DEF Types
  <2>3. n \in [0 .. NumTerms -> Node]
    BY <2>1, <2>2, <1>1, ReleaseTypes
  <2>4. node' = [n EXCEPT ![f].done = TRUE]
    BY <2>1 DEF Finish
  <2>5. node' = [n EXCEPT ![f] = [n[f] EXCEPT !.done = TRUE]]
    BY <2>4
  <2>6. [n[f] EXCEPT !.done = TRUE] \in Node
    BY <2>3, <1>0, NodeDone
  <2>. QED
    BY <2>3, <2>5, <2>6
<1>3. sum_' \in [Terms -> Seq(Terms)] /\ args_adjoints_' \in [Terms -> Seq(Terms)]
  <2>1. CASE node[f].zombie /\ ~is_cancelled
    <3>1. node[f].body \in Terms
      <4>1. NodeBody(f, hi, first) /\ first[f] \in Terms
        BY <1>0 DEF Bodies, BodiesFit
      <4>2. LeftDone(f)
        BY <1>0 DEF NodeGoes, NodeEnds
      <4>. QED
        BY <4>1, <4>2, <2>1 DEF NodeBody
    <3>2. /\ sum_' = [sum_ EXCEPT ![node[f].body] = @ \o sum_[f]]
          /\ args_adjoints_' = [args_adjoints_ EXCEPT ![node[f].body] = @ \o args_adjoints_[f]]
      BY <2>1, <1>0 DEF NodeGoes, Joined
    <3>. QED
      BY <3>1, <3>2, BodyTypes DEF Types
  <2>2. CASE ~(node[f].zombie /\ ~is_cancelled)
    BY <2>2, <1>0 DEF NodeGoes, Types
  <2>. QED
    BY <2>1, <2>2
<1>. QED
  BY <1>2, <1>3 DEF Finish, Types

LEMMA TypesNext ==
  ASSUME Types, Stacks, NEW lo, NEW hi, Shape(lo, hi), NEW first, Bodies(hi, first), Next
  PROVE  Types'
<1>1. ASSUME NEW th \in Threads, Execute(th)
      PROVE  Types'
  BY <1>1, TypesSplit, TypesOffer, TypesEnter, TypesReturns, TypesThrows, TypesComplete
     DEF Execute
<1>2. ASSUME Schedule
      PROVE  Types'
  BY <1>2, TypesTake, TypesSkip, TypesFinish DEF Schedule
<1>3. ASSUME Return
      PROVE  Types'
  BY <1>3 DEF Return, Types, bodies
<1>. QED
  BY <1>1, <1>2, <1>3 DEF Next

\* A step that pushes and pops no task.
LEMMA StacksKept ==
  ASSUME Stacks, running' = running, scopes' \in [Threads -> Seq(Terms)],
         \A s \in Terms : Started(s)' <=> Started(s)
  PROVE  Stacks'
<1>1. \A th \in Threads, i \in Nat : i \in 1 .. Len(running[th]) => running[th][i] \in Terms
  BY SeqFacts DEF Stacks, StackedAreStarted, StackedOnce, StartedAreStacked
<1>. QED
  BY <1>1 DEF Stacks, StackedAreStarted, StackedOnce, StartedAreStacked

LEMMA StacksPush ==
  ASSUME Stacks, NEW th \in Threads, NEW s \in Terms,
         running' = [running EXCEPT ![th] = Append(@, s)], scopes' = scopes,
         ~Started(s), \A t \in Terms : Started(t)' <=> Started(t) \/ t = s
  PROVE  Stacks'
<1>. DEFINE n == Len(running[th])
<1>1. \A o \in Threads : running[o] \in Seq(Terms)
  BY DEF Stacks, StackedAreStarted, StackedOnce, StartedAreStacked
<1>2. \A o \in Threads, i \in Nat : i \in 1 .. Len(running[o]) =>
        running[o][i] \in Terms /\ running[o][i] # s
  BY <1>1, SeqFacts DEF Stacks, StackedAreStarted, StackedOnce, StartedAreStacked
<1>3. /\ running' \in [Threads -> Seq(Terms)] /\ n \in Nat
      /\ \A o \in Threads : o # th => running'[o] = running[o]
      /\ running'[th] = Append(running[th], s)
      /\ Len(running'[th]) = n + 1 /\ running'[th][n + 1] = s
      /\ \A i \in 1 .. n : running'[th][i] = running[th][i]
  <2>1. /\ Append(running[th], s) \in Seq(Terms) /\ n \in Nat
        /\ Len(Append(running[th], s)) = n + 1 /\ Append(running[th], s)[n + 1] = s
        /\ \A i \in 1 .. n : Append(running[th], s)[i] = running[th][i]
    BY <1>1, AppendFacts
  <2>2. running \in [Threads -> Seq(Terms)]
    BY DEF Stacks, StackedAreStarted, StackedOnce, StartedAreStacked
  <2>. QED
    BY <2>1, <2>2
<1>. HIDE DEF n
<1>4. \A o \in Threads, i \in Nat : i \in 1 .. Len(running'[o]) =>
        \/ o = th /\ i = n + 1 /\ running'[o][i] = s
        \/ i \in 1 .. Len(running[o]) /\ running'[o][i] = running[o][i]
  BY <1>3 DEF n
<1>5. \A o \in Threads, i \in Nat : i \in 1 .. Len(running[o]) =>
        i \in 1 .. Len(running'[o]) /\ running'[o][i] = running[o][i]
  BY <1>3 DEF n
<1>6. ASSUME NEW o \in Threads, NEW i \in Nat, i \in 1 .. Len(running'[o])
      PROVE  Started(running[o][i])'
  <2>1. CASE running'[o][i] = s
    <3>1. Started(s)'
      OBVIOUS
    <3>. QED
      BY <3>1, <2>1 DEF Started
  <2>2. CASE i \in 1 .. Len(running[o]) /\ running'[o][i] = running[o][i]
    <3>1. PICK t \in Terms : t = running[o][i] /\ Started(t)
      BY <2>2, <1>2 DEF Stacks, StackedAreStarted, StackedOnce, StartedAreStacked
    <3>2. Started(t)' /\ t = running'[o][i]
      BY <3>1, <2>2
    <3>. QED
      BY <3>2 DEF Started
  <2>. QED
    BY <2>1, <2>2, <1>4, <1>6
<1>7. ASSUME NEW o \in Threads, NEW u \in Threads, NEW i \in Nat, NEW j \in Nat,
             i \in 1 .. Len(running'[o]), j \in 1 .. Len(running'[u]),
             running'[o][i] = running'[u][j]
      PROVE  o = u /\ i = j
  BY <1>2, <1>4, <1>7 DEF Stacks, StackedAreStarted, StackedOnce, StartedAreStacked
<1>8. ASSUME NEW t \in Terms, Started(t)'
      PROVE  \E o \in Threads, i \in Nat : i \in 1 .. Len(running'[o]) /\ running'[o][i] = t
  <2>1. CASE t = s
    <3>1. n + 1 \in Nat /\ n + 1 \in 1 .. Len(running'[th]) /\ running'[th][n + 1] = t
      BY <2>1, <1>3
    <3>. QED
      BY <3>1
  <2>2. CASE t # s
    <3>1. PICK o \in Threads, i \in Nat : i \in 1 .. Len(running[o]) /\ running[o][i] = t
      BY <2>2, <1>8 DEF Stacks, StackedAreStarted, StackedOnce, StartedAreStacked
    <3>. QED
      BY <3>1, <1>5
  <2>. QED
    BY <2>1, <2>2
<1>9. scopes' \in [Threads -> Seq(Terms)]
  BY DEF Stacks, StackedAreStarted, StackedOnce, StartedAreStacked
<1>10. StackedAreStarted'
  BY <1>6 DEF StackedAreStarted
<1>11. StackedOnce'
  BY <1>7 DEF StackedOnce
<1>12. StartedAreStacked'
  BY <1>8 DEF StartedAreStacked
<1>. QED
  BY <1>3, <1>9, <1>10, <1>11, <1>12 DEF Stacks

LEMMA StacksPop ==
  ASSUME Stacks, NEW th \in Threads, running[th] # << >>,
         running' = [running EXCEPT ![th] = Front(@)], scopes' \in [Threads -> Seq(Terms)],
         \A t \in Terms : Started(t)' <=> Started(t) /\ t # Top(th)
  PROVE  Stacks'
<1>. DEFINE n == Len(running[th])
<1>1. \A o \in Threads : running[o] \in Seq(Terms)
  BY DEF Stacks, StackedAreStarted, StackedOnce, StartedAreStacked
<1>2. \A o \in Threads, i \in Nat : i \in 1 .. Len(running[o]) => running[o][i] \in Terms
  BY <1>1, SeqFacts
<1>3. /\ running' \in [Threads -> Seq(Terms)] /\ n \in Nat /\ n \in 1 .. n
      /\ \A o \in Threads : o # th => running'[o] = running[o]
      /\ Len(running'[th]) = n - 1 /\ Top(th) = running[th][n]
      /\ \A i \in 1 .. n - 1 : running'[th][i] = running[th][i]
  <2>1. /\ Front(running[th]) \in Seq(Terms) /\ n \in Nat /\ n >= 1
        /\ Len(Front(running[th])) = n - 1 /\ Last(running[th]) = running[th][n]
        /\ \A i \in 1 .. n - 1 : Front(running[th])[i] = running[th][i]
    BY <1>1, SeqFacts
  <2>2. running \in [Threads -> Seq(Terms)]
    BY DEF Stacks, StackedAreStarted, StackedOnce, StartedAreStacked
  <2>. QED
    BY <2>1, <2>2 DEF Top
<1>. HIDE DEF n
<1>4. \A o \in Threads, i \in Nat : i \in 1 .. Len(running'[o]) =>
        /\ i \in 1 .. Len(running[o]) /\ running'[o][i] = running[o][i]
        /\ ~(o = th /\ i = n)
  <2>. SUFFICES ASSUME NEW o \in Threads, NEW i \in Nat, i \in 1 .. Len(running'[o])
                PROVE  /\ i \in 1 .. Len(running[o]) /\ running'[o][i] = running[o][i]
                       /\ ~(o = th /\ i = n)
    OBVIOUS
  <2>1. CASE o = th
    <3>1. i \in 1 .. n - 1 /\ i \in 1 .. n /\ i # n /\ n = Len(running[th])
      BY <2>1, <1>3 DEF n
    <3>. QED
      BY <2>1, <3>1, <1>3
  <2>2. CASE o # th
    BY <2>2, <1>3
  <2>. QED
    BY <2>1, <2>2
<1>5. \A o \in Threads, i \in Nat : i \in 1 .. Len(running[o]) /\ ~(o = th /\ i = n) =>
        i \in 1 .. Len(running'[o]) /\ running'[o][i] = running[o][i]
  BY <1>3 DEF n
<1>6. ASSUME NEW o \in Threads, NEW i \in Nat, i \in 1 .. Len(running'[o])
      PROVE  Started(running[o][i])'
  <2>1. i \in 1 .. Len(running[o]) /\ running'[o][i] = running[o][i] /\ ~(o = th /\ i = n)
    BY <1>4, <1>6
  <2>2. PICK t \in Terms : t = running[o][i] /\ Started(t)
    BY <2>1, <1>2 DEF Stacks, StackedAreStarted, StackedOnce, StartedAreStacked
  <2>3. t # Top(th)
    <3>1. n \in 1 .. Len(running[th])
      BY <1>3 DEF n
    <3>. QED
      BY <3>1, <2>1, <2>2, <1>3 DEF Stacks, StackedAreStarted, StackedOnce, StartedAreStacked
  <2>4. Started(t)' /\ t = running'[o][i]
    BY <2>1, <2>2, <2>3
  <2>. QED
    BY <2>4 DEF Started
<1>7. ASSUME NEW o \in Threads, NEW u \in Threads, NEW i \in Nat, NEW j \in Nat,
             i \in 1 .. Len(running'[o]), j \in 1 .. Len(running'[u]),
             running'[o][i] = running'[u][j]
      PROVE  o = u /\ i = j
  BY <1>4, <1>7 DEF Stacks, StackedAreStarted, StackedOnce, StartedAreStacked
<1>8. ASSUME NEW t \in Terms, Started(t)'
      PROVE  \E o \in Threads, i \in Nat : i \in 1 .. Len(running'[o]) /\ running'[o][i] = t
  <2>1. PICK o \in Threads, i \in Nat : i \in 1 .. Len(running[o]) /\ running[o][i] = t
    BY <1>8 DEF Stacks, StackedAreStarted, StackedOnce, StartedAreStacked
  <2>2. ~(o = th /\ i = n)
    BY <2>1, <1>3, <1>8
  <2>. QED
    BY <2>1, <2>2, <1>5
<1>9. scopes' \in [Threads -> Seq(Terms)]
  BY DEF Stacks, StackedAreStarted, StackedOnce, StartedAreStacked
<1>10. StackedAreStarted'
  BY <1>6 DEF StackedAreStarted
<1>11. StackedOnce'
  BY <1>7 DEF StackedOnce
<1>12. StartedAreStacked'
  BY <1>8 DEF StartedAreStacked
<1>. QED
  BY <1>3, <1>9, <1>10, <1>11, <1>12 DEF Stacks

\* A thread whose stack and scopes the step leaves alone.
LEMMA ScopeKept ==
  ASSUME Stacks, NEW o \in Threads, ScopeFits(o),
         running'[o] = running[o], scopes'[o] = scopes[o],
         \A i \in 1 .. Len(running[o]) : InFunction(running[o][i])' <=> InFunction(running[o][i])
  PROVE  ScopeFits(o)'
<1>. DEFINE r == running[o]
<1>1. r \in Seq(Terms)
  BY DEF Stacks, StackedAreStarted, StackedOnce, StartedAreStacked
<1>2. Len(r) \in Nat /\ (r # << >> => Last(r) = r[Len(r)] /\ Len(r) \in 1 .. Len(r))
  BY <1>1, SeqFacts
<1>3. running'[o] = r
  OBVIOUS
<1>4. \A i \in 1 .. Len(r) : task'[r[i]].status = "function" <=> task[r[i]].status = "function"
  BY DEF InFunction
<1>5. /\ \A i \in 1 .. Len(r) - 1 : task[r[i]].status = "function"
      /\ scopes[o] = IF r # << >> /\ task[Last(r)].status # "function" THEN Front(r) ELSE r
  BY DEF ScopeFits, InFunction, Top
<1>6. /\ \A i \in 1 .. Len(r) - 1 : task'[r[i]].status = "function"
      /\ scopes'[o] = IF r # << >> /\ task'[Last(r)].status # "function" THEN Front(r) ELSE r
  <2>. HIDE DEF r
  <2>. QED
    BY <1>2, <1>4, <1>5
<1>. QED
  BY <1>3, <1>6 DEF ScopeFits, InFunction, Top

\* A step of one thread that changes the status of its innermost task only.
LEMMA ScopesOfOthers ==
  ASSUME Stacks, NEW th \in Threads, running[th] # << >>, ScopesMatchFunctions,
         \A o \in Threads : o # th => running'[o] = running[o] /\ scopes'[o] = scopes[o],
         \A t \in Terms : t # Top(th) => (InFunction(t)' <=> InFunction(t))
  PROVE  \A o \in Threads : o # th => ScopeFits(o)'
<1>. SUFFICES ASSUME NEW o \in Threads, o # th
              PROVE  ScopeFits(o)'
  OBVIOUS
<1>1. ASSUME NEW i \in 1 .. Len(running[o])
      PROVE  running[o][i] \in Terms /\ running[o][i] # Top(th)
  <2>1. i \in Nat /\ running[o][i] \in Terms
    BY SeqFacts DEF Stacks
  <2>2. Len(running[th]) \in Nat /\ Len(running[th]) \in 1 .. Len(running[th])
        /\ Top(th) = running[th][Len(running[th])]
    BY TopFacts
  <2>. QED
    BY <2>1, <2>2 DEF Stacks, StackedOnce
<1>2. ASSUME NEW i \in 1 .. Len(running[o])
      PROVE  InFunction(running[o][i])' <=> InFunction(running[o][i])
  <2>1. PICK t \in Terms : t = running[o][i] /\ t # Top(th)
    BY <1>1
  <2>2. running'[o] = running[o] /\ (InFunction(t)' <=> InFunction(t))
    BY <2>1
  <2>. QED
    BY <2>1, <2>2 DEF InFunction
<1>3. ScopeFits(o) /\ running'[o] = running[o] /\ scopes'[o] = scopes[o]
  BY DEF ScopesMatchFunctions, ScopeFits
<1>. QED
  BY <1>2, <1>3, ScopeKept

\* What the stack and the scopes of a thread are while its innermost task is not, or is,
\* in a user function.
LEMMA OwnScope ==
  ASSUME Stacks, NEW th \in Threads, running[th] # << >>, ScopesMatchFunctions
  PROVE  /\ \A i \in 1 .. Len(running[th]) - 1 : InFunction(running[th][i])
         /\ InFunction(Top(th)) => scopes[th] = running[th]
         /\ ~InFunction(Top(th)) => scopes[th] = Front(running[th])
  BY DEF ScopesMatchFunctions

LEMMA BelowTop ==
  ASSUME Stacks, NEW th \in Threads, running[th] # << >>,
         NEW i \in 1 .. Len(running[th]) - 1
  PROVE  running[th][i] \in Terms /\ running[th][i] # Top(th)
<1>1. running[th] \in Seq(Terms)
  BY DEF Stacks
<1>2. /\ Len(running[th]) \in Nat /\ Len(running[th]) \in 1 .. Len(running[th])
      /\ Top(th) = running[th][Len(running[th])]
  BY TopFacts
<1>3. i \in Nat /\ i \in 1 .. Len(running[th]) /\ i # Len(running[th])
  BY <1>2
<1>. QED
  BY <1>1, <1>2, <1>3, SeqFacts DEF Stacks, StackedOnce

LEMMA ThreadsUnchanged ==
  ASSUME Stacks, ScopesMatchFunctions, running' = running, scopes' = scopes,
         \A t \in Terms : (Started(t)' <=> Started(t)) /\ (InFunction(t)' <=> InFunction(t))
  PROVE  Stacks' /\ ScopesMatchFunctions'
<1>1. Stacks'
  BY StacksKept DEF Stacks
<1>2. ASSUME NEW o \in Threads
      PROVE  ScopeFits(o)'
  <2>1. ASSUME NEW i \in 1 .. Len(running[o])
        PROVE  InFunction(running[o][i])' <=> InFunction(running[o][i])
    <3>1. PICK t \in Terms : t = running[o][i]
      BY SeqFacts DEF Stacks
    <3>2. InFunction(t)' <=> InFunction(t)
      OBVIOUS
    <3>. QED
      BY <3>1, <3>2 DEF InFunction
  <2>2. ScopeFits(o)
    BY DEF ScopesMatchFunctions, ScopeFits
  <2>. QED
    BY <2>1, <2>2, ScopeKept
<1>. QED
  BY <1>1, <1>2 DEF ScopesMatchFunctions, ScopeFits

LEMMA ThreadsEnter ==
  ASSUME Types, Stacks, ScopesMatchFunctions, NEW th \in Threads, EnterFunction(th)
  PROVE  Stacks' /\ ScopesMatchFunctions'
<1>. SUFFICES ASSUME NEW s, s = Top(th)
              PROVE  Stacks' /\ ScopesMatchFunctions'
  OBVIOUS
<1>0. /\ running[th] # << >> /\ task[s].status = "balance" /\ s \in Terms
      /\ task' = [task EXCEPT ![s].status = "function"] /\ running' = running
      /\ scopes' = [scopes EXCEPT ![th] = Append(@, s)]
  BY TopFacts DEF EnterFunction
<1>1. /\ \A t \in Terms : t # s => task'[t] = task[t]
      /\ task'[s].status = "function"
  BY <1>0 DEF Types, Task
<1>2. /\ scopes \in [Threads -> Seq(Terms)] /\ running[th] \in Seq(Terms)
      /\ scopes[th] = Front(running[th])
      /\ \A i \in 1 .. Len(running[th]) - 1 : InFunction(running[th][i])
  BY <1>0, OwnScope DEF Stacks, InFunction
<1>3. /\ scopes' \in [Threads -> Seq(Terms)] /\ scopes'[th] = Append(scopes[th], s)
      /\ \A o \in Threads : o # th => scopes'[o] = scopes[o]
  <2>1. Append(scopes[th], s) \in Seq(Terms)
    BY <1>0, <1>2, AppendFacts
  <2>. QED
    BY <2>1, <1>0, <1>2
<1>4. Stacks'
  <2>1. \A t \in Terms : Started(t)' <=> Started(t)
    BY <1>0, <1>1 DEF Started
  <2>. QED
    BY <2>1, <1>0, <1>3, StacksKept
<1>5. \A o \in Threads : o # th => ScopeFits(o)'
  <2>1. \A t \in Terms : t # Top(th) => (InFunction(t)' <=> InFunction(t))
    BY <1>1 DEF InFunction
  <2>. QED
    BY <2>1, <1>0, <1>3, ScopesOfOthers
<1>6. ScopeFits(th)'
  <2>1. \A i \in 1 .. Len(running[th]) - 1 : task'[running[th][i]].status = "function"
    <3>. SUFFICES ASSUME NEW i \in 1 .. Len(running[th]) - 1
                  PROVE  task'[running[th][i]].status = "function"
      OBVIOUS
    <3>1. running[th][i] \in Terms /\ running[th][i] # s
      BY <1>0, BelowTop
    <3>. QED
      BY <3>1, <1>1, <1>2 DEF InFunction
  <2>2. Append(Front(running[th]), s) = running[th]
    <3>. DEFINE r == running[th]
                f == Front(r)
    <3>1. /\ r \in Seq(Terms) /\ f \in Seq(Terms) /\ Len(f) = Len(r) - 1 /\ Len(r) \in Nat
          /\ \A i \in 1 .. Len(r) - 1 : f[i] = r[i]
      BY <1>0, <1>2, SeqFacts
    <3>2. r[Len(r)] = s
      BY <1>0, TopFacts
    <3>. HIDE DEF f, r
    <3>3. /\ Append(f, s) \in Seq(Terms) /\ Len(Append(f, s)) = Len(r)
          /\ Append(f, s)[Len(r)] = s
          /\ \A i \in 1 .. Len(f) : Append(f, s)[i] = f[i]
      BY <3>1, <1>0, AppendFacts
    <3>4. \A i \in 1 .. Len(r) : Append(f, s)[i] = r[i]
      BY <3>1, <3>2, <3>3
    <3>5. Append(f, s) = r
      BY <3>1, <3>3, <3>4, SeqEqual
    <3>. QED
      BY <3>5 DEF f, r
  <2>3. scopes'[th] = running[th]
    BY <2>2, <1>2, <1>3
  <2>4. task'[Last(running[th])].status = "function"
    BY <1>0, <1>1 DEF Top
  <2>. QED
    BY <2>1, <2>3, <2>4, <1>0 DEF ScopeFits, InFunction, Top
<1>. QED
  BY <1>4, <1>5, <1>6 DEF ScopesMatchFunctions, ScopeFits

LEMMA ThreadsReturns ==
  ASSUME Types, Stacks, ScopesMatchFunctions, NEW th \in Threads, FunctionReturns(th)
  PROVE  Stacks' /\ ScopesMatchFunctions'
<1>. SUFFICES ASSUME NEW s, s = Top(th)
              PROVE  Stacks' /\ ScopesMatchFunctions'
  OBVIOUS
<1>0. /\ running[th] # << >> /\ InFunction(s) /\ s \in Terms
      /\ task' = [task EXCEPT ![s].status = "balance", ![s].cuts = Tail(@)]
      /\ running' = running /\ scopes' = [scopes EXCEPT ![th] = Front(@)]
  BY TopFacts DEF FunctionReturns
<1>1. /\ \A t \in Terms : t # s => task'[t] = task[t]
      /\ task'[s].status = "balance"
  BY <1>0 DEF Types, Task
<1>2. /\ scopes \in [Threads -> Seq(Terms)] /\ running[th] \in Seq(Terms)
      /\ scopes[th] = running[th]
      /\ \A i \in 1 .. Len(running[th]) - 1 : InFunction(running[th][i])
  BY <1>0, OwnScope DEF Stacks
<1>3. /\ scopes' \in [Threads -> Seq(Terms)] /\ scopes'[th] = Front(running[th])
      /\ \A o \in Threads : o # th => scopes'[o] = scopes[o]
  <2>1. Front(running[th]) \in Seq(Terms)
    BY <1>0, <1>2, SeqFacts
  <2>. QED
    BY <2>1, <1>0, <1>2
<1>4. Stacks'
  <2>1. \A t \in Terms : Started(t)' <=> Started(t)
    BY <1>0, <1>1 DEF Started, InFunction
  <2>. QED
    BY <2>1, <1>0, <1>3, StacksKept
<1>5. \A o \in Threads : o # th => ScopeFits(o)'
  <2>1. \A t \in Terms : t # Top(th) => (InFunction(t)' <=> InFunction(t))
    BY <1>1 DEF InFunction
  <2>. QED
    BY <2>1, <1>0, <1>3, ScopesOfOthers
<1>6. ScopeFits(th)'
  <2>1. \A i \in 1 .. Len(running[th]) - 1 : task'[running[th][i]].status = "function"
    <3>. SUFFICES ASSUME NEW i \in 1 .. Len(running[th]) - 1
                  PROVE  task'[running[th][i]].status = "function"
      OBVIOUS
    <3>1. running[th][i] \in Terms /\ running[th][i] # s
      BY <1>0, BelowTop
    <3>. QED
      BY <3>1, <1>1, <1>2 DEF InFunction
  <2>2. task'[Last(running[th])].status = "balance"
    BY <1>0, <1>1 DEF Top
  <2>. QED
    BY <2>1, <2>2, <1>0, <1>3 DEF ScopeFits, InFunction, Top
<1>. QED
  BY <1>4, <1>5, <1>6 DEF ScopesMatchFunctions, ScopeFits

\* The innermost task of a thread ends.
LEMMA ThreadsPop ==
  ASSUME Types, Stacks, ScopesMatchFunctions, NEW th \in Threads, running[th] # << >>,
         task' = [task EXCEPT ![Top(th)].status = "done"],
         running' = [running EXCEPT ![th] = Front(@)],
         scopes' = IF InFunction(Top(th)) THEN [scopes EXCEPT ![th] = Front(@)] ELSE scopes
  PROVE  Stacks' /\ ScopesMatchFunctions'
<1>. SUFFICES ASSUME NEW s, s = Top(th), NEW r, r = running[th], NEW f, f = Front(r)
              PROVE  Stacks' /\ ScopesMatchFunctions'
  OBVIOUS
<1>0. s \in Terms /\ Started(s)
  BY TopFacts
<1>1. /\ \A t \in Terms : t # s => task'[t] = task[t]
      /\ task'[s].status = "done"
  BY <1>0 DEF Types, Task
<1>2. /\ scopes \in [Threads -> Seq(Terms)] /\ running \in [Threads -> Seq(Terms)]
      /\ r \in Seq(Terms) /\ r # << >>
      /\ InFunction(s) => scopes[th] = r
      /\ ~InFunction(s) => scopes[th] = f
      /\ \A i \in 1 .. Len(r) - 1 : InFunction(r[i])
  BY OwnScope DEF Stacks
<1>3. /\ f \in Seq(Terms) /\ Len(f) = Len(r) - 1 /\ Len(r) \in Nat
      /\ \A i \in 1 .. Len(r) - 1 : f[i] = r[i]
  BY <1>2, SeqFacts
<1>4. /\ scopes' \in [Threads -> Seq(Terms)] /\ scopes'[th] = f /\ running'[th] = f
      /\ \A o \in Threads : o # th => scopes'[o] = scopes[o] /\ running'[o] = running[o]
  BY <1>2, <1>3
<1>5. Stacks'
  <2>1. \A t \in Terms : Started(t)' <=> Started(t) /\ t # Top(th)
    BY <1>0, <1>1 DEF Started
  <2>. QED
    BY <2>1, <1>4, StacksPop
<1>6. \A o \in Threads : o # th => ScopeFits(o)'
  <2>1. \A t \in Terms : t # Top(th) => (InFunction(t)' <=> InFunction(t))
    BY <1>1 DEF InFunction
  <2>. QED
    BY <2>1, <1>4, ScopesOfOthers
<1>7. ScopeFits(th)'
  <2>1. \A i \in 1 .. Len(f) : task'[f[i]].status = "function"
    <3>. SUFFICES ASSUME NEW i \in 1 .. Len(r) - 1
                  PROVE  task'[r[i]].status = "function"
      BY <1>3
    <3>1. r[i] \in Terms /\ r[i] # s
      BY BelowTop
    <3>. QED
      BY <3>1, <1>1, <1>2 DEF InFunction
  <2>2. f # << >> => task'[Last(f)].status = "function"
    BY <2>1, <1>3, SeqFacts
  <2>3. \A i \in 1 .. Len(f) - 1 : task'[f[i]].status = "function"
    BY <2>1, <1>3
  <2>. QED
    BY <2>2, <2>3, <1>4 DEF ScopeFits, InFunction, Top
<1>. QED
  BY <1>5, <1>6, <1>7 DEF ScopesMatchFunctions, ScopeFits

LEMMA ThreadsTake ==
  ASSUME Types, Stacks, ScopesMatchFunctions, NEW lo, NEW hi, Shape(lo, hi),
         NEW th \in Threads, NEW s \in Terms, Take(th, s)
  PROVE  Stacks' /\ ScopesMatchFunctions'
<1>. SUFFICES ASSUME NEW r, r = running[th], NEW q, q = Append(r, s)
              PROVE  Stacks' /\ ScopesMatchFunctions'
  OBVIOUS
<1>0. /\ task[s].status = "spawned" /\ task'[s].status = "balance"
      /\ \A t \in Terms : t # s => task'[t] = task[t]
  BY TakeKeeps
<1>1. /\ running' = [running EXCEPT ![th] = Append(@, s)] /\ scopes' = scopes
      /\ r # << >> => InFunction(Top(th))
  BY DEF Take, CanTake
<1>2. /\ running \in [Threads -> Seq(Terms)] /\ r \in Seq(Terms)
      /\ running'[th] = q /\ \A o \in Threads : o # th => running'[o] = running[o]
  <2>1. running \in [Threads -> Seq(Terms)] /\ r \in Seq(Terms)
    BY DEF Stacks
  <2>. QED
    BY <2>1, <1>1
<1>3. Stacks'
  <2>1. ~Started(s) /\ \A t \in Terms : Started(t)' <=> Started(t) \/ t = s
    BY <1>0 DEF Started
  <2>. QED
    BY <2>1, <1>1, StacksPush
<1>4. \A t \in Terms : (InFunction(t)' <=> InFunction(t))
  BY <1>0 DEF InFunction
<1>5. ASSUME NEW o \in Threads, o # th
      PROVE  ScopeFits(o)'
  <2>1. ASSUME NEW i \in 1 .. Len(running[o])
        PROVE  InFunction(running[o][i])' <=> InFunction(running[o][i])
    <3>1. PICK t \in Terms : t = running[o][i]
      BY SeqFacts DEF Stacks
    <3>2. (InFunction(t)' <=> InFunction(t)) /\ running'[o] = running[o]
      BY <1>2, <1>4, <1>5
    <3>. QED
      BY <3>1, <3>2 DEF InFunction
  <2>2. ScopeFits(o) /\ running'[o] = running[o] /\ scopes'[o] = scopes[o]
    BY <1>1, <1>2, <1>5 DEF ScopesMatchFunctions, ScopeFits
  <2>. QED
    BY <2>1, <2>2, ScopeKept
<1>6. ScopeFits(th)'
  <2>1. scopes[th] = r /\ \A i \in 1 .. Len(r) : task[r[i]].status = "function"
    <3>1. CASE r = << >>
      <4>1. scopes[th] = r
        BY <3>1 DEF ScopesMatchFunctions
      <4>2. Len(r) = 0
        BY <3>1
      <4>. QED
        BY <4>1, <4>2
    <3>2. CASE r # << >>
      <4>1. scopes[th] = r /\ \A i \in 1 .. Len(r) - 1 : InFunction(r[i])
        BY <3>2, <1>1, OwnScope
      <4>2. InFunction(r[Len(r)]) /\ Len(r) \in Nat
        BY <3>2, <1>1, TopFacts
      <4>. QED
        BY <4>1, <4>2 DEF InFunction
    <3>. QED
      BY <3>1, <3>2
  <2>2. /\ q # << >> /\ Len(q) = Len(r) + 1 /\ Last(q) = s /\ Front(q) = r
        /\ \A i \in 1 .. Len(r) : q[i] = r[i]
    BY <1>2, AppendFacts
  <2>3. \A i \in 1 .. Len(r) : task'[r[i]].status = "function"
    <3>. SUFFICES ASSUME NEW i \in 1 .. Len(r)
                  PROVE  task'[r[i]].status = "function"
      OBVIOUS
    <3>1. r[i] \in Terms /\ r[i] # s
      BY <2>1, <1>0, <1>2, SeqFacts
    <3>. QED
      BY <3>1, <2>1, <1>0
  <2>4. \A i \in 1 .. Len(q) - 1 : task'[q[i]].status = "function"
    <3>1. Len(q) - 1 = Len(r)
      BY <2>2, <1>2, SeqFacts
    <3>. QED
      BY <3>1, <2>2, <2>3
  <2>. QED
    BY <2>1, <2>2, <2>4, <1>0, <1>1, <1>2 DEF ScopeFits, InFunction, Top
<1>. QED
  BY <1>3, <1>5, <1>6 DEF ScopesMatchFunctions, ScopeFits

LEMMA ThreadsNext ==
  ASSUME Types, Stacks, ScopesMatchFunctions, NEW lo, NEW hi, Shape(lo, hi), Next
  PROVE  Stacks' /\ ScopesMatchFunctions'
<1>1. ASSUME NEW th \in Threads, Split(th)
      PROVE  Stacks' /\ ScopesMatchFunctions'
  <2>1. PICK s \in Terms : /\ task[s].status = "balance" /\ task'[s].status = "balance"
                           /\ \A t \in Terms : t # s => task'[t] = task[t]
    BY <1>1, SplitKeeps
  <2>2. \A t \in Terms : (Started(t)' <=> Started(t)) /\ (InFunction(t)' <=> InFunction(t))
    BY <2>1 DEF Started, InFunction
  <2>. QED
    BY <2>2, <1>1, ThreadsUnchanged DEF Split
<1>2. ASSUME NEW th \in Threads, Offer(th)
      PROVE  Stacks' /\ ScopesMatchFunctions'
  <2>1. PICK s \in Terms, right \in Terms : OffersBody(s, right)
    BY <1>2, OfferOffers
  <2>2. Offers(s, right)
    BY <2>1 DEF OffersBody
  <2>3. task[right].status = "none"
    BY <2>2, OffersBusy
  <2>4. \A t \in Terms : (Started(t)' <=> Started(t)) /\ (InFunction(t)' <=> InFunction(t))
    BY <2>2, <2>3 DEF Offers, Started, InFunction
  <2>. QED
    BY <2>4, <1>2, ThreadsUnchanged DEF Offer
<1>3. ASSUME NEW th \in Threads, FunctionThrows(th)
      PROVE  Stacks' /\ ScopesMatchFunctions'
  BY <1>3, ThreadsPop DEF FunctionThrows
<1>4. ASSUME NEW th \in Threads, Complete(th)
      PROVE  Stacks' /\ ScopesMatchFunctions'
  <2>1. ~InFunction(Top(th))
    BY <1>4 DEF Complete, InFunction
  <2>. QED
    BY <2>1, <1>4, ThreadsPop DEF Complete
<1>5. ASSUME NEW s \in Terms, Skip(s)
      PROVE  Stacks' /\ ScopesMatchFunctions'
  <2>1. /\ task[s].status = "spawned" /\ task'[s].status = "done"
        /\ \A t \in Terms : t # s => task'[t] = task[t]
    BY <1>5 DEF Skip, Types, Task
  <2>2. \A t \in Terms : (Started(t)' <=> Started(t)) /\ (InFunction(t)' <=> InFunction(t))
    BY <2>1 DEF Started, InFunction
  <2>. QED
    BY <2>2, <1>5, ThreadsUnchanged DEF Skip
<1>6. ASSUME NEW f \in Terms, Finish(f)
      PROVE  Stacks' /\ ScopesMatchFunctions'
  <2>1. \A t \in Terms : (Started(t)' <=> Started(t)) /\ (InFunction(t)' <=> InFunction(t))
    BY <1>6 DEF Finish, Started, InFunction
  <2>. QED
    BY <2>1, <1>6, ThreadsUnchanged DEF Finish
<1>7. ASSUME Return
      PROVE  Stacks' /\ ScopesMatchFunctions'
  <2>1. \A t \in Terms : (Started(t)' <=> Started(t)) /\ (InFunction(t)' <=> InFunction(t))
    BY <1>7 DEF Return, Started, InFunction
  <2>. QED
    BY <2>1, <1>7, ThreadsUnchanged DEF Return
<1>. QED
  BY <1>1, <1>2, <1>3, <1>4, <1>5, <1>6, <1>7, ThreadsEnter, ThreadsReturns, ThreadsTake
     DEF Next, Execute, Schedule

----------------------------------------------------------------------------
(* Who uses which body *)

LEMMA TaskBodyFacts ==
  ASSUME NEW hi, NEW first, BodiesFit(hi, first), NEW s \in Terms, Active(s)
  PROVE  /\ TaskBody(s, hi, first) /\ task[s].body \in Terms
         /\ task[s].body # 1 => /\ Open(task[s].body) /\ node[task[s].body].zombie
                                /\ task[s].body <= s /\ Upto(s) <= hi[task[s].body]
  BY TermsAre DEF BodiesFit, TaskBody, Covers

LEMMA NodeBodyFacts ==
  ASSUME NEW hi, NEW first, BodiesFit(hi, first), NEW g \in Terms, Open(g)
  PROVE  /\ NodeBody(g, hi, first) /\ first[g] \in Terms /\ first[g] # g
         /\ first[g] # 1 => /\ Open(first[g]) /\ node[first[g]].zombie
                            /\ first[g] <= g /\ hi[g] <= hi[first[g]]
  BY TermsAre DEF BodiesFit, NodeBody, Covers

\* Nothing uses the body that is made for a right child before the child is started.
LEMMA SpawnedUnused ==
  ASSUME Types, NEW lo, NEW hi, Shape(lo, hi), NEW first, BodiesFit(hi, first),
         NEW s \in Terms, task[s].status = "spawned", s # 1
  PROVE  /\ \A t \in Terms : Active(t) /\ t # s => task[t].body # s
         /\ \A g \in Terms : Open(g) => first[g] # s
<1>1. Active(s) /\ Upto(s) = hi[s] /\ Upto(s) \in 1 .. End
  BY Spawned, TaskShape
<1>2. ASSUME NEW t \in Terms, Active(t), t # s, task[t].body = s
      PROVE  FALSE
  <2>1. s <= t /\ Upto(t) <= hi[s]
    BY <1>2, TaskBodyFacts
  <2>2. t < Upto(t) /\ Upto(t) \in 1 .. End
    BY <1>2, TaskShape
  <2>3. s < t /\ t < Upto(s)
    BY <1>1, <1>2, <2>1, <2>2, TermsAre
  <2>. QED
    BY <2>3, <1>1, <1>2, Inside
<1>3. ASSUME NEW g \in Terms, Open(g), first[g] = s
      PROVE  FALSE
  <2>1. s <= g /\ hi[g] <= hi[s] /\ g # s
    BY <1>3, NodeBodyFacts
  <2>2. g < hi[g] /\ hi[g] \in 1 .. End
    BY <1>3, NodeShape
  <2>3. s < g /\ g < Upto(s)
    BY <1>1, <2>1, <2>2, TermsAre
  <2>. QED
    BY <2>3, <1>1, <1>3, Inside
<1>. QED
  BY <1>2, <1>3

\* Nothing uses the body of a finish task whose right side is done.
LEMMA ZombieUnused ==
  ASSUME Types, NEW lo, NEW hi, Shape(lo, hi), NEW first, BodiesFit(hi, first),
         NEW f \in Terms, Open(f), RightDone(f)
  PROVE  /\ \A t \in Terms : Active(t) => task[t].body # f
         /\ \A g \in Terms : Open(g) => first[g] # f
<1>1. f # 1 /\ hi[f] \in 1 .. End
  BY NodeShape
<1>2. ASSUME NEW t \in Terms, Active(t), task[t].body = f
      PROVE  FALSE
  <2>1. f <= t /\ Upto(t) <= hi[f]
    BY <1>1, <1>2, TaskBodyFacts
  <2>2. t < Upto(t) /\ Upto(t) \in 1 .. End
    BY <1>2, TaskShape
  <2>3. t < f \/ hi[f] <= t
    BY <1>2, RightEmpty
  <2>. QED
    BY <1>1, <2>1, <2>2, <2>3, TermsAre
<1>3. ASSUME NEW g \in Terms, Open(g), first[g] = f
      PROVE  FALSE
  <2>1. f <= g /\ hi[g] <= hi[f] /\ g # f
    BY <1>1, <1>3, NodeBodyFacts
  <2>2. g < hi[g] /\ hi[g] \in 1 .. End
    BY <1>3, NodeShape
  <2>3. NodeCounts(f, lo, hi)
    BY NodeShape
  <2>4. f < g /\ g < hi[f]
    BY <1>1, <2>1, <2>2, TermsAre
  <2>. QED
    BY <2>3, <2>4, <1>3 DEF NodeCounts
<1>. QED
  BY <1>2, <1>3

LEMMA AdjointsKept ==
  ASSUME AdjointsReset, adj' = adj,
         \A t \in Terms : InFunction(t)' => InFunction(t) /\ task'[t].body = task[t].body
  PROVE  AdjointsReset'
  BY DEF AdjointsReset

LEMMA CoversKept ==
  ASSUME NEW hi, NEW b, NEW i, NEW e, Covers(b, i, e, hi), Open(b) => Open(b)',
         node[b].zombie => node'[b].zombie
  PROVE  Covers(b, i, e, hi)'
BY DEF Covers

\* A task that goes on with its body.
LEMMA TaskBodyKept ==
  ASSUME NEW hi, NEW first, NEW t, TaskBody(t, hi, first), NEW b, b = task[t].body,
         NEW e, e = Upto(t), Upto(t)' = e, Covers(b, t, e, hi)', task'[t].body = b,
         task'[t].parent = task[t].parent, task'[t].context = task[t].context,
         task'[t].status = "spawned" <=> task[t].status = "spawned",
         node'[t].zombie = node[t].zombie, auto' = auto
  PROVE  TaskBody(t, hi, first)'
<1>1. Covers(task[t].body, t, Upto(t), hi)'
  BY DEF Covers, Open
<1>. QED
  BY <1>1 DEF TaskBody, Second

\* A finish task whose children keep their bodies.
LEMMA NodeBodyKept ==
  ASSUME NEW hi, NEW first, NEW g, NodeBody(g, hi, first), NEW q, q = node[g].parent,
         SameNode(g), node'[g].zombie = node[g].zombie,
         node[g].context = "right" => node'[q].zombie = node[q].zombie,
         Covers(first[g], g, hi[g], hi)', auto' = auto,
         node'[g].body \in {0, first[g]},
         ~auto => node'[g].body = node[g].body,
         auto /\ ~LeftDone(g)' => node'[g].body = 0,
         threw' = {} /\ LeftDone(g)' => node'[g].body = first[g],
         node[g].zombie \/ LeftDone(g)' \/ task'[g].status = "spawned"
           \/ (threw' # {} /\ RightDone(g)')
  PROVE  NodeBody(g, hi, first)'
<1>1. node'[g].parent = q /\ node'[g].context = node[g].context
  BY DEF SameNode
<1>2. /\ first[g] # g
      /\ node[g].context = "root" => first[g] = 1
      /\ node[g].context = "left" => first[g] = first[q]
      /\ node[g].context = "right" => first[g] = IF node[q].zombie THEN q ELSE first[q]
      /\ ~auto => node[g].zombie /\ node[g].body = first[g]
  BY DEF NodeBody, Second
<1>3. node'[g].context = "right" =>
        first[g] = IF node'[q].zombie THEN q ELSE first[q]
  BY <1>1, <1>2
<1>4. node'[g].zombie \/ LeftDone(g)' \/ task'[g].status = "spawned"
           \/ (threw' # {} /\ RightDone(g)')
  OBVIOUS
<1>5. ~auto' => node'[g].zombie /\ node'[g].body = first[g]
  BY <1>2
<1>. QED
  BY <1>1, <1>2, <1>3, <1>4, <1>5 DEF NodeBody, is_cancelled, Second

\* A step that moves no task to another body.
LEMMA BodiesKept ==
  ASSUME Types, NEW hi, NEW first, BodiesFit(hi, first), Kept,
         \A g \in 0 .. NumTerms : node'[g] = node[g],
         \A t \in Terms : /\ task'[t].body = task[t].body
                          /\ task'[t].status = "spawned" <=> task[t].status = "spawned",
         auto' = auto, threw' = threw
  PROVE  BodiesFit(hi, first)'
<1>1. \A t \in Terms : /\ Active(t)' <=> Active(t)
                       /\ Started(t)' <=> Started(t)
                       /\ task'[t].context = task[t].context /\ task'[t].parent = task[t].parent
                       /\ Active(t) => Upto(t)' = Upto(t)
  BY DEF Kept, Started, Active
<1>2. \A g \in Terms : /\ Open(g)' <=> Open(g)
                       /\ node'[g] = node[g]
  BY TermsAre DEF Open
<1>3. \A g \in Terms : (LeftDone(g)' <=> LeftDone(g)) /\ (RightDone(g)' <=> RightDone(g))
  BY KeptBusy DEF LeftDone, RightDone
<1>4. \A g \in Terms : Holds(g)' <=> Holds(g)
  BY <1>2, <1>3 DEF Holds
<1>5. Apart(first)'
  BY <1>1, <1>4 DEF BodiesFit, Apart
<1>6. ASSUME NEW b, NEW i, NEW e, Covers(b, i, e, hi)
      PROVE  Covers(b, i, e, hi)'
  BY <1>2, <1>6 DEF Covers
<1>7. ASSUME NEW t \in Terms, Active(t)'
      PROVE  TaskBody(t, hi, first)'
  <2>. DEFINE b == task[t].body
              e == Upto(t)
  <2>1. TaskBody(t, hi, first) /\ Upto(t)' = e /\ task'[t].body = b
    BY <1>1, <1>7 DEF BodiesFit
  <2>2. Covers(b, t, e, hi)
    BY <2>1 DEF TaskBody
  <2>3. PICK c, u : c = b /\ u = e
    OBVIOUS
  <2>4. Covers(c, t, u, hi)'
    BY <2>2, <2>3, <1>6
  <2>. QED
    BY <2>1, <2>3, <2>4, <1>1, <1>2, TaskBodyKept
<1>8. ASSUME NEW g \in Terms, Open(g)'
      PROVE  NodeBody(g, hi, first)'
  <2>1. NodeBody(g, hi, first) /\ node'[g] = node[g] /\ Open(g)
    BY <1>2, <1>8 DEF BodiesFit
  <2>2. Covers(first[g], g, hi[g], hi)'
    BY <2>1, <1>6 DEF NodeBody
  <2>3. PICK q \in 0 .. NumTerms : q = node[g].parent
    BY NodeFacts, TermsAre
  <2>4. node'[q] = node[q]
    OBVIOUS
  <2>5. /\ node'[g].body \in {0, first[g]}
        /\ auto /\ ~LeftDone(g)' => node'[g].body = 0
        /\ threw' = {} /\ LeftDone(g)' => node'[g].body = first[g]
        /\ node[g].zombie \/ LeftDone(g)' \/ task'[g].status = "spawned"
             \/ (threw' # {} /\ RightDone(g)')
    BY <2>1, <1>3 DEF NodeBody, is_cancelled
  <2>. QED
    BY <2>1, <2>2, <2>3, <2>4, <2>5, NodeBodyKept DEF SameNode
<1>. QED
  BY <1>5, <1>7, <1>8 DEF BodiesFit
----------------------------------------------------------------------------
(* The bodies when a child completes *)

\* What a finish task can begin to hold when its child on that side completes.
LEMMA NewHolder ==
  ASSUME NEW g, NEW p, NEW side, Open(g)' => Open(g),
         \A x : Busy(g, x)' <=> Busy(g, x) /\ ~(g = p /\ x = side),
         node'[g].zombie = node[g].zombie,
         task'[g].status = "spawned" => task[g].status = "spawned",
         Holds(g)'
  PROVE  /\ Open(g) /\ (Holds(g) \/ (g = p /\ (side = "left" \/ side = "right")))
         /\ ~Holds(g) /\ side = "right" => LeftDone(g) /\ ~node[g].zombie
         /\ ~Holds(g) /\ side = "left" => ~LeftDone(g)
<1>1. Open(g) /\ LeftDone(g)'
      /\ (node[g].zombie \/ RightDone(g)' \/ task[g].status = "spawned")
  BY DEF Holds
<1>2. LeftDone(g)' <=> LeftDone(g) \/ (g = p /\ side = "left")
  BY DEF LeftDone
<1>3. RightDone(g)' <=> RightDone(g) \/ (g = p /\ side = "right")
  BY DEF RightDone
<1>. QED
  BY <1>1, <1>2, <1>3 DEF Holds

\* A finish task that is told the body of its left child, or nothing.
LEMMA ToldBody ==
  ASSUME Types, NEW hi, NEW first, BodiesFit(hi, first), NEW g \in Terms, Open(g),
         NEW p, NEW side,
         \A x : Busy(g, x)' <=> Busy(g, x) /\ ~(g = p /\ x = side),
         \A q \in 0 .. NumTerms : node'[q].zombie = node[q].zombie, SameNode(g),
         node'[g].body = node[g].body
           \/ (g = p /\ side = "left" /\ node'[g].body = first[g]),
         g = p /\ side = "left" /\ threw' = {} => node'[g].body = first[g],
         threw \subseteq threw', auto' = auto,
         task[g].status = "spawned" =>
           task'[g].status = "spawned" \/ (threw' # {} /\ RightDone(g)'),
         Covers(first[g], g, hi[g], hi)'
  PROVE  NodeBody(g, hi, first)'
<1>1. NodeBody(g, hi, first)
  BY DEF BodiesFit
<1>2. PICK q \in 0 .. NumTerms : q = node[g].parent
  BY NodeFacts, TermsAre
<1>3. /\ LeftDone(g)' <=> LeftDone(g) \/ (g = p /\ side = "left")
      /\ RightDone(g)' <=> RightDone(g) \/ (g = p /\ side = "right")
  BY DEF LeftDone, RightDone
<1>4. /\ node[g].body \in {0, first[g]}
      /\ ~auto => node[g].body = first[g]
      /\ auto /\ ~LeftDone(g) => node[g].body = 0
      /\ threw = {} /\ LeftDone(g) => node[g].body = first[g]
      /\ node[g].zombie \/ LeftDone(g) \/ task[g].status = "spawned"
           \/ (threw # {} /\ RightDone(g))
  BY <1>1 DEF NodeBody, is_cancelled
<1>5. threw' = {} => threw = {}
  OBVIOUS
<1>6. node'[g].body \in {0, first[g]} /\ (~auto => node'[g].body = node[g].body)
  BY <1>4
<1>7. /\ auto /\ ~LeftDone(g)' => node'[g].body = 0
      /\ threw' = {} /\ LeftDone(g)' => node'[g].body = first[g]
  BY <1>3, <1>4, <1>5
<1>8. node[g].zombie \/ LeftDone(g)' \/ task'[g].status = "spawned"
        \/ (threw' # {} /\ RightDone(g)')
  BY <1>3, <1>4, <1>5
<1>9. node'[q].zombie = node[q].zombie /\ node'[g].zombie = node[g].zombie
  BY TermsAre
<1>. QED
  BY <1>1, <1>2, <1>6, <1>7, <1>8, <1>9, NodeBodyKept

\* The parent of a task that completes takes over the body.
LEMMA TaskEndsHolder ==
  ASSUME Types, NEW lo, NEW hi, Shape(lo, hi), NEW first, BodiesFit(hi, first),
         NEW s \in Terms, TaskGoes(s), NEW g \in Terms, Holds(g)'
  PROVE  \/ Holds(g)
         \/ /\ g = task[s].parent /\ Started(s) /\ first[g] = task[s].body /\ Active(s)
            /\ task[s].context = "left" => ~LeftDone(g)
            /\ task[s].context = "right" => ~node[g].zombie /\ g = s
            /\ task[s].context \in {"left", "right"}
<1>. DEFINE p == task[s].parent
            side == task[s].context
<1>1. TaskEnds(s) /\ Active(s)
  BY DEF TaskGoes, TaskEnds
<1>2. /\ Open(g)' => Open(g)
      /\ \A x : Busy(g, x)' <=> Busy(g, x) /\ ~(g = p /\ x = side)
  BY <1>1, TaskEndsBusy, TermsAre
<1>3. /\ node'[g].zombie = node[g].zombie
      /\ task'[g].status = "spawned" => task[g].status = "spawned"
  BY <1>1, TermsAre DEF TaskEnds
<1>4. /\ Open(g) /\ (Holds(g) \/ (g = p /\ (side = "left" \/ side = "right")))
      /\ ~Holds(g) /\ side = "right" => LeftDone(g) /\ ~node[g].zombie
      /\ ~Holds(g) /\ side = "left" => ~LeftDone(g)
  BY <1>2, <1>3, NewHolder
<1>. SUFFICES ASSUME ~Holds(g)
              PROVE  /\ g = p /\ Started(s) /\ first[g] = task[s].body
                     /\ side = "right" => g = s
  BY <1>1, <1>4
<1>5. TaskBody(s, hi, first)
  BY <1>1 DEF BodiesFit
<1>6. CASE side = "left"
  BY <1>1, <1>4, <1>5, <1>6, TaskShape DEF TaskBody
<1>7. CASE side = "right"
  <2>1. p = s /\ g = s /\ LeftDone(s) /\ ~node[s].zombie
    BY <1>1, <1>4, <1>7, TaskShape
  <2>2. task[s].status # "spawned"
    BY <2>1, <1>4 DEF Holds
  <2>3. Started(s)
    BY <2>2, <1>1 DEF Active, Started
  <2>. QED
    BY <2>1, <2>2, <2>3, <1>5, <1>7 DEF TaskBody, Second
<1>. QED
  BY <1>4, <1>6, <1>7

LEMMA TaskEndsBodies ==
  ASSUME Types, NEW lo, NEW hi, Shape(lo, hi), NEW first, BodiesFit(hi, first),
         NEW s \in Terms, TaskGoes(s)
  PROVE  BodiesFit(hi, first)'
<1>1. PICK p, side : p \in 0 .. NumTerms /\ p = task[s].parent /\ side = task[s].context
  BY TaskFacts
<1>2. TaskEnds(s) /\ Active(s) /\ task'[s].status = "done"
  BY DEF TaskGoes, TaskEnds
<1>3. /\ \A q, x : Busy(q, x)' <=> Busy(q, x) /\ ~(q = p /\ x = side)
      /\ \A t \in Terms : Active(t)' <=> Active(t) /\ t # s
      /\ \A g \in 0 .. NumTerms : Open(g)' <=> Open(g)
  BY <1>1, <1>2, TaskEndsBusy
<1>4. /\ \A t \in Terms : t # s => task'[t] = task[t]
      /\ \A g \in 0 .. NumTerms : SameNode(g) /\ node'[g].zombie = node[g].zombie
                                  /\ (g # p => node'[g] = node[g])
  BY <1>1, <1>2 DEF TaskEnds
<1>5. ASSUME NEW b, NEW i, NEW e, Covers(b, i, e, hi)
      PROVE  Covers(b, i, e, hi)'
  BY <1>3, <1>4, <1>5, TermsAre DEF Covers
<1>6. TaskBody(s, hi, first)
  BY <1>2 DEF BodiesFit
<1>7. ASSUME NEW t \in Terms, Active(t)'
      PROVE  TaskBody(t, hi, first)'
  <2>1. Active(t) /\ task'[t] = task[t] /\ TaskBody(t, hi, first)
    BY <1>3, <1>4, <1>7 DEF BodiesFit
  <2>2. PICK b, e : b = task[t].body /\ e = Upto(t)
    OBVIOUS
  <2>3. Covers(b, t, e, hi)'
    BY <2>1, <2>2, <1>5 DEF TaskBody
  <2>4. Upto(t)' = e /\ node'[t].zombie = node[t].zombie /\ auto' = auto
    BY <2>1, <2>2, <1>4, TermsAre DEF Upto, TaskGoes
  <2>. QED
    BY <2>1, <2>2, <2>3, <2>4, TaskBodyKept
<1>8. ASSUME NEW g \in Terms, Open(g)'
      PROVE  NodeBody(g, hi, first)'
  <2>1. Open(g) /\ NodeBody(g, hi, first) /\ g \in 0 .. NumTerms
    BY <1>3, <1>8, TermsAre DEF BodiesFit
  <2>2. Covers(first[g], g, hi[g], hi)'
    BY <2>1, <1>5 DEF NodeBody
  <2>3. /\ node'[g].body = node[g].body
             \/ (g = p /\ side = "left" /\ node'[g].body = first[g])
        /\ g = p /\ side = "left" /\ threw' = {} => node'[g].body = first[g]
    <3>1. CASE g = p
      BY <3>1, <1>1, <1>6 DEF TaskGoes, TaskBody
    <3>2. CASE g # p
      BY <2>1, <3>2, <1>4
    <3>. QED
      BY <3>1, <3>2
  <2>4. task[g].status = "spawned" =>
           task'[g].status = "spawned" \/ (threw' # {} /\ RightDone(g)')
    <3>. SUFFICES ASSUME task[g].status = "spawned", g = s
                  PROVE  threw' # {} /\ RightDone(g)'
      BY <1>4
    <3>1. threw' # {}
      BY DEF TaskGoes, is_cancelled
    <3>2. task[s].context = "right" /\ task[s].parent = s
      BY <2>1, Spawned, TermsAre
    <3>3. ~Busy(s, "right")'
      BY <3>2, <1>1, <1>3
    <3>. QED
      BY <3>1, <3>3 DEF RightDone
  <2>5. threw \subseteq threw' /\ auto' = auto
    BY DEF TaskGoes
  <2>6. /\ \A x : Busy(g, x)' <=> Busy(g, x) /\ ~(g = p /\ x = side)
        /\ \A q \in 0 .. NumTerms : node'[q].zombie = node[q].zombie
        /\ SameNode(g)
    BY <2>1, <1>3, <1>4
  <2>. QED
    BY <2>1, <2>2, <2>3, <2>4, <2>5, <2>6, ToldBody
<1>9. Apart(first)'
  <2>1. \A t \in Terms : Started(t)' => Started(t) /\ t # s /\ task'[t].body = task[t].body
    BY <1>2, <1>4 DEF Started
  <2>2. \A g \in Terms : Holds(g)' =>
           Holds(g) \/ (g = p /\ Started(s) /\ first[g] = task[s].body)
    BY <1>1, TaskEndsHolder
  <2>. QED
    BY <2>1, <2>2 DEF Apart, BodiesFit
<1>. QED
  BY <1>7, <1>8, <1>9 DEF BodiesFit

\* The parent of a finish task that runs takes over the body on its left.
LEMMA NodeEndsHolder ==
  ASSUME Types, NEW lo, NEW hi, Shape(lo, hi), NEW first, BodiesFit(hi, first),
         NEW f \in Terms, NodeGoes(f), NEW g \in Terms, Holds(g)'
  PROVE  /\ g # f
         /\ \/ Holds(g)
            \/ /\ g = node[f].parent /\ first[g] = first[f]
               /\ node[f].context = "left" => ~LeftDone(g)
               /\ node[f].context = "right" => ~node[g].zombie
               /\ node[f].context \in {"left", "right"}
<1>. DEFINE p == node[f].parent
            side == node[f].context
<1>1. NodeEnds(f) /\ Open(f) /\ g \in 0 .. NumTerms
  BY TermsAre DEF NodeGoes, NodeEnds
<1>2. /\ Open(g)' <=> Open(g) /\ g # f
      /\ \A x : Busy(g, x)' <=> Busy(g, x) /\ ~(g = p /\ x = side)
  BY <1>1, NodeEndsBusy
<1>3. g # f
  BY <1>2 DEF Holds
<1>4. /\ node'[g].zombie = node[g].zombie
      /\ task'[g].status = "spawned" => task[g].status = "spawned"
  BY <1>1 DEF NodeEnds
<1>5. /\ Open(g) /\ (Holds(g) \/ (g = p /\ (side = "left" \/ side = "right")))
      /\ ~Holds(g) /\ side = "right" => LeftDone(g) /\ ~node[g].zombie
      /\ ~Holds(g) /\ side = "left" => ~LeftDone(g)
  <2>1. Open(g)' => Open(g)
    BY <1>2
  <2>. QED
    BY <2>1, <1>2, <1>4, NewHolder
<1>6. NodeBody(f, hi, first)
  BY <1>1 DEF BodiesFit
<1>. QED
  BY <1>3, <1>5, <1>6 DEF NodeBody, Second

LEMMA EndedHolds ==
  ASSUME NEW f \in Terms, NodeGoes(f)
  PROVE  Open(f) /\ LeftDone(f) /\ RightDone(f) /\ Holds(f)
BY DEF NodeGoes, NodeEnds, Holds

LEMMA NodeEndsBodies ==
  ASSUME Types, NEW lo, NEW hi, Shape(lo, hi), NEW first, BodiesFit(hi, first),
         NEW f \in Terms, NodeGoes(f)
  PROVE  BodiesFit(hi, first)'
<1>1. PICK p, side : p \in 0 .. NumTerms /\ p = node[f].parent /\ side = node[f].context
  BY NodeFacts, TermsAre
<1>2. NodeEnds(f) /\ Open(f) /\ LeftDone(f) /\ RightDone(f) /\ Holds(f) /\ task' = task
  BY EndedHolds DEF NodeGoes, NodeEnds
<1>3. /\ \A q, x : Busy(q, x)' <=> Busy(q, x) /\ ~(q = p /\ x = side)
      /\ \A t \in Terms : Active(t)' <=> Active(t)
      /\ \A g \in 0 .. NumTerms : Open(g)' <=> Open(g) /\ g # f
  BY <1>1, <1>2, NodeEndsBusy
<1>4. \A g \in 0 .. NumTerms : /\ g # f => SameNode(g)
                               /\ node'[g].zombie = node[g].zombie
                               /\ g # f /\ g # p => node'[g] = node[g]
  BY <1>1, <1>2 DEF NodeEnds
<1>5. ASSUME NEW b, NEW i, NEW e, Covers(b, i, e, hi), b # f
      PROVE  Covers(b, i, e, hi)'
  BY <1>3, <1>4, <1>5, TermsAre DEF Covers
<1>6. NodeBody(f, hi, first) /\ f \in 0 .. NumTerms
  BY <1>2, TermsAre DEF BodiesFit
<1>7. ASSUME NEW t \in Terms, Active(t)'
      PROVE  TaskBody(t, hi, first)'
  <2>1. Active(t) /\ task'[t] = task[t] /\ TaskBody(t, hi, first)
    BY <1>2, <1>3, <1>7 DEF BodiesFit
  <2>2. PICK b, e : b = task[t].body /\ e = Upto(t)
    OBVIOUS
  <2>3. b # f
    BY <2>1, <2>2, <1>2, ZombieUnused
  <2>4. Covers(b, t, e, hi)'
    BY <2>1, <2>2, <2>3, <1>5 DEF TaskBody
  <2>5. Upto(t)' = e /\ node'[t].zombie = node[t].zombie /\ auto' = auto
    BY <2>1, <2>2, <1>4, TermsAre DEF Upto, NodeGoes
  <2>. QED
    BY <2>1, <2>2, <2>4, <2>5, TaskBodyKept
<1>8. ASSUME NEW g \in Terms, Open(g)'
      PROVE  NodeBody(g, hi, first)'
  <2>1. Open(g) /\ NodeBody(g, hi, first) /\ g \in 0 .. NumTerms /\ g # f
    BY <1>3, <1>8, TermsAre DEF BodiesFit
  <2>2. Covers(first[g], g, hi[g], hi)'
    <3>1. first[g] # f
      BY <2>1, <1>2, ZombieUnused
    <3>. QED
      BY <2>1, <3>1, <1>5 DEF NodeBody
  <2>3. /\ node'[g].body = node[g].body
             \/ (g = p /\ side = "left" /\ node'[g].body = first[g])
        /\ g = p /\ side = "left" /\ threw' = {} => node'[g].body = first[g]
    <3>1. CASE g = p
      <4>1. side = "left" /\ ~is_cancelled => node'[g].body = node[f].body
        BY <3>1, <1>1 DEF NodeGoes
      <4>2. ~(side = "left" /\ ~is_cancelled) => node'[g].body = node[g].body
        BY <3>1, <1>1 DEF NodeGoes
      <4>3. ~is_cancelled => node[f].body = first[f]
        BY <1>2, <1>6 DEF NodeBody
      <4>4. side = "left" => first[f] = first[g]
        BY <3>1, <1>1, <1>6 DEF NodeBody
      <4>5. threw' = {} => ~is_cancelled
        BY DEF NodeGoes, is_cancelled
      <4>. QED
        BY <3>1, <4>1, <4>2, <4>3, <4>4, <4>5
    <3>2. CASE g # p
      BY <2>1, <3>2, <1>4
    <3>. QED
      BY <3>1, <3>2
  <2>4. threw \subseteq threw' /\ auto' = auto
    BY DEF NodeGoes
  <2>. QED
    BY <2>1, <2>2, <2>3, <2>4, <1>2, <1>3, <1>4, ToldBody
<1>9. Apart(first)'
  <2>1. \A t \in Terms : (Started(t)' <=> Started(t)) /\ task'[t].body = task[t].body
    BY <1>2 DEF Started
  <2>2. \A g \in Terms : Holds(g)' =>
           g # f /\ (Holds(g) \/ (g = p /\ first[g] = first[f]))
    BY <1>1, NodeEndsHolder
  <2>. QED
    BY <2>1, <2>2, <1>2 DEF Apart, BodiesFit
<1>. QED
  BY <1>7, <1>8, <1>9 DEF BodiesFit
----------------------------------------------------------------------------
(* The bodies when a task is taken and when one is offered *)

\* What a right child is told of its body before it is started, and by whom it is held.
LEMMA SpawnedBody ==
  ASSUME Types, NEW lo, NEW hi, Shape(lo, hi), NEW first, BodiesFit(hi, first),
         NEW s \in Terms, task[s].status = "spawned", task[s].context = "right"
  PROVE  /\ Open(s) /\ s # 1 /\ ~RightDone(s) /\ Upto(s) = hi[s] /\ Active(s)
         /\ auto => task[s].body = first[s] /\ ~node[s].zombie
         /\ ~auto => task[s].body = s /\ node[s].zombie /\ node[s].body # 0
         /\ auto /\ node[s].body # 0 => Holds(s)
         /\ node[s].body = 0 /\ ~is_cancelled => ~LeftDone(s)
<1>1. /\ Active(s) /\ Open(s) /\ s # 1 /\ ~RightDone(s) /\ Upto(s) = hi[s]
  BY Spawned
<1>2. TaskBody(s, hi, first) /\ NodeBody(s, hi, first) /\ first[s] # 0
  BY <1>1, TermsAre DEF BodiesFit
<1>. QED
  BY <1>1, <1>2 DEF TaskBody, NodeBody, Holds

\* A step takes the task: what it leaves alone.
LEMMA TakeSame ==
  ASSUME Types, NEW lo, NEW hi, Shape(lo, hi), NEW th \in Threads, NEW s \in Terms, Take(th, s)
  PROVE  /\ \A t \in Terms : /\ Active(t)' <=> Active(t)
                             /\ Started(t)' <=> Started(t) \/ t = s
                             /\ Active(t) => Upto(t)' = Upto(t)
         /\ \A g \in 0 .. NumTerms : /\ Open(g)' <=> Open(g)
                                     /\ SameNode(g) /\ node'[g].body = node[g].body
                                     /\ node[g].zombie => node'[g].zombie
         /\ \A p, side : Busy(p, side)' <=> Busy(p, side)
         /\ threw' = threw /\ threw = {} /\ auto' = auto /\ bodies' = bodies
         /\ ~Started(s)
<1>1. /\ task[s].status = "spawned" /\ task'[s].status = "balance" /\ ~is_cancelled
      /\ \A t \in Terms : t # s => task'[t] = task[t]
      /\ \A g \in 0 .. NumTerms : g # s => node'[g] = node[g]
      /\ node'[s].body = node[s].body
      /\ node'[s].zombie \/ node'[s] = node[s]
      /\ Kept
  BY TakeKeeps
<1>2. \A t \in Terms : /\ Active(t)' <=> Active(t)
                       /\ Active(t) => Upto(t)' = Upto(t)
  BY <1>1 DEF Kept
<1>3. \A t \in Terms : Started(t)' <=> Started(t) \/ t = s
  BY <1>1 DEF Started
<1>4. \A g \in 0 .. NumTerms : /\ SameNode(g) /\ node'[g].body = node[g].body
                               /\ node[g].zombie => node'[g].zombie
  BY <1>1 DEF Kept
<1>5. \A g \in 0 .. NumTerms : Open(g)' <=> Open(g)
  BY <1>4 DEF SameNode, Open
<1>6. \A p, side : Busy(p, side)' <=> Busy(p, side)
  BY <1>1, KeptBusy
<1>7. threw' = threw /\ threw = {} /\ auto' = auto /\ bodies' = bodies
  BY DEF Take, is_cancelled
<1>. QED
  BY <1>1, <1>2, <1>3, <1>4, <1>5, <1>6, <1>7 DEF Started

\* A finish task that holds a body after a task was taken held it before, and the body
\* of the task is not one of those.
LEMMA TakeHolder ==
  ASSUME Types, NEW lo, NEW hi, Shape(lo, hi), NEW first, BodiesFit(hi, first),
         NEW th \in Threads, NEW s \in Terms, Take(th, s)
  PROVE  /\ \A g \in Terms : Holds(g)' => /\ Holds(g) /\ node'[g].zombie = node[g].zombie
                                          /\ first[g] # task'[s].body
         /\ \A t \in Terms : Started(t) => task[t].body # task'[s].body
<1>. DEFINE b == task'[s].body
<1>1. /\ task[s].status = "spawned" /\ task'[s].status = "balance" /\ ~is_cancelled
      /\ \A t \in Terms : t # s => task'[t] = task[t]
      /\ \A g \in 0 .. NumTerms : g # s => node'[g] = node[g]
      /\ task[s].context = "right" /\ node[s].body = 0 => b = s /\ node'[s].zombie
      /\ ~(task[s].context = "right" /\ node[s].body = 0) =>
           b = task[s].body /\ node'[s] = node[s]
  BY TakeKeeps
<1>2. /\ \A g \in Terms : Open(g)' <=> Open(g)
      /\ \A g \in Terms : (LeftDone(g)' <=> LeftDone(g)) /\ (RightDone(g)' <=> RightDone(g))
  BY TakeSame, TermsAre DEF LeftDone, RightDone
<1>3. CASE task[s].context # "right"
  <2>1. s = 1 /\ (\A t \in Terms : t # 1 => ~Active(t)) /\ (\A g \in Terms : ~Open(g))
    BY <1>1, <1>3, Spawned
  <2>2. \A t \in Terms : ~Started(t)
    BY <2>1, <1>1 DEF Started, Active
  <2>. QED
    BY <2>1, <2>2, <1>2 DEF Holds
<1>4. CASE task[s].context = "right"
  <2>1. /\ Open(s) /\ s # 1 /\ ~RightDone(s)
        /\ auto => task[s].body = first[s] /\ ~node[s].zombie
        /\ ~auto => task[s].body = s /\ node[s].zombie /\ node[s].body # 0
        /\ auto /\ node[s].body # 0 => Holds(s)
        /\ node[s].body = 0 => ~LeftDone(s)
    BY <1>1, <1>4, SpawnedBody
  <2>2. \A g \in Terms : g # s => (Holds(g)' => Holds(g)) /\ node'[g] = node[g]
    BY <1>1, <1>2, TermsAre DEF Holds
  <2>3. Holds(s)' => ~auto /\ Holds(s) /\ node'[s].zombie = node[s].zombie
    BY <2>1, <1>1, <1>2, <1>4 DEF Holds
  <2>4. CASE b = s
    <3>1. /\ \A t \in Terms : Active(t) /\ t # s => task[t].body # s
          /\ \A g \in Terms : Open(g) => first[g] # s
      BY <2>1, <1>1, SpawnedUnused
    <3>2. \A t \in Terms : Started(t) => Active(t) /\ t # s
      BY <1>1 DEF Started, Active
    <3>. QED
      BY <2>2, <2>3, <2>4, <3>1, <3>2 DEF Holds
  <2>5. CASE b # s
    <3>1. auto /\ Holds(s) /\ b = first[s]
      BY <2>1, <2>5, <1>1, <1>4
    <3>. QED
      BY <2>2, <2>3, <3>1 DEF BodiesFit, Apart
  <2>. QED
    BY <2>4, <2>5
<1>. QED
  BY <1>3, <1>4

LEMMA TakeBodies ==
  ASSUME Types, NEW lo, NEW hi, Shape(lo, hi), NEW first, BodiesFit(hi, first),
         NEW th \in Threads, NEW s \in Terms, Take(th, s)
  PROVE  BodiesFit(hi, first)'
<1>1. /\ task[s].status = "spawned" /\ task'[s].status = "balance" /\ ~is_cancelled
      /\ task'[s].context = task[s].context /\ task'[s].parent = task[s].parent
      /\ \A t \in Terms : t # s => task'[t] = task[t]
      /\ \A g \in 0 .. NumTerms : g # s => node'[g] = node[g]
      /\ task[s].context = "right" /\ node[s].body = 0 => task'[s].body = s /\ node'[s].zombie
      /\ ~(task[s].context = "right" /\ node[s].body = 0) =>
           task'[s].body = task[s].body /\ node'[s] = node[s]
  BY TakeKeeps DEF Kept
<1>2. /\ \A t \in Terms : /\ Active(t)' <=> Active(t)
                          /\ Started(t)' <=> Started(t) \/ t = s
                          /\ Active(t) => Upto(t)' = Upto(t)
      /\ \A g \in 0 .. NumTerms : /\ Open(g)' <=> Open(g)
                                  /\ SameNode(g) /\ node'[g].body = node[g].body
                                  /\ node[g].zombie => node'[g].zombie
      /\ \A p, side : Busy(p, side)' <=> Busy(p, side)
      /\ threw' = threw /\ threw = {} /\ auto' = auto
      /\ ~Started(s)
  BY TakeSame
<1>3. ASSUME NEW b, NEW i, NEW e, Covers(b, i, e, hi)
      PROVE  Covers(b, i, e, hi)'
  BY <1>2, <1>3, TermsAre DEF Covers
<1>4. task[s].context = "right" =>
        /\ Open(s) /\ s # 1 /\ ~RightDone(s) /\ Upto(s) = hi[s] /\ Active(s)
        /\ auto => task[s].body = first[s] /\ ~node[s].zombie
        /\ ~auto => task[s].body = s /\ node[s].zombie /\ node[s].body # 0
        /\ auto /\ node[s].body # 0 => Holds(s)
        /\ node[s].body = 0 => ~LeftDone(s)
  BY <1>1, SpawnedBody
<1>5. ASSUME NEW t \in Terms, Active(t)', t # s
      PROVE  TaskBody(t, hi, first)'
  <2>1. Active(t) /\ task'[t] = task[t] /\ TaskBody(t, hi, first)
    BY <1>1, <1>2, <1>5 DEF BodiesFit
  <2>2. PICK b, e : b = task[t].body /\ e = Upto(t)
    OBVIOUS
  <2>3. Covers(b, t, e, hi)'
    BY <2>1, <2>2, <1>3 DEF TaskBody
  <2>4. Upto(t)' = e /\ node'[t].zombie = node[t].zombie /\ auto' = auto
    BY <2>1, <2>2, <1>1, <1>2, <1>5, TermsAre
  <2>. QED
    BY <2>1, <2>2, <2>3, <2>4, TaskBodyKept
<1>6. Active(s)' => TaskBody(s, hi, first)'
  <2>0. Active(s) /\ TaskBody(s, hi, first)
    BY <1>1, Spawned DEF BodiesFit
  <2>1. PICK b, e : b = task'[s].body /\ e = Upto(s)
    OBVIOUS
  <2>2. Upto(s)' = e
    BY <2>0, <2>1, <1>2
  <2>3. task[s].context = "right" => b = Second(s, first)'
    BY <2>1, <1>1, <1>4 DEF Second
  <2>4. Covers(b, s, e, hi)'
    <3>1. CASE b = task[s].body
      BY <3>1, <2>0, <2>1, <1>3 DEF TaskBody
    <3>2. CASE b # task[s].body
      <4>1. b = s /\ node'[s].zombie /\ Open(s) /\ e = hi[s]
        BY <3>2, <2>1, <1>1, <1>4
      <4>2. Open(s)'
        BY <4>1, <1>2, TermsAre
      <4>3. e \in 1 .. End
        BY <2>0, <2>1, TaskShape
      <4>. QED
        BY <4>1, <4>2, <4>3, TermsAre DEF Covers
    <3>. QED
      BY <3>1, <3>2
  <2>5. task[s].context # "right" => b = 1 /\ task[s].context # "left"
    <3>1. task[s].context # "right" => task[s].context = "root"
      BY <1>1, Spawned
    <3>. QED
      BY <3>1, <2>0, <2>1, <1>1 DEF TaskBody
  <2>6. Covers(task[s].body, s, Upto(s), hi)'
    BY <2>1, <2>2, <2>4 DEF Covers, Open
  <2>. QED
    BY <2>1, <2>3, <2>5, <2>6, <1>1 DEF TaskBody
<1>7. ASSUME NEW g \in Terms, Open(g)'
      PROVE  NodeBody(g, hi, first)'
  <2>1. Open(g) /\ NodeBody(g, hi, first) /\ SameNode(g) /\ node'[g].body = node[g].body
    BY <1>2, <1>7, TermsAre DEF BodiesFit
  <2>2. Covers(first[g], g, hi[g], hi)'
    BY <2>1, <1>3 DEF NodeBody
  <2>3. PICK q \in 0 .. NumTerms : q = node[g].parent
    BY NodeFacts, TermsAre
  <2>4. node[g].context = "right" => node'[q].zombie = node[q].zombie
    <3>. SUFFICES ASSUME node[g].context = "right", q = s, node'[s] # node[s]
                  PROVE  FALSE
      BY <1>1
    <3>1. task[s].context = "right" /\ Active(s)
      BY <1>1, <1>4
    <3>2. task[s].parent = s
      BY <3>1, TaskShape
    <3>3. NodeAt(g, task[s].parent, task[s].context)
      BY <3>1, <3>2, <2>1, <2>3 DEF NodeAt
    <3>. QED
      BY <3>1, <3>3, OnlyTask
  <2>5. (LeftDone(g)' <=> LeftDone(g)) /\ (RightDone(g)' <=> RightDone(g))
    BY <1>2 DEF LeftDone, RightDone
  <2>6. /\ node'[g].body \in {0, first[g]}
        /\ auto /\ ~LeftDone(g)' => node'[g].body = 0
        /\ threw' = {} /\ LeftDone(g)' => node'[g].body = first[g]
    BY <2>1, <2>5, <1>2 DEF NodeBody, is_cancelled
  <2>7. CASE node'[g].zombie = node[g].zombie
    <3>1. node[g].zombie \/ LeftDone(g)' \/ task'[g].status = "spawned"
             \/ (threw' # {} /\ RightDone(g)')
      <4>1. CASE g # s
        BY <4>1, <2>1, <2>5, <1>1, <1>2 DEF NodeBody, is_cancelled
      <4>2. CASE g = s
        <5>1. task[s].context = "right"
          BY <4>2, <2>1, <1>1, Spawned
        <5>2. node[s].zombie \/ (auto /\ (node[s].body = 0 \/ Holds(s)))
          BY <5>1, <1>4
        <5>3. node[s].body = 0 => node[s].zombie
          BY <4>2, <5>1, <2>7, <1>1
        <5>. QED
          BY <4>2, <5>2, <5>3, <2>5 DEF Holds
      <4>. QED
        BY <4>1, <4>2
    <3>. QED
      BY <2>1, <2>2, <2>3, <2>4, <2>6, <2>7, <3>1, <1>2, NodeBodyKept
  <2>8. CASE node'[g].zombie # node[g].zombie
    <3>1. g = s /\ task[s].context = "right" /\ node[s].body = 0 /\ node'[s].zombie
      BY <2>8, <1>1, TermsAre
    <3>2. auto
      BY <3>1, <1>4
    <3>3. node'[g].parent = q /\ node'[g].context = node[g].context
      BY <2>1, <2>3 DEF SameNode
    <3>4. node[g].context = "right" => first[g] = Second(q, first)'
      BY <2>1, <2>3, <2>4 DEF NodeBody, Second
    <3>. QED
      BY <2>1, <2>2, <2>3, <2>6, <3>1, <3>2, <3>3, <3>4, <1>2 DEF NodeBody, is_cancelled
  <2>. QED
    BY <2>7, <2>8
<1>8. Apart(first)'
  <2>1. /\ \A g \in Terms : Holds(g)' => Holds(g) /\ first[g] # task'[s].body
        /\ \A t \in Terms : Started(t) => task[t].body # task'[s].body
    BY TakeHolder
  <2>. QED
    BY <2>1, <1>1, <1>2 DEF Apart, BodiesFit
<1>. QED
  BY <1>5, <1>6, <1>7, <1>8 DEF BodiesFit
\* What a body covers while a range is offered, and for the range that is offered.
LEMMA OfferCovers ==
  ASSUME Types, NEW lo, NEW hi, Shape(lo, hi), NEW first, BodiesFit(hi, first),
         NEW s \in Terms, NEW right \in Terms, OffersBody(s, right),
         NEW hi2, \A g \in Terms : hi2[g] = IF g = right THEN Upto(s) ELSE hi[g],
         NEW b, NEW i, NEW e, Covers(b, i, e, hi)
  PROVE  Covers(b, i, e, hi2)' /\ b # right
<1>1. Offers(s, right)
  BY DEF OffersBody
<1>2. /\ ~Open(right) /\ s < right
      /\ \A g \in 0 .. NumTerms : Open(g)' <=> Open(g) \/ g = right
      /\ \A g \in 0 .. NumTerms : g # right => node'[g] = node[g]
  BY <1>1, OffersBusy DEF Offers
<1>3. b # right
  BY <1>2, TermsAre DEF Covers
<1>4. \A g \in Terms : g # right => hi2[g] = hi[g]
  BY DEF Shape
<1>. QED
  BY <1>2, <1>3, <1>4, TermsAre DEF Covers

LEMMA OfferBodies ==
  ASSUME Types, NEW lo, NEW hi, Shape(lo, hi), NEW first, BodiesFit(hi, first),
         NEW s \in Terms, NEW right \in Terms, OffersBody(s, right),
         NEW hi2, \A g \in Terms : hi2[g] = IF g = right THEN Upto(s) ELSE hi[g],
         NEW first2 \in [Terms -> Terms],
         \A g \in Terms : first2[g] = IF g = right THEN task[s].body ELSE first[g]
  PROVE  /\ BodiesFit(hi2, first2)'
         /\ \A g \in Terms : Holds(g)' => /\ Holds(g) /\ g # right /\ first2[g] = first[g]
                                          /\ (RightDone(g)' <=> RightDone(g))
<1>. PICK b, e, q, side : /\ b = task[s].body /\ e = Upto(s)
                          /\ q = task[s].parent /\ side = task[s].context
  OBVIOUS
<1>1. /\ Offers(s, right) /\ Started(s) /\ Active(s) /\ task'[s].status = task[s].status
      /\ s < right /\ right < e /\ task'[s].body = b
      /\ \A t \in Terms : t # s /\ t # right => task'[t] = task[t]
      /\ task'[s].parent = right /\ task'[s].context = "left" /\ Upto(s)' = right
      /\ task'[right].status = "spawned"
      /\ task'[right].parent = right /\ task'[right].context = "right"
      /\ Upto(right)' = e
      /\ \A g \in 0 .. NumTerms : g # right => node'[g] = node[g]
      /\ node'[right].parent = q /\ node'[right].context = side
  BY DEF OffersBody, Offers, Started, Active
<1>2. /\ node'[right].body = (IF auto THEN 0 ELSE b) /\ node'[right].zombie = ~auto
      /\ task'[right].body = (IF auto THEN b ELSE right)
      /\ auto' = auto /\ threw' = threw
  BY DEF OffersBody
<1>3. /\ task[right].status = "none" /\ ~Active(right) /\ ~Open(right)
      /\ \A t \in Terms : Active(t)' <=> Active(t) \/ t = right
      /\ \A g \in 0 .. NumTerms : Open(g)' <=> Open(g) \/ g = right
      /\ \A p, x : p # right => (Busy(p, x)' <=> Busy(p, x))
      /\ Busy(right, "left")' /\ Busy(right, "right")'
  BY <1>1, OffersBusy
<1>4. /\ first \in [Terms -> Terms] /\ hi \in [Terms -> 1 .. End]
      /\ TaskBody(s, hi, first)
      /\ b \in Terms /\ b <= s /\ (b # 1 => Open(b) /\ node[b].zombie /\ e <= hi[b])
      /\ e \in 1 .. End /\ right \in 0 .. NumTerms /\ right # 1
  <2>1. first \in [Terms -> Terms] /\ hi \in [Terms -> 1 .. End] /\ TaskBody(s, hi, first)
    BY <1>1 DEF BodiesFit, Shape
  <2>2. b \in Terms /\ (b # 1 => Open(b) /\ node[b].zombie /\ e <= hi[b] /\ b <= s)
    BY <1>1, TaskBodyFacts
  <2>3. e \in 1 .. End
    BY <1>1, TaskShape
  <2>4. /\ s \in Nat /\ right \in Nat /\ 1 <= s /\ s < right /\ right \in 0 .. NumTerms
    BY <1>1, TermsAre
  <2>5. b <= s /\ right # 1
    BY <2>2, <2>4
  <2>. QED
    BY <2>1, <2>2, <2>3, <2>4, <2>5
<1>5. /\ first2 \in [Terms -> Terms] /\ first2[right] = b /\ hi2[right] = e
      /\ \A g \in Terms : g # right => first2[g] = first[g] /\ hi2[g] = hi[g]
  BY <1>4
<1>6. \A c, i, u : Covers(c, i, u, hi) => Covers(c, i, u, hi2)' /\ c # right
  <2>. SUFFICES ASSUME NEW c, NEW i, NEW u, Covers(c, i, u, hi)
                PROVE  Covers(c, i, u, hi2)' /\ c # right
    OBVIOUS
  <2>. QED
    BY OfferCovers
<1>7. /\ b # right /\ b <= right
      /\ b # 1 => Open(b)' /\ node'[b].zombie /\ e <= hi2[b] /\ right <= hi2[b]
  <2>1. s \in Nat /\ right \in Nat /\ b \in Nat /\ e \in Nat /\ hi[b] \in Nat
    <3>1. hi[b] \in 1 .. End
      BY <1>4
    <3>2. b \in Terms /\ e \in 1 .. End
      BY <1>4
    <3>3. s \in Nat /\ right \in Nat /\ b \in Nat
      BY <3>2, TermsAre
    <3>4. \A i \in 1 .. End : i \in Nat
      BY TermsAre
    <3>. QED
      BY <3>1, <3>2, <3>3, <3>4
  <2>2. b < right /\ right < e
    BY <2>1, <1>1, <1>4
  <2>3. b # 1 => Open(b)' /\ node'[b].zombie /\ hi2[b] = hi[b]
    BY <2>1, <2>2, <1>1, <1>3, <1>4, <1>5, TermsAre
  <2>4. b # 1 => e <= hi[b] /\ right <= hi[b]
    BY <2>1, <2>2, <1>4
  <2>. QED
    BY <2>1, <2>2, <2>3, <2>4
<1>8. ASSUME NEW t \in Terms, t # s, t # right, Active(t)'
      PROVE  TaskBody(t, hi2, first2)'
  <2>1. Active(t) /\ task'[t] = task[t] /\ TaskBody(t, hi, first) /\ node'[t] = node[t]
    BY <1>1, <1>3, <1>8, TermsAre DEF BodiesFit
  <2>2. PICK c, u, p : c = task[t].body /\ u = Upto(t) /\ p = task[t].parent
    OBVIOUS
  <2>3. Covers(c, t, u, hi2)'
    BY <2>1, <2>2, <1>6 DEF TaskBody
  <2>4. Covers(task[t].body, t, Upto(t), hi2)' /\ Upto(t)' = u
    <3>1. Upto(t)' = Upto(t)
      BY <2>1 DEF Upto
    <3>. QED
      BY <3>1, <2>1, <2>2, <2>3 DEF Covers, Open
  <2>5. task[t].context = "left" => first2[p] = first[p]
    BY <2>1, <2>2, <1>3, <1>5, TaskShape
  <2>6. Second(t, first2)' = Second(t, first)
    BY <2>1, <1>5, <1>8 DEF Second
  <2>. QED
    BY <2>1, <2>2, <2>4, <2>5, <2>6, <1>2 DEF TaskBody
<1>9. TaskBody(s, hi2, first2)'
  <2>1. Covers(b, s, right, hi2)'
    BY <1>4, <1>7 DEF Covers
  <2>2. Covers(task[s].body, s, Upto(s), hi2)'
    BY <2>1, <1>1 DEF Covers, Open
  <2>. QED
    BY <2>2, <1>1, <1>5 DEF TaskBody
<1>10. TaskBody(right, hi2, first2)'
  <2>1. PICK c : c = task'[right].body
    OBVIOUS
  <2>2. Covers(c, right, e, hi2)'
    <3>1. CASE auto
      BY <3>1, <2>1, <1>2, <1>4, <1>7 DEF Covers
    <3>2. CASE ~auto
      <4>1. c = right /\ Open(right)' /\ node'[right].zombie /\ hi2[right] = e
        BY <3>2, <2>1, <1>2, <1>3, <1>4, <1>5
      <4>2. right \in Nat /\ e \in Nat
        BY <1>4, TermsAre
      <4>. QED
        BY <4>1, <4>2 DEF Covers
    <3>. QED
      BY <3>1, <3>2
  <2>3. Covers(task[right].body, right, Upto(right), hi2)'
    BY <2>1, <2>2, <1>1 DEF Covers, Open
  <2>. QED
    BY <2>3, <1>1, <1>2, <1>5 DEF TaskBody
<1>11. ASSUME NEW g \in Terms, g # right, Open(g)
       PROVE  /\ (LeftDone(g)' <=> LeftDone(g)) /\ (RightDone(g)' <=> RightDone(g))
              /\ task'[g].status = "spawned" <=> task[g].status = "spawned"
              /\ node'[g] = node[g]
  <2>1. task'[g].status = "spawned" <=> task[g].status = "spawned"
    BY <1>1, <1>11
  <2>. QED
    BY <2>1, <1>1, <1>3, <1>11, TermsAre DEF LeftDone, RightDone
<1>12. ASSUME NEW g \in Terms, g # right, Open(g)'
       PROVE  NodeBody(g, hi2, first2)'
  <2>1. /\ Open(g) /\ NodeBody(g, hi, first) /\ node'[g] = node[g]
        /\ first2[g] = first[g] /\ hi2[g] = hi[g]
    BY <1>1, <1>3, <1>5, <1>12, TermsAre DEF BodiesFit
  <2>2. Covers(first2[g], g, hi2[g], hi2)'
    BY <2>1, <1>6 DEF NodeBody
  <2>3. PICK p \in 0 .. NumTerms : p = node[g].parent
    BY NodeFacts, TermsAre
  <2>4. node[g].context \in {"left", "right"} =>
           first2[p] = first[p] /\ Second(p, first2)' = Second(p, first)
    <3>. SUFFICES ASSUME node[g].context \in {"left", "right"}
                  PROVE  first2[p] = first[p] /\ Second(p, first2)' = Second(p, first)
      OBVIOUS
    <3>1. p \in Terms /\ p # right
      BY <2>1, <2>3, <1>3, NodeShape
    <3>. QED
      BY <3>1, <1>1, <1>5 DEF Second
  <2>5. /\ (LeftDone(g)' <=> LeftDone(g)) /\ (RightDone(g)' <=> RightDone(g))
        /\ task'[g].status = "spawned" <=> task[g].status = "spawned"
    BY <2>1, <1>11, <1>12
  <2>6. /\ node[g].context = "right" => first2[g] = Second(p, first2)'
        /\ node[g].context = "left" => first2[g] = first2[p]
        /\ node[g].context = "root" => first2[g] = 1
    BY <2>1, <2>3, <2>4 DEF NodeBody
  <2>7. node'[g].parent = p /\ node'[g].context = node[g].context
    BY <2>1, <2>3
  <2>8. /\ first2[g] # g /\ node[g].body \in {0, first2[g]}
        /\ ~auto => node[g].zombie /\ node[g].body = first2[g]
        /\ auto /\ ~LeftDone(g)' => node[g].body = 0
        /\ threw = {} /\ LeftDone(g)' => node[g].body = first2[g]
        /\ node[g].zombie \/ LeftDone(g)' \/ task'[g].status = "spawned"
             \/ (threw # {} /\ RightDone(g)')
    BY <2>1, <2>5 DEF NodeBody, is_cancelled
  <2>. QED
    BY <2>1, <2>2, <2>6, <2>7, <2>8, <1>2 DEF NodeBody, is_cancelled
<1>13. NodeBody(right, hi2, first2)'
  <2>1. Covers(first2[right], right, hi2[right], hi2)'
    BY <1>4, <1>5, <1>7 DEF Covers
  <2>2. /\ side = "root" => b = 1
        /\ side = "left" => b = first2[q]
        /\ side = "right" => b = Second(q, first2)'
    <3>1. side = "left" => q # right /\ q \in Terms /\ b = first[q]
      <4>1. side = "left" => q \in Terms /\ Open(q)
        BY <1>1, TaskShape
      <4>2. side = "left" => b = first[q]
        BY <1>4 DEF TaskBody
      <4>. QED
        BY <4>1, <4>2, <1>3
    <3>2. side = "right" => q = s /\ b = Second(s, first)
      BY <1>1, <1>4, TaskShape DEF TaskBody, Started
    <3>3. Second(s, first2)' = Second(s, first)
      BY <1>1, <1>5, TermsAre DEF Second
    <3>4. side = "right" => Second(q, first2)' = Second(s, first2)'
      BY <3>2 DEF Second
    <3>. QED
      BY <3>1, <3>2, <3>3, <3>4, <1>4, <1>5 DEF TaskBody
  <2>3. ~LeftDone(right)' /\ b # 0
    BY <1>3, <1>4, TermsAre DEF LeftDone
  <2>. QED
    BY <2>1, <2>2, <2>3, <1>1, <1>2, <1>5, <1>7 DEF NodeBody
<1>14. ASSUME NEW g \in Terms, Holds(g)'
       PROVE  /\ Holds(g) /\ g # right /\ first2[g] = first[g]
              /\ (RightDone(g)' <=> RightDone(g))
  <2>1. Open(g)' /\ LeftDone(g)' /\ g # right
    BY <1>3, <1>14 DEF Holds, LeftDone
  <2>2. Open(g)
    BY <2>1, <1>3, TermsAre
  <2>. QED
    BY <2>1, <2>2, <1>5, <1>11, <1>14 DEF Holds
<1>15. Apart(first2)'
  <2>1. \A t \in Terms : Started(t)' => Started(t) /\ task'[t].body = task[t].body
    BY <1>1 DEF Started
  <2>. QED
    BY <2>1, <1>14 DEF Apart, BodiesFit
<1>. QED
  BY <1>5, <1>8, <1>9, <1>10, <1>12, <1>13, <1>14, <1>15 DEF BodiesFit

----------------------------------------------------------------------------
(* The adjoints are zero whenever a user function runs *)

LEMMA AdjointsEnter ==
  ASSUME Types, NEW hi, NEW first, Bodies(hi, first), NEW s \in Terms,
         task[s].status = "balance", task'[s].status = "function",
         task'[s].body = task[s].body, \A t \in Terms : t # s => task'[t] = task[t],
         adj' = [adj EXCEPT ![task[s].body] = << >>]
  PROVE  AdjointsReset'
<1>1. task[s].body \in Terms
  BY TaskBodyFacts DEF Bodies, Active
<1>2. \A b \in Terms : adj[b] = << >> => adj'[b] = << >>
  BY <1>1 DEF Types
<1>3. adj'[task[s].body] = << >>
  BY <1>1 DEF Types
<1>. SUFFICES ASSUME NEW t \in Terms, InFunction(t)'
              PROVE  adj'[task'[t].body] = << >>
  BY DEF AdjointsReset
<1>4. CASE t = s
  BY <1>3, <1>4
<1>5. CASE t # s
  <2>1. InFunction(t) /\ task'[t] = task[t] /\ Active(t)
    BY <1>5 DEF InFunction, Active
  <2>2. task[t].body \in Terms
    BY <2>1, TaskBodyFacts DEF Bodies
  <2>. QED
    BY <2>1, <2>2, <1>2 DEF Bodies, AdjointsReset
<1>. QED
  BY <1>4, <1>5

LEMMA AdjointsReturns ==
  ASSUME Types, NEW hi, NEW first, Bodies(hi, first), NEW s \in Terms,
         InFunction(s), task'[s].status = "balance", NEW q,
         \A t \in Terms : t # s => task'[t] = task[t],
         adj' = [adj EXCEPT ![task[s].body] = q]
  PROVE  AdjointsReset'
<1>. SUFFICES ASSUME NEW t \in Terms, InFunction(t)'
              PROVE  adj'[task'[t].body] = << >>
  BY DEF AdjointsReset
<1>1. t # s /\ InFunction(t) /\ task'[t] = task[t]
  BY DEF InFunction
<1>2. Started(t) /\ Started(s) /\ Active(t)
  BY <1>1 DEF Started, Active, InFunction
<1>3. task[t].body # task[s].body /\ task[t].body \in Terms
  BY <1>1, <1>2, TaskBodyFacts DEF Bodies, BodiesFit, Apart
<1>. QED
  BY <1>1, <1>3 DEF Bodies, AdjointsReset, Types
----------------------------------------------------------------------------
(* What the bodies have accumulated *)

LEMMA HasSame ==
  ASSUME NEW c, NEW u, sum_'[c] = sum_[c], args_adjoints_'[c] = args_adjoints_[c]
  PROVE  Has(c, u)' <=> Has(c, u)
BY DEF Has

LEMMA TodoSame ==
  ASSUME NEW i, \A t \in Terms : /\ Active(t)' <=> Active(t)
                                 /\ Active(t) => /\ Upto(t)' = Upto(t)
                                                 /\ task'[t].cuts[1] = task[t].cuts[1]
  PROVE  Todo(i)' <=> Todo(i)
BY DEF Todo

\* A task starts with nothing but the terms before it.
LEMMA StartsExact ==
  ASSUME Types, NEW lo, NEW hi, Shape(lo, hi), NEW first, BodiesFit(hi, first),
         Exact(hi, first), NEW th \in Threads, NEW s \in Terms, Take(th, s)
  PROVE  Has(task'[s].body, s)
<1>1. /\ task[s].status = "spawned"
      /\ task[s].context = "right" /\ node[s].body = 0 => task'[s].body = s
      /\ ~(task[s].context = "right" /\ node[s].body = 0) => task'[s].body = task[s].body
  BY TakeKeeps
<1>2. CASE task[s].context # "right"
  <2>1. s = 1 /\ task[s].context = "root" /\ Active(s)
    BY <1>1, <1>2, Spawned
  <2>2. task[s].body = 1
    BY <2>1 DEF BodiesFit, TaskBody
  <2>. QED
    BY <2>1, <2>2, <1>1, <1>2 DEF Exact
<1>3. CASE task[s].context = "right"
  <2>1. /\ Open(s) /\ s # 1 /\ ~RightDone(s)
        /\ auto => task[s].body = first[s] /\ ~node[s].zombie
        /\ ~auto => task[s].body = s /\ node[s].zombie /\ node[s].body # 0
        /\ auto /\ node[s].body # 0 => Holds(s)
    BY <1>1, <1>3, SpawnedBody
  <2>2. CASE ~auto
    BY <2>1, <2>2, <1>1 DEF Exact
  <2>3. CASE auto /\ node[s].body = 0
    BY <2>1, <2>3, <1>1, <1>3 DEF Exact
  <2>4. CASE auto /\ node[s].body # 0
    BY <2>1, <2>4, <1>1 DEF Exact
  <2>. QED
    BY <2>2, <2>3, <2>4
<1>. QED
  BY <1>2, <1>3

LEMMA TakeExact ==
  ASSUME Types, NEW lo, NEW hi, Shape(lo, hi), NEW first, BodiesFit(hi, first),
         Exact(hi, first), NEW th \in Threads, NEW s \in Terms, Take(th, s)
  PROVE  Exact(hi, first)'
<1>1. /\ task[s].status = "spawned" /\ task'[s].status = "balance"
      /\ task'[s].cuts = task[s].cuts
      /\ \A t \in Terms : t # s => task'[t] = task[t]
      /\ \A g \in 0 .. NumTerms : g # s => node'[g] = node[g]
      /\ task[s].context = "right" /\ node[s].body = 0 => node'[s].zombie
      /\ ~(task[s].context = "right" /\ node[s].body = 0) => node'[s] = node[s]
  BY TakeKeeps
<1>2. /\ \A t \in Terms : /\ Active(t)' <=> Active(t)
                          /\ Started(t)' <=> Started(t) \/ t = s
                          /\ Active(t) => Upto(t)' = Upto(t)
      /\ \A g \in 0 .. NumTerms : /\ Open(g)' <=> Open(g)
                                  /\ node[g].zombie => node'[g].zombie
      /\ \A p, side : Busy(p, side)' <=> Busy(p, side)
      /\ bodies' = bodies
  BY TakeSame
<1>3. \A g \in Terms : RightDone(g)' <=> RightDone(g)
  BY <1>2 DEF RightDone
<1>4. sum_' = sum_ /\ args_adjoints_' = args_adjoints_ /\ partials' = partials
  BY <1>2 DEF bodies
<1>5. \A c, u : Has(c, u)' <=> Has(c, u)
  BY <1>4, HasSame
<1>6. task[s].cuts[1] = s
  BY <1>1 DEF Exact
<1>7. ASSUME NEW t \in Terms, Started(t)'
      PROVE  Has(task[t].body, task[t].cuts[1])'
  <2>1. CASE t = s
    <3>1. Has(task'[s].body, s)
      BY StartsExact
    <3>2. PICK c : c = task'[s].body
      OBVIOUS
    <3>3. Has(c, s)'
      BY <3>1, <3>2, <1>5
    <3>. QED
      BY <2>1, <3>2, <3>3, <1>1, <1>6 DEF Has
  <2>2. CASE t # s
    <3>1. Started(t) /\ task'[t] = task[t]
      BY <2>2, <1>1, <1>2, <1>7
    <3>. QED
      BY <3>1, <1>4 DEF Exact, Has
  <2>. QED
    BY <2>1, <2>2
<1>8. \A t \in Terms : task'[t].status = "spawned" =>
        task[t].status = "spawned" /\ task'[t].cuts[1] = t /\ t # s
  BY <1>1 DEF Exact
<1>9. ASSUME NEW g \in Terms, Holds(g)'
      PROVE  Has(first[g], IF ~node[g].zombie /\ RightDone(g) THEN hi[g] ELSE g)'
  <2>1. Holds(g) /\ node'[g].zombie = node[g].zombie
    BY <1>9, TakeHolder
  <2>2. PICK u : u = IF ~node[g].zombie /\ RightDone(g) THEN hi[g] ELSE g
    OBVIOUS
  <2>3. Has(first[g], u)'
    BY <2>1, <2>2, <1>5 DEF Exact
  <2>4. u = IF ~node'[g].zombie /\ RightDone(g)' THEN hi[g] ELSE g
    BY <2>1, <2>2, <1>3
  <2>. QED
    BY <2>3, <2>4 DEF Has
<1>10. ASSUME NEW g \in Terms, Open(g)', node'[g].zombie, RightDone(g)'
       PROVE  Has(g, hi[g])'
  <2>1. Open(g) /\ RightDone(g)
    BY <1>2, <1>3, <1>10, TermsAre
  <2>2. g # s
    <3>. SUFFICES ASSUME g = s
                  PROVE  FALSE
      OBVIOUS
    <3>. QED
      BY <2>1, <1>1, Spawned, TermsAre
  <2>. QED
    BY <2>1, <2>2, <1>1, <1>5, <1>10, TermsAre DEF Exact
<1>11. ASSUME NEW g \in Terms, Open(g)', node'[g].zombie, task'[g].status = "spawned"
       PROVE  Has(g, g)'
  BY <1>1, <1>2, <1>5, <1>8, <1>11, TermsAre DEF Exact
<1>12. ASSUME NEW g \in Terms \ {1}, ~node'[g].zombie
       PROVE  Has(g, g)'
  BY <1>2, <1>5, <1>12, TermsAre DEF Exact
<1>13. task'[1].status = "spawned" => Has(1, 1)'
  BY <1>5, <1>8, TermsAre DEF Exact
<1>14. RootDone' => Has(1, End)'
  BY <1>2, <1>5 DEF RootDone, Exact
<1>15. \A i \in Terms : partials'[i] = IF Todo(i)' THEN 0 ELSE 1
  <2>1. \A t \in Terms : task'[t].cuts = task[t].cuts
    BY <1>1
  <2>2. \A i \in Terms : Todo(i)' <=> Todo(i)
    BY <2>1, <1>2, TodoSame
  <2>. QED
    BY <2>2, <1>4 DEF Exact
<1>. QED
  BY <1>7, <1>8, <1>9, <1>10, <1>11, <1>12, <1>13, <1>14, <1>15 DEF Exact

\* A step that accumulates nothing and begins and completes no task.
LEMMA ExactKept ==
  ASSUME Types, NEW hi, NEW first, Exact(hi, first), Kept,
         \A g \in 0 .. NumTerms : node'[g] = node[g],
         \A t \in Terms : /\ task'[t].body = task[t].body
                          /\ task'[t].status = "spawned" <=> task[t].status = "spawned"
                          /\ task'[t].cuts[1] = task[t].cuts[1],
         sum_' = sum_, args_adjoints_' = args_adjoints_, partials' = partials
  PROVE  Exact(hi, first)'
<1>1. \A t \in Terms : /\ Active(t)' <=> Active(t)
                       /\ Started(t)' <=> Started(t)
                       /\ Active(t) => Upto(t)' = Upto(t)
  BY DEF Kept, Started, Active
<1>2. \A g \in Terms : /\ Open(g)' <=> Open(g)
                       /\ node'[g] = node[g]
  BY TermsAre DEF Open
<1>3. \A p, side : Busy(p, side)' <=> Busy(p, side)
  BY KeptBusy
<1>4. \A g \in Terms : (RightDone(g)' <=> RightDone(g)) /\ (Holds(g)' <=> Holds(g))
  BY <1>2, <1>3 DEF LeftDone, RightDone, Holds
<1>5. \A c, u : Has(c, u)' <=> Has(c, u)
  BY HasSame
<1>6. ASSUME NEW t \in Terms, Started(t)'
      PROVE  Has(task[t].body, task[t].cuts[1])'
  BY <1>1, <1>6 DEF Exact, Has
<1>7. ASSUME NEW g \in Terms, Holds(g)'
      PROVE  Has(first[g], IF ~node[g].zombie /\ RightDone(g) THEN hi[g] ELSE g)'
  <2>1. PICK u : u = IF ~node[g].zombie /\ RightDone(g) THEN hi[g] ELSE g
    OBVIOUS
  <2>2. Has(first[g], u)'
    BY <2>1, <1>4, <1>5, <1>7 DEF Exact
  <2>3. u = IF ~node'[g].zombie /\ RightDone(g)' THEN hi[g] ELSE g
    BY <2>1, <1>2, <1>4
  <2>. QED
    BY <2>2, <2>3 DEF Has
<1>8. /\ \A t \in Terms : task'[t].status = "spawned" => task'[t].cuts[1] = t
      /\ \A g \in Terms : Open(g)' /\ node'[g].zombie /\ RightDone(g)' => Has(g, hi[g])'
      /\ \A g \in Terms : Open(g)' /\ node'[g].zombie /\ task'[g].status = "spawned"
           => Has(g, g)'
      /\ \A g \in Terms \ {1} : ~node'[g].zombie => Has(g, g)'
      /\ task'[1].status = "spawned" => Has(1, 1)'
  BY <1>2, <1>4, <1>5, TermsAre DEF Exact
<1>9. RootDone' => Has(1, End)'
  BY <1>3, <1>5 DEF RootDone, Exact
<1>10. \A i \in Terms : partials'[i] = IF Todo(i)' THEN 0 ELSE 1
  <2>1. \A i \in Terms : Todo(i)' <=> Todo(i)
    BY <1>1, TodoSame
  <2>. QED
    BY <2>1 DEF Exact
<1>. QED
  BY <1>6, <1>7, <1>8, <1>9, <1>10 DEF Exact
LEMMA FirstCut ==
  ASSUME NEW c \in Seq(1 .. End), c # << >>, Ascending(c)
  PROVE  c[1] \in 1 .. End /\ Last(c) \in 1 .. End /\ c[1] <= Last(c)
<1>1. /\ c[1] \in 1 .. End /\ Last(c) \in 1 .. End /\ Last(c) = c[Len(c)]
      /\ Len(c) \in Nat /\ Len(c) >= 1
  BY SeqFacts
<1>2. Len(c) > 1 => c[1] < c[Len(c)]
  BY <1>1 DEF Ascending
<1>. QED
  BY <1>1, <1>2, TermsAre

LEMMA OfferExact ==
  ASSUME Types, Types', NEW lo, NEW hi, Shape(lo, hi), NEW first, BodiesFit(hi, first),
         Exact(hi, first), NEW s \in Terms, NEW right \in Terms, OffersBody(s, right),
         NEW hi2, \A g \in Terms : hi2[g] = IF g = right THEN Upto(s) ELSE hi[g],
         NEW first2 \in [Terms -> Terms],
         \A g \in Terms : first2[g] = IF g = right THEN task[s].body ELSE first[g]
  PROVE  Exact(hi2, first2)'
<1>. PICK b, e : b = task[s].body /\ e = Upto(s)
  OBVIOUS
<1>1. /\ Offers(s, right) /\ Started(s) /\ Active(s) /\ task'[s].status = task[s].status
      /\ s < right /\ right < e /\ task'[s].body = b
      /\ task'[s].cuts[1] = task[s].cuts[1]
      /\ \A t \in Terms : t # s /\ t # right => task'[t] = task[t]
      /\ Upto(s)' = right
      /\ task'[right].status = "spawned" /\ task'[right].cuts[1] = right
      /\ Upto(right)' = e
      /\ \A g \in 0 .. NumTerms : g # right => node'[g] = node[g]
  BY DEF OffersBody, Offers, Started, Active
<1>2. sum_' = sum_ /\ args_adjoints_' = args_adjoints_ /\ partials' = partials
  BY DEF OffersBody, bodies
<1>3. /\ node[right] = NoNode /\ ~Active(right)
      /\ \A t \in Terms : Active(t)' <=> Active(t) \/ t = right
      /\ \A g \in 0 .. NumTerms : Open(g)' <=> Open(g) \/ g = right
      /\ \A p, x : p # right => (Busy(p, x)' <=> Busy(p, x))
      /\ Busy(right, "left")' /\ Busy(right, "right")'
  BY <1>1, OffersBusy
<1>4. \A g \in Terms : Holds(g)' => /\ Holds(g) /\ g # right /\ first2[g] = first[g]
                                    /\ (RightDone(g)' <=> RightDone(g))
  BY OfferBodies
<1>5. \A c, u : Has(c, u)' <=> Has(c, u)
  BY <1>2, HasSame
<1>6. /\ s \in Nat /\ right \in Nat /\ right # 0 /\ right # 1
      /\ \A g \in Terms : g # right => hi2[g] = hi[g]
  <2>1. s \in Nat /\ right \in Nat /\ 1 <= s
    BY TermsAre
  <2>. QED
    BY <2>1, <1>1 DEF Shape
<1>7. ASSUME NEW t \in Terms, Started(t)'
      PROVE  Has(task[t].body, task[t].cuts[1])'
  <2>1. t # right
    BY <1>1, <1>7 DEF Started
  <2>2. Started(t) /\ task'[t].body = task[t].body /\ task'[t].cuts[1] = task[t].cuts[1]
    BY <2>1, <1>1, <1>7 DEF Started
  <2>. QED
    BY <2>2, <1>2 DEF Exact, Has
<1>8. \A t \in Terms : task'[t].status = "spawned" =>
        task'[t].cuts[1] = t /\ (t # right => task[t].status = "spawned")
  <2>1. task[s].status # "spawned"
    BY <1>1 DEF Started
  <2>. QED
    BY <2>1, <1>1 DEF Exact
<1>9. ASSUME NEW g \in Terms, Holds(g)'
      PROVE  Has(first2[g], IF ~node[g].zombie /\ RightDone(g) THEN hi2[g] ELSE g)'
  <2>1. /\ Holds(g) /\ first2[g] = first[g] /\ (RightDone(g)' <=> RightDone(g))
        /\ node'[g] = node[g] /\ hi2[g] = hi[g]
    BY <1>1, <1>4, <1>6, <1>9, TermsAre
  <2>2. PICK u : u = IF ~node[g].zombie /\ RightDone(g) THEN hi[g] ELSE g
    OBVIOUS
  <2>3. Has(first2[g], u)'
    BY <2>1, <2>2, <1>5 DEF Exact
  <2>4. u = IF ~node'[g].zombie /\ RightDone(g)' THEN hi2[g] ELSE g
    BY <2>1, <2>2
  <2>. QED
    BY <2>3, <2>4 DEF Has
<1>10. ASSUME NEW g \in Terms, Open(g)', node'[g].zombie, RightDone(g)'
       PROVE  Has(g, hi2[g])'
  <2>1. g # right
    BY <1>3, <1>10 DEF RightDone
  <2>2. Open(g) /\ RightDone(g) /\ node[g].zombie /\ hi2[g] = hi[g]
    BY <2>1, <1>1, <1>3, <1>6, <1>10, TermsAre DEF RightDone
  <2>. QED
    BY <2>2, <1>5 DEF Exact
<1>11. ASSUME NEW g \in Terms \ {1}, ~node'[g].zombie \/ g = right
       PROVE  Has(g, g)'
  <2>1. ~node[g].zombie
    <3>1. CASE g = right
      BY <3>1, <1>3 DEF NoNode
    <3>2. CASE g # right
      BY <3>2, <1>1, <1>11, TermsAre
    <3>. QED
      BY <3>1, <3>2
  <2>. QED
    BY <2>1, <1>5 DEF Exact
<1>12. ASSUME NEW g \in Terms, Open(g)', node'[g].zombie, task'[g].status = "spawned"
       PROVE  Has(g, g)'
  <2>1. CASE g = right
    BY <2>1, <1>6, <1>11
  <2>2. CASE g # right
    <3>1. /\ Open(g) /\ node'[g] = node[g] /\ task[g].status = "spawned"
      BY <2>2, <1>1, <1>3, <1>8, <1>12, TermsAre
    <3>2. Has(g, g)
      BY <3>1, <1>12 DEF Exact
    <3>. QED
      BY <3>2, <1>5
  <2>. QED
    BY <2>1, <2>2
<1>13. task'[1].status = "spawned" => Has(1, 1)'
  BY <1>5, <1>6, <1>8, TermsAre DEF Exact
<1>14. RootDone' => Has(1, End)'
  <2>1. Busy(0, "root")' <=> Busy(0, "root")
    BY <1>3, <1>6
  <2>. QED
    BY <2>1, <1>5 DEF RootDone, Exact
<1>15. ASSUME NEW i \in Terms
       PROVE  Todo(i)' <=> Todo(i)
  <2>0. i \in Nat /\ e \in 1 .. End /\ End \in Nat
    BY <1>1, TaskShape, TermsAre
  <2>1. \A t \in Terms : t # s /\ t # right =>
          ((Active(t)' <=> Active(t)) /\ task'[t] = task[t] /\ Upto(t)' = Upto(t))
    BY <1>1, <1>3 DEF Upto
  <2>2. task[s].cuts[1] \in 1 .. End
    BY <1>1, CutsFacts, TaskShape
  <2>3. Active(s)' /\ Active(right)'
    BY <1>1, <1>3
  <2>6. task[s].cuts[1] <= right
    <3>1. task'[s].cuts \in Seq(1 .. End)
      BY DEF Types, Task
    <3>2. /\ task'[s].cuts # << >> /\ Ascending(task'[s].cuts)
          /\ Last(task'[s].cuts) = right
      BY <1>1 DEF Offers, CutsFit, Ascending, Upto
    <3>. QED
      BY <3>1, <3>2, <1>1, FirstCut
  <2>4. Todo(i)' => Todo(i)
    <3>. SUFFICES ASSUME NEW t \in Terms, Active(t)', task'[t].cuts[1] <= i, i < Upto(t)'
                  PROVE  Todo(i)
      BY DEF Todo
    <3>0. task[s].cuts[1] \in Nat /\ e \in Nat
      BY <2>0, <2>2
    <3>1. CASE t = s \/ t = right
      <4>1. task[s].cuts[1] <= i /\ i < e
        BY <3>0, <3>1, <2>0, <2>6, <1>1, <1>6
      <4>. QED
        BY <4>1, <1>1 DEF Todo
    <3>2. CASE t # s /\ t # right
      BY <3>2, <2>1 DEF Todo
    <3>. QED
      BY <3>1, <3>2
  <2>5. Todo(i) => Todo(i)'
    BY <2>0, <2>1, <2>2, <2>3, <1>1, <1>3, <1>6 DEF Todo
  <2>. QED
    BY <2>4, <2>5
<1>16. \A i \in Terms : partials'[i] = IF Todo(i)' THEN 0 ELSE 1
  BY <1>2, <1>15 DEF Exact
<1>. QED
  BY <1>7, <1>8, <1>9, <1>10, <1>11, <1>12, <1>13, <1>14, <1>16 DEF Exact
\* The ranges of two tasks are apart.
LEMMA RangesApart ==
  ASSUME Types, NEW lo, NEW hi, Shape(lo, hi), NEW s \in Terms, NEW t \in Terms,
         Active(s), Active(t), NEW i \in Terms, s <= i, i < Upto(s), t <= i, i < Upto(t)
  PROVE  s = t
<1>1. /\ s \in Nat /\ t \in Nat /\ i \in Nat /\ Upto(s) \in 1 .. End /\ Upto(t) \in 1 .. End
      /\ End \in Nat
  BY TaskShape, TermsAre
<1>2. ~(s < t)
  BY <1>1, Inside
<1>3. ~(t < s)
  BY <1>1, Inside
<1>. QED
  BY <1>1, <1>2, <1>3

LEMMA ReturnsSums ==
  ASSUME Types, NEW lo, NEW hi, Shape(lo, hi), NEW first, Bodies(hi, first),
         Exact(hi, first), NEW s \in Terms, NEW from, NEW upto, Returns(s, from, upto)
  PROVE  /\ Has(task[s].body, upto)'
         /\ \A c \in Terms : \A u : c # task[s].body => (Has(c, u)' <=> Has(c, u))
<1>. PICK b : b = task[s].body
  OBVIOUS
<1>1. /\ Active(s) /\ Started(s) /\ InFunction(s)
      /\ from \in 1 .. End /\ upto \in 1 .. End /\ s <= from /\ from < upto
      /\ from = task[s].cuts[1]
  BY DEF Returns, InFunction, Active, Started
<1>2. b \in Terms /\ b <= s
  <2>1. b \in Terms /\ (b # 1 => b <= s)
    BY <1>1, TaskBodyFacts DEF Bodies
  <2>2. s \in Nat /\ 1 <= s
    BY TermsAre
  <2>. QED
    BY <2>1, <2>2
<1>3. b \in Int /\ from \in Int /\ upto \in Int /\ b <= from /\ from <= upto
  <2>1. b \in Nat /\ s \in Nat /\ from \in Nat /\ upto \in Nat
    BY <1>1, <1>2, TermsAre
  <2>. QED
    BY <2>1, <1>1, <1>2
<1>4. sum_[b] = Interval(b, from) /\ args_adjoints_[b] = Interval(b, from) /\ adj[b] = << >>
  BY <1>1 DEF Exact, Has, Bodies, AdjointsReset
<1>5. /\ adj' = [adj EXCEPT ![b] = @ \o Interval(from, upto)]
      /\ sum_' = [sum_ EXCEPT ![b] = @ \o Interval(from, upto)]
      /\ args_adjoints_' = [args_adjoints_ EXCEPT ![b] = @ \o adj'[b]]
  BY DEF Returns
<1>6. Interval(from, upto) \in Seq(Int)
  BY <1>3, IntervalFacts
<1>7. adj'[b] = Interval(from, upto)
  <2>1. adj'[b] = << >> \o Interval(from, upto)
    BY <1>2, <1>4, <1>5 DEF Types
  <2>. QED
    BY <2>1, <1>6
<1>8. /\ sum_'[b] = Interval(b, from) \o Interval(from, upto)
      /\ args_adjoints_'[b] = Interval(b, from) \o Interval(from, upto)
  BY <1>2, <1>4, <1>5, <1>7 DEF Types
<1>9. Interval(b, from) \o Interval(from, upto) = Interval(b, upto)
  BY <1>3, IntervalsJoin
<1>10. Has(b, upto)'
  BY <1>8, <1>9 DEF Has
<1>11. ASSUME NEW c \in Terms, NEW u, c # b
       PROVE  Has(c, u)' <=> Has(c, u)
  <2>1. sum_'[c] = sum_[c] /\ args_adjoints_'[c] = args_adjoints_[c]
    BY <1>5, <1>11 DEF Types
  <2>. QED
    BY <2>1, HasSame
<1>12. Has(task[s].body, upto)'
  <2>1. task'[s].body = b
    BY DEF Returns
  <2>. QED
    BY <2>1, <1>10 DEF Has
<1>. QED
  BY <1>11, <1>12

LEMMA ReturnsExact ==
  ASSUME Types, NEW lo, NEW hi, Shape(lo, hi), NEW first, Bodies(hi, first),
         Exact(hi, first), NEW s \in Terms, NEW from, NEW upto, Returns(s, from, upto),
         \A g \in 0 .. NumTerms : node'[g] = node[g]
  PROVE  Exact(hi, first)'
<1>. PICK b : b = task[s].body
  OBVIOUS
<1>1. /\ Active(s) /\ Started(s) /\ task'[s].status = "balance" /\ task'[s].body = b
      /\ InFunction(s)
      /\ from \in 1 .. End /\ upto \in 1 .. End /\ s <= from /\ from < upto /\ upto <= Upto(s)
      /\ from = task[s].cuts[1] /\ upto = task'[s].cuts[1]
      /\ \A t \in Terms : t # s => task'[t] = task[t]
      /\ Kept
  BY DEF Returns, InFunction, Active, Started
<1>2. /\ Has(b, upto)'
      /\ \A c \in Terms : \A u : c # b => (Has(c, u)' <=> Has(c, u))
  <2>1. /\ Has(task[s].body, upto)'
        /\ \A c \in Terms : \A u : c # task[s].body => (Has(c, u)' <=> Has(c, u))
    BY ReturnsSums
  <2>. QED
    BY <2>1, <1>1 DEF Has
<1>3. /\ \A t \in Terms : /\ Active(t)' <=> Active(t)
                          /\ Started(t)' <=> Started(t)
                          /\ task'[t].status = "spawned" <=> task[t].status = "spawned"
                          /\ Active(t) => Upto(t)' = Upto(t)
      /\ \A p, side : Busy(p, side)' <=> Busy(p, side)
  <2>1. \A t \in Terms : task'[t].status = "spawned" <=> task[t].status = "spawned"
    BY <1>1 DEF InFunction
  <2>2. \A p, side : Busy(p, side)' <=> Busy(p, side)
    BY <1>1, KeptBusy
  <2>3. \A t \in Terms : /\ Active(t)' <=> Active(t)
                         /\ Active(t) => Upto(t)' = Upto(t)
    BY <1>1 DEF Kept
  <2>. QED
    BY <2>1, <2>2, <2>3 DEF Started, Active
<1>4. \A g \in Terms : /\ node'[g] = node[g] /\ (Open(g)' <=> Open(g))
                       /\ (RightDone(g)' <=> RightDone(g)) /\ (Holds(g)' <=> Holds(g))
  BY <1>3, TermsAre DEF LeftDone, RightDone, Holds, Open
<1>5. b \in Terms /\ (b # 1 => node[b].zombie) /\ BodiesFit(hi, first)
  BY <1>1, TaskBodyFacts DEF Bodies
<1>6. ASSUME NEW t \in Terms, Started(t)'
      PROVE  Has(task[t].body, task[t].cuts[1])'
  <2>1. CASE t = s
    BY <2>1, <1>1, <1>2 DEF Has
  <2>2. CASE t # s
    <3>1. PICK c, u : c = task[t].body /\ u = task[t].cuts[1]
      OBVIOUS
    <3>2. Started(t) /\ Active(t) /\ task'[t] = task[t]
      BY <2>2, <1>1, <1>3, <1>6 DEF Started, Active
    <3>3. c \in Terms /\ c # b
      <4>1. c \in Terms
        BY <3>1, <3>2, <1>5, TaskBodyFacts
      <4>2. Apart(first)
        BY <1>5 DEF BodiesFit
      <4>. QED
        BY <4>1, <4>2, <2>2, <3>1, <3>2, <1>1 DEF Apart
    <3>4. Has(c, u)'
      BY <3>1, <3>2, <3>3, <1>2 DEF Exact
    <3>. QED
      BY <3>1, <3>2, <3>4 DEF Has
  <2>. QED
    BY <2>1, <2>2
<1>7. \A t \in Terms : task'[t].status = "spawned" =>
        t # s /\ task[t].status = "spawned" /\ task'[t].cuts[1] = t
  BY <1>1, <1>3 DEF Exact, InFunction
<1>8. ASSUME NEW g \in Terms, Holds(g)'
      PROVE  Has(first[g], IF ~node[g].zombie /\ RightDone(g) THEN hi[g] ELSE g)'
  <2>1. Holds(g) /\ first[g] \in Terms /\ first[g] # b
    BY <1>1, <1>4, <1>5, <1>8 DEF BodiesFit, Apart
  <2>2. PICK u : u = IF ~node[g].zombie /\ RightDone(g) THEN hi[g] ELSE g
    OBVIOUS
  <2>3. Has(first[g], u)'
    BY <2>1, <2>2, <1>2 DEF Exact
  <2>4. u = IF ~node'[g].zombie /\ RightDone(g)' THEN hi[g] ELSE g
    BY <2>2, <1>4
  <2>. QED
    BY <2>3, <2>4 DEF Has
<1>9. ASSUME NEW g \in Terms, Open(g)', node'[g].zombie, RightDone(g)'
      PROVE  Has(g, hi[g])'
  <2>1. Open(g) /\ node[g].zombie /\ RightDone(g)
    BY <1>4, <1>9
  <2>2. g # b
    BY <2>1, <1>1, <1>5, ZombieUnused
  <2>. QED
    BY <2>1, <2>2, <1>2 DEF Exact
<1>10. ASSUME NEW g \in Terms, Open(g)', node'[g].zombie, task'[g].status = "spawned"
       PROVE  Has(g, g)'
  <2>1. Open(g) /\ node[g].zombie /\ task[g].status = "spawned" /\ g # s
    BY <1>4, <1>7, <1>10
  <2>2. g # 1
    BY <2>1, NodeShape
  <2>3. g # b
    BY <2>1, <2>2, <1>1, <1>5, SpawnedUnused
  <2>. QED
    BY <2>1, <2>3, <1>2 DEF Exact
<1>11. ASSUME NEW g \in Terms \ {1}, ~node'[g].zombie
       PROVE  Has(g, g)'
  BY <1>2, <1>4, <1>5, <1>11 DEF Exact
<1>12. task'[1].status # "spawned"
  <2>. SUFFICES ASSUME task[1].status = "spawned"
                PROVE  FALSE
    BY <1>3, TermsAre
  <2>1. s # 1
    BY <1>1 DEF InFunction
  <2>. QED
    BY <2>1, <1>1, Spawned, TermsAre
<1>13. ~RootDone'
  <2>1. ~RootDone
    BY <1>1, NothingLeft
  <2>. QED
    BY <2>1, <1>3 DEF RootDone
<1>14. ASSUME NEW i \in Terms
       PROVE  partials'[i] = IF Todo(i)' THEN 0 ELSE 1
  <2>0. /\ s \in Nat /\ from \in Nat /\ upto \in Nat /\ i \in Nat
        /\ Upto(s) \in Nat /\ from \in Terms
    <3>1. Upto(s) \in 1 .. End
      BY <1>1, TaskShape
    <3>2. s \in Nat /\ i \in Nat /\ End \in Nat /\ Terms = 1 .. End - 1
      BY TermsAre
    <3>. QED
      BY <3>1, <3>2, <1>1
  <2>1. ToSet(Interval(from, upto)) = from .. upto - 1
    BY <2>0, <1>1, IntervalIn
  <2>2. partials'[i] = partials[i] + (IF i \in from .. upto - 1 THEN 1 ELSE 0)
    BY <2>1 DEF Returns
  <2>3. \A t \in Terms : t # s => ((Active(t)' <=> Active(t)) /\ task'[t] = task[t]
                                   /\ Upto(t)' = Upto(t))
    BY <1>1, <1>3 DEF Upto
  <2>4. partials[i] = IF Todo(i) THEN 0 ELSE 1
    BY DEF Exact
  <2>5. CASE i \in from .. upto - 1
    <3>1. Todo(i)
      BY <2>0, <2>5, <1>1 DEF Todo
    <3>2. ASSUME Todo(i)'
          PROVE  FALSE
      <4>1. PICK t \in Terms : Active(t)' /\ task'[t].cuts[1] <= i /\ i < Upto(t)'
        BY <3>2 DEF Todo
      <4>2. t # s
        BY <4>1, <2>0, <2>5, <1>1
      <4>3. Active(t) /\ task[t].cuts[1] <= i /\ i < Upto(t)
        BY <4>1, <4>2, <2>3
      <4>4. task[t].cuts[1] \in 1 .. End /\ t <= task[t].cuts[1]
        BY <4>3, TaskShape, CutsFacts
      <4>5. t <= i
        BY <4>3, <4>4, <2>0, TermsAre
      <4>6. s <= i /\ i < Upto(s)
        BY <2>0, <2>5, <1>1
      <4>. QED
        BY <4>2, <4>3, <4>5, <4>6, <1>1, RangesApart
    <3>. QED
      BY <3>1, <3>2, <2>2, <2>4, <2>5
  <2>6. CASE i \notin from .. upto - 1
    <3>1. Todo(i)' <=> Todo(i)
      <4>1. Todo(i)' => Todo(i)
        <5>. SUFFICES ASSUME NEW t \in Terms, Active(t)', task'[t].cuts[1] <= i,
                             i < Upto(t)'
                      PROVE  Todo(i)
          BY DEF Todo
        <5>. QED
          BY <2>0, <2>3, <1>1, <1>3 DEF Todo
      <4>2. Todo(i) => Todo(i)'
        <5>. SUFFICES ASSUME NEW t \in Terms, Active(t), task[t].cuts[1] <= i, i < Upto(t)
                      PROVE  Todo(i)'
          BY DEF Todo
        <5>1. Active(t)' /\ i < Upto(t)'
          BY <1>3
        <5>2. task'[t].cuts[1] <= i
          BY <2>0, <2>3, <2>6, <1>1
        <5>. QED
          BY <5>1, <5>2 DEF Todo
      <4>. QED
        BY <4>1, <4>2
    <3>. QED
      BY <3>1, <2>2, <2>4, <2>6
  <2>. QED
    BY <2>5, <2>6
<1>. QED
  BY <1>6, <1>7, <1>8, <1>9, <1>10, <1>11, <1>12, <1>13, <1>14 DEF Exact
\* A task completes after all of its ranges.
LEMMA TaskEndsExact ==
  ASSUME Types, NEW lo, NEW hi, Shape(lo, hi), NEW first, BodiesFit(hi, first),
         Exact(hi, first), NEW s \in Terms, TaskGoes(s), threw' = {}
  PROVE  Exact(hi, first)'
<1>. PICK b, p, side : b = task[s].body /\ p = task[s].parent /\ side = task[s].context
  OBVIOUS
<1>1. /\ TaskEnds(s) /\ Active(s) /\ Started(s) /\ ~is_cancelled
      /\ task'[s].status = "done" /\ Len(task[s].cuts) = 1
      /\ \A t \in Terms : t # s => task'[t] = task[t]
      /\ \A g \in 0 .. NumTerms : SameNode(g) /\ node'[g].zombie = node[g].zombie
      /\ sum_' = sum_ /\ args_adjoints_' = args_adjoints_ /\ partials' = partials
  BY DEF TaskGoes, TaskEnds, is_cancelled, bodies
<1>2. /\ \A q, x : Busy(q, x)' <=> Busy(q, x) /\ ~(q = p /\ x = side)
      /\ \A t \in Terms : Active(t)' <=> Active(t) /\ t # s
      /\ \A g \in 0 .. NumTerms : Open(g)' <=> Open(g)
  BY <1>1, TaskEndsBusy
<1>3. \A c, u : Has(c, u)' <=> Has(c, u)
  BY <1>1, HasSame
<1>4. /\ task[s].cuts[1] = Upto(s) /\ Has(b, Upto(s)) /\ Upto(s) \in 1 .. End
      /\ TaskBody(s, hi, first)
  BY <1>1, TaskShape, CutsFacts DEF Exact, BodiesFit
<1>4a. side = "right" => p = s /\ Upto(s) = hi[s]
  <2>1. TaskFits(s, lo, hi)
    BY <1>1 DEF Shape
  <2>. QED
    BY <2>1 DEF TaskFits
<1>5. \A g \in Terms : RightDone(g)' <=> RightDone(g) \/ (g = p /\ side = "right")
  BY <1>2 DEF RightDone
<1>6. ASSUME NEW t \in Terms, Started(t)'
      PROVE  Has(task[t].body, task[t].cuts[1])'
  <2>1. Started(t) /\ task'[t] = task[t]
    BY <1>1, <1>6 DEF Started
  <2>. QED
    BY <2>1, <1>1 DEF Exact, Has
<1>7. \A t \in Terms : task'[t].status = "spawned" =>
        t # s /\ task[t].status = "spawned" /\ task'[t].cuts[1] = t
  BY <1>1 DEF Exact
<1>8. ASSUME NEW g \in Terms, Holds(g)'
      PROVE  Has(first[g], IF ~node[g].zombie /\ RightDone(g) THEN hi[g] ELSE g)'
  <2>. PICK u, v : /\ u = IF ~node[g].zombie /\ RightDone(g) THEN hi[g] ELSE g
                   /\ v = IF ~node'[g].zombie /\ RightDone(g)' THEN hi[g] ELSE g
    OBVIOUS
  <2>1. node'[g].zombie = node[g].zombie
    BY <1>1, TermsAre
  <2>2. Has(first[g], v)
    <3>1. CASE Holds(g)
      <4>1. Has(first[g], u)
        BY <3>1 DEF Exact
      <4>2. u = v
        <5>. SUFFICES ASSUME ~node[g].zombie, g = p, side = "right", ~RightDone(g)
                      PROVE  FALSE
          BY <2>1, <1>5
        <5>1. task[g].status = "spawned" /\ p = s
          BY <3>1, <1>1, TaskShape DEF Holds
        <5>. QED
          BY <5>1, <1>1 DEF Started
      <4>. QED
        BY <4>1, <4>2
    <3>2. CASE ~Holds(g)
      <4>1. /\ g = p /\ first[g] = b /\ side \in {"left", "right"}
            /\ side = "left" => ~LeftDone(g)
            /\ side = "right" => ~node[g].zombie /\ g = s
        BY <3>2, <1>8, TaskEndsHolder
      <4>2. CASE side = "left"
        <5>1. Upto(s) = g /\ Open(g)
          BY <4>1, <4>2, <1>1, TaskShape
        <5>2. NodeBody(g, hi, first)
          BY <5>1 DEF BodiesFit
        <5>3. node[g].zombie \/ task[g].status = "spawned"
          BY <5>2, <4>1, <4>2, <1>1 DEF NodeBody
        <5>4. ~node[g].zombie => ~RightDone(g)'
          BY <5>1, <5>3, <4>2, <1>5, Spawned, TermsAre
        <5>. QED
          BY <5>1, <5>4, <4>1, <2>1, <1>4
      <4>3. CASE side = "right"
        <5>1. v = hi[g] /\ Upto(s) = hi[g]
          BY <4>1, <4>3, <2>1, <1>4a, <1>5
        <5>. QED
          BY <5>1, <4>1, <1>4
      <4>. QED
        BY <4>1, <4>2, <4>3
    <3>. QED
      BY <3>1, <3>2
  <2>3. Has(first[g], v)'
    BY <2>2, <1>3
  <2>. QED
    BY <2>3 DEF Has
<1>9. ASSUME NEW g \in Terms, Open(g)', node'[g].zombie, RightDone(g)'
      PROVE  Has(g, hi[g])'
  <2>1. Open(g) /\ node[g].zombie
    BY <1>1, <1>2, <1>9, TermsAre
  <2>2. Has(g, hi[g])
    <3>1. CASE RightDone(g)
      BY <2>1, <3>1 DEF Exact
    <3>2. CASE ~RightDone(g)
      <4>1. g = p /\ side = "right"
        BY <3>2, <1>5, <1>9
      <4>2. p = s /\ Upto(s) = hi[s]
        BY <4>1, <1>4a
      <4>3. b = s
        BY <4>1, <4>2, <2>1, <1>1, <1>4 DEF TaskBody, Second, Started
      <4>. QED
        BY <4>1, <4>2, <4>3, <1>4
    <3>. QED
      BY <3>1, <3>2
  <2>. QED
    BY <2>2, <1>3
<1>10. ASSUME NEW g \in Terms, Open(g)', node'[g].zombie, task'[g].status = "spawned"
       PROVE  Has(g, g)'
  BY <1>1, <1>2, <1>3, <1>7, <1>10, TermsAre DEF Exact
<1>11. ASSUME NEW g \in Terms \ {1}, ~node'[g].zombie
       PROVE  Has(g, g)'
  BY <1>1, <1>3, <1>11, TermsAre DEF Exact
<1>12. task'[1].status = "spawned" => Has(1, 1)'
  BY <1>3, <1>7, TermsAre DEF Exact
<1>13. ASSUME RootDone'
       PROVE  Has(1, End)'
  <2>1. ~RootDone
    BY <1>1, NothingLeft
  <2>2. side = "root"
    BY <2>1, <1>2, <1>13 DEF RootDone
  <2>3. b = 1 /\ Upto(s) = End
    BY <2>2, <1>1, <1>4, TaskShape DEF TaskBody
  <2>. QED
    BY <2>3, <1>3, <1>4
<1>14. ASSUME NEW i \in Terms
       PROVE  partials'[i] = IF Todo(i)' THEN 0 ELSE 1
  <2>1. \A t \in Terms : t # s => (task'[t] = task[t] /\ Upto(t)' = Upto(t))
    BY <1>1 DEF Upto
  <2>2. ~(task[s].cuts[1] <= i /\ i < Upto(s))
    BY <1>4, TermsAre
  <2>3. Todo(i)' <=> Todo(i)
    BY <2>1, <2>2, <1>2 DEF Todo
  <2>. QED
    BY <2>3, <1>1 DEF Exact
<1>. QED
  BY <1>6, <1>7, <1>8, <1>9, <1>10, <1>11, <1>12, <1>13, <1>14 DEF Exact

\* A finish task leaves in the body on its left what was accumulated below it.
LEMMA NodeEndsSums ==
  ASSUME Types, NEW lo, NEW hi, Shape(lo, hi), NEW first, BodiesFit(hi, first),
         Exact(hi, first), NEW f \in Terms, NodeGoes(f), ~is_cancelled
  PROVE  /\ Has(first[f], hi[f])'
         /\ \A c \in Terms : \A u : c # first[f] => (Has(c, u)' <=> Has(c, u))
<1>. PICK b : b = first[f]
  OBVIOUS
<1>1. Open(f) /\ LeftDone(f) /\ RightDone(f) /\ Holds(f)
  BY EndedHolds
<1>2. NodeBody(f, hi, first) /\ node[f].body = b /\ b \in Terms /\ b # f
  BY <1>1, TermsAre DEF BodiesFit, NodeBody
<1>3. IF node[f].zombie
      THEN /\ sum_' = [sum_ EXCEPT ![b] = @ \o sum_[f]]
           /\ args_adjoints_' = [args_adjoints_ EXCEPT ![b] = @ \o args_adjoints_[f]]
      ELSE sum_' = sum_ /\ args_adjoints_' = args_adjoints_
  BY <1>2 DEF NodeGoes, Joined
<1>4. Has(b, hi[f])'
  <2>1. CASE ~node[f].zombie
    <3>1. Has(b, hi[f])
      BY <2>1, <1>1 DEF Exact
    <3>. QED
      BY <2>1, <3>1, <1>3, HasSame
  <2>2. CASE node[f].zombie
    <3>1. Has(b, f) /\ Has(f, hi[f])
      BY <2>2, <1>1 DEF Exact
    <3>2. /\ sum_'[b] = Interval(b, f) \o Interval(f, hi[f])
          /\ args_adjoints_'[b] = Interval(b, f) \o Interval(f, hi[f])
      <4>1. DOMAIN sum_ = Terms /\ DOMAIN args_adjoints_ = Terms
        BY DEF Types
      <4>2. /\ sum_'[b] = sum_[b] \o sum_[f]
            /\ args_adjoints_'[b] = args_adjoints_[b] \o args_adjoints_[f]
        BY <2>2, <4>1, <1>2, <1>3
      <4>. QED
        BY <3>1, <4>2 DEF Has
    <3>3. b \in Int /\ f \in Int /\ hi[f] \in Int /\ b <= f /\ f <= hi[f]
      <4>1. f \in Nat /\ 1 <= f /\ b \in Nat
        BY <1>2, TermsAre
      <4>2. b <= f
        BY <4>1, <1>1, <1>2, NodeBodyFacts
      <4>3. hi[f] \in 1 .. End /\ f < hi[f]
        BY <1>1, NodeShape
      <4>. QED
        BY <4>1, <4>2, <4>3, TermsAre
    <3>4. Interval(b, f) \o Interval(f, hi[f]) = Interval(b, hi[f])
      BY <3>3, IntervalsJoin
    <3>. QED
      BY <3>2, <3>4 DEF Has
  <2>. QED
    BY <2>1, <2>2
<1>5. ASSUME NEW c \in Terms, NEW u, c # b
      PROVE  Has(c, u)' <=> Has(c, u)
  <2>1. sum_'[c] = sum_[c] /\ args_adjoints_'[c] = args_adjoints_[c]
    BY <1>2, <1>3, <1>5 DEF Types
  <2>. QED
    BY <2>1, HasSame
<1>. QED
  BY <1>4, <1>5 DEF Has

LEMMA NodeEndsExact ==
  ASSUME Types, NEW lo, NEW hi, Shape(lo, hi), NEW first, BodiesFit(hi, first),
         Exact(hi, first), NEW f \in Terms, NodeGoes(f), ~is_cancelled
  PROVE  Exact(hi, first)'
<1>. PICK b, p, side : b = first[f] /\ p = node[f].parent /\ side = node[f].context
  OBVIOUS
<1>1. /\ NodeEnds(f) /\ Open(f) /\ LeftDone(f) /\ RightDone(f) /\ Holds(f)
      /\ task' = task /\ partials' = partials
      /\ \A g \in 0 .. NumTerms : node'[g].zombie = node[g].zombie
  BY EndedHolds DEF NodeGoes, NodeEnds
<1>2. /\ \A q, x : Busy(q, x)' <=> Busy(q, x) /\ ~(q = p /\ x = side)
      /\ \A t \in Terms : Active(t)' <=> Active(t)
      /\ \A g \in 0 .. NumTerms : Open(g)' <=> Open(g) /\ g # f
  BY <1>1, NodeEndsBusy
<1>3. /\ Has(b, hi[f])'
      /\ \A c \in Terms : \A u : c # b => (Has(c, u)' <=> Has(c, u))
      /\ b \in Terms
  BY <1>1, NodeEndsSums, NodeBodyFacts
<1>4. NodeBody(f, hi, first) /\ (b # 1 => node[b].zombie)
  BY <1>1, NodeBodyFacts
<1>4a. /\ side = "root" => hi[f] = End
       /\ side = "left" => Open(p) /\ hi[f] = p
       /\ side = "right" => hi[f] = hi[p]
  <2>1. NodeFits(f, lo, hi)
    BY <1>1 DEF Shape
  <2>. QED
    BY <2>1 DEF NodeFits
<1>5. \A g \in Terms : RightDone(g)' <=> RightDone(g) \/ (g = p /\ side = "right")
  BY <1>2 DEF RightDone
<1>6. ASSUME NEW t \in Terms, Started(t)'
      PROVE  Has(task[t].body, task[t].cuts[1])'
  <2>1. PICK c, u : c = task[t].body /\ u = task[t].cuts[1]
    OBVIOUS
  <2>2. Started(t) /\ Active(t) /\ task'[t] = task[t]
    BY <1>1, <1>6 DEF Started, Active
  <2>3. c \in Terms
    BY <2>1, <2>2, TaskBodyFacts
  <2>4. c # b
    BY <2>1, <2>2, <1>1 DEF BodiesFit, Apart
  <2>5. Has(c, u)'
    BY <2>1, <2>2, <2>3, <2>4, <1>3 DEF Exact
  <2>. QED
    BY <2>1, <2>2, <2>5 DEF Has
<1>7. \A t \in Terms : task'[t].status = "spawned" =>
        task[t].status = "spawned" /\ task'[t].cuts[1] = t
  BY <1>1 DEF Exact
<1>8. ASSUME NEW g \in Terms, Holds(g)'
      PROVE  Has(first[g], IF ~node[g].zombie /\ RightDone(g) THEN hi[g] ELSE g)'
  <2>. PICK u, v : /\ u = IF ~node[g].zombie /\ RightDone(g) THEN hi[g] ELSE g
                   /\ v = IF ~node'[g].zombie /\ RightDone(g)' THEN hi[g] ELSE g
    OBVIOUS
  <2>1. node'[g].zombie = node[g].zombie
    BY <1>1, TermsAre
  <2>2. Has(first[g], v)'
    <3>1. CASE Holds(g)
      <4>1. Has(first[g], u) /\ Open(g) /\ g # f
        BY <3>1, <1>8, NodeEndsHolder DEF Exact, Holds
      <4>2. u = v
        <5>. SUFFICES ASSUME ~node[g].zombie, g = p, side = "right", ~RightDone(g)
                      PROVE  FALSE
          BY <2>1, <1>5
        <5>1. task[g].status = "spawned"
          BY <3>1 DEF Holds
        <5>2. Active(g) /\ task[g].parent = g /\ task[g].context = "right"
          BY <4>1, <5>1, Spawned, TermsAre
        <5>3. NodeAt(f, g, "right")
          BY <1>1 DEF NodeAt
        <5>. QED
          BY <5>2, <5>3, OnlyTask
      <4>3. first[g] # b /\ first[g] \in Terms
        BY <3>1, <4>1, <1>1 DEF BodiesFit, Apart
      <4>. QED
        BY <4>1, <4>2, <4>3, <1>3
    <3>2. CASE ~Holds(g)
      <4>1. /\ g = p /\ first[g] = b /\ side \in {"left", "right"}
            /\ side = "left" => ~LeftDone(g)
            /\ side = "right" => ~node[g].zombie
        BY <3>2, <1>8, NodeEndsHolder
      <4>2. CASE side = "left"
        <5>1. hi[f] = g /\ Open(g)
          BY <4>1, <4>2, <1>4a
        <5>2. NodeBody(g, hi, first)
          BY <5>1 DEF BodiesFit
        <5>3. node[g].zombie \/ task[g].status = "spawned"
          BY <5>2, <4>1, <4>2 DEF NodeBody
        <5>4. ~node[g].zombie => ~RightDone(g)'
          BY <5>1, <5>3, <4>2, <1>5, Spawned, TermsAre
        <5>5. v = hi[f]
          BY <5>1, <5>4, <2>1
        <5>. QED
          BY <5>5, <4>1, <1>3
      <4>3. CASE side = "right"
        <5>1. v = hi[g] /\ hi[f] = hi[g]
          BY <4>1, <4>3, <2>1, <1>4a, <1>5
        <5>. QED
          BY <5>1, <4>1, <1>3
      <4>. QED
        BY <4>1, <4>2, <4>3
    <3>. QED
      BY <3>1, <3>2
  <2>. QED
    BY <2>2 DEF Has
<1>9. ASSUME NEW g \in Terms, Open(g)', node'[g].zombie, RightDone(g)'
      PROVE  Has(g, hi[g])'
  <2>1. Open(g) /\ node[g].zombie /\ g # f
    BY <1>1, <1>2, <1>9, TermsAre
  <2>2. CASE RightDone(g)
    <3>1. b # g
      BY <2>1, <2>2, <1>1, ZombieUnused
    <3>. QED
      BY <2>1, <2>2, <3>1, <1>3 DEF Exact
  <2>3. CASE ~RightDone(g)
    <3>1. g = p /\ side = "right"
      BY <2>3, <1>5, <1>9
    <3>2. b = g
      BY <3>1, <2>1, <1>4 DEF NodeBody, Second
    <3>3. hi[f] = hi[g]
      BY <3>1, <1>4a
    <3>. QED
      BY <3>2, <3>3, <1>3
  <2>. QED
    BY <2>2, <2>3
<1>10. ASSUME NEW g \in Terms, Open(g)', node'[g].zombie, task'[g].status = "spawned"
       PROVE  Has(g, g)'
  <2>1. Open(g) /\ node[g].zombie /\ task[g].status = "spawned"
    BY <1>1, <1>2, <1>10, TermsAre
  <2>2. g # 1
    BY <2>1, NodeShape
  <2>3. b # g
    BY <2>1, <2>2, <1>1, SpawnedUnused
  <2>. QED
    BY <2>1, <2>3, <1>3 DEF Exact
<1>11. ASSUME NEW g \in Terms \ {1}, ~node'[g].zombie
       PROVE  Has(g, g)'
  BY <1>1, <1>3, <1>4, <1>11, TermsAre DEF Exact
<1>12. task'[1].status # "spawned"
  <2>. SUFFICES ASSUME task[1].status = "spawned"
                PROVE  FALSE
    BY <1>1
  <2>. QED
    BY <1>1, Spawned, TermsAre
<1>13. ASSUME RootDone'
       PROVE  Has(1, End)'
  <2>1. ~RootDone
    BY <1>1, NothingLeft
  <2>2. side = "root"
    BY <2>1, <1>2, <1>13 DEF RootDone
  <2>3. b = 1 /\ hi[f] = End
    BY <2>2, <1>4a, <1>4 DEF NodeBody
  <2>. QED
    BY <2>3, <1>3
<1>14. ASSUME NEW i \in Terms
       PROVE  partials'[i] = IF Todo(i)' THEN 0 ELSE 1
  <2>1. \A t \in Terms : task'[t] = task[t] /\ Upto(t)' = Upto(t)
    BY <1>1 DEF Upto
  <2>2. Todo(i)' <=> Todo(i)
    BY <2>1, <1>2, TodoSame
  <2>. QED
    BY <2>2, <1>1 DEF Exact
<1>. QED
  BY <1>6, <1>7, <1>8, <1>9, <1>10, <1>11, <1>12, <1>13, <1>14 DEF Exact
----------------------------------------------------------------------------
(* The invariant *)

LEMMA InitTypes == Init => Types /\ Stacks /\ ScopesMatchFunctions /\ Ended /\ Released
<1>. SUFFICES ASSUME Init
              PROVE  Types /\ Stacks /\ ScopesMatchFunctions /\ Ended /\ Released
  OBVIOUS
<1>1. <<1, NumTerms + 1>> \in Seq(1 .. End) /\ << >> \in Seq(1 .. End) /\ << >> \in Seq(Terms)
  BY TermsAre DEF End
<1>2. NoTask \in Task /\ [NoTask EXCEPT !.status = "spawned",
                                        !.cuts = <<1, NumTerms + 1>>, !.body = 1] \in Task
  <2>1. NoTask \in Task
    BY <1>1, TermsAre DEF NoTask, Task, Statuses, Sides
  <2>. QED
    BY <2>1, <1>1, TermsAre DEF NoTask, Task, Statuses, Sides
<1>3. task \in [Terms -> Task]
  BY <1>2 DEF Init
<1>4. NoNode \in Node /\ [NoNode EXCEPT !.refs = 1] \in Node
  <2>1. 0 \in 0 .. NumTerms
    BY TermsAre
  <2>2. NoNode \in Node
    BY <2>1 DEF NoNode, Node, Sides
  <2>3. ASSUME NEW n \in Node
        PROVE  [n EXCEPT !.refs = 1] \in Node
    BY DEF Node
  <2>4. [NoNode EXCEPT !.refs = 1] \in Node
    BY <2>2, <2>3
  <2>. QED
    BY <2>2, <2>4
<1>5. node \in [0 .. NumTerms -> Node]
  BY <1>4 DEF Init
<1>6. Types
  BY <1>1, <1>3, <1>5, ReduceSumAssumption DEF Types, Init
<1>7. \A s \in Terms : ~Started(s)
  BY DEF Init, NoTask, Started
<1>8. \A th \in Threads : running[th] = << >> /\ scopes[th] = << >> /\ Len(running[th]) = 0
  BY DEF Init
<1>9. running \in [Threads -> Seq(Terms)] /\ scopes \in [Threads -> Seq(Terms)]
  BY <1>1 DEF Init
<1>10. StackedAreStarted /\ StackedOnce
  BY <1>8 DEF StackedAreStarted, StackedOnce
<1>11. Stacks
  BY <1>7, <1>9, <1>10 DEF Stacks, StartedAreStacked
<1>12. ScopesMatchFunctions
  BY <1>8 DEF ScopesMatchFunctions
<1>13. Ended
  BY DEF Init, Ended
<1>14. Released
  BY TermsAre DEF Init, Released, NoNode
<1>. QED
  BY <1>6, <1>11, <1>12, <1>13, <1>14

LEMMA InitTree == Init => \E lo, hi, first : Tree(lo, hi, first)
<1>. SUFFICES ASSUME Init, NEW lo, NEW hi, NEW first,
                     lo = [g \in Terms |-> 1], hi = [g \in Terms |-> End],
                     first = [g \in Terms |-> 1]
              PROVE  Tree(lo, hi, first)
  OBVIOUS
<1>0. NumTerms \in Nat \ {0} /\ 1 \in Terms /\ End \in 1 .. End /\ 1 < End /\ 1 \in 1 .. End
  BY ReduceSumAssumption, TermsAre DEF End
<1>1. /\ task[1].status = "spawned" /\ task[1].cuts = <<1, End>> /\ task[1].body = 1
      /\ task[1].parent = 0 /\ task[1].context = "root"
      /\ \A t \in Terms : t # 1 => task[t].status = "none"
  BY <1>0 DEF Init, NoTask, End
<1>2. /\ \A g \in Terms : node[g] = NoNode /\ ~Open(g) /\ ~node[g].zombie
      /\ node[0].refs = 1
  BY TermsAre DEF Init, NoNode, Open
<1>3. /\ <<1, End>> \in Seq(1 .. End) /\ <<1, End>> # << >> /\ Len(<<1, End>>) = 2
      /\ Ascending(<<1, End>>) /\ <<1, End>>[1] = 1 /\ Last(<<1, End>>) = End
  BY <1>0, PairCuts
<1>4. /\ Active(1) /\ Upto(1) = End
      /\ \A t \in Terms : (Active(t) => t = 1) /\ ~Started(t)
  BY <1>1, <1>3 DEF Active, Started, Upto
<1>5. CutsFit(1)
  <2>1. task[1].cuts # << >> /\ 1 <= task[1].cuts[1] /\ Len(task[1].cuts) = 2
    BY <1>1, <1>3
  <2>2. Ascending(task[1].cuts)
    BY <1>1, <1>3
  <2>. QED
    BY <2>1, <2>2 DEF CutsFit
<1>6. TaskFits(1, lo, hi)
  <2>1. \A i \in Terms : 1 < i => task[i].status = "none"
    BY <1>1
  <2>. QED
    BY <2>1, <1>1, <1>4 DEF TaskFits
<1>7. ~RootDone
  BY <1>0, <1>1, <1>4 DEF RootDone, Busy, TaskAt
<1>8. Shape(lo, hi)
  <2>1. lo \in [Terms -> Terms] /\ hi \in [Terms -> 1 .. End]
    BY <1>0
  <2>2. node[0].refs = Count(Busy(0, "root"))
    BY <1>2, <1>7 DEF RootDone, Count
  <2>. QED
    BY <2>1, <2>2, <1>2, <1>4, <1>5, <1>6, <1>7 DEF Shape
<1>9. BodiesFit(hi, first)
  <2>1. TaskBody(1, hi, first)
    BY <1>1 DEF TaskBody, Covers
  <2>2. Apart(first)
    BY <1>2, <1>4 DEF Apart, Holds
  <2>3. first \in [Terms -> Terms]
    BY <1>0
  <2>. QED
    BY <2>1, <2>2, <2>3, <1>2, <1>4 DEF BodiesFit
<1>10. AdjointsReset
  BY <1>4 DEF AdjointsReset, InFunction, Started
<1>11. \A b \in Terms : Has(b, b)
  <2>. SUFFICES ASSUME NEW b \in Terms
                PROVE  Has(b, b)
    OBVIOUS
  <2>1. Interval(b, b) = << >>
    BY TermsAre, IntervalEmpty
  <2>. QED
    BY <2>1 DEF Init, Has
<1>12. \A i \in Terms : Todo(i)
  BY <1>0, <1>1, <1>3, <1>4, TermsAre DEF Todo
<1>13. Exact(hi, first)
  <2>1. \A s \in Terms : task[s].status = "spawned" => task[s].cuts[1] = s
    BY <1>1, <1>3
  <2>2. \A i \in Terms : partials[i] = IF Todo(i) THEN 0 ELSE 1
    BY <1>12 DEF Init
  <2>. QED
    BY <2>1, <2>2, <1>0, <1>2, <1>4, <1>7, <1>11 DEF Exact, Holds
<1>. QED
  BY <1>8, <1>9, <1>10, <1>13 DEF Tree, Bodies

\* A step of a thread, or of the scheduler, finds the call waiting.
LEMMA StillWaiting ==
  ASSUME Types, Stacks, Ended, NEW lo, NEW hi, Shape(lo, hi),
         (\E th \in Threads : Execute(th)) \/ Schedule
  PROVE  caller = "waiting" /\ caller' = caller
<1>1. ASSUME NEW th \in Threads, Execute(th)
      PROVE  ~RootDone /\ caller' = caller
  <2>1. running[th] # << >> /\ caller' = caller
    BY <1>1 DEF Execute, Split, Offer, EnterFunction, FunctionReturns, FunctionThrows, Complete
  <2>. QED
    BY <2>1, TopFacts, NothingLeft
<1>2. ASSUME NEW th \in Threads, NEW s \in Terms, Take(th, s) \/ Skip(s)
      PROVE  ~RootDone /\ caller' = caller
  <2>1. Active(s) /\ caller' = caller
    BY <1>2 DEF Take, Skip, Active
  <2>. QED
    BY <2>1, NothingLeft
<1>3. ASSUME NEW f \in Terms, Finish(f)
      PROVE  ~RootDone /\ caller' = caller
  <2>1. Open(f) /\ caller' = caller
    BY <1>3 DEF Finish, Open
  <2>. QED
    BY <2>1, NothingLeft
<1>4. Threads # {}
  BY ReduceSumAssumption
<1>5. ~RootDone /\ caller' = caller
  BY <1>1, <1>2, <1>3, <1>4 DEF Schedule
<1>. QED
  BY <1>5 DEF Ended

LEMMA EndedNext ==
  ASSUME Types, Stacks, Ended, NEW lo, NEW hi, Shape(lo, hi), Next
  PROVE  Ended'
<1>1. CASE (\E th \in Threads : Execute(th)) \/ Schedule
  BY <1>1, StillWaiting DEF Ended
<1>2. CASE Return
  <2>1. node[0].refs = 0 /\ task' = task /\ node' = node /\ threw' = threw
        /\ caller' = IF is_cancelled THEN "threw" ELSE "returned"
    BY <1>2 DEF Return
  <2>2. RootDone
    BY <2>1 DEF Shape, Count, RootDone
  <2>3. RootDone'
    BY <2>1, <2>2 DEF RootDone, Busy, TaskAt, NodeAt, Active, Open
  <2>. QED
    BY <2>1, <2>3 DEF Ended, is_cancelled
<1>. QED
  BY <1>1, <1>2 DEF Next
\* What a task's completion, an offer and a finish task leave of the counts that are zero.
LEMMA ReleasedTaskEnds ==
  ASSUME Types, Released, NEW lo, NEW hi, Shape(lo, hi), NEW s \in Terms, TaskEnds(s)
  PROVE  Released'
<1>1. /\ \A g \in 0 .. NumTerms : Open(g)' <=> Open(g)
      /\ \A g \in 0 .. NumTerms : g # task[s].parent => node'[g] = node[g]
  BY TaskEndsBusy DEF TaskEnds
<1>2. task[s].parent \in Terms => Open(task[s].parent)
  <2>1. TaskFits(s, lo, hi) /\ task[s].context \in Sides
    BY TaskFacts DEF Shape, TaskEnds
  <2>. QED
    BY <2>1, TermsAre DEF TaskFits, Sides
<1>. QED
  BY <1>1, <1>2, TermsAre DEF Released

LEMMA ReleasedFinish ==
  ASSUME Types, Released, NEW lo, NEW hi, Shape(lo, hi), NEW f \in Terms, Finish(f)
  PROVE  Released'
<1>. DEFINE p == node[f].parent
            told == IF node[f].context = "left" /\ ~is_cancelled
                    THEN [node EXCEPT ![p].body = node[f].body] ELSE node
            m == Release(told, p)
<1>1. NodeEnds(f) /\ Open(f) /\ node[f].refs = 0
  BY FinishEnds DEF NodeGoes, NodeEnds, Finish
<1>2. /\ \A g \in 0 .. NumTerms : Open(g)' <=> Open(g) /\ g # f
      /\ \A g \in 0 .. NumTerms : g # f /\ g # p => node'[g] = node[g]
  BY <1>1, NodeEndsBusy DEF NodeEnds
<1>3. (p \in Terms => Open(p)) /\ p # f
  <2>1. NodeFits(f, lo, hi) /\ node[f].context \in Sides
    BY <1>1, NodeFacts, TermsAre DEF Shape
  <2>2. p \in Terms => Open(p)
    BY <2>1, TermsAre DEF NodeFits, Sides
  <2>3. p # f
    <3>1. CASE node[f].context = "root"
      BY <3>1, <2>1, TermsAre DEF NodeFits
    <3>2. CASE node[f].context = "left"
      <4>1. hi[f] = p /\ f < hi[f]
        BY <3>2, <1>1, NodeShape
      <4>. QED
        BY <4>1, TermsAre
    <3>3. CASE node[f].context = "right"
      <4>1. lo[f] = p /\ lo[f] < f
        BY <3>3, <1>1, NodeShape
      <4>. QED
        BY <4>1, TermsAre
    <3>. QED
      BY <2>1, <3>1, <3>2, <3>3 DEF Sides
  <2>. QED
    BY <2>2, <2>3
<1>4. m[f] = node[f] /\ f \in DOMAIN m
  <2>1. told[f] = node[f] /\ DOMAIN told = 0 .. NumTerms /\ f \in 0 .. NumTerms
    BY <1>3, TermsAre DEF Types
  <2>. HIDE DEF told
  <2>. QED
    BY <2>1, <1>3 DEF Release
<1>5. node' = [m EXCEPT ![f].done = TRUE]
  BY DEF Finish
<1>. HIDE DEF m
<1>6. node'[f].refs = 0
  <2>1. node'[f] = [node[f] EXCEPT !.done = TRUE]
    BY <1>4, <1>5
  <2>2. node[f] \in Node
    BY TermsAre DEF Types
  <2>. QED
    BY <2>1, <2>2, <1>1 DEF Node
<1>. QED
  BY <1>1, <1>2, <1>3, <1>6, TermsAre DEF Released

LEMMA ReleasedKept ==
  ASSUME Released, Kept
  PROVE  Released'
BY TermsAre DEF Released, Kept, SameNode, Open

LEMMA ReleasedOffer ==
  ASSUME Types, Released, NEW lo, NEW hi, Shape(lo, hi), NEW s \in Terms,
         NEW right \in Terms, Offers(s, right)
  PROVE  Released'
BY OffersBusy, TermsAre DEF Released, Offers

----------------------------------------------------------------------------
(* The tree after a step *)

LEMMA TreeSplit ==
  ASSUME Types, Stacks, NEW lo, NEW hi, NEW first, Tree(lo, hi, first), Released,
         NEW th \in Threads, Split(th)
  PROVE  Tree(lo, hi, first)' /\ Released'
<1>1. Shape(lo, hi) /\ BodiesFit(hi, first) /\ AdjointsReset
  BY DEF Tree, Bodies
<1>2. PICK s \in Terms : /\ task[s].status = "balance" /\ task'[s].status = "balance"
                         /\ task'[s].cuts[1] = task[s].cuts[1]
                         /\ task'[s].body = task[s].body
                         /\ \A t \in Terms : t # s => task'[t] = task[t]
                         /\ Kept
  BY <1>1, SplitKeeps
<1>3. /\ node' = node /\ sum_' = sum_ /\ args_adjoints_' = args_adjoints_
      /\ partials' = partials /\ adj' = adj /\ auto' = auto /\ threw' = threw
  BY DEF Split, bodies
<1>4. \A t \in Terms : /\ task'[t].body = task[t].body
                       /\ task'[t].status = "spawned" <=> task[t].status = "spawned"
                       /\ task'[t].cuts[1] = task[t].cuts[1]
                       /\ InFunction(t)' => InFunction(t)
  BY <1>2 DEF InFunction
<1>5. Shape(lo, hi)' /\ Released'
  BY <1>1, <1>2, KeptShape, ReleasedKept
<1>6. BodiesFit(hi, first)'
  BY <1>1, <1>2, <1>3, <1>4, BodiesKept
<1>7. AdjointsReset'
  BY <1>1, <1>3, <1>4, AdjointsKept
<1>8. Exact(hi, first) => Exact(hi, first)'
  BY <1>1, <1>2, <1>3, <1>4, ExactKept
<1>. QED
  BY <1>3, <1>5, <1>6, <1>7, <1>8 DEF Tree, Bodies, is_cancelled

LEMMA TreeEnter ==
  ASSUME Types, Stacks, NEW lo, NEW hi, NEW first, Tree(lo, hi, first), Released,
         NEW th \in Threads, EnterFunction(th)
  PROVE  Tree(lo, hi, first)' /\ Released'
<1>1. Shape(lo, hi) /\ BodiesFit(hi, first) /\ Bodies(hi, first)
  BY DEF Tree, Bodies
<1>2. PICK s \in Terms : /\ task[s].status = "balance" /\ task'[s].status = "function"
                         /\ task'[s].cuts = task[s].cuts /\ task'[s].body = task[s].body
                         /\ \A t \in Terms : t # s => task'[t] = task[t]
                         /\ adj' = [adj EXCEPT ![task[s].body] = << >>]
                         /\ Kept
  BY <1>1, EnterKeeps
<1>3. /\ node' = node /\ sum_' = sum_ /\ args_adjoints_' = args_adjoints_
      /\ partials' = partials /\ auto' = auto /\ threw' = threw
  BY DEF EnterFunction
<1>4. \A t \in Terms : /\ task'[t].body = task[t].body
                       /\ task'[t].status = "spawned" <=> task[t].status = "spawned"
                       /\ task'[t].cuts[1] = task[t].cuts[1]
  BY <1>2
<1>5. Shape(lo, hi)' /\ Released'
  BY <1>1, <1>2, KeptShape, ReleasedKept
<1>6. BodiesFit(hi, first)'
  BY <1>1, <1>2, <1>3, <1>4, BodiesKept
<1>7. AdjointsReset'
  BY <1>1, <1>2, AdjointsEnter
<1>8. Exact(hi, first) => Exact(hi, first)'
  BY <1>1, <1>2, <1>3, <1>4, ExactKept
<1>. QED
  BY <1>1, <1>3, <1>5, <1>6, <1>7, <1>8 DEF Tree, Bodies, is_cancelled

LEMMA TreeReturns ==
  ASSUME Types, Stacks, NEW lo, NEW hi, NEW first, Tree(lo, hi, first), Released,
         NEW th \in Threads, FunctionReturns(th)
  PROVE  Tree(lo, hi, first)' /\ Released'
<1>1. Shape(lo, hi) /\ BodiesFit(hi, first) /\ Bodies(hi, first)
  BY DEF Tree, Bodies
<1>2. PICK s \in Terms : Returns(s, task[s].cuts[1], task'[s].cuts[1])
  BY <1>1, ReturnsKeeps
<1>3. PICK from, upto : from = task[s].cuts[1] /\ upto = task'[s].cuts[1]
  OBVIOUS
<1>4. Returns(s, from, upto)
  BY <1>2, <1>3
<1>5. /\ InFunction(s) /\ task'[s].status = "balance" /\ task'[s].body = task[s].body
      /\ \A t \in Terms : t # s => task'[t] = task[t]
      /\ adj' = [adj EXCEPT ![task[s].body] = @ \o Interval(from, upto)]
      /\ Kept
  BY <1>4 DEF Returns
<1>6. node' = node /\ auto' = auto /\ threw' = threw
  BY DEF FunctionReturns
<1>7. \A t \in Terms : /\ task'[t].body = task[t].body
                       /\ task'[t].status = "spawned" <=> task[t].status = "spawned"
  BY <1>5 DEF InFunction
<1>8. Shape(lo, hi)' /\ Released'
  BY <1>1, <1>5, KeptShape, ReleasedKept
<1>9. BodiesFit(hi, first)'
  BY <1>1, <1>5, <1>6, <1>7, BodiesKept
<1>10. AdjointsReset'
  <2>1. PICK q : adj' = [adj EXCEPT ![task[s].body] = q]
    BY <1>5
  <2>. QED
    BY <2>1, <1>1, <1>5, AdjointsReturns
<1>11. Exact(hi, first) => Exact(hi, first)'
  BY <1>1, <1>4, <1>6, ReturnsExact
<1>. QED
  BY <1>1, <1>6, <1>8, <1>9, <1>10, <1>11 DEF Tree, Bodies, is_cancelled

LEMMA TreeTaskGoes ==
  ASSUME Types, NEW lo, NEW hi, NEW first, Tree(lo, hi, first), Released,
         NEW s \in Terms, TaskGoes(s)
  PROVE  Tree(lo, hi, first)' /\ Released'
<1>1. Shape(lo, hi) /\ BodiesFit(hi, first) /\ AdjointsReset
  BY DEF Tree, Bodies
<1>2. /\ TaskEnds(s) /\ adj' = adj /\ threw \subseteq threw'
      /\ \A t \in Terms : InFunction(t)' => InFunction(t) /\ task'[t].body = task[t].body
  BY DEF TaskGoes, TaskEnds, bodies, InFunction
<1>3. Shape(lo, hi)' /\ Released'
  BY <1>1, <1>2, TaskEndsShape, ReleasedTaskEnds
<1>4. BodiesFit(hi, first)'
  BY <1>1, TaskEndsBodies
<1>5. AdjointsReset'
  BY <1>1, <1>2, AdjointsKept
<1>6. ASSUME threw' = {}
      PROVE  Exact(hi, first)'
  <2>1. Exact(hi, first)
    BY <1>2, <1>6 DEF Tree, is_cancelled
  <2>. QED
    BY <2>1, <1>1, <1>6, TaskEndsExact
<1>. QED
  BY <1>3, <1>4, <1>5, <1>6 DEF Tree, Bodies, is_cancelled

LEMMA TreeFinish ==
  ASSUME Types, NEW lo, NEW hi, NEW first, Tree(lo, hi, first), Released,
         NEW f \in Terms, Finish(f)
  PROVE  Tree(lo, hi, first)' /\ Released'
<1>1. Shape(lo, hi) /\ BodiesFit(hi, first) /\ AdjointsReset
  BY DEF Tree, Bodies
<1>2. NodeGoes(f)
  BY <1>1, FinishEnds
<1>3. /\ NodeEnds(f) /\ adj' = adj /\ threw' = threw
      /\ \A t \in Terms : InFunction(t)' => InFunction(t) /\ task'[t].body = task[t].body
  BY <1>2 DEF NodeGoes, NodeEnds, InFunction
<1>4. Shape(lo, hi)' /\ Released'
  BY <1>1, <1>3, NodeEndsShape, ReleasedFinish
<1>5. BodiesFit(hi, first)'
  BY <1>1, <1>2, NodeEndsBodies
<1>6. AdjointsReset'
  BY <1>1, <1>3, AdjointsKept
<1>7. ~is_cancelled => Exact(hi, first)'
  BY <1>1, <1>2, NodeEndsExact DEF Tree
<1>. QED
  BY <1>3, <1>4, <1>5, <1>6, <1>7 DEF Tree, Bodies, is_cancelled

LEMMA TreeTake ==
  ASSUME Types, NEW lo, NEW hi, NEW first, Tree(lo, hi, first), Released,
         NEW th \in Threads, NEW s \in Terms, Take(th, s)
  PROVE  Tree(lo, hi, first)' /\ Released'
<1>1. Shape(lo, hi) /\ BodiesFit(hi, first) /\ AdjointsReset
  BY DEF Tree, Bodies
<1>2. /\ task'[s].status = "balance" /\ Kept
      /\ \A t \in Terms : t # s => task'[t] = task[t]
  BY <1>1, TakeKeeps
<1>3. adj' = adj /\ threw' = threw
  BY DEF Take, bodies
<1>4. \A t \in Terms : InFunction(t)' => InFunction(t) /\ task'[t].body = task[t].body
  BY <1>2 DEF InFunction
<1>5. Shape(lo, hi)' /\ Released'
  BY <1>1, <1>2, KeptShape, ReleasedKept
<1>6. BodiesFit(hi, first)'
  BY <1>1, TakeBodies
<1>7. AdjointsReset'
  BY <1>1, <1>3, <1>4, AdjointsKept
<1>8. Exact(hi, first) => Exact(hi, first)'
  BY <1>1, TakeExact
<1>. QED
  BY <1>3, <1>5, <1>6, <1>7, <1>8 DEF Tree, Bodies, is_cancelled

LEMMA TreeOffer ==
  ASSUME Types, Types', Stacks, NEW lo, NEW hi, NEW first, Tree(lo, hi, first), Released,
         NEW th \in Threads, Offer(th)
  PROVE  (\E lo2, hi2, first2 : Tree(lo2, hi2, first2)') /\ Released'
<1>1. Shape(lo, hi) /\ BodiesFit(hi, first) /\ AdjointsReset
  BY DEF Tree, Bodies
<1>2. PICK s \in Terms, right \in Terms : OffersBody(s, right)
  BY <1>1, OfferOffers
<1>3. Offers(s, right) /\ adj' = adj /\ threw' = threw
  BY <1>2 DEF OffersBody, bodies
<1>4. PICK lo2, hi2, first2 : /\ lo2 = [lo EXCEPT ![right] = s]
                              /\ hi2 = [hi EXCEPT ![right] = Upto(s)]
                              /\ first2 = [first EXCEPT ![right] = task[s].body]
  OBVIOUS
<1>4a. /\ \A g \in Terms : hi2[g] = IF g = right THEN Upto(s) ELSE hi[g]
       /\ first2 \in [Terms -> Terms]
       /\ \A g \in Terms : first2[g] = IF g = right THEN task[s].body ELSE first[g]
  <2>1. hi \in [Terms -> 1 .. End] /\ first \in [Terms -> Terms]
    BY <1>1 DEF Shape, BodiesFit
  <2>2. task[s].body \in Terms
    BY <1>1, <1>3, TaskBodyFacts DEF Offers, Started, Active
  <2>. QED
    BY <2>1, <2>2, <1>4
<1>5. Shape(lo2, hi2)' /\ Released'
  BY <1>1, <1>3, <1>4, OffersShape, ReleasedOffer
<1>6. BodiesFit(hi2, first2)'
  BY <1>1, <1>2, <1>4a, OfferBodies
<1>7. AdjointsReset'
  <2>1. \A t \in Terms : InFunction(t)' => InFunction(t) /\ task'[t].body = task[t].body
    BY <1>3 DEF Offers, InFunction
  <2>. QED
    BY <2>1, <1>1, <1>3, AdjointsKept
<1>8. Exact(hi, first) => Exact(hi2, first2)'
  BY <1>1, <1>2, <1>4a, OfferExact
<1>9. Tree(lo2, hi2, first2)'
  BY <1>3, <1>5, <1>6, <1>7, <1>8 DEF Tree, Bodies, is_cancelled
<1>. QED
  BY <1>5, <1>9

LEMMA TreeReturn ==
  ASSUME Types, NEW lo, NEW hi, NEW first, Tree(lo, hi, first), Released,
         UNCHANGED <<auto, task, node, bodies, threw>>
  PROVE  Tree(lo, hi, first)' /\ Released'
<1>1. Shape(lo, hi) /\ BodiesFit(hi, first) /\ AdjointsReset
  BY DEF Tree, Bodies
<1>2. Kept
  BY <1>1, ReturnKeeps
<1>3. /\ node' = node /\ sum_' = sum_ /\ args_adjoints_' = args_adjoints_
      /\ partials' = partials /\ adj' = adj /\ auto' = auto /\ threw' = threw
      /\ \A t \in Terms : task'[t] = task[t]
  BY DEF bodies
<1>4. Shape(lo, hi)' /\ Released'
  BY <1>1, <1>2, KeptShape, ReleasedKept
<1>5. BodiesFit(hi, first)'
  BY <1>1, <1>2, <1>3, BodiesKept
<1>6. AdjointsReset'
  <2>1. \A t \in Terms : InFunction(t)' => InFunction(t) /\ task'[t].body = task[t].body
    BY <1>3 DEF InFunction
  <2>. QED
    BY <2>1, <1>1, <1>3, AdjointsKept
<1>7. Exact(hi, first) => Exact(hi, first)'
  BY <1>1, <1>2, <1>3, ExactKept
<1>. QED
  BY <1>3, <1>4, <1>5, <1>6, <1>7 DEF Tree, Bodies, is_cancelled
----------------------------------------------------------------------------
(* The theorems *)

LEMMA TreeNext ==
  ASSUME Types, Types', Stacks, NEW lo, NEW hi, NEW first, Tree(lo, hi, first), Released, Next
  PROVE  (\E lo2, hi2, first2 : Tree(lo2, hi2, first2)') /\ Released'
<1>. SUFFICES ASSUME ~(\E th \in Threads : Offer(th))
              PROVE  Tree(lo, hi, first)' /\ Released'
  BY TreeOffer
<1>1. Shape(lo, hi)
  BY DEF Tree
<1>2. ASSUME NEW th \in Threads, Complete(th) \/ FunctionThrows(th)
      PROVE  Tree(lo, hi, first)' /\ Released'
  <2>1. PICK s \in Terms : TaskGoes(s)
    BY <1>1, <1>2, CompleteEnds, ThrowsEnds
  <2>. QED
    BY <2>1, TreeTaskGoes
<1>3. ASSUME NEW s \in Terms, Skip(s)
      PROVE  Tree(lo, hi, first)' /\ Released'
  BY <1>3, SkipEnds, TreeTaskGoes
<1>4. CASE Return
  BY <1>4, TreeReturn DEF Return
<1>. QED
  BY <1>2, <1>3, <1>4, TreeSplit, TreeEnter, TreeReturns, TreeFinish, TreeTake
     DEF Next, Execute, Schedule

LEMMA InvInit == Init => ReduceInv
BY InitTypes, InitTree DEF ReduceInv

LEMMA InvNext == ReduceInv /\ [Next]_vars => ReduceInv'
<1>. SUFFICES ASSUME ReduceInv, [Next]_vars
              PROVE  ReduceInv'
  OBVIOUS
<1>1. Types /\ Stacks /\ ScopesMatchFunctions /\ Ended /\ Released
  BY DEF ReduceInv
<1>2. PICK lo, hi, first : Tree(lo, hi, first)
  BY DEF ReduceInv
<1>3. Shape(lo, hi) /\ Bodies(hi, first)
  BY <1>2 DEF Tree
<1>4. CASE Next
  <2>1. Types'
    BY <1>1, <1>3, <1>4, TypesNext
  <2>2. Stacks' /\ ScopesMatchFunctions'
    BY <1>1, <1>3, <1>4, ThreadsNext
  <2>3. Ended'
    BY <1>1, <1>3, <1>4, EndedNext
  <2>4. (\E lo2, hi2, first2 : Tree(lo2, hi2, first2)') /\ Released'
    BY <2>1, <1>1, <1>2, <1>4, TreeNext
  <2>. QED
    BY <2>1, <2>2, <2>3, <2>4 DEF ReduceInv
<1>5. CASE UNCHANGED vars
  <2>1. /\ UNCHANGED <<auto, task, node, bodies, threw>>
        /\ running' = running /\ scopes' = scopes /\ caller' = caller
    BY <1>5 DEF vars
  <2>2. Tree(lo, hi, first)' /\ Released'
    BY <2>1, <1>1, <1>2, TreeReturn
  <2>3. Types'
    BY <2>1, <1>1 DEF Types, bodies
  <2>4. Stacks' /\ ScopesMatchFunctions'
    <3>1. \A t \in Terms : (Started(t)' <=> Started(t)) /\ (InFunction(t)' <=> InFunction(t))
      BY <2>1 DEF Started, InFunction
    <3>. QED
      BY <3>1, <2>1, <1>1, ThreadsUnchanged
  <2>5. Ended'
    BY <2>1, <1>1 DEF Ended, RootDone, Busy, TaskAt, NodeAt, Active, Open, is_cancelled
  <2>. QED
    BY <2>2, <2>3, <2>4, <2>5 DEF ReduceInv
<1>. QED
  BY <1>4, <1>5

\* The tree of tasks and finish tasks, the bodies and what they have accumulated are as
\* the recursion of start_reduce and finish_reduce means them in every state.
THEOREM Invariant == Spec => []ReduceInv
<1>1. Init => ReduceInv
  BY InvInit
<1>2. ReduceInv /\ [Next]_vars => ReduceInv'
  BY InvNext
<1>. QED
  BY <1>1, <1>2, PTL DEF Spec

LEMMA TypeOKHolds == ReduceInv => ReduceTypeOK
<1>. SUFFICES ASSUME ReduceInv
              PROVE  ReduceTypeOK
  OBVIOUS
<1>1. Types /\ Stacks /\ Released
  BY DEF ReduceInv
<1>2. PICK lo, hi : Shape(lo, hi)
  BY DEF ReduceInv, Tree
<1>3. task \in [Terms -> Task] /\ node \in [0 .. NumTerms -> Node]
  BY <1>1 DEF Types
<1>4. \A b : Count(b) \in 0 .. 1
  BY DEF Count
<1>5. ASSUME NEW g \in 0 .. NumTerms
      PROVE  node[g].refs \in 0 .. 2
  <2>1. CASE g = 0
    BY <2>1, <1>2, <1>4 DEF Shape
  <2>2. CASE g \in Terms /\ Open(g)
    <3>1. node[g].refs = Count(Busy(g, "left")) + Count(Busy(g, "right"))
      BY <2>2, <1>2 DEF Shape, NodeCounts
    <3>2. Count(Busy(g, "left")) \in 0 .. 1 /\ Count(Busy(g, "right")) \in 0 .. 1
      BY <1>4
    <3>. QED
      BY <3>1, <3>2
  <2>3. CASE g \in Terms /\ ~Open(g)
    BY <2>3, <1>1 DEF Released
  <2>. QED
    BY <2>1, <2>2, <2>3, TermsAre DEF Terms
<1>6. node \in [0 .. NumTerms -> [refs : 0 .. 2, parent : 0 .. NumTerms, context : Sides,
                                  body : 0 .. NumTerms, zombie : BOOLEAN, done : BOOLEAN]]
  BY <1>3, <1>5 DEF Node
<1>7. ASSUME NEW s \in Terms
      PROVE  Started(s) <=> \E th \in Threads : s \in ToSet(running[th])
  <2>1. Started(s) => \E th \in Threads : s \in ToSet(running[th])
    <3>. SUFFICES ASSUME Started(s)
                  PROVE  \E th \in Threads : s \in ToSet(running[th])
      OBVIOUS
    <3>1. PICK th \in Threads, i \in Nat : i \in 1 .. Len(running[th]) /\ running[th][i] = s
      BY <1>1 DEF Stacks, StartedAreStacked
    <3>2. running[th] \in Seq(Terms)
      BY <1>1 DEF Stacks
    <3>3. i \in DOMAIN running[th]
      BY <3>1, <3>2
    <3>. QED
      BY <3>1, <3>3 DEF ToSet
  <2>2. ASSUME NEW th \in Threads, s \in ToSet(running[th])
        PROVE  Started(s)
    <3>1. running[th] \in Seq(Terms)
      BY <1>1 DEF Stacks
    <3>2. PICK i \in DOMAIN running[th] : running[th][i] = s
      BY <2>2 DEF ToSet
    <3>3. i \in Nat /\ i \in 1 .. Len(running[th])
      BY <3>1
    <3>. QED
      BY <3>2, <3>3, <1>1 DEF Stacks, StackedAreStarted
  <2>. QED
    BY <2>1, <2>2
<1>8. caller \in {"waiting", "returned", "threw"}
  BY <1>1 DEF Types
<1>. QED
  BY <1>3, <1>6, <1>7, <1>8 DEF ReduceTypeOK, Task, Statuses, Sides, Started, End

LEMMA ResultHolds == ReduceInv => ResultExact
<1>. SUFFICES ASSUME ReduceInv, caller = "returned"
              PROVE  /\ sum_[1] = [i \in Terms |-> i]
                     /\ args_adjoints_[1] = [i \in Terms |-> i]
                     /\ \A i \in Terms : partials[i] = 1
                     /\ threw = {}
  BY DEF ResultExact
<1>1. Types /\ RootDone /\ ~is_cancelled
  BY DEF ReduceInv, Ended
<1>2. PICK lo, hi, first : Tree(lo, hi, first)
  BY DEF ReduceInv
<1>3. Shape(lo, hi) /\ Exact(hi, first)
  BY <1>1, <1>2 DEF Tree
<1>4. Has(1, End) /\ \A i \in Terms : partials[i] = IF Todo(i) THEN 0 ELSE 1
  BY <1>1, <1>3 DEF Exact
<1>5. \A i \in Terms : ~Todo(i)
  BY <1>1, <1>3, NothingLeft DEF Todo
<1>6. Interval(1, End) = [i \in Terms |-> i]
  <2>1. End - 1 = NumTerms /\ \A i \in Terms : 1 + i - 1 = i
    BY TermsAre DEF End
  <2>. QED
    BY <2>1 DEF Interval, Terms
<1>. QED
  BY <1>1, <1>4, <1>5, <1>6 DEF Has, is_cancelled

LEMMA ApartHolds == ReduceInv => BodiesApart
<1>. SUFFICES ASSUME ReduceInv, NEW s \in Terms, InFunction(s)
              PROVE  /\ \A t \in Terms \ {s} : InFunction(t) => task[t].body # task[s].body
                     /\ \A f \in Terms : node[f].refs = 0 /\ ~node[f].done =>
                          task[s].body \notin {node[f].body, f}
  BY DEF BodiesApart
<1>1. PICK lo, hi, first : Tree(lo, hi, first)
  BY DEF ReduceInv
<1>2. Types /\ Shape(lo, hi) /\ BodiesFit(hi, first) /\ Started(s) /\ Active(s)
  BY <1>1 DEF ReduceInv, Tree, Bodies, InFunction, Started, Active
<1>3. ASSUME NEW t \in Terms \ {s}, InFunction(t)
      PROVE  task[t].body # task[s].body
  BY <1>2, <1>3 DEF BodiesFit, Apart, InFunction, Started
<1>4. ASSUME NEW f \in Terms, node[f].refs = 0, ~node[f].done
      PROVE  task[s].body \notin {node[f].body, f}
  <2>1. Open(f) /\ NodeCounts(f, lo, hi) /\ NodeBody(f, hi, first)
    BY <1>2, <1>4 DEF Open, Shape, BodiesFit
  <2>2. LeftDone(f) /\ RightDone(f)
    BY <2>1, <1>4 DEF NodeCounts, Count, LeftDone, RightDone
  <2>3. Holds(f)
    BY <2>1, <2>2 DEF Holds
  <2>4. task[s].body # f
    BY <2>1, <2>2, <1>2, ZombieUnused
  <2>5. task[s].body # first[f]
    BY <2>3, <1>2 DEF BodiesFit, Apart
  <2>6. task[s].body # 0
    BY <1>2, TaskBodyFacts, TermsAre
  <2>7. node[f].body \in {0, first[f]}
    BY <2>1 DEF NodeBody
  <2>. QED
    BY <2>4, <2>5, <2>6, <2>7
<1>. QED
  BY <1>3, <1>4

LEMMA AliveHolds == ReduceInv => BodiesAlive
<1>. SUFFICES ASSUME ReduceInv, NEW s \in Terms, Active(s)
              PROVE  /\ task[s].body = 1 => caller = "waiting"
                     /\ task[s].body # 1 => ~node[task[s].body].done
  BY DEF BodiesAlive, Active
<1>1. PICK lo, hi, first : Tree(lo, hi, first)
  BY DEF ReduceInv
<1>2. Types /\ Ended /\ Shape(lo, hi) /\ BodiesFit(hi, first)
  BY <1>1 DEF ReduceInv, Tree, Bodies
<1>3. ~RootDone
  BY <1>2, NothingLeft
<1>. QED
  BY <1>2, <1>3, TaskBodyFacts DEF Ended, Open

\* Types are kept by every step, no finish task is counted down too often, and a task that
\* was started is on the stack of a thread until it ends.
THEOREM TypesCorrect == Spec => []ReduceTypeOK
BY Invariant, TypeOKHolds, PTL

\* For any number of terms, any grain size, any number of threads and both partitioners,
\* however the ranges are split, offered, taken and joined: a call of reduce_sum that
\* returns has summed every term once, in order, with its messages and adjoints.
THEOREM ResultCorrect == Spec => []ResultExact
BY Invariant, ResultHolds, PTL

\* No two user functions use one recursive_reducer, and no join reads or writes one that is
\* in use: what a task and a finish task do to it needs no lock.
THEOREM BodiesStayApart == Spec => []BodiesApart
BY Invariant, ApartHolds, PTL

\* A recursive_reducer is not destroyed while a task that uses it is spawned or runs, also
\* after an exception has cancelled the group.
THEOREM BodiesStayAlive == Spec => []BodiesAlive
BY Invariant, AliveHolds, PTL

\* The nested autodiff scopes of a thread are those of the user functions it executes, also
\* when it runs one task inside another and when a user function throws.
THEOREM ScopesCorrect == Spec => []ScopesMatchFunctions
<1>1. ReduceInv => ScopesMatchFunctions
  BY DEF ReduceInv
<1>. QED
  BY <1>1, Invariant, PTL
============================================================================
