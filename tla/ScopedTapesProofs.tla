------------------------- MODULE ScopedTapesProofs -------------------------
(***************************************************************************)
(* Theorems about ScopedTapes, for any threads, scoped stacks and number    *)
(* of observers.  What one thread keeps is its pointer and its frames, so   *)
(* the first part speaks of a pointer p and a sequence of frames s alone:   *)
(* which tapes the thread can reach (Reach), which of them are scoped       *)
(* stacks (Local), and the one it had before any of them (Base).            *)
(***************************************************************************)
EXTENDS ScopedTapes, FiniteSetTheorems, TLAPS

Kind(s, k) == {i \in DOMAIN s : s[i].kind = k}

IsFirst(s, i) == i \in Kind(s, "scope") /\ \A j \in Kind(s, "scope") : i <= j
IsLast(s, i) == i \in Kind(s, "scope") /\ \A j \in Kind(s, "scope") : j <= i
Precedes(s, i, j) ==
  /\ i \in Kind(s, "scope") /\ i < j
  /\ \A k \in Kind(s, "scope") : k <= i \/ j <= k

Local(s) == {s[i].scope : i \in Kind(s, "scope")}
Reach(p, s) == {p} \cup {s[i].parent : i \in Kind(s, "scope")}

Base(p, s) ==
  IF Kind(s, "scope") # {}
  THEN LET first == CHOOSE i \in Kind(s, "scope") : \A j \in Kind(s, "scope") : i <= j
       IN s[first].parent
  ELSE p

\* The activations of a thread are linked: each saved the pointer to the scoped stack of
\* the one before, the first the thread's own tape, and the pointer is that of the last.
Linked(p, s) ==
  /\ Kind(s, "scope") # {} => \E i : IsFirst(s, i)
  /\ Kind(s, "scope") # {} => \E i : IsLast(s, i) /\ p = s[i].scope
  /\ \A j \in Kind(s, "scope") :
       IsFirst(s, j) \/ \E i : Precedes(s, i, j) /\ s[j].parent = s[i].scope
  /\ \A i, j \in Kind(s, "scope") : s[i].scope = s[j].scope => i = j
  /\ \A i \in Kind(s, "scope") : p # NoTape => s[i].parent # p
  /\ \A i, j \in Kind(s, "scope") :
       s[i].parent = s[j].parent /\ s[i].parent # NoTape => i = j
  /\ Reach(p, s) = Local(s) \cup {Base(p, s)}
  /\ Base(p, s) \in Storages \cup {NoTape}
  /\ \A i \in Kind(s, "scope"), j \in Kind(s, "user") : i < j => ~s[j].own

-----------------------------------------------------------------------------
(* One thread *)

LEMMA FrameFacts ==
  ASSUME NEW f \in Frame
  PROVE  /\ f.kind \in {"scope", "user", "observer"}
         /\ f.kind = "scope" => f.scope \in Scopes
                                /\ f.parent \in Scopes \cup Storages \cup {NoTape}
         /\ f.kind = "user" => f.own \in BOOLEAN
         /\ f.kind = "observer" => f.observer \in Observers
  BY DEF Frame

LEMMA Pushed ==
  ASSUME NEW s \in Seq(Frame), NEW f \in Frame
  PROVE  /\ Append(s, f) \in Seq(Frame)
         /\ Append(s, f) # << >>
         /\ \A i \in DOMAIN s : Append(s, f)[i] = s[i] /\ i < Len(s) + 1 /\ i \in Nat
         /\ Append(s, f)[Len(s) + 1] = f
         /\ DOMAIN Append(s, f) = DOMAIN s \cup {Len(s) + 1}
         /\ \A k : Kind(Append(s, f), k) =
                     Kind(s, k) \cup (IF f.kind = k THEN {Len(s) + 1} ELSE {})
<1>1. /\ Append(s, f) \in Seq(Frame) /\ Append(s, f) # << >>
      /\ Append(s, f)[Len(s) + 1] = f
  OBVIOUS
<1>2. DOMAIN Append(s, f) = DOMAIN s \cup {Len(s) + 1}
  OBVIOUS
<1>3. \A i \in DOMAIN s : Append(s, f)[i] = s[i] /\ i < Len(s) + 1 /\ i \in Nat
  OBVIOUS
<1>4. \A k : Kind(Append(s, f), k) =
               Kind(s, k) \cup (IF f.kind = k THEN {Len(s) + 1} ELSE {})
  BY <1>1, <1>2, <1>3 DEF Kind
<1>. QED
  BY <1>1, <1>2, <1>3, <1>4

LEMMA Popped ==
  ASSUME NEW s \in Seq(Frame), s # << >>
  PROVE  /\ Front(s) \in Seq(Frame)
         /\ Last(s) \in Frame /\ Len(s) \in DOMAIN s /\ s[Len(s)] = Last(s)
         /\ \A i \in DOMAIN Front(s) : Front(s)[i] = s[i] /\ i < Len(s) /\ i \in Nat
         /\ DOMAIN Front(s) = DOMAIN s \ {Len(s)}
         /\ \A k : Kind(Front(s), k) = Kind(s, k) \ {Len(s)}
<1>1. /\ Front(s) \in Seq(Frame)
      /\ Last(s) \in Frame /\ Len(s) \in DOMAIN s /\ s[Len(s)] = Last(s)
  BY DEF Front, Last
<1>2. DOMAIN Front(s) = DOMAIN s \ {Len(s)}
  BY DEF Front
<1>3. \A i \in DOMAIN Front(s) : Front(s)[i] = s[i] /\ i < Len(s) /\ i \in Nat
  BY DEF Front
<1>4. \A k : Kind(Front(s), k) = Kind(s, k) \ {Len(s)}
  BY <1>2, <1>3 DEF Kind
<1>. QED
  BY <1>1, <1>2, <1>3, <1>4

\* The parent of the first activation is the thread's own tape.
LEMMA BaseIsFirst ==
  ASSUME NEW p, NEW s \in Seq(Frame), NEW i, IsFirst(s, i)
  PROVE  Base(p, s) = s[i].parent
<1>. DEFINE P(k) == k \in Kind(s, "scope") /\ \A j \in Kind(s, "scope") : k <= j
            first == CHOOSE k \in Kind(s, "scope") : \A j \in Kind(s, "scope") : k <= j
<1>1. i \in Kind(s, "scope") /\ \A j \in Kind(s, "scope") : i <= j
  BY DEF IsFirst
<1>2. first \in Kind(s, "scope") /\ \A j \in Kind(s, "scope") : first <= j
  BY <1>1
<1>3. i \in Nat /\ first \in Nat
  BY <1>1, <1>2 DEF Kind
<1>4. first = i
  <2>1. i <= first /\ first <= i
    BY <1>1, <1>2
  <2>. HIDE DEF first
  <2>. QED
    BY <2>1, <1>3
<1>5. Base(p, s) = s[first].parent
  BY <1>1 DEF Base
<1>. QED
  BY <1>4, <1>5

LEMMA ReachIs ==
  ASSUME NEW p, NEW s \in Seq(Frame), Linked(p, s), NEW x
  PROVE  /\ x \in Scopes /\ x \notin Local(s) => x \notin Reach(p, s)
         /\ Local(s) \subseteq Scopes
  BY FrameFacts, TapesAssumption DEF Linked, Kind, Local

\* execute() enters.
LEMMA LinkedActivate ==
  ASSUME NEW s \in Seq(Frame), NEW p \in Scopes \cup Storages \cup {NoTape},
         Linked(p, s), NEW x \in Scopes, x \notin Local(s)
  PROVE  LET s2 == Append(s, ScopeFrame(x, p))
         IN /\ s2 \in Seq(Frame)
            /\ Linked(x, s2)
            /\ Base(x, s2) = Base(p, s)
            /\ Local(s2) = Local(s) \cup {x}
            /\ \A k : k # "scope" => Kind(s2, k) = Kind(s, k)
<1>. DEFINE f == ScopeFrame(x, p)
            s2 == Append(s, f)
            n == Len(s) + 1
<1>1. f \in Frame /\ f.kind = "scope" /\ f.scope = x /\ f.parent = p
  BY DEF ScopeFrame, Frame
<1>2. /\ s2 \in Seq(Frame)
      /\ \A i \in DOMAIN s : s2[i] = s[i] /\ i < n /\ i \in Nat
      /\ s2[n] = f
      /\ \A k : Kind(s2, k) = Kind(s, k) \cup (IF f.kind = k THEN {n} ELSE {})
  BY <1>1, Pushed
<1>3. n \in Nat
  OBVIOUS
<1>. HIDE DEF f, s2, n
<1>4. /\ Kind(s2, "scope") = Kind(s, "scope") \cup {n}
      /\ \A k : k # "scope" => Kind(s2, k) = Kind(s, k)
  BY <1>1, <1>2
<1>5. \A i \in Kind(s, "scope") : s2[i] = s[i] /\ i < n /\ i \in Nat
  BY <1>2 DEF Kind
<1>6. \A i \in Kind(s, "user") : s2[i] = s[i] /\ i < n /\ i \in Nat
  BY <1>2 DEF Kind
<1>7. Local(s2) = Local(s) \cup {x}
  BY <1>1, <1>2, <1>4, <1>5 DEF Local
<1>8. IsLast(s2, n)
  BY <1>3, <1>4, <1>5 DEF IsLast
<1>9. \A i : IsFirst(s, i) => IsFirst(s2, i)
  BY <1>3, <1>4, <1>5 DEF IsFirst
<1>10. Kind(s, "scope") = {} => IsFirst(s2, n) /\ Base(p, s) = p
  BY <1>3, <1>4 DEF IsFirst, Base
<1>11. Base(x, s2) = Base(p, s)
  <2>1. CASE Kind(s, "scope") = {}
    BY <2>1, <1>1, <1>2, <1>10, BaseIsFirst
  <2>2. CASE Kind(s, "scope") # {}
    <3>1. PICK i : IsFirst(s, i)
      BY <2>2 DEF Linked
    <3>2. IsFirst(s2, i) /\ s2[i] = s[i]
      BY <3>1, <1>5, <1>9 DEF IsFirst
    <3>. QED
      BY <3>1, <3>2, <1>2, BaseIsFirst
  <2>. QED
    BY <2>1, <2>2
<1>12. Reach(x, s2) = Reach(p, s) \cup {x}
  BY <1>1, <1>2, <1>4, <1>5 DEF Reach
<1>13. x \notin Reach(p, s) /\ x # NoTape
  BY ReachIs, TapesAssumption
<1>14. \E i : IsFirst(s2, i)
  BY <1>9, <1>10 DEF Linked
<1>15. \E i : IsLast(s2, i) /\ x = s2[i].scope
  BY <1>1, <1>2, <1>8
<1>16. \A j \in Kind(s2, "scope") :
         IsFirst(s2, j) \/ \E i : Precedes(s2, i, j) /\ s2[j].parent = s2[i].scope
  <2>1. TAKE j \in Kind(s2, "scope")
  <2>2. CASE j \in Kind(s, "scope")
    <3>1. CASE IsFirst(s, j)
      BY <3>1, <1>9
    <3>2. CASE \E i : Precedes(s, i, j) /\ s[j].parent = s[i].scope
      <4>1. PICK i : Precedes(s, i, j) /\ s[j].parent = s[i].scope
        BY <3>2
      <4>2. Precedes(s2, i, j) /\ s2[j].parent = s2[i].scope
        BY <4>1, <2>2, <1>3, <1>4, <1>5 DEF Precedes
      <4>. QED
        BY <4>2
    <3>. QED
      BY <2>2, <3>1, <3>2 DEF Linked
  <2>3. CASE j = n
    <3>1. CASE Kind(s, "scope") = {}
      BY <3>1, <2>3, <1>10
    <3>2. CASE Kind(s, "scope") # {}
      <4>1. PICK i : IsLast(s, i) /\ p = s[i].scope
        BY <3>2 DEF Linked
      <4>2. Precedes(s2, i, n) /\ s2[n].parent = s2[i].scope
        BY <4>1, <1>1, <1>2, <1>3, <1>4, <1>5 DEF Precedes, IsLast
      <4>. QED
        BY <4>2, <2>3
    <3>. QED
      BY <3>1, <3>2
  <2>. QED
    BY <2>2, <2>3, <1>4
<1>17. \A i, j \in Kind(s2, "scope") : s2[i].scope = s2[j].scope => i = j
  BY <1>1, <1>2, <1>4, <1>5 DEF Linked, Local
<1>18. \A i \in Kind(s2, "scope") : x # NoTape => s2[i].parent # x
  BY <1>1, <1>2, <1>4, <1>5, <1>13 DEF Reach
<1>19. \A i, j \in Kind(s2, "scope") :
         s2[i].parent = s2[j].parent /\ s2[i].parent # NoTape => i = j
  BY <1>1, <1>2, <1>4, <1>5 DEF Linked
<1>20. \A i \in Kind(s2, "scope"), j \in Kind(s2, "user") : i < j => ~s2[j].own
  BY <1>3, <1>4, <1>5, <1>6 DEF Linked
<1>21. Reach(x, s2) = Local(s2) \cup {Base(x, s2)} /\ Base(x, s2) \in Storages \cup {NoTape}
  BY <1>7, <1>11, <1>12 DEF Linked
<1>. QED
  BY <1>2, <1>4, <1>7, <1>11, <1>14, <1>15, <1>16, <1>17, <1>18, <1>19, <1>20, <1>21
     DEF Linked, s2, f

\* execute() leaves.
LEMMA LinkedDeactivate ==
  ASSUME NEW s \in Seq(Frame), NEW p, Linked(p, s), s # << >>, Last(s).kind = "scope"
  PROVE  LET s2 == Front(s)
             q == Last(s).parent
         IN /\ Linked(q, s2)
            /\ Base(q, s2) = Base(p, s)
            /\ p = Last(s).scope /\ q \in Reach(p, s)
            /\ Local(s2) = Local(s) \ {p} /\ p \in Local(s)
            /\ \A k : k # "scope" => Kind(s2, k) = Kind(s, k)
<1>. DEFINE s2 == Front(s)
            n == Len(s)
            q == Last(s).parent
<1>18. /\ s2 \in Seq(Frame) /\ n \in DOMAIN s /\ s[n] = Last(s)
       /\ \A i \in DOMAIN s2 : s2[i] = s[i] /\ i < n /\ i \in Nat
       /\ \A k : Kind(s2, k) = Kind(s, k) \ {n}
  BY Popped
<1>1. /\ s2 \in Seq(Frame) /\ n \in DOMAIN s /\ s[n] = Last(s) /\ n \in Nat
      /\ \A i \in DOMAIN s2 : s2[i] = s[i] /\ i < n /\ i \in Nat
      /\ \A k : Kind(s2, k) = Kind(s, k) \ {n}
  BY <1>18
<1>. HIDE DEF s2, n, q
<1>2. /\ n \in Kind(s, "scope")
      /\ Kind(s2, "scope") = Kind(s, "scope") \ {n}
      /\ \A k : k # "scope" => Kind(s2, k) = Kind(s, k)
      /\ s[n].parent = q
  BY <1>1 DEF Kind, q
<1>3. \A i \in Kind(s2, "scope") : s2[i] = s[i] /\ i < n /\ i \in Nat
  BY <1>1 DEF Kind
<1>4. \A i \in Kind(s2, "user") : s2[i] = s[i] /\ i < n /\ i \in Nat
  BY <1>1 DEF Kind
<1>5. p = s[n].scope
  <2>1. PICK i : IsLast(s, i) /\ p = s[i].scope
    BY <1>2 DEF Linked
  <2>2. i = n
    BY <2>1, <1>1, <1>2, <1>3 DEF IsLast
  <2>. QED
    BY <2>1, <2>2
<1>6. Local(s2) = Local(s) \ {p} /\ p \in Local(s)
  BY <1>2, <1>3, <1>5 DEF Local, Linked
<1>7. \A i : IsFirst(s, i) /\ i # n => IsFirst(s2, i)
  BY <1>2 DEF IsFirst
<1>8. IsFirst(s, n) => Kind(s2, "scope") = {} /\ Base(q, s2) = q /\ Base(p, s) = q
  <2>1. ASSUME IsFirst(s, n) PROVE Kind(s2, "scope") = {}
    BY <2>1, <1>1, <1>2, <1>3 DEF IsFirst
  <2>. QED
    BY <2>1, <1>2, BaseIsFirst DEF Base
<1>9. ~IsFirst(s, n) => \E i : Precedes(s, i, n) /\ q = s[i].scope
  BY <1>2 DEF Linked
<1>10. Base(q, s2) = Base(p, s)
  <2>1. CASE IsFirst(s, n)
    BY <2>1, <1>8
  <2>2. CASE ~IsFirst(s, n)
    <3>1. PICK i : IsFirst(s, i)
      BY <1>2 DEF Linked
    <3>2. IsFirst(s2, i) /\ s2[i] = s[i]
      BY <3>1, <2>2, <1>3, <1>7 DEF IsFirst
    <3>. QED
      BY <3>1, <3>2, <1>1, BaseIsFirst
  <2>. QED
    BY <2>1, <2>2
<1>11. Kind(s2, "scope") # {} => (\E i : IsFirst(s2, i)) /\ ~IsFirst(s, n)
  BY <1>2, <1>7, <1>8 DEF Linked
<1>12. Kind(s2, "scope") # {} => \E i : IsLast(s2, i) /\ q = s2[i].scope
  <2>1. SUFFICES ASSUME Kind(s2, "scope") # {}
                 PROVE  \E i : IsLast(s2, i) /\ q = s2[i].scope
    OBVIOUS
  <2>2. PICK i : Precedes(s, i, n) /\ q = s[i].scope
    BY <2>1, <1>9, <1>11
  <2>3. IsLast(s2, i) /\ q = s2[i].scope
    BY <2>2, <1>1, <1>2, <1>3 DEF Precedes, IsLast
  <2>. QED
    BY <2>3
<1>13. \A j \in Kind(s2, "scope") :
         IsFirst(s2, j) \/ \E i : Precedes(s2, i, j) /\ s2[j].parent = s2[i].scope
  <2>1. TAKE j \in Kind(s2, "scope")
  <2>2. CASE IsFirst(s, j)
    BY <2>2, <1>2, <1>7
  <2>3. CASE \E i : Precedes(s, i, j) /\ s[j].parent = s[i].scope
    <3>1. PICK i : Precedes(s, i, j) /\ s[j].parent = s[i].scope
      BY <2>3
    <3>2. i # n
      BY <3>1, <1>1, <1>3 DEF Precedes, Kind
    <3>3. Precedes(s2, i, j) /\ s2[j].parent = s2[i].scope
      BY <3>1, <3>2, <1>2, <1>3 DEF Precedes
    <3>. QED
      BY <3>3
  <2>. QED
    BY <2>2, <2>3, <1>2 DEF Linked
<1>14. /\ \A i, j \in Kind(s2, "scope") : s2[i].scope = s2[j].scope => i = j
       /\ \A i \in Kind(s2, "scope") : q # NoTape => s2[i].parent # q
       /\ \A i, j \in Kind(s2, "scope") :
            s2[i].parent = s2[j].parent /\ s2[i].parent # NoTape => i = j
  BY <1>2, <1>3 DEF Linked
<1>15. \A i \in Kind(s2, "scope"), j \in Kind(s2, "user") : i < j => ~s2[j].own
  BY <1>2, <1>3, <1>4 DEF Linked
<1>16. Reach(p, s) = Reach(q, s2) \cup {p} /\ p \notin Reach(q, s2)
  <2>1. Reach(p, s) = Reach(q, s2) \cup {p}
    BY <1>2, <1>3 DEF Reach
  <2>2. p # NoTape
    BY <1>6, ReachIs, TapesAssumption
  <2>3. p \notin Reach(q, s2)
    BY <2>2, <1>2, <1>3 DEF Linked, Reach
  <2>. QED
    BY <2>1, <2>3
<1>17. Reach(q, s2) = Local(s2) \cup {Base(q, s2)} /\ Base(q, s2) \in Storages \cup {NoTape}
  <2>1. Base(p, s) \in Storages \cup {NoTape} /\ p \in Scopes
    BY <1>6, ReachIs DEF Linked
  <2>2. p # Base(p, s)
    BY <2>1, TapesAssumption
  <2>3. Reach(p, s) = Local(s) \cup {Base(p, s)}
    BY DEF Linked
  <2>. QED
    BY <2>1, <2>2, <2>3, <1>6, <1>10, <1>16
<1>. QED
  BY <1>1, <1>2, <1>5, <1>6, <1>10, <1>11, <1>12, <1>13, <1>14, <1>15, <1>16, <1>17
     DEF Linked, s2, q, Reach

\* Other frames change nothing, as long as no owner is filed above an activation.
LEMMA LinkedSame ==
  ASSUME NEW s \in Seq(Frame), NEW s2 \in Seq(Frame), NEW p, Linked(p, s),
         Kind(s2, "scope") = Kind(s, "scope"),
         \A i \in Kind(s, "scope") : s2[i] = s[i],
         \A i \in Kind(s, "scope"), j \in Kind(s2, "user") : i < j => ~s2[j].own
  PROVE  /\ Linked(p, s2)
         /\ Base(p, s2) = Base(p, s)
         /\ Local(s2) = Local(s)
<1>1. \A i : IsFirst(s2, i) <=> IsFirst(s, i)
  BY DEF IsFirst
<1>2. \A i : IsLast(s2, i) <=> IsLast(s, i)
  BY DEF IsLast
<1>3. \A i, j : Precedes(s2, i, j) <=> Precedes(s, i, j)
  BY DEF Precedes
<1>4. Local(s2) = Local(s) /\ Reach(p, s2) = Reach(p, s)
  BY DEF Local, Reach
<1>5. Base(p, s2) = Base(p, s)
  <2>1. CASE Kind(s, "scope") = {}
    BY <2>1 DEF Base
  <2>2. CASE Kind(s, "scope") # {}
    <3>1. PICK i : IsFirst(s, i)
      BY <2>2 DEF Linked
    <3>. QED
      BY <3>1, <1>1, BaseIsFirst DEF IsFirst
  <2>. QED
    BY <2>1, <2>2
<1>6. \A j \in Kind(s2, "scope") :
        IsFirst(s2, j) \/ \E i : Precedes(s2, i, j) /\ s2[j].parent = s2[i].scope
  <2>1. TAKE j \in Kind(s2, "scope")
  <2>2. CASE \E i : Precedes(s, i, j) /\ s[j].parent = s[i].scope
    <3>1. PICK i : Precedes(s, i, j) /\ s[j].parent = s[i].scope
      BY <2>2
    <3>. QED
      BY <3>1, <1>3 DEF Precedes
  <2>. QED
    BY <2>2, <1>1 DEF Linked
<1>7. Kind(s2, "scope") # {} => \E i : IsLast(s2, i) /\ p = s2[i].scope
  BY <1>2 DEF Linked, IsLast
<1>. QED
  BY <1>1, <1>4, <1>5, <1>6, <1>7 DEF Linked

\* Outside of activations the pointer is the thread's own tape.
LEMMA LinkedOutside ==
  ASSUME NEW s \in Seq(Frame), Kind(s, "scope") = {}, NEW p \in Storages \cup {NoTape}
  PROVE  /\ Linked(p, s)
         /\ Base(p, s) = p
         /\ Local(s) = {}
<1>1. Base(p, s) = p /\ Local(s) = {} /\ Reach(p, s) = {p}
  BY DEF Base, Local, Reach
<1>. QED
  BY <1>1 DEF Linked

LEMMA LinkedPush ==
  ASSUME NEW s \in Seq(Frame), NEW p, Linked(p, s), NEW f \in Frame, f.kind # "scope",
         f.kind = "user" => (f.own => Kind(s, "scope") = {})
  PROVE  LET s2 == Append(s, f)
         IN /\ s2 \in Seq(Frame) /\ Linked(p, s2) /\ Base(p, s2) = Base(p, s)
            /\ Local(s2) = Local(s)
            /\ Kind(s2, "scope") = Kind(s, "scope")
<1>. DEFINE s2 == Append(s, f)
            n == Len(s) + 1
<1>1. /\ s2 \in Seq(Frame)
      /\ \A i \in DOMAIN s : s2[i] = s[i] /\ i < n /\ i \in Nat
      /\ s2[n] = f
      /\ \A k : Kind(s2, k) = Kind(s, k) \cup (IF f.kind = k THEN {n} ELSE {})
  BY Pushed
<1>. HIDE DEF s2, n
<1>2. /\ Kind(s2, "scope") = Kind(s, "scope")
      /\ \A i \in Kind(s, "scope") : s2[i] = s[i]
  BY <1>1 DEF Kind
<1>3. \A i \in Kind(s, "scope"), j \in Kind(s2, "user") : i < j => ~s2[j].own
  <2>1. TAKE i \in Kind(s, "scope"), j \in Kind(s2, "user")
  <2>2. CASE j \in Kind(s, "user")
    BY <2>2, <1>1 DEF Linked, Kind
  <2>3. CASE f.kind = "user" /\ j = n
    BY <2>3, <1>1
  <2>. QED
    BY <2>2, <2>3, <1>1
<1>. QED
  BY <1>1, <1>2, <1>3, LinkedSame DEF s2

LEMMA LinkedPop ==
  ASSUME NEW s \in Seq(Frame), NEW p, Linked(p, s), s # << >>, Last(s).kind # "scope"
  PROVE  LET s2 == Front(s)
         IN /\ s2 \in Seq(Frame) /\ Linked(p, s2) /\ Base(p, s2) = Base(p, s)
            /\ Local(s2) = Local(s)
            /\ Kind(s2, "scope") = Kind(s, "scope")
<1>. DEFINE s2 == Front(s)
            n == Len(s)
<1>1. /\ s2 \in Seq(Frame) /\ n \in DOMAIN s /\ s[n] = Last(s)
      /\ \A i \in DOMAIN s2 : s2[i] = s[i] /\ i < n /\ i \in Nat
      /\ \A k : Kind(s2, k) = Kind(s, k) \ {n}
  BY Popped
<1>. HIDE DEF s2, n
<1>2. Kind(s2, "scope") = Kind(s, "scope")
  BY <1>1 DEF Kind
<1>3. \A i \in Kind(s, "scope") : s2[i] = s[i]
  BY <1>1, <1>2 DEF Kind
<1>4. \A i \in Kind(s, "scope"), j \in Kind(s2, "user") : i < j => ~s2[j].own
  BY <1>1 DEF Linked, Kind
<1>. QED
  BY <1>1, <1>2, <1>3, <1>4, LinkedSame DEF s2

\* Which objects of the client own a tape, and which observers are alive.
UserOwners(s) == {j \in Kind(s, "user") : s[j].own}
ObserversOf(s) == {s[i].observer : i \in Kind(s, "observer")}
Distinct(s) ==
  \A i, j \in Kind(s, "observer") : s[i].observer = s[j].observer => i = j

LEMMA PushedObjects ==
  ASSUME NEW s \in Seq(Frame), NEW f \in Frame
  PROVE  LET s2 == Append(s, f)
         IN /\ f.kind # "user" => UserOwners(s2) = UserOwners(s)
            /\ f.kind = "user" =>
                 UserOwners(s2) = UserOwners(s) \cup (IF f.own THEN {Len(s) + 1} ELSE {})
            /\ f.kind # "observer" => ObserversOf(s2) = ObserversOf(s)
                                      /\ (Distinct(s) => Distinct(s2))
            /\ f.kind = "observer" =>
                 /\ ObserversOf(s2) = ObserversOf(s) \cup {f.observer}
                 /\ Distinct(s) /\ f.observer \notin ObserversOf(s) => Distinct(s2)
<1>. DEFINE s2 == Append(s, f)
            n == Len(s) + 1
<1>1. /\ \A i \in DOMAIN s : s2[i] = s[i] /\ i < n /\ i \in Nat
      /\ s2[n] = f
      /\ \A k : Kind(s2, k) = Kind(s, k) \cup (IF f.kind = k THEN {n} ELSE {})
  BY Pushed
<1>. HIDE DEF s2, n
<1>2. \A k : \A i \in Kind(s, k) : s2[i] = s[i]
  BY <1>1 DEF Kind
<1>3. /\ f.kind # "user" => UserOwners(s2) = UserOwners(s)
      /\ f.kind = "user" => UserOwners(s2) = UserOwners(s) \cup (IF f.own THEN {n} ELSE {})
  <2>1. CASE f.kind # "user"
    BY <2>1, <1>1, <1>2 DEF UserOwners
  <2>2. CASE f.kind = "user"
    BY <2>2, <1>1, <1>2 DEF UserOwners
  <2>. QED
    BY <2>1, <2>2
<1>4. f.kind # "observer" => ObserversOf(s2) = ObserversOf(s) /\ (Distinct(s) => Distinct(s2))
  BY <1>1, <1>2 DEF ObserversOf, Distinct
<1>5. f.kind = "observer" =>
        /\ ObserversOf(s2) = ObserversOf(s) \cup {f.observer}
        /\ Distinct(s) /\ f.observer \notin ObserversOf(s) => Distinct(s2)
  BY <1>1, <1>2 DEF ObserversOf, Distinct
<1>. QED
  BY <1>3, <1>4, <1>5 DEF s2, n

LEMMA PoppedObjects ==
  ASSUME NEW s \in Seq(Frame), s # << >>
  PROVE  LET s2 == Front(s)
         IN /\ UserOwners(s2) \subseteq UserOwners(s)
            /\ Last(s).kind = "user" =>
                 /\ UserOwners(s2) = UserOwners(s) \ {Len(s)}
                 /\ Last(s).own => Len(s) \in UserOwners(s)
                 /\ ~Last(s).own => UserOwners(s2) = UserOwners(s)
            /\ Last(s).kind # "user" => UserOwners(s2) = UserOwners(s)
            /\ Distinct(s) => Distinct(s2)
            /\ Last(s).kind # "observer" => ObserversOf(s2) = ObserversOf(s)
            /\ Last(s).kind = "observer" /\ Distinct(s) =>
                 /\ Last(s).observer \in ObserversOf(s)
                 /\ ObserversOf(s2) = ObserversOf(s) \ {Last(s).observer}
<1>. DEFINE s2 == Front(s)
            n == Len(s)
            f == Last(s)
<1>1. /\ n \in DOMAIN s /\ s[n] = f
      /\ \A i \in DOMAIN s2 : s2[i] = s[i]
      /\ \A k : Kind(s2, k) = Kind(s, k) \ {n}
  BY Popped
<1>. HIDE DEF s2, n, f
<1>2. /\ \A k : \A i \in Kind(s2, k) : s2[i] = s[i]
      /\ \A k : n \in Kind(s, k) <=> f.kind = k
  BY <1>1 DEF Kind
<1>3. UserOwners(s2) = UserOwners(s) \ {n}
  BY <1>1, <1>2 DEF UserOwners
<1>4. n \in UserOwners(s) <=> f.kind = "user" /\ f.own
  BY <1>1, <1>2 DEF UserOwners
<1>5. Distinct(s) => Distinct(s2)
  BY <1>1, <1>2 DEF Distinct
<1>6. f.kind # "observer" => ObserversOf(s2) = ObserversOf(s)
  BY <1>1, <1>2 DEF ObserversOf
<1>7. f.kind = "observer" /\ Distinct(s) =>
        /\ f.observer \in ObserversOf(s)
        /\ ObserversOf(s2) = ObserversOf(s) \ {f.observer}
  BY <1>1, <1>2 DEF ObserversOf, Distinct
<1>. QED
  BY <1>3, <1>4, <1>5, <1>6, <1>7 DEF s2, n, f

-----------------------------------------------------------------------------
(* All threads *)

MyBase(t) == Base(instance_[t], lifetimes[t])

Types ==
  /\ instance_ \in [Threads -> Scopes \cup Storages \cup {NoTape}]
  /\ is_initialized \in [Threads -> BOOLEAN]
  /\ lifetimes \in [Threads -> Seq(Frame)]
  /\ thread_tape_map_ = [o \in Observers |-> thread_tape_map_[o]]
  /\ \A o \in Observers : /\ DOMAIN thread_tape_map_[o] \subseteq Threads
                          /\ \A t \in DOMAIN thread_tape_map_[o] :
                               thread_tape_map_[o][t] \in BOOLEAN
  /\ heap \subseteq Storages
  /\ built \in 0 .. NumObservers

\* Threads share neither scoped stacks nor tapes of their own, and a tape of a thread's own
\* is allocated.
Tapes ==
  /\ \A t \in Threads : Linked(instance_[t], lifetimes[t]) /\ MyBase(t) \in heap \cup {NoTape}
  /\ \A t, u \in Threads : t # u => Local(lifetimes[t]) \cap Local(lifetimes[u]) = {}
  /\ \A t, u \in Threads : MyBase(t) = MyBase(u) /\ MyBase(t) # NoTape => t = u
  /\ locked = UNION {Local(lifetimes[t]) : t \in Threads}
  /\ wild = {}

\* A thread whose flag is not set has no tape, no activation and no object; and the observers
\* of the main thread are below its activations.
Flags ==
  /\ \A t \in Threads : ~is_initialized[t] => /\ instance_[t] = NoTape
                                              /\ Kind(lifetimes[t], "scope") = {}
                                              /\ Kind(lifetimes[t], "user") = {}
                                              /\ \A o \in Observers :
                                                   t \notin DOMAIN thread_tape_map_[o]
  /\ \A t \in Threads \ {Main} : Kind(lifetimes[t], "observer") = {}
  /\ \A i \in Kind(lifetimes[Main], "observer"), j \in Kind(lifetimes[Main], "scope") : i < j

TapesInv == Types /\ Tapes /\ Flags

\* How a step changes a thread's own tape, and the heap with it.
NewBase(t) == Base(instance_'[t], lifetimes'[t])
Others(t) == \A u \in Threads \ {t} : NewBase(u) = MyBase(u)
Keeps(t) == NewBase(t) = MyBase(t) /\ heap' = heap
Gains(t) == MyBase(t) = NoTape /\ NewBase(t) # NoTape /\ heap' = heap \cup {NewBase(t)}
Loses(t) == NewBase(t) = NoTape /\ heap' = heap \ {MyBase(t)}

\* One thread changes what it holds: its activations, or, outside of them, its own tape.
LEMMA TapesStep ==
  ASSUME TapesInv, NEW t \in Threads,
         \A u \in Threads \ {t} : instance_'[u] = instance_[u] /\ lifetimes'[u] = lifetimes[u],
         Linked(instance_'[t], lifetimes'[t]), wild' = {},
         LET b2 == Base(instance_'[t], lifetimes'[t])
         IN \/ b2 = MyBase(t) /\ heap' = heap
            \/ b2 \in Storages \ heap /\ heap' = heap \cup {b2} /\ MyBase(t) = NoTape
            \/ b2 = NoTape /\ heap \ {MyBase(t)} \subseteq heap' /\ heap' \subseteq heap,
         Local(lifetimes'[t]) \cap (locked \ Local(lifetimes[t])) = {},
         locked' = (locked \ Local(lifetimes[t])) \cup Local(lifetimes'[t])
  PROVE  Tapes'
<1>1. Tapes /\ Types
  BY DEF TapesInv
<1>2. PICK b : b = MyBase(t)
  OBVIOUS
<1>3. PICK b2 : b2 = Base(instance_'[t], lifetimes'[t])
  OBVIOUS
<1>4. \A u \in Threads \ {t} : Base(instance_'[u], lifetimes'[u]) = MyBase(u)
  BY DEF MyBase
<1>5. \A u \in Threads \ {t} : MyBase(u) # b \/ b = NoTape
  BY <1>1, <1>2 DEF Tapes
<1>6. \A u \in Threads : MyBase(u) \in heap \cup {NoTape}
  BY <1>1 DEF Tapes
<1>7. NoTape \notin Storages
  BY TapesAssumption
<1>. DEFINE B(u) == Base(instance_'[u], lifetimes'[u])
<1>11. /\ B(t) = b2
       /\ \A u \in Threads \ {t} : B(u) \in heap \cup {NoTape} /\ (B(u) # b \/ b = NoTape)
       /\ \A u, v \in Threads \ {t} : B(u) = B(v) /\ B(u) # NoTape => u = v
       /\ b \in heap \cup {NoTape}
  <2>1. B(t) = b2
    BY <1>3
  <2>2. \A u \in Threads \ {t} : B(u) \in heap \cup {NoTape} /\ (B(u) # b \/ b = NoTape)
    BY <1>4, <1>5, <1>6
  <2>3. \A u, v \in Threads : MyBase(u) = MyBase(v) /\ MyBase(u) # NoTape => u = v
    BY <1>1 DEF Tapes
  <2>4. \A u, v \in Threads \ {t} : B(u) = B(v) /\ B(u) # NoTape => u = v
    BY <2>3, <1>4
  <2>5. b \in heap \cup {NoTape}
    BY <1>2, <1>6
  <2>. HIDE DEF B
  <2>. QED
    BY <2>1, <2>2, <2>4, <2>5
<1>12. \/ b2 = b /\ heap' = heap
       \/ b2 \in Storages \ heap /\ heap' = heap \cup {b2} /\ b = NoTape
       \/ b2 = NoTape /\ heap \ {b} \subseteq heap' /\ heap' \subseteq heap
  BY <1>2, <1>3
<1>8. /\ \A u \in Threads : B(u) \in heap' \cup {NoTape}
      /\ \A u, v \in Threads : B(u) = B(v) /\ B(u) # NoTape => u = v
  <2>. HIDE DEF B
  <2>1. CASE b2 = b /\ heap' = heap
    BY <2>1, <1>11
  <2>2. CASE b2 \in Storages \ heap /\ heap' = heap \cup {b2} /\ b = NoTape
    <3>1. \A u \in Threads \ {t} : B(u) # b2
      BY <2>2, <1>7, <1>11
    <3>. QED
      BY <2>2, <3>1, <1>11
  <2>3. CASE b2 = NoTape /\ heap \ {b} \subseteq heap' /\ heap' \subseteq heap
    BY <2>3, <1>11
  <2>. QED
    BY <1>12, <2>1, <2>2, <2>3
<1>9. /\ \A u, v \in Threads : u # v => Local(lifetimes'[u]) \cap Local(lifetimes'[v]) = {}
      /\ locked' = UNION {Local(lifetimes'[u]) : u \in Threads}
  <2>1. \A u \in Threads \ {t} : /\ Local(lifetimes'[u]) = Local(lifetimes[u])
                                 /\ Local(lifetimes[u]) \subseteq locked
                                 /\ Local(lifetimes[u]) \cap Local(lifetimes[t]) = {}
    BY <1>1 DEF Tapes
  <2>2. \A u \in Threads \ {t} : Local(lifetimes'[u]) \cap Local(lifetimes'[t]) = {}
    BY <2>1
  <2>3. \A u, v \in Threads : u # v => Local(lifetimes[u]) \cap Local(lifetimes[v]) = {}
    BY <1>1 DEF Tapes
  <2>4. \A u, v \in Threads : u # v => Local(lifetimes'[u]) \cap Local(lifetimes'[v]) = {}
    BY <2>1, <2>2, <2>3
  <2>5. \A x \in locked' : \E u \in Threads : x \in Local(lifetimes'[u])
    <3>1. TAKE x \in locked'
    <3>2. CASE x \in Local(lifetimes'[t])
      BY <3>2
    <3>3. CASE x \in locked \ Local(lifetimes[t])
      <4>1. PICK u \in Threads : x \in Local(lifetimes[u])
        BY <3>3, <1>1 DEF Tapes
      <4>. QED
        BY <4>1, <3>3, <2>1
    <3>. QED
      BY <3>2, <3>3
  <2>6. \A u \in Threads : Local(lifetimes'[u]) \subseteq locked'
    BY <2>1
  <2>. QED
    BY <2>4, <2>5, <2>6
<1>10. \A u \in Threads : Linked(instance_'[u], lifetimes'[u])
  BY <1>1 DEF Tapes
<1>. QED
  BY <1>8, <1>9, <1>10 DEF Tapes, MyBase

\* What the constructor of the singleton does to the thread that runs it.
LEMMA ConstructStep ==
  ASSUME TapesInv, NEW t \in Threads, NEW own \in BOOLEAN, Construct(t, own)
  PROVE  /\ is_initialized' = [is_initialized EXCEPT ![t] = TRUE]
         /\ instance_'[t] # NoTape
         /\ \A u \in Threads \ {t} : instance_'[u] = instance_[u]
         /\ instance_' \in [Threads -> Scopes \cup Storages \cup {NoTape}]
         /\ heap' \subseteq Storages
         /\ ~own => instance_' = instance_ /\ heap' = heap /\ is_initialized[t]
         /\ own => /\ Kind(lifetimes[t], "scope") = {} /\ instance_[t] = NoTape
                   /\ MyBase(t) = NoTape
                   /\ instance_'[t] \in Storages \ heap
                   /\ heap' = heap \cup {instance_'[t]}
<1>1. Types /\ Tapes /\ Flags
  BY DEF TapesInv
<1>2. instance_[t] = NoTape => Kind(lifetimes[t], "scope") = {} /\ MyBase(t) = NoTape
  <2>1. ASSUME Kind(lifetimes[t], "scope") # {} PROVE instance_[t] # NoTape
    <3>1. PICK i : IsLast(lifetimes[t], i) /\ instance_[t] = lifetimes[t][i].scope
      BY <2>1, <1>1 DEF Tapes, Linked
    <3>2. instance_[t] \in Local(lifetimes[t])
      BY <3>1 DEF IsLast, Local
    <3>3. lifetimes[t] \in Seq(Frame)
      BY <1>1 DEF Types
    <3>4. Local(lifetimes[t]) \subseteq Scopes
      BY <1>1, <3>3, ReachIs DEF Tapes
    <3>. QED
      BY <3>2, <3>4, TapesAssumption
  <2>. QED
    BY <2>1 DEF MyBase, Base
<1>3. CASE ~own
  <2>1. is_initialized[t] /\ instance_[t] # NoTape /\ UNCHANGED <<instance_, is_initialized, heap>>
    BY <1>3 DEF Construct
  <2>. QED
    BY <2>1, <1>1, <1>3 DEF Types
<1>4. CASE own
  <2>1. PICK tape \in Storages \ heap :
             /\ ~is_initialized[t] \/ instance_[t] = NoTape
             /\ is_initialized' = [is_initialized EXCEPT ![t] = TRUE]
             /\ instance_' = [instance_ EXCEPT ![t] = tape]
             /\ heap' = heap \cup {tape}
    BY <1>4 DEF Construct
  <2>2. instance_[t] = NoTape
    BY <2>1, <1>1 DEF Flags
  <2>. QED
    BY <2>1, <2>2, <1>1, <1>2, <1>4, TapesAssumption DEF Types
<1>. QED
  BY <1>3, <1>4

\* What the destructor does, outside of activations.
LEMMA DestructStep ==
  ASSUME TapesInv, NEW t \in Threads, NEW own \in BOOLEAN, Destruct(t, own),
         own => Kind(lifetimes[t], "scope") = {}
  PROVE  /\ \A u \in Threads \ {t} : instance_'[u] = instance_[u]
         /\ instance_' \in [Threads -> Scopes \cup Storages \cup {NoTape}]
         /\ heap' \subseteq Storages /\ wild' = {}
         /\ ~own => instance_' = instance_ /\ heap' = heap
         /\ own => /\ MyBase(t) = instance_[t] /\ instance_'[t] = NoTape
                   /\ heap' = heap \ {instance_[t]}
<1>1. Types /\ Tapes /\ Flags
  BY DEF TapesInv
<1>2. CASE ~own
  <2>1. UNCHANGED <<instance_, heap, wild>>
    BY <1>2 DEF Destruct
  <2>. QED
    BY <2>1, <1>1, <1>2 DEF Types, Tapes
<1>3. CASE own
  <2>1. /\ heap' = heap \ {instance_[t]}
        /\ wild' = wild \cup ({instance_[t]} \ (heap \cup {NoTape}))
        /\ instance_' = [instance_ EXCEPT ![t] = NoTape]
    BY <1>3 DEF Destruct
  <2>2. MyBase(t) = instance_[t] /\ instance_[t] \in heap \cup {NoTape}
    BY <1>1, <1>3 DEF Tapes, MyBase, Base
  <2>. QED
    BY <2>1, <2>2, <1>1, <1>3 DEF Types, Tapes
<1>. QED
  BY <1>2, <1>3
LEMMA FlagsStep ==
  ASSUME TapesInv, NEW t \in Threads,
         \A u \in Threads \ {t} : /\ instance_'[u] = instance_[u]
                                  /\ lifetimes'[u] = lifetimes[u]
                                  /\ is_initialized'[u] = is_initialized[u]
                                  /\ \A o \in Observers : u \in DOMAIN thread_tape_map_'[o]
                                                           => u \in DOMAIN thread_tape_map_[o],
         ~is_initialized'[t] => /\ instance_'[t] = NoTape
                                /\ Kind(lifetimes'[t], "scope") = {}
                                /\ Kind(lifetimes'[t], "user") = {}
                                /\ \A o \in Observers : t \notin DOMAIN thread_tape_map_'[o],
         t # Main => Kind(lifetimes'[t], "observer") = {},
         t = Main => \A i \in Kind(lifetimes'[t], "observer"), j \in Kind(lifetimes'[t], "scope") : i < j
  PROVE  Flags'
<1>1. Flags /\ Main \in Threads
  BY DEF TapesInv, Threads
<1>2. \A u \in Threads : ~is_initialized'[u] => /\ instance_'[u] = NoTape
                                                /\ Kind(lifetimes'[u], "scope") = {}
                                                /\ Kind(lifetimes'[u], "user") = {}
                                                /\ \A o \in Observers :
                                                     u \notin DOMAIN thread_tape_map_'[o]
  BY <1>1 DEF Flags
<1>3. \A u \in Threads \ {Main} : Kind(lifetimes'[u], "observer") = {}
  BY <1>1 DEF Flags
<1>4. \A i \in Kind(lifetimes'[Main], "observer"), j \in Kind(lifetimes'[Main], "scope") : i < j
  BY <1>1 DEF Flags
<1>. QED
  BY <1>2, <1>3, <1>4 DEF Flags

LEMMA PushStep ==
  ASSUME TapesInv, NEW t \in Threads, NEW f \in Frame, Push(t, f)
  PROVE  /\ lifetimes' \in [Threads -> Seq(Frame)]
         /\ lifetimes[t] \in Seq(Frame)
         /\ lifetimes'[t] = Append(lifetimes[t], f)
         /\ \A u \in Threads \ {t} : lifetimes'[u] = lifetimes[u]
         /\ \A k : Kind(lifetimes'[t], k) =
                     Kind(lifetimes[t], k) \cup (IF f.kind = k THEN {Len(lifetimes[t]) + 1} ELSE {})
         /\ \A k : \A i \in Kind(lifetimes[t], k) : i < Len(lifetimes[t]) + 1
<1>1. lifetimes \in [Threads -> Seq(Frame)]
  BY DEF TapesInv, Types
<1>2. /\ lifetimes[t] \in Seq(Frame)
      /\ lifetimes'[t] = Append(lifetimes[t], f)
      /\ \A u \in Threads \ {t} : lifetimes'[u] = lifetimes[u]
      /\ lifetimes' = [lifetimes EXCEPT ![t] = Append(@, f)]
  BY <1>1 DEF Push
<1>3. Append(lifetimes[t], f) \in Seq(Frame)
  BY <1>2, Pushed
<1>4. lifetimes' \in [Threads -> Seq(Frame)]
  BY <1>1, <1>2, <1>3
<1>5. \A k : Kind(lifetimes'[t], k) =
               Kind(lifetimes[t], k) \cup (IF f.kind = k THEN {Len(lifetimes[t]) + 1} ELSE {})
  BY <1>2, Pushed
<1>6. \A k : \A i \in Kind(lifetimes[t], k) : i < Len(lifetimes[t]) + 1
  BY <1>2, Pushed DEF Kind
<1>. QED
  BY <1>2, <1>4, <1>5, <1>6

LEMMA PopStep ==
  ASSUME TapesInv, NEW t \in Threads, Pop(t), lifetimes[t] # << >>
  PROVE  /\ lifetimes' \in [Threads -> Seq(Frame)]
         /\ lifetimes[t] \in Seq(Frame)
         /\ Last(lifetimes[t]) \in Frame
         /\ lifetimes'[t] = Front(lifetimes[t])
         /\ \A u \in Threads \ {t} : lifetimes'[u] = lifetimes[u]
         /\ \A k : Kind(lifetimes'[t], k) \subseteq Kind(lifetimes[t], k)
         /\ Len(lifetimes[t]) \in Kind(lifetimes[t], Last(lifetimes[t]).kind)
         /\ \A k : \A i \in Kind(lifetimes[t], k) : i \in Nat /\ i <= Len(lifetimes[t])
<1>1. lifetimes \in [Threads -> Seq(Frame)]
  BY DEF TapesInv, Types
<1>2. /\ lifetimes[t] \in Seq(Frame)
      /\ lifetimes'[t] = Front(lifetimes[t])
      /\ \A u \in Threads \ {t} : lifetimes'[u] = lifetimes[u]
      /\ lifetimes' = [lifetimes EXCEPT ![t] = Front(@)]
  BY <1>1 DEF Pop
<1>3. /\ Front(lifetimes[t]) \in Seq(Frame)
      /\ Last(lifetimes[t]) \in Frame /\ Len(lifetimes[t]) \in DOMAIN lifetimes[t]
      /\ lifetimes[t][Len(lifetimes[t])] = Last(lifetimes[t])
      /\ \A k : Kind(Front(lifetimes[t]), k) = Kind(lifetimes[t], k) \ {Len(lifetimes[t])}
  BY <1>2, Popped
<1>4. lifetimes' \in [Threads -> Seq(Frame)]
  BY <1>1, <1>2, <1>3
<1>5. \A k : \A i \in Kind(lifetimes[t], k) : i \in Nat /\ i <= Len(lifetimes[t])
  BY <1>2 DEF Kind
<1>6. \A k : Kind(lifetimes'[t], k) \subseteq Kind(lifetimes[t], k)
  BY <1>2, <1>3
<1>7. Len(lifetimes[t]) \in Kind(lifetimes[t], Last(lifetimes[t]).kind)
  BY <1>3 DEF Kind
<1>. QED
  BY <1>2, <1>3, <1>4, <1>5, <1>6, <1>7

\* The object of a thread in an observer's map.
LEMMA RegisterStep ==
  ASSUME TapesInv, NEW t \in Threads, NEW o \in Observers, NEW own \in BOOLEAN,
         thread_tape_map_' = [thread_tape_map_ EXCEPT
                                ![o] = [u \in DOMAIN @ \cup {t} |-> IF u = t THEN own ELSE @[u]]]
  PROVE  /\ thread_tape_map_' = [p \in Observers |-> thread_tape_map_'[p]]
         /\ \A p \in Observers : /\ DOMAIN thread_tape_map_'[p] \subseteq Threads
                                 /\ \A u \in DOMAIN thread_tape_map_'[p] :
                                      thread_tape_map_'[p][u] \in BOOLEAN
         /\ \A p \in Observers : DOMAIN thread_tape_map_'[p] \subseteq
                                   DOMAIN thread_tape_map_[p] \cup {t}
<1>1. Types
  BY DEF TapesInv
<1>2. DOMAIN thread_tape_map_ = Observers
  BY <1>1 DEF Types
<1>3. thread_tape_map_' = [p \in Observers |-> thread_tape_map_'[p]]
  BY <1>2
<1>4. \A p \in Observers \ {o} : thread_tape_map_'[p] = thread_tape_map_[p]
  BY <1>2
<1>5. thread_tape_map_'[o] = [u \in DOMAIN thread_tape_map_[o] \cup {t} |->
                                IF u = t THEN own ELSE thread_tape_map_[o][u]]
  BY <1>2
<1>6. /\ DOMAIN thread_tape_map_'[o] = DOMAIN thread_tape_map_[o] \cup {t}
      /\ \A u \in DOMAIN thread_tape_map_'[o] : thread_tape_map_'[o][u] \in BOOLEAN
  BY <1>5, <1>1 DEF Types
<1>. QED
  BY <1>1, <1>3, <1>4, <1>6 DEF Types
-----------------------------------------------------------------------------
(* The actions *)

LEMMA ActivateKeeps ==
  ASSUME TapesInv, NEW t \in Threads, NEW s \in Scopes, Activate(t, s)
  PROVE  TapesInv' /\ Others(t) /\ Keeps(t)
<1>1. Types /\ Tapes /\ Flags
  BY DEF TapesInv
<1>. DEFINE p == instance_[t]
            fs == lifetimes[t]
<1>2. /\ s \notin locked /\ locked' = locked \cup {s}
      /\ Push(t, ScopeFrame(s, p))
      /\ instance_' = [instance_ EXCEPT ![t] = s]
      /\ UNCHANGED <<is_initialized, thread_tape_map_, heap, wild, built>>
      /\ HasObject(t)
  BY DEF Activate
<1>3. p \in Scopes \cup Storages \cup {NoTape} /\ fs \in Seq(Frame)
  BY <1>1 DEF Types
<1>4. ScopeFrame(s, p) \in Frame /\ ScopeFrame(s, p).kind = "scope"
  BY <1>3 DEF ScopeFrame, Frame
<1>5. /\ lifetimes' \in [Threads -> Seq(Frame)]
      /\ lifetimes'[t] = Append(fs, ScopeFrame(s, p))
      /\ \A u \in Threads \ {t} : lifetimes'[u] = lifetimes[u]
      /\ Kind(lifetimes'[t], "scope") = Kind(fs, "scope") \cup {Len(fs) + 1}
      /\ Kind(lifetimes'[t], "observer") = Kind(fs, "observer")
      /\ \A k : \A i \in Kind(fs, k) : i < Len(fs) + 1
  <2>1. PICK f \in Frame : f = ScopeFrame(s, p)
    BY <1>4
  <2>2. Push(t, f) /\ f.kind = "scope"
    BY <2>1, <1>2, <1>4
  <2>. HIDE DEF p, fs
  <2>3. /\ lifetimes' \in [Threads -> Seq(Frame)]
        /\ lifetimes'[t] = Append(lifetimes[t], f)
        /\ \A u \in Threads \ {t} : lifetimes'[u] = lifetimes[u]
        /\ \A k : Kind(lifetimes'[t], k) =
                    Kind(lifetimes[t], k) \cup (IF f.kind = k THEN {Len(lifetimes[t]) + 1} ELSE {})
        /\ \A k : \A i \in Kind(lifetimes[t], k) : i < Len(lifetimes[t]) + 1
    BY <2>2, PushStep
  <2>. QED
    BY <2>1, <2>2, <2>3 DEF fs
<1>6. Local(fs) \subseteq locked /\ Linked(p, fs)
  BY <1>1 DEF Tapes
<1>7. /\ Linked(s, lifetimes'[t])
      /\ Base(s, lifetimes'[t]) = Base(p, fs)
      /\ Local(lifetimes'[t]) = Local(fs) \cup {s}
  BY <1>2, <1>3, <1>5, <1>6, LinkedActivate
<1>8. /\ instance_'[t] = s
      /\ \A u \in Threads \ {t} : instance_'[u] = instance_[u]
      /\ instance_' \in [Threads -> Scopes \cup Storages \cup {NoTape}]
  BY <1>1, <1>2 DEF Types
<1>9. Types'
  BY <1>1, <1>2, <1>5, <1>8 DEF Types
<1>10. Tapes'
  <2>1. Base(instance_'[t], lifetimes'[t]) = MyBase(t) /\ heap' = heap
    BY <1>2, <1>7, <1>8 DEF MyBase
  <2>2. /\ Local(lifetimes'[t]) \cap (locked \ Local(lifetimes[t])) = {}
        /\ locked' = (locked \ Local(lifetimes[t])) \cup Local(lifetimes'[t])
    BY <1>2, <1>6, <1>7
  <2>3. wild' = {} /\ Linked(instance_'[t], lifetimes'[t])
    BY <1>1, <1>2, <1>7, <1>8 DEF Tapes
  <2>. QED
    BY <2>1, <2>2, <2>3, <1>5, <1>8, TapesStep
<1>11. Flags'
  <2>1. is_initialized[t]
    BY <1>1, <1>2 DEF Flags, HasObject, InPool, Registered, Frames, Kind
  <2>2. t = Main => \A i \in Kind(lifetimes'[t], "observer"), j \in Kind(lifetimes'[t], "scope") : i < j
    BY <1>1, <1>5 DEF Flags
  <2>3. t # Main => Kind(lifetimes'[t], "observer") = {}
    BY <1>1, <1>5 DEF Flags
  <2>4. is_initialized'[t] = is_initialized[t]
    BY <1>2
  <2>5. \A u \in Threads \ {t} : /\ instance_'[u] = instance_[u]
                                  /\ lifetimes'[u] = lifetimes[u]
                                  /\ is_initialized'[u] = is_initialized[u]
                                  /\ \A o \in Observers : u \in DOMAIN thread_tape_map_'[o]
                                                           => u \in DOMAIN thread_tape_map_[o]
    BY <1>2, <1>5, <1>8
  <2>. QED
    BY <2>1, <2>2, <2>3, <2>4, <2>5, FlagsStep
<1>12. Others(t) /\ Keeps(t)
  BY <1>2, <1>5, <1>7, <1>8 DEF Others, Keeps, NewBase, MyBase
<1>. QED
  BY <1>9, <1>10, <1>11, <1>12 DEF TapesInv

LEMMA DeactivateKeeps ==
  ASSUME TapesInv, NEW t \in Threads, Deactivate(t)
  PROVE  TapesInv' /\ Others(t) /\ Keeps(t)
<1>1. Types /\ Tapes /\ Flags
  BY DEF TapesInv
<1>. DEFINE p == instance_[t]
            fs == lifetimes[t]
            q == Last(fs).parent
<1>2. /\ fs # << >> /\ Last(fs).kind = "scope"
      /\ instance_' = [instance_ EXCEPT ![t] = q]
      /\ locked' = locked \ {Last(fs).scope}
      /\ Pop(t)
      /\ UNCHANGED <<is_initialized, thread_tape_map_, heap, wild, built>>
  BY DEF Deactivate, Top
<1>3. /\ lifetimes' \in [Threads -> Seq(Frame)]
      /\ fs \in Seq(Frame) /\ Last(fs) \in Frame
      /\ lifetimes'[t] = Front(fs)
      /\ \A u \in Threads \ {t} : lifetimes'[u] = lifetimes[u]
      /\ \A k : Kind(lifetimes'[t], k) \subseteq Kind(fs, k)
      /\ Len(fs) \in Kind(fs, "scope")
  BY <1>2, PopStep
<1>4. Local(fs) \subseteq locked /\ Linked(p, fs)
  BY <1>1 DEF Tapes
<1>5. /\ Linked(q, lifetimes'[t])
      /\ Base(q, lifetimes'[t]) = Base(p, fs)
      /\ p = Last(fs).scope
      /\ Local(lifetimes'[t]) = Local(fs) \ {p} /\ p \in Local(fs)
  BY <1>2, <1>3, <1>4, LinkedDeactivate
<1>6. /\ instance_'[t] = q
      /\ \A u \in Threads \ {t} : instance_'[u] = instance_[u]
      /\ instance_' \in [Threads -> Scopes \cup Storages \cup {NoTape}]
  BY <1>1, <1>2, <1>3, FrameFacts DEF Types
<1>7. Types'
  BY <1>1, <1>2, <1>3, <1>6 DEF Types
<1>8. Tapes'
  <2>1. Base(instance_'[t], lifetimes'[t]) = MyBase(t) /\ heap' = heap
    BY <1>2, <1>5, <1>6 DEF MyBase
  <2>2. /\ Local(lifetimes'[t]) \cap (locked \ Local(lifetimes[t])) = {}
        /\ locked' = (locked \ Local(lifetimes[t])) \cup Local(lifetimes'[t])
    BY <1>2, <1>4, <1>5
  <2>3. wild' = {} /\ Linked(instance_'[t], lifetimes'[t])
    BY <1>1, <1>2, <1>5, <1>6 DEF Tapes
  <2>. QED
    BY <2>1, <2>2, <2>3, <1>3, <1>6, TapesStep
<1>9. Flags'
  <2>1. is_initialized'[t]
    BY <1>1, <1>2, <1>3 DEF Flags
  <2>2. t = Main => \A i \in Kind(lifetimes'[t], "observer"), j \in Kind(lifetimes'[t], "scope") : i < j
    BY <1>1, <1>3 DEF Flags
  <2>3. t # Main => Kind(lifetimes'[t], "observer") = {}
    BY <1>1, <1>3 DEF Flags
  <2>4. \A u \in Threads \ {t} : /\ instance_'[u] = instance_[u]
                                  /\ lifetimes'[u] = lifetimes[u]
                                  /\ is_initialized'[u] = is_initialized[u]
                                  /\ \A o \in Observers : u \in DOMAIN thread_tape_map_'[o]
                                                           => u \in DOMAIN thread_tape_map_[o]
    BY <1>2, <1>3, <1>6
  <2>. QED
    BY <2>1, <2>2, <2>3, <2>4, FlagsStep
<1>10. Others(t) /\ Keeps(t)
  BY <1>2, <1>3, <1>5, <1>6 DEF Others, Keeps, NewBase, MyBase
<1>. QED
  BY <1>7, <1>8, <1>9, <1>10 DEF TapesInv
\* The objects of the thread change, its activations do not.
SameScopes(t) ==
  /\ lifetimes'[t] \in Seq(Frame)
  /\ Linked(instance_[t], lifetimes'[t])
  /\ Base(instance_[t], lifetimes'[t]) = MyBase(t)
  /\ Local(lifetimes'[t]) = Local(lifetimes[t])
  /\ Kind(lifetimes'[t], "scope") = Kind(lifetimes[t], "scope")
  /\ \A u \in Threads \ {t} : lifetimes'[u] = lifetimes[u]

LEMMA ConstructTapes ==
  ASSUME TapesInv, NEW t \in Threads, NEW own \in BOOLEAN, Construct(t, own),
         SameScopes(t), locked' = locked, wild' = wild
  PROVE  /\ Tapes' /\ Others(t)
         /\ own => Gains(t)
         /\ ~own => Keeps(t)
<1>1. Tapes
  BY DEF TapesInv
<1>2. /\ \A u \in Threads \ {t} : instance_'[u] = instance_[u]
      /\ ~own => instance_' = instance_ /\ heap' = heap
      /\ own => /\ Kind(lifetimes[t], "scope") = {}
                /\ MyBase(t) = NoTape
                /\ instance_'[t] \in Storages \ heap
                /\ heap' = heap \cup {instance_'[t]}
  BY ConstructStep
<1>3. /\ \A u \in Threads \ {t} : lifetimes'[u] = lifetimes[u]
      /\ Local(lifetimes'[t]) = Local(lifetimes[t])
  BY DEF SameScopes
<1>4. Local(lifetimes[t]) \subseteq locked /\ wild' = {}
  BY <1>1 DEF Tapes
<1>5. /\ Local(lifetimes'[t]) \cap (locked \ Local(lifetimes[t])) = {}
      /\ locked' = (locked \ Local(lifetimes[t])) \cup Local(lifetimes'[t])
  BY <1>3, <1>4
<1>8. Others(t)
  BY <1>2, <1>3 DEF Others, NewBase, MyBase
<1>6. CASE ~own
  <2>1. /\ Linked(instance_'[t], lifetimes'[t])
        /\ Base(instance_'[t], lifetimes'[t]) = MyBase(t)
    BY <1>2, <1>6 DEF SameScopes
  <2>2. Keeps(t)
    BY <2>1, <1>2, <1>6 DEF Keeps, NewBase
  <2>3. Tapes'
    BY <2>1, <1>2, <1>3, <1>4, <1>5, <1>6, TapesStep
  <2>. QED
    BY <2>2, <2>3, <1>6, <1>8
<1>7. CASE own
  <2>1. lifetimes'[t] \in Seq(Frame) /\ Kind(lifetimes'[t], "scope") = {}
    BY <1>2, <1>7 DEF SameScopes
  <2>2. PICK p \in Storages \cup {NoTape} : p = instance_'[t]
    BY <1>2, <1>7
  <2>3. PICK fs \in Seq(Frame) : fs = lifetimes'[t]
    BY <2>1
  <2>4. Linked(p, fs) /\ Base(p, fs) = p
    BY <2>1, <2>3, LinkedOutside
  <2>5. /\ Linked(instance_'[t], lifetimes'[t])
        /\ Base(instance_'[t], lifetimes'[t]) = instance_'[t]
    BY <2>2, <2>3, <2>4
  <2>6. Gains(t)
    BY <2>5, <1>2, <1>7, TapesAssumption DEF Gains, NewBase
  <2>7. Tapes'
    BY <2>5, <1>2, <1>3, <1>4, <1>5, <1>7, TapesStep
  <2>. QED
    BY <2>6, <2>7, <1>7, <1>8
<1>. QED
  BY <1>6, <1>7

LEMMA DestructTapes ==
  ASSUME TapesInv, NEW t \in Threads, NEW own \in BOOLEAN, Destruct(t, own),
         own => Kind(lifetimes[t], "scope") = {},
         SameScopes(t), locked' = locked
  PROVE  /\ Tapes' /\ Others(t)
         /\ own => Loses(t)
         /\ ~own => Keeps(t)
<1>1. Tapes
  BY DEF TapesInv
<1>2. /\ \A u \in Threads \ {t} : instance_'[u] = instance_[u]
      /\ wild' = {}
      /\ ~own => instance_' = instance_ /\ heap' = heap
      /\ own => /\ MyBase(t) = instance_[t] /\ instance_'[t] = NoTape
                /\ heap' = heap \ {instance_[t]}
  BY DestructStep
<1>3. /\ \A u \in Threads \ {t} : lifetimes'[u] = lifetimes[u]
      /\ Local(lifetimes'[t]) = Local(lifetimes[t])
  BY DEF SameScopes
<1>4. Local(lifetimes[t]) \subseteq locked
  BY <1>1 DEF Tapes
<1>5. /\ Local(lifetimes'[t]) \cap (locked \ Local(lifetimes[t])) = {}
      /\ locked' = (locked \ Local(lifetimes[t])) \cup Local(lifetimes'[t])
  BY <1>3, <1>4
<1>8. Others(t)
  BY <1>2, <1>3 DEF Others, NewBase, MyBase
<1>6. CASE ~own
  <2>1. /\ Linked(instance_'[t], lifetimes'[t])
        /\ Base(instance_'[t], lifetimes'[t]) = MyBase(t)
    BY <1>2, <1>6 DEF SameScopes
  <2>2. Keeps(t)
    BY <2>1, <1>2, <1>6 DEF Keeps, NewBase
  <2>3. Tapes'
    BY <2>1, <1>2, <1>3, <1>5, <1>6, TapesStep
  <2>. QED
    BY <2>2, <2>3, <1>6, <1>8
<1>7. CASE own
  <2>1. lifetimes'[t] \in Seq(Frame) /\ Kind(lifetimes'[t], "scope") = {}
    BY <1>7 DEF SameScopes
  <2>3. PICK fs \in Seq(Frame) : fs = lifetimes'[t]
    BY <2>1
  <2>4. Linked(NoTape, fs) /\ Base(NoTape, fs) = NoTape
    BY <2>1, <2>3, LinkedOutside
  <2>5. /\ Linked(instance_'[t], lifetimes'[t])
        /\ Base(instance_'[t], lifetimes'[t]) = NoTape
    BY <1>2, <1>7, <2>3, <2>4
  <2>6. heap \ {MyBase(t)} \subseteq heap' /\ heap' \subseteq heap
    BY <1>2, <1>7
  <2>7. Loses(t)
    BY <2>5, <1>2, <1>7 DEF Loses, NewBase
  <2>8. Tapes'
    BY <2>5, <2>6, <1>2, <1>3, <1>5, TapesStep
  <2>. QED
    BY <2>7, <2>8, <1>7, <1>8
<1>. QED
  BY <1>6, <1>7

LEMMA PushedSameScopes ==
  ASSUME TapesInv, NEW t \in Threads, NEW f \in Frame, Push(t, f), f.kind # "scope",
         f.kind = "user" => (f.own => Kind(lifetimes[t], "scope") = {})
  PROVE  SameScopes(t)
<1>1. Tapes /\ lifetimes'[t] = Append(lifetimes[t], f) /\ lifetimes[t] \in Seq(Frame)
      /\ \A u \in Threads \ {t} : lifetimes'[u] = lifetimes[u]
  BY PushStep DEF TapesInv
<1>2. PICK fs \in Seq(Frame) : fs = lifetimes[t]
  BY <1>1
<1>3. PICK p : p = instance_[t]
  OBVIOUS
<1>4. Linked(p, fs) /\ MyBase(t) = Base(p, fs)
  BY <1>1, <1>2, <1>3 DEF Tapes, MyBase
<1>5. /\ Append(fs, f) \in Seq(Frame) /\ Linked(p, Append(fs, f))
      /\ Base(p, Append(fs, f)) = Base(p, fs)
      /\ Local(Append(fs, f)) = Local(fs)
      /\ Kind(Append(fs, f), "scope") = Kind(fs, "scope")
  BY <1>2, <1>4, LinkedPush
<1>. QED
  BY <1>1, <1>2, <1>3, <1>4, <1>5 DEF SameScopes

LEMMA PoppedSameScopes ==
  ASSUME TapesInv, NEW t \in Threads, Pop(t), lifetimes[t] # << >>,
         Last(lifetimes[t]).kind # "scope"
  PROVE  SameScopes(t)
<1>1. Tapes /\ lifetimes'[t] = Front(lifetimes[t]) /\ lifetimes[t] \in Seq(Frame)
      /\ \A u \in Threads \ {t} : lifetimes'[u] = lifetimes[u]
  BY PopStep DEF TapesInv
<1>2. PICK fs \in Seq(Frame) : fs = lifetimes[t]
  BY <1>1
<1>3. PICK p : p = instance_[t]
  OBVIOUS
<1>4. Linked(p, fs) /\ MyBase(t) = Base(p, fs)
  BY <1>1, <1>2, <1>3 DEF Tapes, MyBase
<1>5. /\ Front(fs) \in Seq(Frame) /\ Linked(p, Front(fs))
      /\ Base(p, Front(fs)) = Base(p, fs)
      /\ Local(Front(fs)) = Local(fs)
      /\ Kind(Front(fs), "scope") = Kind(fs, "scope")
  BY <1>2, <1>4, LinkedPop
<1>. QED
  BY <1>1, <1>2, <1>3, <1>4, <1>5 DEF SameScopes

\* An object of the client that owns a tape is not above an activation.
LEMMA OwnerOnTop ==
  ASSUME TapesInv, NEW t \in Threads, lifetimes[t] # << >>,
         Last(lifetimes[t]).kind = "user", Last(lifetimes[t]).own
  PROVE  Kind(lifetimes[t], "scope") = {}
<1>1. Types /\ Tapes /\ lifetimes[t] \in Seq(Frame)
  BY DEF TapesInv, Types
<1>2. SUFFICES ASSUME NEW i \in Kind(lifetimes[t], "scope") PROVE FALSE
  OBVIOUS
<1>3. i \in Nat /\ i <= Len(lifetimes[t]) /\ lifetimes[t][i].kind = "scope"
  BY <1>1 DEF Kind
<1>4. /\ Len(lifetimes[t]) \in DOMAIN lifetimes[t] /\ Len(lifetimes[t]) \in Nat
      /\ lifetimes[t][Len(lifetimes[t])] = Last(lifetimes[t])
  BY <1>1 DEF Last
<1>5. Len(lifetimes[t]) \in Kind(lifetimes[t], "user") /\ i < Len(lifetimes[t])
  BY <1>3, <1>4 DEF Kind
<1>6. \A j \in Kind(lifetimes[t], "user") : i < j => ~lifetimes[t][j].own
  BY <1>1, <1>2 DEF Tapes, Linked
<1>. QED
  BY <1>4, <1>5, <1>6

LEMMA ConstructUserKeeps ==
  ASSUME TapesInv, NEW t \in Threads, ConstructUser(t)
  PROVE  TapesInv'
<1>1. Types /\ Tapes /\ Flags
  BY DEF TapesInv
<1>2. PICK own \in BOOLEAN : Construct(t, own) /\ Push(t, UserFrame(own))
  BY DEF ConstructUser
<1>3. UNCHANGED <<thread_tape_map_, locked, wild, built>>
  BY DEF ConstructUser
<1>4. PICK f \in Frame : f = UserFrame(own) /\ f.kind = "user" /\ f.own = own
  <2>1. UserFrame(own) \in [kind : {"user"}, own : BOOLEAN]
    BY DEF UserFrame
  <2>2. UserFrame(own).kind = "user" /\ UserFrame(own).own = own
    BY DEF UserFrame
  <2>. QED
    BY <2>1, <2>2 DEF Frame
<1>5. /\ is_initialized' = [is_initialized EXCEPT ![t] = TRUE]
      /\ \A u \in Threads \ {t} : instance_'[u] = instance_[u]
      /\ instance_' \in [Threads -> Scopes \cup Storages \cup {NoTape}]
      /\ heap' \subseteq Storages
      /\ own => Kind(lifetimes[t], "scope") = {}
  BY <1>2, ConstructStep
<1>6. /\ lifetimes' \in [Threads -> Seq(Frame)]
      /\ lifetimes[t] \in Seq(Frame)
      /\ lifetimes'[t] = Append(lifetimes[t], f)
      /\ \A u \in Threads \ {t} : lifetimes'[u] = lifetimes[u]
      /\ \A k : Kind(lifetimes'[t], k) =
                  Kind(lifetimes[t], k) \cup (IF f.kind = k THEN {Len(lifetimes[t]) + 1} ELSE {})
  BY <1>2, <1>4, PushStep
<1>7. Types'
  BY <1>1, <1>3, <1>5, <1>6 DEF Types
<1>8. SameScopes(t)
  BY <1>2, <1>4, <1>5, PushedSameScopes
<1>9. Tapes'
  BY <1>2, <1>3, <1>8, ConstructTapes
<1>10. Flags'
  <2>1. is_initialized'[t] /\ \A u \in Threads \ {t} : is_initialized'[u] = is_initialized[u]
    BY <1>1, <1>5 DEF Types
  <2>2. /\ Kind(lifetimes'[t], "observer") = Kind(lifetimes[t], "observer")
        /\ Kind(lifetimes'[t], "scope") = Kind(lifetimes[t], "scope")
    BY <1>4, <1>6
  <2>3. t = Main => \A i \in Kind(lifetimes'[t], "observer"), j \in Kind(lifetimes'[t], "scope") : i < j
    BY <2>2, <1>1 DEF Flags
  <2>4. t # Main => Kind(lifetimes'[t], "observer") = {}
    BY <2>2, <1>1 DEF Flags
  <2>. QED
    BY <2>1, <2>3, <2>4, <1>3, <1>5, <1>6, FlagsStep
<1>. QED
  BY <1>7, <1>9, <1>10 DEF TapesInv
LEMMA DestroyUserKeeps ==
  ASSUME TapesInv, NEW t \in Threads, DestroyUser(t)
  PROVE  TapesInv'
<1>1. Types /\ Tapes /\ Flags
  BY DEF TapesInv
<1>2. /\ lifetimes[t] # << >> /\ Last(lifetimes[t]).kind = "user"
      /\ Destruct(t, Last(lifetimes[t]).own)
      /\ Pop(t)
      /\ UNCHANGED <<is_initialized, thread_tape_map_, locked, built>>
  BY DEF DestroyUser, Top
<1>3. /\ lifetimes' \in [Threads -> Seq(Frame)]
      /\ lifetimes[t] \in Seq(Frame) /\ Last(lifetimes[t]) \in Frame
      /\ \A u \in Threads \ {t} : lifetimes'[u] = lifetimes[u]
      /\ \A k : Kind(lifetimes'[t], k) \subseteq Kind(lifetimes[t], k)
      /\ Len(lifetimes[t]) \in Kind(lifetimes[t], "user")
      /\ \A k : \A i \in Kind(lifetimes[t], k) : i \in Nat /\ i <= Len(lifetimes[t])
  BY <1>2, PopStep
<1>4. PICK own \in BOOLEAN : own = Last(lifetimes[t]).own /\ Destruct(t, own)
  BY <1>2, <1>3, FrameFacts
<1>5. own => Kind(lifetimes[t], "scope") = {}
  BY <1>2, <1>4, OwnerOnTop
<1>6. /\ \A u \in Threads \ {t} : instance_'[u] = instance_[u]
      /\ instance_' \in [Threads -> Scopes \cup Storages \cup {NoTape}]
      /\ heap' \subseteq Storages
  BY <1>4, <1>5, DestructStep
<1>7. Types'
  BY <1>1, <1>2, <1>3, <1>6 DEF Types
<1>8. SameScopes(t)
  BY <1>2, PoppedSameScopes
<1>9. Tapes'
  BY <1>2, <1>4, <1>5, <1>8, DestructTapes
<1>10. Flags'
  <2>1. is_initialized'[t]
    BY <1>1, <1>2, <1>3 DEF Flags
  <2>2. t = Main => \A i \in Kind(lifetimes'[t], "observer"), j \in Kind(lifetimes'[t], "scope") : i < j
    BY <1>1, <1>3 DEF Flags
  <2>3. t # Main => Kind(lifetimes'[t], "observer") = {}
    BY <1>1, <1>3 DEF Flags
  <2>. QED
    BY <2>1, <2>2, <2>3, <1>2, <1>3, <1>6, FlagsStep
<1>. QED
  BY <1>7, <1>9, <1>10 DEF TapesInv

LEMMA EndThreadKeeps ==
  ASSUME TapesInv, NEW t \in Threads, EndThread(t)
  PROVE  TapesInv'
<1>1. Types /\ Tapes /\ Flags
  BY DEF TapesInv
<1>2. /\ t # Main /\ lifetimes[t] = << >> /\ ~InPool(t)
      /\ is_initialized' = [is_initialized EXCEPT ![t] = FALSE]
      /\ instance_' = [instance_ EXCEPT ![t] = NoTape]
      /\ UNCHANGED <<thread_tape_map_, lifetimes, locked, heap, wild, built>>
  BY DEF EndThread
<1>3. \A k : Kind(lifetimes[t], k) = {}
  BY <1>2 DEF Kind
<1>4. /\ instance_'[t] = NoTape
      /\ \A u \in Threads \ {t} : instance_'[u] = instance_[u]
      /\ \A u \in Threads \ {t} : is_initialized'[u] = is_initialized[u]
      /\ instance_' \in [Threads -> Scopes \cup Storages \cup {NoTape}]
      /\ is_initialized' \in [Threads -> BOOLEAN]
  BY <1>1, <1>2 DEF Types
<1>5. Types'
  BY <1>1, <1>2, <1>4 DEF Types
<1>6. Tapes'
  <2>1. PICK fs \in Seq(Frame) : fs = lifetimes'[t]
    BY <1>1, <1>2 DEF Types
  <2>2. Linked(NoTape, fs) /\ Base(NoTape, fs) = NoTape
    BY <2>1, <1>2, <1>3, LinkedOutside
  <2>3. /\ Linked(instance_'[t], lifetimes'[t])
        /\ Base(instance_'[t], lifetimes'[t]) = NoTape
    BY <2>1, <2>2, <1>4
  <2>4. Local(lifetimes[t]) = {} /\ Local(lifetimes'[t]) = {} /\ wild' = {}
    BY <1>1, <1>2, <1>3 DEF Local, Tapes
  <2>5. /\ Local(lifetimes'[t]) \cap (locked \ Local(lifetimes[t])) = {}
        /\ locked' = (locked \ Local(lifetimes[t])) \cup Local(lifetimes'[t])
        /\ heap \ {MyBase(t)} \subseteq heap' /\ heap' \subseteq heap
    BY <2>4, <1>2
  <2>. QED
    BY <2>3, <2>4, <2>5, <1>2, <1>4, TapesStep
<1>7. Flags'
  <2>1. \A o \in Observers : t \notin DOMAIN thread_tape_map_'[o]
    BY <1>2 DEF InPool, Registered
  <2>2. \A k : Kind(lifetimes'[t], k) = {}
    BY <1>2, <1>3
  <2>. QED
    BY <2>1, <2>2, <1>2, <1>4, FlagsStep
<1>. QED
  BY <1>5, <1>6, <1>7 DEF TapesInv
LEMMA EntryKeeps ==
  ASSUME TapesInv, NEW t \in Threads, NEW o \in Observers, on_scheduler_entry(t, o)
  PROVE  TapesInv'
<1>1. Types /\ Tapes /\ Flags
  BY DEF TapesInv
<1>2. UNCHANGED <<lifetimes, locked, wild, built>>
  BY DEF on_scheduler_entry
<1>3. PICK own \in BOOLEAN :
        /\ Construct(t, own)
        /\ thread_tape_map_' = [thread_tape_map_ EXCEPT
                                  ![o] = [u \in DOMAIN @ \cup {t} |-> IF u = t THEN own ELSE @[u]]]
  BY DEF on_scheduler_entry, RegisterThread
<1>4. /\ thread_tape_map_' = [p \in Observers |-> thread_tape_map_'[p]]
      /\ \A p \in Observers : /\ DOMAIN thread_tape_map_'[p] \subseteq Threads
                              /\ \A u \in DOMAIN thread_tape_map_'[p] :
                                   thread_tape_map_'[p][u] \in BOOLEAN
      /\ \A p \in Observers : DOMAIN thread_tape_map_'[p] \subseteq
                                DOMAIN thread_tape_map_[p] \cup {t}
  BY <1>3, RegisterStep
<1>5. /\ is_initialized' = [is_initialized EXCEPT ![t] = TRUE]
      /\ \A u \in Threads \ {t} : instance_'[u] = instance_[u]
      /\ instance_' \in [Threads -> Scopes \cup Storages \cup {NoTape}]
      /\ heap' \subseteq Storages
  BY <1>3, ConstructStep
<1>6. Types'
  BY <1>1, <1>2, <1>4, <1>5 DEF Types
<1>7. SameScopes(t)
  BY <1>1, <1>2 DEF SameScopes, Types, Tapes, MyBase
<1>8. Tapes'
  BY <1>2, <1>3, <1>7, ConstructTapes
<1>9. Flags'
  <2>1. is_initialized'[t] /\ \A u \in Threads \ {t} : is_initialized'[u] = is_initialized[u]
    BY <1>1, <1>5 DEF Types
  <2>2. t = Main => \A i \in Kind(lifetimes'[t], "observer"), j \in Kind(lifetimes'[t], "scope") : i < j
    BY <1>1, <1>2 DEF Flags
  <2>3. t # Main => Kind(lifetimes'[t], "observer") = {}
    BY <1>1, <1>2 DEF Flags
  <2>. QED
    BY <2>1, <2>2, <2>3, <1>2, <1>4, <1>5, FlagsStep
<1>. QED
  BY <1>6, <1>8, <1>9 DEF TapesInv

LEMMA ExitKeeps ==
  ASSUME TapesInv, NEW t \in Threads, NEW o \in Observers, on_scheduler_exit(t, o)
  PROVE  TapesInv'
<1>1. Types /\ Tapes /\ Flags
  BY DEF TapesInv
<1>2. /\ UNCHANGED <<is_initialized, lifetimes, locked, built>>
      /\ t \in DOMAIN thread_tape_map_[o]
      /\ Destruct(t, thread_tape_map_[o][t])
      /\ thread_tape_map_' = [thread_tape_map_ EXCEPT
                                ![o] = [u \in DOMAIN @ \ {t} |-> @[u]]]
  BY DEF on_scheduler_exit, Registered
<1>3. Kind(lifetimes[t], "scope") = {}
  BY DEF on_scheduler_exit, InScope, Frames, Kind
<1>4. PICK own \in BOOLEAN : Destruct(t, own)
  BY <1>1, <1>2 DEF Types
<1>5. /\ thread_tape_map_' = [p \in Observers |-> thread_tape_map_'[p]]
      /\ \A p \in Observers : /\ DOMAIN thread_tape_map_'[p] \subseteq DOMAIN thread_tape_map_[p]
                              /\ \A u \in DOMAIN thread_tape_map_'[p] :
                                   thread_tape_map_'[p][u] = thread_tape_map_[p][u]
  <2>1. DOMAIN thread_tape_map_ = Observers
    BY <1>1 DEF Types
  <2>2. \A p \in Observers \ {o} : thread_tape_map_'[p] = thread_tape_map_[p]
    BY <1>2, <2>1
  <2>3. thread_tape_map_'[o] = [u \in DOMAIN thread_tape_map_[o] \ {t} |-> thread_tape_map_[o][u]]
    BY <1>2, <2>1
  <2>4. thread_tape_map_' = [p \in Observers |-> thread_tape_map_'[p]]
    BY <1>2, <2>1
  <2>. QED
    BY <2>2, <2>3, <2>4
<1>6. /\ \A u \in Threads \ {t} : instance_'[u] = instance_[u]
      /\ instance_' \in [Threads -> Scopes \cup Storages \cup {NoTape}]
      /\ heap' \subseteq Storages
  BY <1>3, <1>4, DestructStep
<1>7. Types'
  BY <1>1, <1>2, <1>5, <1>6 DEF Types
<1>8. SameScopes(t)
  BY <1>1, <1>2 DEF SameScopes, Types, Tapes, MyBase
<1>9. Tapes'
  BY <1>2, <1>3, <1>4, <1>8, DestructTapes
<1>10. Flags'
  <2>1. is_initialized'[t]
    BY <1>1, <1>2 DEF Flags
  <2>2. t = Main => \A i \in Kind(lifetimes'[t], "observer"), j \in Kind(lifetimes'[t], "scope") : i < j
    BY <1>1, <1>2 DEF Flags
  <2>3. t # Main => Kind(lifetimes'[t], "observer") = {}
    BY <1>1, <1>2 DEF Flags
  <2>. QED
    BY <2>1, <2>2, <2>3, <1>2, <1>5, <1>6, FlagsStep
<1>. QED
  BY <1>7, <1>9, <1>10 DEF TapesInv

LEMMA ConstructObserverKeeps ==
  ASSUME TapesInv, ConstructObserver
  PROVE  TapesInv'
<1>. DEFINE t == Main
            o == built + 1
<1>1. /\ Types /\ Tapes /\ Flags /\ t \in Threads /\ o \in Observers
      /\ o \in 0 .. NumObservers
  BY BoundsAssumption DEF TapesInv, Threads, Types, ConstructObserver, Observers
<1>2. /\ UNCHANGED <<locked, wild>> /\ built' = o
      /\ Push(t, ObserverFrame(o))
  BY DEF ConstructObserver
<1>3. Kind(lifetimes[t], "scope") = {}
  BY DEF ConstructObserver, InScope, Frames, Kind
<1>4. PICK own \in BOOLEAN :
        /\ Construct(t, own)
        /\ thread_tape_map_' = [thread_tape_map_ EXCEPT
                                  ![o] = [u \in DOMAIN @ \cup {t} |-> IF u = t THEN own ELSE @[u]]]
  BY DEF ConstructObserver, RegisterThread
<1>5. /\ thread_tape_map_' = [p \in Observers |-> thread_tape_map_'[p]]
      /\ \A p \in Observers : /\ DOMAIN thread_tape_map_'[p] \subseteq Threads
                              /\ \A u \in DOMAIN thread_tape_map_'[p] :
                                   thread_tape_map_'[p][u] \in BOOLEAN
      /\ \A p \in Observers : DOMAIN thread_tape_map_'[p] \subseteq
                                DOMAIN thread_tape_map_[p] \cup {t}
  BY <1>1, <1>4, RegisterStep
<1>6. /\ is_initialized' = [is_initialized EXCEPT ![t] = TRUE]
      /\ \A u \in Threads \ {t} : instance_'[u] = instance_[u]
      /\ instance_' \in [Threads -> Scopes \cup Storages \cup {NoTape}]
      /\ heap' \subseteq Storages
  BY <1>1, <1>4, ConstructStep
<1>7. PICK f \in Frame : f = ObserverFrame(o) /\ f.kind = "observer"
  <2>1. /\ ObserverFrame(o) \in [kind : {"observer"}, observer : Observers]
        /\ ObserverFrame(o).kind = "observer"
    BY <1>1 DEF ObserverFrame
  <2>. QED
    BY <2>1 DEF Frame
<1>8. /\ lifetimes' \in [Threads -> Seq(Frame)]
      /\ lifetimes[t] \in Seq(Frame)
      /\ lifetimes'[t] = Append(lifetimes[t], f)
      /\ \A u \in Threads \ {t} : lifetimes'[u] = lifetimes[u]
  BY <1>1, <1>2, <1>7, PushStep
<1>9. Types'
  BY <1>1, <1>2, <1>5, <1>6, <1>8 DEF Types
<1>10. SameScopes(t)
  BY <1>1, <1>2, <1>7, PushedSameScopes
<1>11. Tapes'
  BY <1>1, <1>2, <1>4, <1>10, ConstructTapes
<1>12. Flags'
  <2>1. is_initialized'[t] /\ \A u \in Threads \ {t} : is_initialized'[u] = is_initialized[u]
    BY <1>1, <1>6 DEF Types
  <2>2. Kind(lifetimes'[t], "scope") = {}
    BY <1>3, <1>10 DEF SameScopes
  <2>3. \A u \in Threads \ {t} : /\ instance_'[u] = instance_[u]
                                  /\ lifetimes'[u] = lifetimes[u]
                                  /\ is_initialized'[u] = is_initialized[u]
                                  /\ \A p \in Observers : u \in DOMAIN thread_tape_map_'[p]
                                                           => u \in DOMAIN thread_tape_map_[p]
    BY <1>5, <1>6, <1>8, <2>1
  <2>. QED
    BY <2>1, <2>2, <2>3, <1>1, FlagsStep
<1>. QED
  BY <1>9, <1>11, <1>12 DEF TapesInv

LEMMA DestroyObserverKeeps ==
  ASSUME TapesInv, DestroyObserver
  PROVE  TapesInv'
<1>. DEFINE t == Main
            o == Last(lifetimes[Main]).observer
<1>1. Types /\ Tapes /\ Flags /\ t \in Threads
  BY DEF TapesInv, Threads
<1>2. /\ UNCHANGED <<is_initialized, locked, built>>
      /\ lifetimes[t] # << >> /\ Last(lifetimes[t]).kind = "observer"
      /\ thread_tape_map_' = [thread_tape_map_ EXCEPT ![o] = << >>]
      /\ Pop(t)
  BY DEF DestroyObserver, Top
<1>3. PICK own \in BOOLEAN : Destruct(t, own)
  BY DEF DestroyObserver
<1>4. /\ lifetimes' \in [Threads -> Seq(Frame)]
      /\ lifetimes[t] \in Seq(Frame) /\ Last(lifetimes[t]) \in Frame
      /\ \A u \in Threads \ {t} : lifetimes'[u] = lifetimes[u]
      /\ \A k : Kind(lifetimes'[t], k) \subseteq Kind(lifetimes[t], k)
      /\ Len(lifetimes[t]) \in Kind(lifetimes[t], "observer")
      /\ \A k : \A i \in Kind(lifetimes[t], k) : i \in Nat /\ i <= Len(lifetimes[t])
  BY <1>1, <1>2, PopStep
<1>5. Kind(lifetimes[t], "scope") = {}
  <2>1. SUFFICES ASSUME NEW j \in Kind(lifetimes[t], "scope") PROVE FALSE
    OBVIOUS
  <2>2. Len(lifetimes[t]) < j
    BY <2>1, <1>1, <1>4 DEF Flags
  <2>3. j \in Nat /\ j <= Len(lifetimes[t]) /\ Len(lifetimes[t]) \in Nat
    BY <2>1, <1>4
  <2>. QED
    BY <2>2, <2>3
<1>6. /\ thread_tape_map_' = [p \in Observers |-> thread_tape_map_'[p]]
      /\ \A p \in Observers : /\ DOMAIN thread_tape_map_'[p] \subseteq DOMAIN thread_tape_map_[p]
                              /\ \A u \in DOMAIN thread_tape_map_'[p] :
                                   thread_tape_map_'[p][u] = thread_tape_map_[p][u]
  <2>1. DOMAIN thread_tape_map_ = Observers /\ o \in Observers
    BY <1>1, <1>2, <1>4, FrameFacts DEF Types
  <2>2. \A p \in Observers \ {o} : thread_tape_map_'[p] = thread_tape_map_[p]
    BY <1>2, <2>1
  <2>3. DOMAIN thread_tape_map_'[o] = {}
    BY <1>2, <2>1
  <2>4. thread_tape_map_' = [p \in Observers |-> thread_tape_map_'[p]]
    BY <1>2, <2>1
  <2>. QED
    BY <2>2, <2>3, <2>4
<1>7. /\ \A u \in Threads \ {t} : instance_'[u] = instance_[u]
      /\ instance_' \in [Threads -> Scopes \cup Storages \cup {NoTape}]
      /\ heap' \subseteq Storages
  BY <1>1, <1>3, <1>5, DestructStep
<1>8. Types'
  BY <1>1, <1>2, <1>4, <1>6, <1>7 DEF Types
<1>9. SameScopes(t)
  BY <1>1, <1>2, PoppedSameScopes
<1>10. Tapes'
  BY <1>1, <1>2, <1>3, <1>5, <1>9, DestructTapes
<1>11. Flags'
  <2>1. ~is_initialized'[t] => /\ instance_'[t] = NoTape
                               /\ Kind(lifetimes'[t], "scope") = {}
                               /\ Kind(lifetimes'[t], "user") = {}
                               /\ \A p \in Observers : t \notin DOMAIN thread_tape_map_'[p]
    <3>1. SUFFICES ASSUME ~is_initialized[t]
                   PROVE  /\ instance_'[t] = NoTape
                          /\ Kind(lifetimes'[t], "scope") = {}
                          /\ Kind(lifetimes'[t], "user") = {}
                          /\ \A p \in Observers : t \notin DOMAIN thread_tape_map_'[p]
      BY <1>2
    <3>2. /\ instance_[t] = NoTape /\ Kind(lifetimes[t], "user") = {}
          /\ \A p \in Observers : t \notin DOMAIN thread_tape_map_[p]
      BY <3>1, <1>1 DEF Flags
    <3>3. instance_'[t] = NoTape
      BY <3>2, <1>1, <1>3, <1>5, DestructStep
    <3>4. /\ Kind(lifetimes'[t], "scope") = {} /\ Kind(lifetimes'[t], "user") = {}
      BY <3>2, <1>4, <1>5
    <3>. QED
      BY <3>2, <3>3, <3>4, <1>6
  <2>2. t = Main => \A i \in Kind(lifetimes'[t], "observer"), j \in Kind(lifetimes'[t], "scope") : i < j
    BY <1>1, <1>4 DEF Flags
  <2>. QED
    BY <2>1, <2>2, <1>1, <1>2, <1>4, <1>6, <1>7, FlagsStep
<1>. QED
  BY <1>8, <1>10, <1>11 DEF TapesInv
-----------------------------------------------------------------------------
(* The invariant *)

LEMMA InitTapes == Init => TapesInv
<1>. SUFFICES ASSUME Init PROVE TapesInv
  OBVIOUS
<1>1. \A t \in Threads : /\ instance_[t] = NoTape /\ lifetimes[t] = << >>
                         /\ ~is_initialized[t]
  BY DEF Init
<1>2. \A t \in Threads : \A k : Kind(lifetimes[t], k) = {}
  BY <1>1 DEF Kind
<1>3. Types
  <2>1. << >> \in Seq(Frame)
    OBVIOUS
  <2>2. lifetimes \in [Threads -> Seq(Frame)]
    BY <2>1 DEF Init
  <2>3. /\ thread_tape_map_ = [o \in Observers |-> thread_tape_map_[o]]
        /\ \A o \in Observers : DOMAIN thread_tape_map_[o] = {}
    BY DEF Init
  <2>. QED
    BY <2>2, <2>3, BoundsAssumption DEF Init, Types
<1>4. \A t \in Threads : /\ Linked(instance_[t], lifetimes[t])
                         /\ MyBase(t) = NoTape
                         /\ Local(lifetimes[t]) = {}
  <2>1. TAKE t \in Threads
  <2>2. PICK fs \in Seq(Frame) : fs = lifetimes[t]
    BY <1>3 DEF Types
  <2>3. Linked(NoTape, fs) /\ Base(NoTape, fs) = NoTape /\ Local(fs) = {}
    BY <2>2, <1>2, LinkedOutside
  <2>. QED
    BY <2>2, <2>3, <1>1 DEF MyBase
<1>5. Tapes
  BY <1>4 DEF Tapes, Init
<1>6. Flags
  <2>1. \A o \in Observers : DOMAIN thread_tape_map_[o] = {}
    BY DEF Init
  <2>2. Main \in Threads
    BY DEF Threads
  <2>. QED
    BY <1>1, <1>2, <2>1, <2>2 DEF Flags
<1>. QED
  BY <1>3, <1>5, <1>6 DEF TapesInv

LEMMA NextKeepsTapes == TapesInv /\ [Next]_vars => TapesInv'
<1>. SUFFICES ASSUME TapesInv, [Next]_vars PROVE TapesInv'
  OBVIOUS
<1>1. CASE UNCHANGED vars
  BY <1>1 DEF vars, TapesInv, Types, Tapes, Flags, MyBase
<1>2. CASE ConstructObserver
  BY <1>2, ConstructObserverKeeps
<1>3. CASE DestroyObserver
  BY <1>3, DestroyObserverKeeps
<1>4. ASSUME NEW t \in Threads, NEW o \in Observers, on_scheduler_entry(t, o)
      PROVE  TapesInv'
  BY <1>4, EntryKeeps
<1>5. ASSUME NEW t \in Threads, NEW o \in Observers, on_scheduler_exit(t, o)
      PROVE  TapesInv'
  BY <1>5, ExitKeeps
<1>6. ASSUME NEW t \in Threads, EndThread(t) PROVE TapesInv'
  BY <1>6, EndThreadKeeps
<1>7. ASSUME NEW t \in Threads, ConstructUser(t) PROVE TapesInv'
  BY <1>7, ConstructUserKeeps
<1>8. ASSUME NEW t \in Threads, DestroyUser(t) PROVE TapesInv'
  BY <1>8, DestroyUserKeeps
<1>9. ASSUME NEW t \in Threads, NEW s \in Scopes, Activate(t, s) PROVE TapesInv'
  BY <1>9, ActivateKeeps
<1>10. ASSUME NEW t \in Threads, NEW s \in Scopes, ActivateThrows(t, s) PROVE TapesInv'
  BY <1>10, <1>1 DEF ActivateThrows
<1>11. ASSUME NEW t \in Threads, Deactivate(t) PROVE TapesInv'
  BY <1>11, DeactivateKeeps
<1>. QED
  BY <1>1, <1>2, <1>3, <1>4, <1>5, <1>6, <1>7, <1>8, <1>9, <1>10, <1>11 DEF Next

LEMMA TapesInvariant == Spec => []TapesInv
  BY InitTapes, NextKeepsTapes, PTL DEF Spec

\* Types, and a scoped stack's mutex is held exactly while an activation of it exists.
THEOREM TapesType == Spec => []TapesTypeOK
<1>1. TapesInv => TapesTypeOK
  <2>. SUFFICES ASSUME TapesInv PROVE TapesTypeOK
    OBVIOUS
  <2>1. Types /\ locked = UNION {Local(lifetimes[t]) : t \in Threads}
    BY DEF TapesInv, Tapes
  <2>2. \A t \in Threads : \A i \in DOMAIN lifetimes[t] : lifetimes[t][i] \in Frame
    BY <2>1 DEF Types
  <2>3. \A t \in Threads : Local(lifetimes[t]) = {lifetimes[t][i].scope : i \in Frames(t, "scope")}
    BY DEF Local, Kind, Frames
  <2>4. locked = UNION {{lifetimes[t][i].scope : i \in Frames(t, "scope")} : t \in Threads}
    BY <2>1, <2>3
  <2>. QED
    BY <2>1, <2>2, <2>4 DEF TapesTypeOK, Types
<1>. QED
  BY <1>1, TapesInvariant, PTL

\* What a pointer a thread holds can be.
LEMMA HeldIs ==
  ASSUME TapesInv, NEW h \in Holders
  PROVE  /\ h[1] \in Threads
         /\ \/ h = <<h[1], 0>>
            \/ h = <<h[1], h[2]>> /\ h[2] # 0 /\ h[2] \in Kind(lifetimes[h[1]], "scope")
         /\ Held(h) \in Reach(instance_[h[1]], lifetimes[h[1]])
<1>1. lifetimes \in [Threads -> Seq(Frame)]
  BY DEF TapesInv, Types
<1>2. CASE h \in {<<t, 0>> : t \in Threads}
  BY <1>2 DEF Held, Reach
<1>3. CASE \E t \in Threads : \E i \in Frames(t, "scope") : h = <<t, i>>
  <2>1. PICK t \in Threads : \E i \in Frames(t, "scope") : h = <<t, i>>
    BY <1>3
  <2>2. PICK i \in Frames(t, "scope") : h = <<t, i>>
    BY <2>1
  <2>3. i \in Kind(lifetimes[t], "scope") /\ i # 0
    BY <2>2, <1>1 DEF Frames, Kind
  <2>. QED
    BY <2>2, <2>3 DEF Held, Reach
<1>. QED
  BY <1>2, <1>3 DEF Holders

\* No tape is reachable twice: activations of one thread save different pointers, and two
\* threads share neither scoped stacks, which a mutex keeps apart, nor tapes of their own.
THEOREM TapesNeverShared == Spec => []TapesApart
<1>1. TapesInv => TapesApart
  <2>. SUFFICES ASSUME TapesInv, NEW g \in Holders, NEW h \in Holders,
                       g # h, Held(g) # NoTape, Held(g) = Held(h)
                PROVE  FALSE
    BY DEF TapesApart
  <2>1. Types /\ Tapes
    BY DEF TapesInv
  <2>2. PICK t \in Threads, u \in Threads : t = g[1] /\ u = h[1]
    BY HeldIs
  <2>3. /\ Held(g) \in Reach(instance_[t], lifetimes[t])
        /\ Held(h) \in Reach(instance_[u], lifetimes[u])
        /\ \/ g = <<t, 0>>
           \/ g = <<t, g[2]>> /\ g[2] # 0 /\ g[2] \in Kind(lifetimes[t], "scope")
        /\ \/ h = <<u, 0>>
           \/ h = <<u, h[2]>> /\ h[2] # 0 /\ h[2] \in Kind(lifetimes[u], "scope")
    BY <2>2, HeldIs
  <2>4. Linked(instance_[t], lifetimes[t]) /\ Linked(instance_[u], lifetimes[u])
    BY <2>1 DEF Tapes
  <2>5. CASE t = u
    <3>1. \/ g = <<t, 0>> /\ h[2] # 0 /\ h[2] \in Kind(lifetimes[t], "scope")
          \/ h = <<t, 0>> /\ g[2] # 0 /\ g[2] \in Kind(lifetimes[t], "scope")
          \/ /\ g[2] # 0 /\ g[2] \in Kind(lifetimes[t], "scope")
             /\ h[2] # 0 /\ h[2] \in Kind(lifetimes[t], "scope")
             /\ g[2] # h[2]
      BY <2>3, <2>5
    <3>2. /\ \A i \in Kind(lifetimes[t], "scope") :
               instance_[t] # NoTape => lifetimes[t][i].parent # instance_[t]
          /\ \A i, j \in Kind(lifetimes[t], "scope") :
               lifetimes[t][i].parent = lifetimes[t][j].parent /\ lifetimes[t][i].parent # NoTape => i = j
      BY <2>4 DEF Linked
    <3>. QED
      BY <3>1, <3>2, <2>2, <2>5 DEF Held
  <2>6. CASE t # u
    <3>1. /\ Held(g) \in Local(lifetimes[t]) \cup {MyBase(t)}
          /\ Held(h) \in Local(lifetimes[u]) \cup {MyBase(u)}
      BY <2>3, <2>4 DEF Linked, MyBase
    <3>2. Local(lifetimes[t]) \subseteq Scopes /\ Local(lifetimes[u]) \subseteq Scopes
      BY <2>1, <2>4, ReachIs DEF Types
    <3>3. /\ MyBase(t) \in Storages \cup {NoTape} /\ MyBase(u) \in Storages \cup {NoTape}
      BY <2>4 DEF Linked, MyBase
    <3>4. /\ Local(lifetimes[t]) \cap Local(lifetimes[u]) = {}
          /\ MyBase(t) = MyBase(u) => MyBase(t) = NoTape
      BY <2>1, <2>6 DEF Tapes
    <3>. QED
      BY <3>1, <3>2, <3>3, <3>4, TapesAssumption
  <2>. QED
    BY <2>5, <2>6
<1>. QED
  BY <1>1, TapesInvariant, PTL

\* Every pointer a thread holds, now or once an activation restores it, is nullptr, a scoped
\* stack or a storage that is allocated; and only allocated storages were deleted.
THEOREM PointersValid == Spec => []NoDanglingTape
<1>1. TapesInv => NoDanglingTape
  <2>. SUFFICES ASSUME TapesInv PROVE NoDanglingTape
    OBVIOUS
  <2>1. Types /\ Tapes
    BY DEF TapesInv
  <2>2. \A h \in Holders : Held(h) \in heap \cup Scopes \cup {NoTape}
    <3>1. TAKE h \in Holders
    <3>2. PICK t \in Threads : t = h[1] /\ Held(h) \in Reach(instance_[t], lifetimes[t])
      BY HeldIs
    <3>3. Linked(instance_[t], lifetimes[t]) /\ MyBase(t) \in heap \cup {NoTape}
      BY <2>1 DEF Tapes
    <3>4. Local(lifetimes[t]) \subseteq Scopes
      BY <2>1, <3>3, ReachIs DEF Types
    <3>. QED
      BY <3>2, <3>3, <3>4 DEF Linked, MyBase
  <2>. QED
    BY <2>1, <2>2 DEF NoDanglingTape, Tapes
<1>. QED
  BY <1>1, TapesInvariant, PTL

\* While the functor of an execute() runs and no inner one does, the thread writes to the
\* tape of that scoped stack.
THEOREM ExecuteUsesItsTape == Spec => []ScopeTapeInUse
<1>1. TapesInv => ScopeTapeInUse
  <2>. SUFFICES ASSUME TapesInv, NEW t \in Threads, Frames(t, "scope") # {}
                PROVE  \E i \in Frames(t, "scope") :
                         /\ \A j \in Frames(t, "scope") : j <= i
                         /\ instance_[t] = lifetimes[t][i].scope
    BY DEF ScopeTapeInUse
  <2>1. Frames(t, "scope") = Kind(lifetimes[t], "scope")
    BY DEF Frames, Kind
  <2>2. Linked(instance_[t], lifetimes[t])
    BY DEF TapesInv, Tapes
  <2>3. PICK i : IsLast(lifetimes[t], i) /\ instance_[t] = lifetimes[t][i].scope
    BY <2>1, <2>2 DEF Linked
  <2>. QED
    BY <2>1, <2>3 DEF IsLast
<1>. QED
  BY <1>1, TapesInvariant, PTL
-----------------------------------------------------------------------------
(* Who owns a tape *)

MapOwners(m, t) == {o \in Observers : t \in DOMAIN m[o] /\ m[o][t]}

\* U are the owning objects of the client, M the observers with an owning object.
OneOwner(tape, U, M) ==
  \/ tape = NoTape /\ U = {} /\ M = {}
  \/ tape # NoTape /\ M = {} /\ \E x : U = {x}
  \/ tape # NoTape /\ U = {} /\ \E x : M = {x}

\* Static destruction has not begun: every observer built is alive.
Up == ObserversOf(lifetimes[Main]) = 1 .. built

Registry ==
  /\ Distinct(lifetimes[Main])
  /\ ObserversOf(lifetimes[Main]) \subseteq 1 .. built
  /\ \A o \in Observers : built < o => DOMAIN thread_tape_map_[o] = {}

Ownership ==
  /\ \A t \in Threads :
       OneOwner(MyBase(t), UserOwners(lifetimes[t]), MapOwners(thread_tape_map_, t))
  /\ heap = {MyBase(t) : t \in Threads} \ {NoTape}

\* A registered worker has its own tape, and only the first observer's object for it owns it.
Ready ==
  \A t \in Workers : NumObservers > 0 /\ t \in DOMAIN thread_tape_map_[1] =>
    MyBase(t) # NoTape /\ UserOwners(lifetimes[t]) = {}

OwnersInv == Registry /\ (Up => Ownership) /\ Ready

\* One thread changes its tape together with its owners.
LEMMA OwnershipStep ==
  ASSUME TapesInv, Ownership, NEW t \in Threads, Others(t),
         Keeps(t) \/ Gains(t) \/ Loses(t),
         \A u \in Threads \ {t} : /\ lifetimes'[u] = lifetimes[u]
                                  /\ MapOwners(thread_tape_map_', u) = MapOwners(thread_tape_map_, u),
         OneOwner(NewBase(t), UserOwners(lifetimes'[t]), MapOwners(thread_tape_map_', t))
  PROVE  Ownership'
<1>1. \A u \in Threads :
        OneOwner(NewBase(u), UserOwners(lifetimes'[u]), MapOwners(thread_tape_map_', u))
  BY DEF Ownership, Others
<1>2. /\ \A u \in Threads \ {t} : NewBase(u) = MyBase(u)
      /\ \A u \in Threads \ {t} : MyBase(u) = MyBase(t) => MyBase(t) = NoTape
      /\ heap = {MyBase(u) : u \in Threads} \ {NoTape}
  BY DEF Others, TapesInv, Tapes, Ownership
<1>. DEFINE B(u) == MyBase(u)
            C(u) == NewBase(u)
<1>3. /\ \A u \in Threads \ {t} : C(u) = B(u)
      /\ \A u \in Threads \ {t} : B(u) = B(t) => B(t) = NoTape
      /\ heap = {B(u) : u \in Threads} \ {NoTape}
  BY <1>2
<1>4. \/ C(t) = B(t) /\ heap' = heap
      \/ B(t) = NoTape /\ C(t) # NoTape /\ heap' = heap \cup {C(t)}
      \/ C(t) = NoTape /\ heap' = heap \ {B(t)}
  BY DEF Keeps, Gains, Loses
<1>5. heap' = {C(u) : u \in Threads} \ {NoTape}
  <2>. HIDE DEF B, C
  <2>1. CASE C(t) = B(t) /\ heap' = heap
    <3>1. \A u \in Threads : C(u) = B(u)
      BY <2>1, <1>3
    <3>2. {C(u) : u \in Threads} = {B(u) : u \in Threads}
      BY <3>1
    <3>. QED
      BY <2>1, <3>2, <1>3
  <2>2. CASE B(t) = NoTape /\ C(t) # NoTape /\ heap' = heap \cup {C(t)}
    <3>1. heap' \subseteq {C(u) : u \in Threads} \ {NoTape}
      BY <2>2, <1>3
    <3>2. {C(u) : u \in Threads} \ {NoTape} \subseteq heap'
      BY <2>2, <1>3
    <3>. QED
      BY <3>1, <3>2
  <2>3. CASE C(t) = NoTape /\ heap' = heap \ {B(t)}
    <3>1. heap' \subseteq {C(u) : u \in Threads} \ {NoTape}
      BY <2>3, <1>3
    <3>2. {C(u) : u \in Threads} \ {NoTape} \subseteq heap'
      BY <2>3, <1>3
    <3>. QED
      BY <3>1, <3>2
  <2>. QED
    BY <1>4, <2>1, <2>2, <2>3
<1>6. heap' = {NewBase(u) : u \in Threads} \ {NoTape}
  BY <1>5
<1>. QED
  BY <1>1, <1>6 DEF Ownership, NewBase, MyBase

\* The main thread's observers do not change.
SameObservers ==
  /\ built' = built
  /\ ObserversOf(lifetimes'[Main]) = ObserversOf(lifetimes[Main])
  /\ Distinct(lifetimes'[Main])

LEMMA RegistryStep ==
  ASSUME OwnersInv, SameObservers,
         \A o \in Observers : built < o => DOMAIN thread_tape_map_'[o] = {}
  PROVE  Registry' /\ (Up' <=> Up)
  BY DEF OwnersInv, Registry, SameObservers, Up

LEMMA ReadyStep ==
  ASSUME OwnersInv, NEW t \in Threads, Others(t),
         \A u \in Threads \ {t} :
           /\ lifetimes'[u] = lifetimes[u]
           /\ NumObservers > 0 /\ u \in DOMAIN thread_tape_map_'[1] => u \in DOMAIN thread_tape_map_[1],
         t \in Workers /\ NumObservers > 0 /\ t \in DOMAIN thread_tape_map_'[1] =>
           NewBase(t) # NoTape /\ UserOwners(lifetimes'[t]) = {}
  PROVE  Ready'
<1>1. \A u \in Workers : NumObservers > 0 /\ u \in DOMAIN thread_tape_map_'[1] =>
        NewBase(u) # NoTape /\ UserOwners(lifetimes'[u]) = {}
  BY DEF OwnersInv, Ready, Others, Threads
<1>. QED
  BY <1>1 DEF Ready, NewBase, MyBase

LEMMA ActivateOwners ==
  ASSUME TapesInv, OwnersInv, NEW t \in Threads, NEW s \in Scopes, Activate(t, s)
  PROVE  OwnersInv'
<1>1. Others(t) /\ Keeps(t)
  BY ActivateKeeps
<1>2. PICK f \in Frame : f = ScopeFrame(s, instance_[t]) /\ f.kind = "scope"
  <2>1. instance_[t] \in Scopes \cup Storages \cup {NoTape}
    BY DEF TapesInv, Types
  <2>2. ScopeFrame(s, instance_[t]) \in Frame /\ ScopeFrame(s, instance_[t]).kind = "scope"
    BY <2>1 DEF ScopeFrame, Frame
  <2>. QED
    BY <2>2
<1>3. Push(t, f) /\ UNCHANGED <<thread_tape_map_, built>>
  BY <1>2 DEF Activate
<1>4. /\ lifetimes[t] \in Seq(Frame)
      /\ lifetimes'[t] = Append(lifetimes[t], f)
      /\ \A u \in Threads \ {t} : lifetimes'[u] = lifetimes[u]
  BY <1>3, PushStep
<1>5. /\ UserOwners(lifetimes'[t]) = UserOwners(lifetimes[t])
      /\ ObserversOf(lifetimes'[t]) = ObserversOf(lifetimes[t])
      /\ Distinct(lifetimes[t]) => Distinct(lifetimes'[t])
  BY <1>2, <1>4, PushedObjects
<1>6. SameObservers
  BY <1>3, <1>4, <1>5 DEF SameObservers, OwnersInv, Registry, Threads
<1>7. Registry' /\ (Up' <=> Up)
  BY <1>3, <1>6, RegistryStep DEF OwnersInv, Registry
<1>8. ASSUME Up PROVE Ownership'
  BY <1>1, <1>3, <1>4, <1>5, <1>8, OwnershipStep DEF OwnersInv, Ownership, Keeps
<1>9. Ready'
  BY <1>1, <1>3, <1>4, <1>5, ReadyStep DEF OwnersInv, Ready, Keeps
<1>. QED
  BY <1>7, <1>8, <1>9 DEF OwnersInv

LEMMA DeactivateOwners ==
  ASSUME TapesInv, OwnersInv, NEW t \in Threads, Deactivate(t)
  PROVE  OwnersInv'
<1>1. Others(t) /\ Keeps(t)
  BY DeactivateKeeps
<1>2. /\ Pop(t) /\ lifetimes[t] # << >> /\ Last(lifetimes[t]).kind = "scope"
      /\ UNCHANGED <<thread_tape_map_, built>>
  BY DEF Deactivate, Top
<1>3. /\ lifetimes[t] \in Seq(Frame)
      /\ lifetimes'[t] = Front(lifetimes[t])
      /\ \A u \in Threads \ {t} : lifetimes'[u] = lifetimes[u]
  BY <1>2, PopStep
<1>4. /\ UserOwners(lifetimes'[t]) = UserOwners(lifetimes[t])
      /\ ObserversOf(lifetimes'[t]) = ObserversOf(lifetimes[t])
      /\ Distinct(lifetimes[t]) => Distinct(lifetimes'[t])
  BY <1>2, <1>3, PoppedObjects
<1>5. SameObservers
  BY <1>2, <1>3, <1>4 DEF SameObservers, OwnersInv, Registry, Threads
<1>6. Registry' /\ (Up' <=> Up)
  BY <1>2, <1>5, RegistryStep DEF OwnersInv, Registry
<1>7. ASSUME Up PROVE Ownership'
  BY <1>1, <1>2, <1>3, <1>4, <1>7, OwnershipStep DEF OwnersInv, Ownership, Keeps
<1>8. Ready'
  BY <1>1, <1>2, <1>3, <1>4, ReadyStep DEF OwnersInv, Ready, Keeps
<1>. QED
  BY <1>6, <1>7, <1>8 DEF OwnersInv
LEMMA ConstructUserOwners ==
  ASSUME TapesInv, OwnersInv, NEW t \in Threads, ConstructUser(t)
  PROVE  OwnersInv'
<1>1. PICK own \in BOOLEAN : Construct(t, own) /\ Push(t, UserFrame(own))
  BY DEF ConstructUser
<1>2. PICK f \in Frame : f = UserFrame(own) /\ f.kind = "user" /\ f.own = own
  <2>1. UserFrame(own) \in [kind : {"user"}, own : BOOLEAN]
    BY DEF UserFrame
  <2>2. UserFrame(own).kind = "user" /\ UserFrame(own).own = own
    BY DEF UserFrame
  <2>. QED
    BY <2>1, <2>2 DEF Frame
<1>3. UNCHANGED <<thread_tape_map_, locked, wild, built>>
  BY DEF ConstructUser
<1>4. own => Kind(lifetimes[t], "scope") = {}
  BY <1>1, ConstructStep
<1>5. SameScopes(t)
  BY <1>1, <1>2, <1>4, PushedSameScopes
<1>6. Others(t) /\ (own => Gains(t)) /\ (~own => Keeps(t))
  BY <1>1, <1>3, <1>5, ConstructTapes
<1>7. /\ lifetimes[t] \in Seq(Frame)
      /\ lifetimes'[t] = Append(lifetimes[t], f)
      /\ \A u \in Threads \ {t} : lifetimes'[u] = lifetimes[u]
  BY <1>1, <1>2, PushStep
<1>8. /\ UserOwners(lifetimes'[t]) =
           UserOwners(lifetimes[t]) \cup (IF own THEN {Len(lifetimes[t]) + 1} ELSE {})
      /\ ObserversOf(lifetimes'[t]) = ObserversOf(lifetimes[t])
      /\ Distinct(lifetimes[t]) => Distinct(lifetimes'[t])
  BY <1>2, <1>7, PushedObjects
<1>9. SameObservers
  BY <1>3, <1>7, <1>8 DEF SameObservers, OwnersInv, Registry, Threads
<1>10. Registry' /\ (Up' <=> Up)
  BY <1>3, <1>9, RegistryStep DEF OwnersInv, Registry
<1>11. ASSUME Up PROVE Ownership'
  <2>1. OneOwner(MyBase(t), UserOwners(lifetimes[t]), MapOwners(thread_tape_map_, t)) /\ Ownership
    BY <1>11 DEF OwnersInv, Ownership
  <2>2. OneOwner(NewBase(t), UserOwners(lifetimes'[t]), MapOwners(thread_tape_map_', t))
    <3>1. CASE own
      BY <3>1, <2>1, <1>3, <1>6, <1>8 DEF OneOwner, Gains
    <3>2. CASE ~own
      BY <3>2, <2>1, <1>3, <1>6, <1>8 DEF Keeps
    <3>. QED
      BY <3>1, <3>2
  <2>. QED
    BY <2>1, <2>2, <1>3, <1>6, <1>7, OwnershipStep
<1>12. Ready'
  <2>1. t \in Workers /\ NumObservers > 0 /\ t \in DOMAIN thread_tape_map_'[1] =>
          NewBase(t) # NoTape /\ UserOwners(lifetimes'[t]) = {}
    BY <1>3, <1>6, <1>8 DEF OwnersInv, Ready, Gains, Keeps
  <2>. QED
    BY <2>1, <1>3, <1>6, <1>7, ReadyStep
<1>. QED
  BY <1>10, <1>11, <1>12 DEF OwnersInv

LEMMA DestroyUserOwners ==
  ASSUME TapesInv, OwnersInv, NEW t \in Threads, DestroyUser(t)
  PROVE  OwnersInv'
<1>1. /\ lifetimes[t] # << >> /\ Last(lifetimes[t]).kind = "user"
      /\ Destruct(t, Last(lifetimes[t]).own)
      /\ Pop(t)
      /\ UNCHANGED <<is_initialized, thread_tape_map_, locked, built>>
  BY DEF DestroyUser, Top
<1>2. /\ lifetimes[t] \in Seq(Frame) /\ Last(lifetimes[t]) \in Frame
      /\ lifetimes'[t] = Front(lifetimes[t])
      /\ \A u \in Threads \ {t} : lifetimes'[u] = lifetimes[u]
  BY <1>1, PopStep
<1>3. PICK own \in BOOLEAN : own = Last(lifetimes[t]).own /\ Destruct(t, own)
  BY <1>1, <1>2, FrameFacts
<1>4. own => Kind(lifetimes[t], "scope") = {}
  BY <1>1, <1>3, OwnerOnTop
<1>5. SameScopes(t)
  BY <1>1, PoppedSameScopes
<1>6. Others(t) /\ (own => Loses(t)) /\ (~own => Keeps(t))
  BY <1>1, <1>3, <1>4, <1>5, DestructTapes
<1>7. /\ UserOwners(lifetimes'[t]) = UserOwners(lifetimes[t]) \ {Len(lifetimes[t])}
      /\ own => Len(lifetimes[t]) \in UserOwners(lifetimes[t])
      /\ ~own => UserOwners(lifetimes'[t]) = UserOwners(lifetimes[t])
      /\ ObserversOf(lifetimes'[t]) = ObserversOf(lifetimes[t])
      /\ Distinct(lifetimes[t]) => Distinct(lifetimes'[t])
  BY <1>1, <1>2, <1>3, PoppedObjects
<1>8. SameObservers
  BY <1>1, <1>2, <1>7 DEF SameObservers, OwnersInv, Registry, Threads
<1>9. Registry' /\ (Up' <=> Up)
  BY <1>1, <1>8, RegistryStep DEF OwnersInv, Registry
<1>10. ASSUME Up PROVE Ownership'
  <2>1. OneOwner(MyBase(t), UserOwners(lifetimes[t]), MapOwners(thread_tape_map_, t)) /\ Ownership
    BY <1>10 DEF OwnersInv, Ownership
  <2>2. OneOwner(NewBase(t), UserOwners(lifetimes'[t]), MapOwners(thread_tape_map_', t))
    <3>1. CASE own
      BY <3>1, <2>1, <1>1, <1>6, <1>7 DEF OneOwner, Loses
    <3>2. CASE ~own
      BY <3>2, <2>1, <1>1, <1>6, <1>7 DEF Keeps
    <3>. QED
      BY <3>1, <3>2
  <2>. QED
    BY <2>1, <2>2, <1>1, <1>2, <1>6, OwnershipStep
<1>11. Ready'
  <2>1. t \in Workers /\ NumObservers > 0 /\ t \in DOMAIN thread_tape_map_'[1] =>
          NewBase(t) # NoTape /\ UserOwners(lifetimes'[t]) = {}
    BY <1>1, <1>6, <1>7 DEF OwnersInv, Ready, Keeps
  <2>. QED
    BY <2>1, <1>1, <1>2, <1>6, ReadyStep
<1>. QED
  BY <1>9, <1>10, <1>11 DEF OwnersInv

LEMMA EntryOwners ==
  ASSUME TapesInv, OwnersInv, NEW t \in Threads, NEW o \in Observers, on_scheduler_entry(t, o)
  PROVE  OwnersInv'
<1>1. /\ UNCHANGED <<lifetimes, locked, wild, built>>
      /\ t \notin DOMAIN thread_tape_map_[o]
      /\ \A p \in Observers : p < o => t \in DOMAIN thread_tape_map_[p]
      /\ t \in Workers /\ o = 1 => ~is_initialized[t]
      /\ o \in ObserversOf(lifetimes[Main])
  BY DEF on_scheduler_entry, Registered, Observing, ObserversOf, Frames, Kind
<1>2. PICK own \in BOOLEAN :
        /\ Construct(t, own)
        /\ thread_tape_map_' = [thread_tape_map_ EXCEPT
                                  ![o] = [u \in DOMAIN @ \cup {t} |-> IF u = t THEN own ELSE @[u]]]
  BY DEF on_scheduler_entry, RegisterThread
<1>3. SameScopes(t)
  BY <1>1 DEF SameScopes, TapesInv, Types, Tapes, MyBase
<1>4. Others(t) /\ (own => Gains(t)) /\ (~own => Keeps(t))
  BY <1>1, <1>2, <1>3, ConstructTapes
<1>5. /\ DOMAIN thread_tape_map_ = Observers
      /\ \A p \in Observers \ {o} : thread_tape_map_'[p] = thread_tape_map_[p]
      /\ DOMAIN thread_tape_map_'[o] = DOMAIN thread_tape_map_[o] \cup {t}
      /\ thread_tape_map_'[o][t] = own
      /\ \A u \in DOMAIN thread_tape_map_[o] : thread_tape_map_'[o][u] = thread_tape_map_[o][u]
  <2>1. DOMAIN thread_tape_map_ = Observers
    BY DEF TapesInv, Types
  <2>2. thread_tape_map_'[o] = [u \in DOMAIN thread_tape_map_[o] \cup {t} |->
                                  IF u = t THEN own ELSE thread_tape_map_[o][u]]
    BY <2>1, <1>2
  <2>3. \A p \in Observers \ {o} : thread_tape_map_'[p] = thread_tape_map_[p]
    BY <2>1, <1>2
  <2>. QED
    BY <2>1, <2>2, <2>3, <1>1
<1>6. /\ \A u \in Threads \ {t} : MapOwners(thread_tape_map_', u) = MapOwners(thread_tape_map_, u)
      /\ MapOwners(thread_tape_map_', t) =
           MapOwners(thread_tape_map_, t) \cup (IF own THEN {o} ELSE {})
  <2>1. \A u \in Threads \ {t} : MapOwners(thread_tape_map_', u) = MapOwners(thread_tape_map_, u)
    BY <1>5 DEF MapOwners
  <2>2. CASE own
    BY <2>1, <2>2, <1>5 DEF MapOwners
  <2>3. CASE ~own
    BY <2>1, <2>3, <1>1, <1>5 DEF MapOwners
  <2>. QED
    BY <2>2, <2>3
<1>7. Registry' /\ (Up' <=> Up)
  <2>1. o <= built
    BY <1>1 DEF OwnersInv, Registry
  <2>2. \A p \in Observers : built < p => DOMAIN thread_tape_map_'[p] = {}
    <3>1. built \in Nat /\ o \in Nat
      BY DEF TapesInv, Types, Observers
    <3>. QED
      BY <3>1, <2>1, <1>5 DEF OwnersInv, Registry
  <2>3. SameObservers
    BY <1>1 DEF SameObservers, OwnersInv, Registry
  <2>. QED
    BY <2>2, <2>3, RegistryStep
<1>8. ASSUME Up PROVE Ownership'
  <2>1. OneOwner(MyBase(t), UserOwners(lifetimes[t]), MapOwners(thread_tape_map_, t)) /\ Ownership
    BY <1>8 DEF OwnersInv, Ownership
  <2>2. OneOwner(NewBase(t), UserOwners(lifetimes'[t]), MapOwners(thread_tape_map_', t))
    <3>1. CASE own
      BY <3>1, <2>1, <1>1, <1>4, <1>6 DEF OneOwner, Gains
    <3>2. CASE ~own
      BY <3>2, <2>1, <1>1, <1>4, <1>6 DEF Keeps
    <3>. QED
      BY <3>1, <3>2
  <2>. QED
    BY <2>1, <2>2, <1>1, <1>4, <1>6, OwnershipStep
<1>9. Ready'
  <2>1. SUFFICES /\ \A u \in Threads \ {t} : u \in DOMAIN thread_tape_map_'[1] /\ NumObservers > 0
                                              => u \in DOMAIN thread_tape_map_[1]
                 /\ t \in Workers /\ NumObservers > 0 /\ t \in DOMAIN thread_tape_map_'[1] =>
                      NewBase(t) # NoTape /\ UserOwners(lifetimes'[t]) = {}
    BY <1>1, <1>4, ReadyStep
  <2>2. \A u \in Threads \ {t} : u \in DOMAIN thread_tape_map_'[1] /\ NumObservers > 0
                                  => u \in DOMAIN thread_tape_map_[1]
    BY <1>5, BoundsAssumption DEF Observers
  <2>3. CASE o = 1 /\ t \in Workers
    <3>1. ~is_initialized[t] /\ Kind(lifetimes[t], "user") = {}
      BY <2>3, <1>1 DEF TapesInv, Flags
    <3>2. own
      BY <3>1, <1>2, ConstructStep
    <3>3. UserOwners(lifetimes'[t]) = {}
      BY <3>1, <1>1 DEF UserOwners
    <3>. QED
      BY <2>2, <3>2, <3>3, <1>4 DEF Gains
  <2>4. CASE o # 1 /\ t \in Workers /\ NumObservers > 0
    <3>1. t \in DOMAIN thread_tape_map_[1]
      <4>1. 1 \in Observers /\ 1 < o
        BY <2>4, BoundsAssumption DEF Observers
      <4>. QED
        BY <4>1, <1>1
    <3>2. MyBase(t) # NoTape /\ UserOwners(lifetimes[t]) = {}
      BY <3>1, <2>4 DEF OwnersInv, Ready
    <3>3. NewBase(t) = MyBase(t)
      BY <3>2, <1>4 DEF Gains, Keeps
    <3>. QED
      BY <2>2, <3>2, <3>3, <1>1
  <2>. QED
    BY <2>2, <2>3, <2>4
<1>. QED
  BY <1>7, <1>8, <1>9 DEF OwnersInv
LEMMA ExitOwners ==
  ASSUME TapesInv, OwnersInv, NEW t \in Threads, NEW o \in Observers, on_scheduler_exit(t, o)
  PROVE  OwnersInv'
<1>1. /\ UNCHANGED <<is_initialized, lifetimes, locked, built>>
      /\ t \in DOMAIN thread_tape_map_[o]
      /\ \A p \in Observers : p < o => t \notin DOMAIN thread_tape_map_[p]
      /\ Destruct(t, thread_tape_map_[o][t])
      /\ thread_tape_map_' = [thread_tape_map_ EXCEPT
                                ![o] = [u \in DOMAIN @ \ {t} |-> @[u]]]
  BY DEF on_scheduler_exit, Registered
<1>2. Kind(lifetimes[t], "scope") = {}
  BY DEF on_scheduler_exit, InScope, Frames, Kind
<1>3. PICK own \in BOOLEAN : own = thread_tape_map_[o][t] /\ Destruct(t, own)
  BY <1>1 DEF TapesInv, Types
<1>4. SameScopes(t)
  BY <1>1 DEF SameScopes, TapesInv, Types, Tapes, MyBase
<1>5. Others(t) /\ (own => Loses(t)) /\ (~own => Keeps(t))
  BY <1>1, <1>2, <1>3, <1>4, DestructTapes
<1>6. /\ \A p \in Observers \ {o} : thread_tape_map_'[p] = thread_tape_map_[p]
      /\ DOMAIN thread_tape_map_'[o] = DOMAIN thread_tape_map_[o] \ {t}
      /\ \A u \in DOMAIN thread_tape_map_'[o] : thread_tape_map_'[o][u] = thread_tape_map_[o][u]
  <2>1. DOMAIN thread_tape_map_ = Observers
    BY DEF TapesInv, Types
  <2>2. thread_tape_map_'[o] = [u \in DOMAIN thread_tape_map_[o] \ {t} |-> thread_tape_map_[o][u]]
    BY <2>1, <1>1
  <2>3. \A p \in Observers \ {o} : thread_tape_map_'[p] = thread_tape_map_[p]
    BY <2>1, <1>1
  <2>. QED
    BY <2>2, <2>3
<1>7. /\ \A u \in Threads \ {t} : MapOwners(thread_tape_map_', u) = MapOwners(thread_tape_map_, u)
      /\ MapOwners(thread_tape_map_', t) = MapOwners(thread_tape_map_, t) \ {o}
      /\ own <=> o \in MapOwners(thread_tape_map_, t)
  BY <1>1, <1>3, <1>6 DEF MapOwners
<1>8. Registry' /\ (Up' <=> Up)
  <2>1. \A p \in Observers : built < p => DOMAIN thread_tape_map_'[p] = {}
    BY <1>6 DEF OwnersInv, Registry
  <2>2. SameObservers
    BY <1>1 DEF SameObservers, OwnersInv, Registry
  <2>. QED
    BY <2>1, <2>2, RegistryStep
<1>9. ASSUME Up PROVE Ownership'
  <2>1. OneOwner(MyBase(t), UserOwners(lifetimes[t]), MapOwners(thread_tape_map_, t)) /\ Ownership
    BY <1>9 DEF OwnersInv, Ownership
  <2>2. OneOwner(NewBase(t), UserOwners(lifetimes'[t]), MapOwners(thread_tape_map_', t))
    <3>1. CASE own
      BY <3>1, <2>1, <1>1, <1>5, <1>7 DEF OneOwner, Loses
    <3>2. CASE ~own
      <4>1. MapOwners(thread_tape_map_', t) = MapOwners(thread_tape_map_, t)
        BY <3>2, <1>7
      <4>. QED
        BY <3>2, <4>1, <2>1, <1>1, <1>5 DEF Keeps
    <3>. QED
      BY <3>1, <3>2
  <2>. QED
    BY <2>1, <2>2, <1>1, <1>5, <1>7, OwnershipStep
<1>10. Ready'
  <2>1. \A u \in Threads : u \in DOMAIN thread_tape_map_'[1] /\ NumObservers > 0
                           => u \in DOMAIN thread_tape_map_[1] /\ u # t
    <3>1. SUFFICES ASSUME NumObservers > 0 PROVE /\ DOMAIN thread_tape_map_'[1] \subseteq
                                                      DOMAIN thread_tape_map_[1] \ {t}
      OBVIOUS
    <3>2. 1 \in Observers /\ (o = 1 \/ 1 < o)
      BY <3>1, BoundsAssumption DEF Observers
    <3>. QED
      BY <3>2, <1>1, <1>6
  <2>. QED
    BY <2>1, <1>1, <1>5, ReadyStep
<1>. QED
  BY <1>8, <1>9, <1>10 DEF OwnersInv

LEMMA EndThreadOwners ==
  ASSUME TapesInv, OwnersInv, NEW t \in Threads, EndThread(t)
  PROVE  OwnersInv'
<1>1. /\ t # Main /\ lifetimes[t] = << >>
      /\ \A o \in Observers : t \notin DOMAIN thread_tape_map_[o]
      /\ instance_' = [instance_ EXCEPT ![t] = NoTape]
      /\ UNCHANGED <<thread_tape_map_, lifetimes, locked, heap, wild, built>>
  BY DEF EndThread, InPool, Registered
<1>2. \A k : Kind(lifetimes[t], k) = {}
  BY <1>1 DEF Kind
<1>3. NewBase(t) = NoTape
  <2>1. instance_'[t] = NoTape
    BY <1>1 DEF TapesInv, Types
  <2>. QED
    BY <2>1, <1>1, <1>2 DEF NewBase, Base
<1>4. Others(t)
  BY <1>1 DEF TapesInv, Types, Others, NewBase, MyBase
<1>5. UserOwners(lifetimes[t]) = {} /\ MapOwners(thread_tape_map_, t) = {}
  BY <1>1, <1>2 DEF UserOwners, MapOwners
<1>6. Registry' /\ (Up' <=> Up)
  BY <1>1, RegistryStep DEF SameObservers, OwnersInv, Registry
<1>7. ASSUME Up PROVE Ownership'
  <2>1. OneOwner(MyBase(t), UserOwners(lifetimes[t]), MapOwners(thread_tape_map_, t)) /\ Ownership
    BY <1>7 DEF OwnersInv, Ownership
  <2>2. MyBase(t) = NoTape
    BY <2>1, <1>5 DEF OneOwner
  <2>3. Keeps(t) /\ OneOwner(NewBase(t), UserOwners(lifetimes'[t]), MapOwners(thread_tape_map_', t))
    BY <2>1, <2>2, <1>1, <1>3 DEF Keeps
  <2>. QED
    BY <2>1, <2>3, <1>1, <1>4, OwnershipStep
<1>8. Ready'
  <2>1. NumObservers > 0 => t \notin DOMAIN thread_tape_map_'[1]
    BY <1>1, BoundsAssumption DEF Observers
  <2>. QED
    BY <2>1, <1>1, <1>4, ReadyStep
<1>. QED
  BY <1>6, <1>7, <1>8 DEF OwnersInv

LEMMA ConstructObserverOwners ==
  ASSUME TapesInv, OwnersInv, ConstructObserver
  PROVE  OwnersInv'
<1>. DEFINE t == Main
            o == built + 1
<1>1. /\ t \in Threads /\ t \notin Workers /\ o \in Observers /\ built \in Nat
      /\ DOMAIN thread_tape_map_ = Observers /\ DOMAIN thread_tape_map_[o] = {}
  <2>1. t \in Threads /\ t \notin Workers
    BY ThreadsAssumption DEF Threads
  <2>2. built \in Nat /\ o \in Observers /\ built < o
    BY BoundsAssumption DEF TapesInv, Types, ConstructObserver, Observers
  <2>. QED
    BY <2>1, <2>2 DEF TapesInv, Types, OwnersInv, Registry
<1>2. /\ UNCHANGED <<locked, wild>> /\ built' = o
      /\ Push(t, ObserverFrame(o))
  BY DEF ConstructObserver
<1>3. PICK own \in BOOLEAN :
        /\ Construct(t, own)
        /\ thread_tape_map_' = [thread_tape_map_ EXCEPT
                                  ![o] = [u \in DOMAIN @ \cup {t} |-> IF u = t THEN own ELSE @[u]]]
  BY DEF ConstructObserver, RegisterThread
<1>4. PICK f \in Frame : f = ObserverFrame(o) /\ f.kind = "observer" /\ f.observer = o
  <2>1. /\ ObserverFrame(o) \in [kind : {"observer"}, observer : Observers]
        /\ ObserverFrame(o).kind = "observer" /\ ObserverFrame(o).observer = o
    BY <1>1 DEF ObserverFrame
  <2>. QED
    BY <2>1 DEF Frame
<1>5. /\ lifetimes[t] \in Seq(Frame)
      /\ lifetimes'[t] = Append(lifetimes[t], f)
      /\ \A u \in Threads \ {t} : lifetimes'[u] = lifetimes[u]
  BY <1>1, <1>2, <1>4, PushStep
<1>6. SameScopes(t)
  BY <1>1, <1>2, <1>4, PushedSameScopes
<1>7. Others(t) /\ (own => Gains(t)) /\ (~own => Keeps(t))
  BY <1>1, <1>2, <1>3, <1>6, ConstructTapes
<1>8. Distinct(lifetimes[t]) /\ ObserversOf(lifetimes[t]) \subseteq 1 .. built
  BY DEF OwnersInv, Registry
<1>9. /\ UserOwners(lifetimes'[t]) = UserOwners(lifetimes[t])
      /\ ObserversOf(lifetimes'[t]) = ObserversOf(lifetimes[t]) \cup {o}
      /\ Distinct(lifetimes'[t])
  <2>1. o \notin ObserversOf(lifetimes[t])
    BY <1>1, <1>8
  <2>. QED
    BY <2>1, <1>4, <1>5, <1>8, PushedObjects
<1>10. /\ \A p \in Observers \ {o} : thread_tape_map_'[p] = thread_tape_map_[p]
       /\ DOMAIN thread_tape_map_'[o] = {t}
       /\ thread_tape_map_'[o][t] = own
  <2>1. thread_tape_map_'[o] = [u \in DOMAIN thread_tape_map_[o] \cup {t} |->
                                  IF u = t THEN own ELSE thread_tape_map_[o][u]]
    BY <1>1, <1>3
  <2>2. \A p \in Observers \ {o} : thread_tape_map_'[p] = thread_tape_map_[p]
    BY <1>1, <1>3
  <2>. QED
    BY <2>1, <2>2, <1>1
<1>11. /\ \A u \in Threads \ {t} : MapOwners(thread_tape_map_', u) = MapOwners(thread_tape_map_, u)
       /\ MapOwners(thread_tape_map_', t) =
            MapOwners(thread_tape_map_, t) \cup (IF own THEN {o} ELSE {})
  <2>1. \A u \in Threads \ {t} : MapOwners(thread_tape_map_', u) = MapOwners(thread_tape_map_, u)
    BY <1>1, <1>10 DEF MapOwners
  <2>2. CASE own
    BY <2>1, <2>2, <1>1, <1>10 DEF MapOwners
  <2>3. CASE ~own
    BY <2>1, <2>3, <1>1, <1>10 DEF MapOwners
  <2>. QED
    BY <2>2, <2>3
<1>12. Registry'
  <2>1. ObserversOf(lifetimes'[t]) \subseteq 1 .. built'
    BY <1>1, <1>2, <1>8, <1>9
  <2>2. \A p \in Observers : built' < p => DOMAIN thread_tape_map_'[p] = {}
    <3>1. \A p \in Observers : o < p => built < p /\ p # o
      BY <1>1 DEF Observers
    <3>. QED
      BY <3>1, <1>2, <1>10 DEF OwnersInv, Registry
  <2>. QED
    BY <2>1, <2>2, <1>9 DEF Registry
<1>13. Up' => Up
  <2>1. SUFFICES ASSUME ObserversOf(lifetimes[t]) \cup {o} = 1 .. o
                 PROVE  ObserversOf(lifetimes[t]) = 1 .. built
    BY <1>2, <1>9 DEF Up
  <2>2. \A x \in 1 .. built : x \in 1 .. o /\ x # o
    BY <1>1
  <2>. QED
    BY <2>1, <2>2, <1>8
<1>14. ASSUME Up PROVE Ownership'
  <2>1. OneOwner(MyBase(t), UserOwners(lifetimes[t]), MapOwners(thread_tape_map_, t)) /\ Ownership
    BY <1>1, <1>14 DEF OwnersInv, Ownership
  <2>2. OneOwner(NewBase(t), UserOwners(lifetimes'[t]), MapOwners(thread_tape_map_', t))
    <3>1. CASE own
      BY <3>1, <2>1, <1>7, <1>9, <1>11 DEF OneOwner, Gains
    <3>2. CASE ~own
      BY <3>2, <2>1, <1>7, <1>9, <1>11 DEF Keeps
    <3>. QED
      BY <3>1, <3>2
  <2>. QED
    BY <2>1, <2>2, <1>1, <1>5, <1>7, <1>11, OwnershipStep
<1>15. Ready'
  <2>1. \A u \in Threads \ {t} : u \in DOMAIN thread_tape_map_'[1] /\ NumObservers > 0
                                  => u \in DOMAIN thread_tape_map_[1]
    BY <1>10, BoundsAssumption DEF Observers
  <2>. QED
    BY <2>1, <1>1, <1>5, <1>7, ReadyStep
<1>. QED
  BY <1>12, <1>13, <1>14, <1>15 DEF OwnersInv

LEMMA DestroyObserverOwners ==
  ASSUME TapesInv, OwnersInv, DestroyObserver
  PROVE  OwnersInv'
<1>. DEFINE t == Main
            o == Last(lifetimes[Main]).observer
<1>1. t \in Threads /\ t \notin Workers
  BY ThreadsAssumption DEF Threads
<1>2. /\ UNCHANGED <<is_initialized, locked, built>>
      /\ lifetimes[t] # << >> /\ Last(lifetimes[t]).kind = "observer"
      /\ thread_tape_map_' = [thread_tape_map_ EXCEPT ![o] = << >>]
      /\ Pop(t)
  BY DEF DestroyObserver, Top
<1>3. PICK own \in BOOLEAN : Destruct(t, own)
  BY DEF DestroyObserver
<1>4. /\ lifetimes[t] \in Seq(Frame) /\ Last(lifetimes[t]) \in Frame
      /\ lifetimes'[t] = Front(lifetimes[t])
      /\ \A u \in Threads \ {t} : lifetimes'[u] = lifetimes[u]
      /\ Len(lifetimes[t]) \in Kind(lifetimes[t], "observer")
      /\ \A k : \A i \in Kind(lifetimes[t], k) : i \in Nat /\ i <= Len(lifetimes[t])
  BY <1>1, <1>2, PopStep
<1>5. Kind(lifetimes[t], "scope") = {}
  <2>1. SUFFICES ASSUME NEW j \in Kind(lifetimes[t], "scope") PROVE FALSE
    OBVIOUS
  <2>2. Len(lifetimes[t]) < j
    BY <2>1, <1>1, <1>4 DEF TapesInv, Flags
  <2>3. j \in Nat /\ j <= Len(lifetimes[t]) /\ Len(lifetimes[t]) \in Nat
    BY <2>1, <1>4
  <2>. QED
    BY <2>2, <2>3
<1>6. Others(t)
  BY <1>1, <1>2, <1>3, <1>5, PoppedSameScopes, DestructTapes
<1>7. /\ Distinct(lifetimes[t]) /\ ObserversOf(lifetimes[t]) \subseteq 1 .. built
  BY DEF OwnersInv, Registry
<1>8. /\ ObserversOf(lifetimes'[t]) = ObserversOf(lifetimes[t]) \ {o}
      /\ o \in ObserversOf(lifetimes[t])
      /\ Distinct(lifetimes'[t])
  BY <1>2, <1>4, <1>7, PoppedObjects
<1>9. /\ \A p \in Observers \ {o} : thread_tape_map_'[p] = thread_tape_map_[p]
      /\ DOMAIN thread_tape_map_'[o] = {}
      /\ o \in Observers
  <2>1. DOMAIN thread_tape_map_ = Observers /\ o \in Observers
    BY <1>2, <1>4, FrameFacts DEF TapesInv, Types
  <2>. QED
    BY <2>1, <1>2
<1>10. Registry'
  <2>1. \A p \in Observers : built' < p => DOMAIN thread_tape_map_'[p] = {}
    BY <1>2, <1>9 DEF OwnersInv, Registry
  <2>. QED
    BY <2>1, <1>2, <1>7, <1>8 DEF Registry
<1>11. ~Up'
  BY <1>2, <1>7, <1>8 DEF Up
<1>12. Ready'
  <2>1. \A u \in Threads : u \in DOMAIN thread_tape_map_'[1] /\ NumObservers > 0
                           => u \in DOMAIN thread_tape_map_[1]
    BY <1>9, BoundsAssumption DEF Observers
  <2>. QED
    BY <2>1, <1>1, <1>4, <1>6, ReadyStep
<1>. QED
  BY <1>10, <1>11, <1>12 DEF OwnersInv
LEMMA InitOwners == Init => OwnersInv
<1>. SUFFICES ASSUME Init PROVE OwnersInv
  OBVIOUS
<1>1. TapesInv /\ Main \in Threads
  BY InitTapes DEF Threads
<1>2. \A t \in Threads : lifetimes[t] = << >> /\ instance_[t] = NoTape
  BY DEF Init
<1>3. \A t \in Threads : \A k : Kind(lifetimes[t], k) = {}
  BY <1>2 DEF Kind
<1>4. \A o \in Observers : DOMAIN thread_tape_map_[o] = {}
  BY DEF Init
<1>5. \A t \in Threads : /\ MyBase(t) = NoTape
                         /\ UserOwners(lifetimes[t]) = {}
                         /\ MapOwners(thread_tape_map_, t) = {}
  BY <1>2, <1>3, <1>4 DEF MyBase, Base, UserOwners, MapOwners
<1>6. Registry
  BY <1>1, <1>3, <1>4 DEF Registry, Distinct, ObserversOf
<1>7. Ownership
  BY <1>5 DEF Ownership, OneOwner, Init
<1>8. Ready
  BY <1>4, BoundsAssumption DEF Ready, Observers
<1>. QED
  BY <1>6, <1>7, <1>8 DEF OwnersInv

LEMMA NextKeepsOwners == TapesInv /\ OwnersInv /\ [Next]_vars => OwnersInv'
<1>. SUFFICES ASSUME TapesInv, OwnersInv, [Next]_vars PROVE OwnersInv'
  OBVIOUS
<1>1. CASE UNCHANGED vars
  BY <1>1 DEF vars, OwnersInv, Registry, Up, Ownership, Ready, MyBase
<1>2. CASE ConstructObserver
  BY <1>2, ConstructObserverOwners
<1>3. CASE DestroyObserver
  BY <1>3, DestroyObserverOwners
<1>4. ASSUME NEW t \in Threads, NEW o \in Observers, on_scheduler_entry(t, o)
      PROVE  OwnersInv'
  BY <1>4, EntryOwners
<1>5. ASSUME NEW t \in Threads, NEW o \in Observers, on_scheduler_exit(t, o)
      PROVE  OwnersInv'
  BY <1>5, ExitOwners
<1>6. ASSUME NEW t \in Threads, EndThread(t) PROVE OwnersInv'
  BY <1>6, EndThreadOwners
<1>7. ASSUME NEW t \in Threads, ConstructUser(t) PROVE OwnersInv'
  BY <1>7, ConstructUserOwners
<1>8. ASSUME NEW t \in Threads, DestroyUser(t) PROVE OwnersInv'
  BY <1>8, DestroyUserOwners
<1>9. ASSUME NEW t \in Threads, NEW s \in Scopes, Activate(t, s) PROVE OwnersInv'
  BY <1>9, ActivateOwners
<1>10. ASSUME NEW t \in Threads, NEW s \in Scopes, ActivateThrows(t, s) PROVE OwnersInv'
  BY <1>10, <1>1 DEF ActivateThrows
<1>11. ASSUME NEW t \in Threads, Deactivate(t) PROVE OwnersInv'
  BY <1>11, DeactivateOwners
<1>. QED
  BY <1>1, <1>2, <1>3, <1>4, <1>5, <1>6, <1>7, <1>8, <1>9, <1>10, <1>11 DEF Next

LEMMA OwnersInvariant == Spec => [](TapesInv /\ OwnersInv)
<1>1. TapesInv /\ OwnersInv /\ [Next]_vars => (TapesInv /\ OwnersInv)'
  BY NextKeepsTapes, NextKeepsOwners
<1>. QED
  BY <1>1, InitTapes, InitOwners, PTL DEF Spec

\* Before static destruction every observer built is alive.
LEMMA NotShuttingDown ==
  ASSUME TapesInv, OwnersInv, ~ShuttingDown
  PROVE  Up
<1>1. Observing = ObserversOf(lifetimes[Main])
  BY DEF Observing, ObserversOf, Frames, Kind
<1>2. Observing \subseteq 1 .. built /\ built \in Nat
  BY <1>1 DEF OwnersInv, Registry, TapesInv, Types
<1>3. IsFiniteSet(1 .. built) /\ Cardinality(1 .. built) = built
  BY <1>2, FS_Interval
<1>4. /\ IsFiniteSet(Observing) /\ Cardinality(Observing) <= built
      /\ Cardinality(Observing) = built => Observing = 1 .. built
  BY <1>2, <1>3, FS_Subset
<1>5. Cardinality(Observing) \in Nat
  BY <1>4, FS_CardinalityType
<1>6. Cardinality(Observing) = built
  BY <1>2, <1>4, <1>5 DEF ShuttingDown
<1>. QED
  BY <1>1, <1>4, <1>6 DEF Up

LEMMA ThreadTapeIs ==
  ASSUME TapesInv, NEW t \in Threads
  PROVE  ThreadTape(t) = MyBase(t)
<1>1. Frames(t, "scope") = Kind(lifetimes[t], "scope")
  BY DEF Frames, Kind
<1>2. CASE Kind(lifetimes[t], "scope") = {}
  BY <1>1, <1>2 DEF ThreadTape, InScope, MyBase, Base
<1>3. CASE Kind(lifetimes[t], "scope") # {}
  <2>. DEFINE first == CHOOSE i \in Frames(t, "scope") : \A j \in Frames(t, "scope") : i <= j
  <2>1. Linked(instance_[t], lifetimes[t]) /\ lifetimes[t] \in Seq(Frame)
    BY DEF TapesInv, Types, Tapes
  <2>2. PICK i : IsFirst(lifetimes[t], i)
    BY <1>3, <2>1 DEF Linked
  <2>3. first \in Frames(t, "scope") /\ \A j \in Frames(t, "scope") : first <= j
    BY <1>1, <2>2 DEF IsFirst
  <2>4. ThreadTape(t) = lifetimes[t][first].parent
    BY <1>1, <1>3 DEF ThreadTape, InScope
  <2>. HIDE DEF first
  <2>5. IsFirst(lifetimes[t], first)
    BY <1>1, <2>3 DEF IsFirst
  <2>. QED
    BY <2>1, <2>4, <2>5, BaseIsFirst DEF MyBase
<1>. QED
  BY <1>2, <1>3

\* Until static destruction a thread's own tape has exactly one owner, a thread without one
\* has no owner, and what is allocated is what the threads have: no storage is deleted twice
\* and none is leaked.
THEOREM OneOwnerEach == Spec => []SingleOwner
<1>1. TapesInv /\ OwnersInv => SingleOwner
  <2>. SUFFICES ASSUME TapesInv, OwnersInv, ~ShuttingDown
                PROVE  /\ \A t \in Threads :
                            Cardinality(Owners(t)) = IF ThreadTape(t) = NoTape THEN 0 ELSE 1
                       /\ heap = {ThreadTape(t) : t \in Threads} \ {NoTape}
    BY DEF SingleOwner
  <2>1. Ownership
    BY NotShuttingDown DEF OwnersInv
  <2>2. \A t \in Threads : ThreadTape(t) = MyBase(t)
    BY ThreadTapeIs
  <2>3. \A t \in Threads : Cardinality(Owners(t)) = IF ThreadTape(t) = NoTape THEN 0 ELSE 1
    <3>1. TAKE t \in Threads
    <3>2. OneOwner(MyBase(t), UserOwners(lifetimes[t]), MapOwners(thread_tape_map_, t))
      BY <2>1 DEF Ownership
    <3>3. Owners(t) = {<<"user", i>> : i \in UserOwners(lifetimes[t])}
                      \cup {<<"map", o>> : o \in MapOwners(thread_tape_map_, t)}
      BY DEF Owners, UserOwners, MapOwners, Frames, Kind, Registered
    <3>4. CASE MyBase(t) = NoTape
      <4>1. Owners(t) = {}
        BY <3>2, <3>3, <3>4 DEF OneOwner
      <4>. QED
        BY <4>1, <3>4, <2>2, FS_EmptySet
    <3>5. CASE MyBase(t) # NoTape
      <4>2. \/ \E x : UserOwners(lifetimes[t]) = {x} /\ MapOwners(thread_tape_map_, t) = {}
            \/ \E x : UserOwners(lifetimes[t]) = {} /\ MapOwners(thread_tape_map_, t) = {x}
        BY <3>2, <3>5 DEF OneOwner
      <4>3. ASSUME NEW x, UserOwners(lifetimes[t]) = {x}, MapOwners(thread_tape_map_, t) = {}
            PROVE  Owners(t) = {<<"user", x>>}
        BY <4>3, <3>3
      <4>4. ASSUME NEW x, UserOwners(lifetimes[t]) = {}, MapOwners(thread_tape_map_, t) = {x}
            PROVE  Owners(t) = {<<"map", x>>}
        BY <4>4, <3>3
      <4>1. \E x : Owners(t) = {x}
        BY <4>2, <4>3, <4>4
      <4>. QED
        BY <4>1, <3>5, <2>2, FS_Singleton
    <3>. QED
      BY <3>4, <3>5
  <2>4. heap = {ThreadTape(t) : t \in Threads} \ {NoTape}
    BY <2>1, <2>2 DEF Ownership
  <2>. QED
    BY <2>3, <2>4
<1>. QED
  BY <1>1, OwnersInvariant, PTL

\* A worker has a tape for as long as it runs tasks, whatever objects the tasks create and
\* however the client's execute() calls nest on it.
THEOREM WorkersAlwaysReady == Spec => []WorkersReady
<1>1. TapesInv /\ OwnersInv => WorkersReady
  <2>. SUFFICES ASSUME TapesInv, OwnersInv, NEW t \in Workers, MayRun(t)
                PROVE  instance_[t] # NoTape
    BY DEF WorkersReady
  <2>1. t \in Threads /\ MyBase(t) # NoTape
    BY DEF MayRun, Registered, OwnersInv, Ready, Threads
  <2>2. Linked(instance_[t], lifetimes[t]) /\ lifetimes[t] \in Seq(Frame)
    BY <2>1 DEF TapesInv, Types, Tapes
  <2>3. CASE Kind(lifetimes[t], "scope") = {}
    BY <2>1, <2>3 DEF MyBase, Base
  <2>4. CASE Kind(lifetimes[t], "scope") # {}
    <3>1. PICK i : IsLast(lifetimes[t], i) /\ instance_[t] = lifetimes[t][i].scope
      BY <2>2, <2>4 DEF Linked
    <3>2. instance_[t] \in Local(lifetimes[t])
      BY <3>1 DEF IsLast, Local
    <3>. QED
      BY <3>2, <2>2, ReachIs, TapesAssumption
  <2>. QED
    BY <2>3, <2>4
<1>. QED
  BY <1>1, OwnersInvariant, PTL
=============================================================================
