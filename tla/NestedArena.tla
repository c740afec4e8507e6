---------------------------- MODULE NestedArena ----------------------------
(***************************************************************************)
(* What a client of stan::math::stack_alloc may rely on, without any       *)
(* block, size or saved pointer: memory is granted to the innermost of a   *)
(* stack of frames, never overlapping anything still granted; recovering   *)
(* a nested frame takes back exactly that frame; recovering everything is  *)
(* only for a client with no nested frame.                                 *)
(***************************************************************************)
EXTENDS Extents

VARIABLE live  \* sequence of frames, outermost first; a frame is a set of extents

Init == live = << {} >>

\* Some extent, disjoint from every live one, joins the innermost frame.
Grant ==
  \E e \in LiveIn(live') :
    /\ \A f \in LiveIn(live) : ~ Overlap(e, f)
    /\ live' = [live EXCEPT ![Len(live)] = @ \cup {e}]

StartNested == live' = Append(live, {})

RecoverNested ==
  /\ Len(live) > 1
  /\ live' = SubSeq(live, 1, Len(live) - 1)

RecoverAll ==
  /\ Len(live) = 1
  /\ live' = << {} >>

Next == Grant \/ StartNested \/ RecoverNested \/ RecoverAll

Spec == Init /\ [][Next]_live
=============================================================================
