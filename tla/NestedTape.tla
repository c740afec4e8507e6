----------------------------- MODULE NestedTape -----------------------------
(***************************************************************************)
(* What the autodiff tape promises its users, without sizes, saved         *)
(* positions or shared vectors: a stack of frames, one per open nested     *)
(* scope and an outermost one.  Each frame has its own sequence of varis   *)
(* to chain, its own sequence of varis that are not chained and its own    *)
(* heap objects.  Everything new goes to the innermost frame; closing a    *)
(* nested scope discards exactly that frame; recovering all memory is only *)
(* possible with no scope open.                                            *)
(***************************************************************************)
EXTENDS Naturals, Sequences

VARIABLE frames  \* outermost first

EmptyFrame == [chain |-> << >>, nochain |-> << >>, objects |-> << >>]

Init == frames = <<EmptyFrame>>

\* One more item at the end of one sequence of the innermost frame.
Extend(part) ==
  LET top == Len(frames)
      now == frames'[top][part]
  IN  /\ Len(frames') = top
      /\ Len(now) = Len(frames[top][part]) + 1
      /\ frames' = [frames EXCEPT ![top][part] = Append(@, now[Len(now)])]

Open == frames' = Append(frames, EmptyFrame)

Close ==
  /\ Len(frames) > 1
  /\ frames' = SubSeq(frames, 1, Len(frames) - 1)

Clear ==
  /\ Len(frames) = 1
  /\ frames' = <<EmptyFrame>>

Next == (\E part \in DOMAIN EmptyFrame : Extend(part)) \/ Open \/ Close \/ Clear

Spec == Init /\ [][Next]_frames
=============================================================================
