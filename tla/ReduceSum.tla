----------------------------- MODULE ReduceSum -----------------------------
(***************************************************************************)
(* One call of reduce_sum on reverse-mode variables: tbb::parallel_reduce   *)
(* (or its deterministic variant) splits the terms into tasks, threads run  *)
(* recursive_reducer bodies on pieces of them, and finish tasks join the    *)
(* bodies.                                                                  *)
(*                                                                          *)
(* A task is named by its first term, the finish task made with it and the  *)
(* body made for it by the same number; task 1 is the root and body 1 the   *)
(* caller's worker.  A sum, a vector of adjoints and a message stream are   *)
(* the sequence of the terms accumulated.                                   *)
(***************************************************************************)
EXTENDS Integers, SequencesExt

CONSTANTS
  NumTerms,    \* vmapped.size()
  Grainsize,
  Threads,     \* the pool's threads, the caller included
  Caller,
  Modes,       \* values of auto_partitioning
  MaxDepth     \* bound: tasks a thread runs inside one another

ASSUME ReduceSumAssumption ==
  /\ NumTerms \in Nat \ {0} /\ Grainsize \in Nat \ {0}
  /\ Caller \in Threads /\ Modes \subseteq BOOLEAN /\ MaxDepth \in Nat \ {0}

Terms == 1 .. NumTerms

VARIABLES
  auto,           \* auto_partitioning
  task,           \* start_reduce tasks
  node,           \* finish_reduce tasks; node 0 is what the caller waits for
  running,        \* thread |-> tasks it is executing, innermost last
  scopes,         \* thread |-> nested scopes of its tape, by the task that opened them
  sum_,           \* body |-> terms in sum_ and msgs_
  args_adjoints_, \* body |-> terms in args_adjoints_
  adj,            \* body |-> terms in the adjoints of its copy of the shared arguments
  partials,       \* term |-> times its partials were added to sliced_partials_
  threw,          \* tasks whose user function threw; the group is then cancelled
  caller          \* "waiting", "returned" or "threw"

bodies == <<sum_, args_adjoints_, adj, partials>>
vars == <<auto, task, node, running, scopes, bodies, threw, caller>>

is_cancelled == threw # {}

----------------------------------------------------------------------------
\* A task's ranges are what lies between consecutive cuts, the last ones
\* still to be offered, the first one to be run.
Divisible(lo, hi) == hi - lo > Grainsize
Piece(s) == [i \in 1 .. task[s].cuts[2] - task[s].cuts[1] |-> task[s].cuts[1] + i - 1]

InFunction(s) == task[s].status = "function"
Top(th) == Last(running[th])

\* A thread takes a task when it has none, the caller while it waits, and in
\* the middle of a user function that waits for tasks of its own.
CanTake(th) ==
  running[th] # << >> => Len(running[th]) < MaxDepth /\ InFunction(Top(th))

\* The last child to complete makes the finish task ready.
Release(n, p) == [n EXCEPT ![p].refs = @ - 1]

----------------------------------------------------------------------------
\* A right child that always goes on with its left sibling's body.
Take_SharesBody(th, s) ==
  /\ task[s].status = "spawned" /\ CanTake(th) /\ ~is_cancelled
  /\ running' = [running EXCEPT ![th] = Append(@, s)]
  /\ task' = [task EXCEPT ![s].status = "balance"]
  /\ UNCHANGED <<auto, node, scopes, bodies, threw, caller>>

\* start_reduce::execute up to the partitioner: a right child whose left
\* sibling has not finished gets a body of its own.
Take(th, s) ==
  /\ task[s].status = "spawned" /\ CanTake(th) /\ ~is_cancelled
  /\ running' = [running EXCEPT ![th] = Append(@, s)]
  /\ LET split == task[s].context = "right" /\ node[s].body = 0
     IN /\ task' = [task EXCEPT ![s].status = "balance", ![s].body = IF split THEN s ELSE @]
        /\ node' = IF split THEN [node EXCEPT ![s].zombie = TRUE] ELSE node
  /\ UNCHANGED <<auto, scopes, bodies, threw, caller>>

\* A skipped task that its parent keeps waiting for.
Skip_NoRelease(s) ==
  /\ task[s].status = "spawned" /\ is_cancelled
  /\ task' = [task EXCEPT ![s].status = "done"]
  /\ UNCHANGED <<auto, node, running, scopes, bodies, threw, caller>>

\* A task of a cancelled group is not executed, but it completes.
Skip(s) ==
  /\ task[s].status = "spawned" /\ is_cancelled
  /\ task' = [task EXCEPT ![s].status = "done"]
  /\ node' = Release(node, task[s].parent)
  /\ UNCHANGED <<auto, running, scopes, bodies, threw, caller>>

\* Halving the first range, into the range pool or to offer it at once.
Split(th) ==
  /\ running[th] # << >> /\ task[Top(th)].status = "balance"
  /\ LET c == task[Top(th)].cuts
         middle == c[1] + (c[2] - c[1]) \div 2
     IN /\ Len(c) >= 2 /\ Divisible(c[1], c[2])
        /\ auto \/ Len(c) = 2
        /\ task' = [task EXCEPT ![Top(th)].cuts = <<c[1], middle>> \o Tail(c)]
  /\ UNCHANGED <<auto, node, running, scopes, bodies, threw, caller>>

\* A finish task that does not wait for both children.
Offer_OneRef(th) ==
  /\ running[th] # << >> /\ task[Top(th)].status = "balance"
  /\ LET s == Top(th)
         c == task[s].cuts
         right == c[Len(c) - 1]
     IN /\ Len(c) > 2
        /\ node' = [node EXCEPT ![right] =
             [refs |-> 1, parent |-> task[s].parent, context |-> task[s].context,
              body |-> IF auto THEN 0 ELSE task[s].body, zombie |-> ~auto, done |-> FALSE]]
        /\ task' = [task EXCEPT
             ![s] = [@ EXCEPT !.cuts = Front(c), !.parent = right, !.context = "left"],
             ![right] = [status |-> "spawned", cuts |-> <<right, Last(c)>>,
                         body |-> IF auto THEN task[s].body ELSE right,
                         parent |-> right, context |-> "right"]]
  /\ UNCHANGED <<auto, running, scopes, bodies, threw, caller>>

\* offer_work: the last range becomes a right child, under a finish task that
\* takes the place of this one; the deterministic variant makes its body now.
Offer(th) ==
  /\ running[th] # << >> /\ task[Top(th)].status = "balance"
  /\ LET s == Top(th)
         c == task[s].cuts
         right == c[Len(c) - 1]
     IN /\ Len(c) > 2
        /\ node' = [node EXCEPT ![right] =
             [refs |-> 2, parent |-> task[s].parent, context |-> task[s].context,
              body |-> IF auto THEN 0 ELSE task[s].body, zombie |-> ~auto, done |-> FALSE]]
        /\ task' = [task EXCEPT
             ![s] = [@ EXCEPT !.cuts = Front(c), !.parent = right, !.context = "left"],
             ![right] = [status |-> "spawned", cuts |-> <<right, Last(c)>>,
                         body |-> IF auto THEN task[s].body ELSE right,
                         parent |-> right, context |-> "right"]]
  /\ UNCHANGED <<auto, running, scopes, bodies, threw, caller>>

----------------------------------------------------------------------------
\* recursive_reducer::operator().

\* Without resetting the adjoints of a copy that exists.
EnterFunction_KeepsAdjoints(th) ==
  /\ running[th] # << >> /\ task[Top(th)].status = "balance"
  /\ LET c == task[Top(th)].cuts
     IN Len(c) > 1 /\ (auto \/ (Len(c) = 2 /\ ~Divisible(c[1], c[2])))
  /\ task' = [task EXCEPT ![Top(th)].status = "function"]
  /\ scopes' = [scopes EXCEPT ![th] = Append(@, Top(th))]
  /\ UNCHANGED <<auto, node, running, bodies, threw, caller>>

\* Up to the user function: the shared arguments are copied to the body's
\* scoped stack, or the adjoints of the copy reset, and a nested scope opened
\* on the thread's tape.
EnterFunction(th) ==
  /\ running[th] # << >> /\ task[Top(th)].status = "balance"
  /\ LET c == task[Top(th)].cuts
     IN Len(c) > 1 /\ (auto \/ (Len(c) = 2 /\ ~Divisible(c[1], c[2])))
  /\ adj' = [adj EXCEPT ![task[Top(th)].body] = << >>]
  /\ task' = [task EXCEPT ![Top(th)].status = "function"]
  /\ scopes' = [scopes EXCEPT ![th] = Append(@, Top(th))]
  /\ UNCHANGED <<auto, node, running, sum_, args_adjoints_, partials, threw, caller>>

\* After the user function: the sweep adds to the adjoints of the copies,
\* the body accumulates, and the nested scope is closed.
FunctionReturns(th) ==
  /\ running[th] # << >> /\ InFunction(Top(th))
  /\ LET b == task[Top(th)].body
         piece == Piece(Top(th))
     IN /\ adj' = [adj EXCEPT ![b] = @ \o piece]
        /\ sum_' = [sum_ EXCEPT ![b] = @ \o piece]
        /\ args_adjoints_' = [args_adjoints_ EXCEPT ![b] = @ \o adj'[b]]
        /\ partials' = [i \in Terms |-> partials[i] + (IF i \in ToSet(piece) THEN 1 ELSE 0)]
  /\ task' = [task EXCEPT ![Top(th)].status = "balance", ![Top(th)].cuts = Tail(@)]
  /\ scopes' = [scopes EXCEPT ![th] = Front(@)]
  /\ UNCHANGED <<auto, node, running, threw, caller>>

\* A user function that throws past an open scope.
FunctionThrows_KeepsScope(th) ==
  /\ running[th] # << >> /\ InFunction(Top(th))
  /\ threw' = threw \cup {Top(th)}
  /\ task' = [task EXCEPT ![Top(th)].status = "done"]
  /\ node' = Release(node, task[Top(th)].parent)
  /\ running' = [running EXCEPT ![th] = Front(@)]
  /\ UNCHANGED <<auto, scopes, bodies, caller>>

\* The user function throws: the scope's destructor runs, the task ends and
\* its group is cancelled.
FunctionThrows(th) ==
  /\ running[th] # << >> /\ InFunction(Top(th))
  /\ scopes' = [scopes EXCEPT ![th] = Front(@)]
  /\ threw' = threw \cup {Top(th)}
  /\ task' = [task EXCEPT ![Top(th)].status = "done"]
  /\ node' = Release(node, task[Top(th)].parent)
  /\ running' = [running EXCEPT ![th] = Front(@)]
  /\ UNCHANGED <<auto, bodies, caller>>

\* The end of start_reduce::execute: no range is left, or the range pool finds
\* after a round that the group was cancelled; a left child tells its parent
\* its body.
Complete(th) ==
  /\ running[th] # << >> /\ task[Top(th)].status = "balance"
  /\ LET s == Top(th)
         p == task[s].parent
     IN /\ \/ Len(task[s].cuts) = 1
           \/ is_cancelled /\ auto /\ (task[s].cuts[1] # s \/ task[s].context = "left")
        /\ node' = Release(IF task[s].context = "left"
                           THEN [node EXCEPT ![p].body = task[s].body] ELSE node, p)
        /\ task' = [task EXCEPT ![s].status = "done"]
  /\ running' = [running EXCEPT ![th] = Front(@)]
  /\ UNCHANGED <<auto, scopes, bodies, threw, caller>>

----------------------------------------------------------------------------
\* The join the other way round.
Joined_Swapped(b, left, right) == [b EXCEPT ![left] = b[right] \o @]

\* recursive_reducer::join.
Joined(b, left, right) == [b EXCEPT ![left] = @ \o b[right]]

\* A finish task runs when both children have completed: unless the group was
\* cancelled it joins the right child's body, if it has one, and a left one
\* tells its parent its body.  Its own body, the zombie, ends with it.
Finish(f) ==
  /\ node[f].refs = 0 /\ ~node[f].done
  /\ IF node[f].zombie /\ ~is_cancelled
     THEN /\ sum_' = Joined(sum_, node[f].body, f)
          /\ args_adjoints_' = Joined(args_adjoints_, node[f].body, f)
     ELSE UNCHANGED <<sum_, args_adjoints_>>
  /\ LET p == node[f].parent
         told == IF node[f].context = "left" /\ ~is_cancelled
                 THEN [node EXCEPT ![p].body = node[f].body] ELSE node
     IN node' = [Release(told, p) EXCEPT ![f].done = TRUE]
  /\ UNCHANGED <<auto, task, running, scopes, adj, partials, threw, caller>>

\* An exception that leaves the call while other tasks are executed.
Return_RethrowsAtOnce ==
  /\ caller = "waiting" /\ running[Caller] = << >>
  /\ node[0].refs = 0 \/ is_cancelled
  /\ caller' = IF is_cancelled THEN "threw" ELSE "returned"
  /\ UNCHANGED <<auto, task, node, running, scopes, bodies, threw>>

\* The caller, which executed tasks while it waited, rethrows the exception or
\* makes the result from the worker.
Return ==
  /\ caller = "waiting" /\ node[0].refs = 0 /\ running[Caller] = << >>
  /\ caller' = IF is_cancelled THEN "threw" ELSE "returned"
  /\ UNCHANGED <<auto, task, node, running, scopes, bodies, threw>>

----------------------------------------------------------------------------
NoTask == [status |-> "none", cuts |-> << >>, body |-> 0, parent |-> 0, context |-> "root"]
NoNode == [refs |-> 0, parent |-> 0, context |-> "root", body |-> 0, zombie |-> FALSE,
           done |-> TRUE]

Init ==
  /\ auto \in Modes
  /\ task = [s \in Terms |-> IF s = 1 THEN [NoTask EXCEPT !.status = "spawned",
                                               !.cuts = <<1, NumTerms + 1>>, !.body = 1]
                             ELSE NoTask]
  /\ node = [f \in 0 .. NumTerms |-> IF f = 0 THEN [NoNode EXCEPT !.refs = 1] ELSE NoNode]
  /\ running = [th \in Threads |-> << >>]
  /\ scopes = [th \in Threads |-> << >>]
  /\ sum_ = [b \in Terms |-> << >>]
  /\ args_adjoints_ = [b \in Terms |-> << >>]
  /\ adj = [b \in Terms |-> << >>]
  /\ partials = [i \in Terms |-> 0]
  /\ threw = {}
  /\ caller = "waiting"

Execute(th) ==
  \/ Split(th) \/ Offer(th) \/ EnterFunction(th)
  \/ FunctionReturns(th) \/ FunctionThrows(th) \/ Complete(th)

Schedule ==
  \/ \E th \in Threads, s \in Terms : Take(th, s)
  \/ \E s \in Terms : Skip(s)
  \/ \E f \in Terms : Finish(f)

Next == (\E th \in Threads : Execute(th)) \/ Schedule \/ Return

\* Threads that execute a task go on, user functions return, and a ready task
\* is taken as long as there is one: the waiting caller looks for tasks itself.
Spec ==
  /\ Init /\ [][Next]_vars
  /\ \A th \in Threads : WF_vars(Execute(th))
  /\ WF_vars(Schedule) /\ WF_vars(Return)

----------------------------------------------------------------------------
\* Types, and every task that is executed is on one thread's stack.
ReduceTypeOK ==
  /\ task \in [Terms -> [status : {"none", "spawned", "balance", "function", "done"},
                         cuts : Seq(1 .. NumTerms + 1), body : 0 .. NumTerms,
                         parent : 0 .. NumTerms, context : {"root", "left", "right"}]]
  /\ node \in [0 .. NumTerms -> [refs : 0 .. 2, parent : 0 .. NumTerms,
                                 context : {"root", "left", "right"}, body : 0 .. NumTerms,
                                 zombie : BOOLEAN, done : BOOLEAN]]
  /\ caller \in {"waiting", "returned", "threw"}
  /\ \A s \in Terms : task[s].status \in {"balance", "function"} <=>
       \E th \in Threads : s \in ToSet(running[th])

\* However the terms are split, stolen and joined, a call that returns has
\* summed every term once, in order, likewise its messages and the adjoints
\* of shared and sliced arguments, and nothing threw.
ResultExact ==
  caller = "returned" =>
    /\ sum_[1] = [i \in Terms |-> i]
    /\ args_adjoints_[1] = [i \in Terms |-> i]
    /\ \A i \in Terms : partials[i] = 1
    /\ threw = {}

\* A body is used by one task at a time, though siblings may share it and a
\* thread may run one task inside another; no join touches a body in use.
BodiesApart ==
  \A s \in Terms : InFunction(s) =>
    /\ \A t \in Terms \ {s} : InFunction(t) => task[t].body # task[s].body
    /\ \A f \in Terms : node[f].refs = 0 /\ ~node[f].done =>
         task[s].body \notin {node[f].body, f}

\* No task outlives its body: the zombie of a finish task or the worker on
\* the stack of the caller, which may be unwinding an exception.
BodiesAlive ==
  \A s \in Terms : task[s].status \in {"spawned", "balance", "function"} =>
    /\ task[s].body = 1 => caller = "waiting"
    /\ task[s].body # 1 => ~node[task[s].body].done

\* A thread's tape holds the nested scopes of the functions it is executing,
\* in their order, and no other, also after an exception.
ScopesMatchFunctions ==
  \A th \in Threads :
    /\ \A i \in 1 .. Len(running[th]) - 1 : InFunction(running[th][i])
    /\ scopes[th] = IF running[th] # << >> /\ ~InFunction(Top(th))
                    THEN Front(running[th]) ELSE running[th]

\* The call ends, whatever throws.
CallEnds == <>(caller # "waiting")
=============================================================================
