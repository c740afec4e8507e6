---------------------------- MODULE ReverseSweep ----------------------------
(***************************************************************************)
(* The reverse pass over the tape: grad(), the chain() of the varis it     *)
(* calls, and the adjoints they add up.  A callback on the tape may itself *)
(* run nested autodiff, with sweeps of its own, in the middle of the sweep *)
(* that called it, and may throw out of it.                                *)
(*                                                                         *)
(* Every partial derivative is 1, so the adjoint of x after a sweep from r *)
(* is the number of ways r depends on x: enough to tell a contribution     *)
(* lost, made twice, or made before the adjoint it passes on was complete. *)
(***************************************************************************)
EXTENDS AutodiffTape, Sums

CONSTANTS
  MaxVaris,     \* bound: varis alive at a time
  MaxOperands,  \* bound: operands of one operation
  MaxAdj        \* bound: no variable of the caller of grad() has a larger adjoint

ASSUME SweepBoundsAssumption == {MaxVaris, MaxOperands, MaxAdj} \subseteq Nat

VARIABLES
  node,    \* what each live vari computes: its operands, and whose adjoint chain() passes on
  adj,     \* the adjoint of each live vari that has one
  sweeps   \* the activations of grad(), outermost first

sweepVars == <<tapeVars, node, adj, sweeps>>

SweepInit ==
  /\ TapeInit
  /\ node = << >>
  /\ adj = << >>
  /\ sweeps = << >>

Restricted(f, S) == [x \in DOMAIN f \cap S |-> f[x]]
With(f, x, y) == [z \in DOMAIN f \cup {x} |-> IF z = x THEN y ELSE f[z]]

Sweeping == sweeps # << >>
Current == sweeps[Len(sweeps)]

\* User code runs outside every sweep, and inside a callback that opened a nested scope.
UserRuns == Sweeping => Current.busy

\* The nesting depth of the scope that the callback run by sweep k opened.
Opened(k) == IF k = 0 THEN 0 ELSE sweeps[k].entry + 1

\* The nesting depth at which user code started: the code that runs now, or the code that
\* called the sweep that runs now.
BaseDepth == Opened(IF UserRuns THEN Len(sweeps) ELSE Len(sweeps) - 1)

\* The variables user code computes with.  In a callback they are copies made in its own
\* nested scope, as deep_copy_vars() and value_of() make them.
Usable == DOMAIN adj \cap UNION {live[k] : k \in (BaseDepth + 1)..Len(live)}

-----------------------------------------------------------------------------
(* Building the expression graph *)

RoomForVari == UserRuns /\ Cardinality(DOMAIN node) < MaxVaris

\* var(double)
NewLeaf ==
  /\ RoomForVari
  /\ NewUnstackedVari
  /\ node' = With(node, NewVariMemory, [kind |-> "leaf", ops |-> {}, src |-> NewVariMemory])
  /\ adj' = With(adj, NewVariMemory, 0)
  /\ UNCHANGED sweeps

\* An operation: its chain() adds its own adjoint to those of its operands.
NewOperation(ops) ==
  /\ RoomForVari
  /\ NewStackedVari
  /\ node' = With(node, NewVariMemory, [kind |-> "op", ops |-> ops, src |-> NewVariMemory])
  /\ adj' = With(adj, NewVariMemory, 0)
  /\ UNCHANGED sweeps

Unused(r) == \A v \in DOMAIN node : r \notin node[v].ops /\ (node[v].src = r => v = r)

\* reverse_pass_callback(): the result r is a leaf that nothing uses yet, and the callback
\* adds its adjoint to those of the arguments.
NewCallback(r, ops) ==
  /\ RoomForVari
  /\ node[r].kind = "leaf" /\ Unused(r) /\ r \notin ops
  /\ NewStackedVari
  /\ node' = With(node, NewVariMemory, [kind |-> "callback", ops |-> ops, src |-> r])
  /\ UNCHANGED <<adj, sweeps>>

-----------------------------------------------------------------------------
(* Nested scopes and recovery by user code *)

ForgetRecovered(a) ==
  /\ node' = Restricted(node, Live')
  /\ adj' = Restricted(a, Live')

UserStartNested ==
  /\ UserRuns
  /\ StartNested
  /\ UNCHANGED <<node, adj, sweeps>>

\* A nested_rev_autodiff object ends its own scope, not the one of the callback it is in.
UserRecoverNested ==
  /\ UserRuns /\ Depth > BaseDepth
  /\ RecoverMemoryNested
  /\ ForgetRecovered(adj)
  /\ UNCHANGED sweeps

UserRecoverMemory ==
  /\ UserRuns
  /\ RecoverMemory
  /\ ForgetRecovered(adj)
  /\ UNCHANGED sweeps

-----------------------------------------------------------------------------
(* Zeroing adjoints.  The set_zero_adjoint() of a callback does nothing. *)

Zeroed(S) == adj' = [v \in DOMAIN adj |-> IF v \in S THEN 0 ELSE adj[v]]

\* A sweep during which user code zeroes adjoints has no gradient to promise.
Disturbed == sweeps' = [k \in DOMAIN sweeps |-> [sweeps[k] EXCEPT !.clean = FALSE]]

set_zero_all_adjoints ==
  /\ UserRuns
  /\ Zeroed({var_stack_[i] : i \in DOMAIN var_stack_}
            \cup {var_nochain_stack_[i] : i \in DOMAIN var_nochain_stack_})
  /\ Disturbed
  /\ UNCHANGED <<tapeVars, node>>

\* The loops start one before the first entry of the nested scope, if there is one.
From(start, stack) == {stack[i] : i \in (IF start = 0 THEN 1 ELSE start)..Len(stack)}

ZeroedByNested ==
  From(Back(nested_var_stack_sizes_), var_stack_)
    \cup From(Back(nested_var_nochain_stack_sizes_), var_nochain_stack_)

\* With no nested scope it throws and changes nothing.
set_zero_all_adjoints_nested ==
  /\ UserRuns /\ ~ empty_nested
  /\ Zeroed(ZeroedByNested)
  /\ Disturbed
  /\ UNCHANGED <<tapeVars, node>>

-----------------------------------------------------------------------------
(* grad() *)

nested_size == Len(var_stack_) - Back(nested_var_stack_sizes_)

\* Variant of StartGrad: the loop goes down to the start of the whole tape.
StartGrad_IgnoresNesting(root) ==
  /\ UserRuns
  /\ \A v \in Usable : adj[v] <= MaxAdj
  /\ adj' = [adj EXCEPT ![root] = 1]
  /\ sweeps' = Append(sweeps,
       [root  |-> root,
        end   |-> Len(var_stack_),
        begin |-> 0,
        i     |-> Len(var_stack_),
        clean |-> \A v \in Usable : adj[v] = 0,
        busy  |-> FALSE,
        entry |-> 0])
  /\ UNCHANGED <<tapeVars, node>>

\* grad(vi): init_dependent() sets the adjoint of the root, then the loop starts at the end
\* of the tape.
StartGrad(root) ==
  /\ UserRuns
  /\ \A v \in Usable : adj[v] <= MaxAdj
  /\ adj' = [adj EXCEPT ![root] = 1]
  /\ sweeps' = Append(sweeps,
       [root  |-> root,
        end   |-> Len(var_stack_),
        begin |-> IF empty_nested THEN 0 ELSE Len(var_stack_) - nested_size,
        i     |-> Len(var_stack_),
        clean |-> \A v \in Usable : adj[v] = 0,
        busy  |-> FALSE,
        entry |-> 0])
  /\ UNCHANGED <<tapeVars, node>>

\* The vari whose chain() is next.
Next_vari == var_stack_[Current.i]

AtVari == Sweeping /\ ~ Current.busy /\ Current.i > Current.begin

\* Variant of Propagated: the adjoints are assigned, not added to.
Propagated_Assigns(n) ==
  [v \in DOMAIN adj |-> IF v \in node[n].ops THEN adj[node[n].src] ELSE adj[v]]

\* The adjoints after vari n has passed on the one it is responsible for.
Propagated(n) ==
  [v \in DOMAIN adj |-> IF v \in node[n].ops THEN adj[v] + adj[node[n].src] ELSE adj[v]]

SetCurrent(sweep) == sweeps' = [sweeps EXCEPT ![Len(sweeps)] = sweep]

Chain ==
  /\ AtVari
  /\ adj' = Propagated(Next_vari)
  /\ SetCurrent([Current EXCEPT !.i = @ - 1])
  /\ UNCHANGED <<tapeVars, node>>

\* A callback that needs derivatives of its own opens a nested scope first.
EnterCallback ==
  /\ AtVari /\ node[Next_vari].kind = "callback"
  /\ StartNested
  /\ SetCurrent([Current EXCEPT !.busy = TRUE, !.entry = Depth])
  /\ UNCHANGED <<node, adj>>

InCallback == Sweeping /\ Current.busy /\ Depth = Current.entry + 1

LeaveCallback ==
  /\ InCallback
  /\ RecoverMemoryNested
  /\ ForgetRecovered(Propagated(Next_vari))
  /\ SetCurrent([Current EXCEPT !.busy = FALSE, !.entry = 0, !.i = @ - 1])

\* The nested scope is closed by its destructor, and grad() is left without finishing.
CallbackThrows ==
  /\ InCallback
  /\ RecoverMemoryNested
  /\ ForgetRecovered(adj)
  /\ sweeps' = PopBack(sweeps)

EndGrad ==
  /\ Sweeping /\ ~ Current.busy /\ Current.i = Current.begin
  /\ sweeps' = PopBack(sweeps)
  /\ UNCHANGED <<tapeVars, node, adj>>

OperandSets == {ops \in SUBSET Usable : Cardinality(ops) \in 1..MaxOperands}

SweepNext ==
  \/ NewLeaf
  \/ \E ops \in OperandSets : NewOperation(ops)
  \/ \E r \in Usable, ops \in OperandSets : NewCallback(r, ops)
  \/ UserStartNested
  \/ UserRecoverNested
  \/ UserRecoverMemory
  \/ set_zero_all_adjoints
  \/ set_zero_all_adjoints_nested
  \/ \E root \in Usable : StartGrad(root)
  \/ Chain
  \/ EnterCallback
  \/ LeaveCallback
  \/ CallbackThrows
  \/ EndGrad

SweepSpec == SweepInit /\ [][SweepNext]_sweepVars

-----------------------------------------------------------------------------
(* Properties *)

\* The varis at positions m+1..n of the tape.
Stretch(m, n) == {var_stack_[p] : p \in (m + 1)..n}

\* The number of ways the root of sweep s depends on each vari, through the operations and
\* callbacks the sweep covers.
Dependence(s) ==
  LET ways[v \in DOMAIN adj] ==
        (IF v = s.root THEN 1 ELSE 0)
        + SumOver({n \in Stretch(s.begin, s.end) : v \in node[n].ops},
                  [n \in DOMAIN node |-> ways[node[n].src]])
  IN  ways

Finished(s) == ~ s.busy /\ s.i = s.begin

\* "Compute the gradient for all variables starting from the specified root": when a sweep
\* that found all adjoints zero has passed the last vari, every adjoint is the derivative
\* of the root, whatever nested autodiff its callbacks ran, finished or abandoned, unless one
\* of them called set_zero_all_adjoints() or set_zero_all_adjoints_nested() meanwhile: these
\* also zero adjoints of the caller, on which the sweep still works (clean, Disturbed).
GradientCorrect ==
  (Sweeping /\ Finished(Current) /\ Current.clean)
    => LET ways == Dependence(Current)
       IN  \A v \in Usable : adj[v] = ways[v]

\* "This function computes a nested gradient only going back as far as the last nesting":
\* a sweep run by a callback stays above the part of the tape its caller is sweeping, and
\* the caller's part is still on the tape.
SweepsStayApart ==
  \A k \in DOMAIN sweeps :
    /\ sweeps[k].i \in sweeps[k].begin..sweeps[k].end
    /\ sweeps[k].end <= Len(var_stack_)
    /\ k > 1 => sweeps[k].begin >= sweeps[k - 1].end

\* "Reset all adjoint values in the top nested portion of the stack to zero": whenever it
\* is called, there is nothing left to reset in the outer portion.
Outer == DOMAIN adj \cap UNION {live[k] : k \in 1..Depth}

NestedZeroingIsNested ==
  (UserRuns /\ ~ empty_nested) => \A v \in ZeroedByNested \cap Outer : adj[v] = 0
=============================================================================
