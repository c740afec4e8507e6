# Stan Math: a verification development of the autodiff runtime

Stan Math is a header-only C++ library of differentiable functions. Nearly all of its
lines are pure floating-point templates; the part with state, order and failure is the
runtime of reverse-mode autodiff under them: the memory arena, the tape, the reverse
pass, and the machinery that runs tapes on several threads and processes. This directory
models that runtime in TLA+, checks it with TLC and proves what matters most with TLAPS.

## The system

| Part | Source (under `src/stan/math`) | State it keeps | Operations |
|---|---|---|---|
| Memory arena | `memory/stack_alloc.hpp` | blocks, their sizes, the current position, three stacks of saved positions | `alloc`, `recover_all`, `start_nested`, `recover_nested`, `free_all`, `in_stack`, `bytes_allocated` |
| Tape of one thread | `rev/core/autodiffstackstorage.hpp`, `vari.hpp`, `chainable_alloc.hpp`, `start_nested.hpp`, `recover_memory*.hpp` | `var_stack_`, `var_nochain_stack_`, `var_alloc_stack_`, their saved lengths, the arena | constructors of `vari` and `chainable_alloc`, `start_nested`, `recover_memory`, `recover_memory_nested` |
| Reverse pass | `rev/core/grad.hpp`, `set_zero_all_adjoints*.hpp`, `reverse_pass_callback.hpp`, `callback_vari.hpp` | adjoints; the loop variables of each active `grad()` | `grad`, `chain`, zeroing of adjoints |
| Tape registry and scoped tapes | `rev/core/init_chainablestack.hpp`, `scoped_chainablestack.hpp` | the thread-local tape pointer, the map of tapes, a mutex | observer entry and exit, `ScopedChainableStack::execute` |
| `reduce_sum` | `rev/functor/reduce_sum.hpp` | reducer bodies: a scoped tape, a partial sum and adjoints each | split, run, join |
| `map_rect` | `prim/functor/map_rect*.hpp`, `rev/functor/map_rect*.hpp` | output matrices shared by chunks | execute chunks, reduce, combine |
| MPI cluster | `prim/functor/mpi_cluster.hpp`, `mpi_parallel_call.hpp` | the listening workers, the lock on the root, each rank's caches by `call_id` | broadcast command, scatter, gather, stop |
| Thread pool, profiling | `prim/core/init_threadpool_tbb.hpp`, `rev/core/profiling.hpp` | the global control, the profile map | init; start and stop of profiles |
| OpenCL | `opencl/matrix_cl.hpp`, `kernel_cl.hpp`, `copy.hpp`, `kernel_generator/` | buffers, read and write event lists of each matrix | kernels, assignments, copies, moves, reads by the host |
| Solvers | `rev/functor/*` | none of their own that outlives a call | clients of nesting and of `grad` |
| Functions and distributions | `prim/fun`, `prim/prob`, `rev/fun`, `fwd`, `mix` | none | pure |

How they interact. `vari::operator new` takes memory from the arena, the constructor pushes
the vari on the tape; `grad()` walks the tape backwards calling `chain()`, virtual code that
may itself open a nested scope, build varis, call `grad()` and close the scope, all on the
same tape. `start_nested()` saves the lengths of three vectors and the arena position;
`recover_memory_nested()` goes back to them. Threads each have a tape; `ScopedChainableStack`
swaps another one in while a task runs.

What is hard: recovery interleaved with block reuse and nesting (stale positions, dangling
varis, double deletes); a sweep whose tape grows and shrinks under it; exceptions out of a
callback or out of `malloc()`; off-by-one bounds on saved lengths; above one thread, who owns
which tape and in what order results are joined; above one process, that every rank enters the
same collective operations though each decides from its own caches; on an OpenCL device, that
commands which run out of order wait for what they conflict with. `PROJECT.json` lists these hazards
at their lines with the properties that cover each.

## Modules

    Extents            pointers and extents of arena memory
    Sums               sums over finite sets
    NestedArena        abstract: disjoint grants in a stack of frames
    StackAlloc         stack_alloc; implements NestedArena
    StackAllocReuse    StackAlloc with a log of calls: reuse and heap overhead
    StackAllocOOM      StackAlloc with a failing malloc()
    StackAllocProofs   theorems about StackAlloc, and lemmas about sums
    StackAllocReuseProofs  theorems about StackAllocReuse
    NestedTape         abstract: a stack of frames of varis and objects
    AutodiffTape       the tape, EXTENDS StackAlloc (its memalloc_); implements NestedTape
    AutodiffTapeProofs theorems about AutodiffTape
    ReverseSweep       grad(), callbacks, adjoints, EXTENDS AutodiffTape
    ReverseSweepProofs theorems about ReverseSweep
    ScopedTapes        which tape each thread uses: the singleton, the TBB observer, scoped stacks
    ScopedTapesProofs  theorems about ScopedTapes
    ReduceSum          one call of reduce_sum: TBB tasks, reducer bodies, exceptions
    ReduceSumProofs    theorems about ReduceSum
    MpiCluster         map_rect over MPI: the cluster, its commands, one call on every rank
    MpiClusterProofs   theorems about MpiCluster
    OpenCLEvents       event lists of matrices against an out-of-order device queue
    OpenCLEventsProofs theorems about OpenCLEvents
    MC*                instances for TLC

**StackAlloc.** The variables are the data members. A pointer is a block index and an offset;
`blocks_[i]` is `PointerAt(i, 0)`, with indices from 1. `alloc(len)` is the conjunction of the
choice of memory (in the current block, in a later block the pool owns, in a new block) and
the history variable `live`, which records what was granted, by nested frame. The
`while` loop of `move_to_next_block()` is the least element of `LaterFits`. An exact fit moves
on, as the code's `>=` does. `recover_nested()` with no frame reads the back of an empty
vector in the code; its only caller checks first, so the guard is the action's. `free_all()`
keeps the nested vectors and is called by nothing in the library. That `recover_all()` and
`free_all()` are called with no frame open is not checked by the pool: it is a rule of its clients,
a guard of `Next` and not of the two actions. `AutodiffTape` has no such guard: there the check of
`recover_memory()` must provide it.

**StackAllocOOM.** `MallocFails` is what `move_to_next_block()` leaves behind when it throws: a
null pointer at the end of `blocks_`, `cur_block_` and `next_loc_` advanced, `sizes_` unchanged.
When that entry is reached again `sizes_[cur_block_]` is read past its end: the outcome is a
choice, after which the model stops.

**AutodiffTape.** The variables are the members of `AutodiffStackStorage` and `heap`, the
`chainable_alloc` objects not deleted with the depth they were created at. A vari is the
extent `operator new` gave it. Each action is a whole function: `RecoverMemoryNested` resizes
the three vectors, deletes the objects and calls `recover_nested`. The functions that throw
when a scope is (or is not) open change nothing then, so their check is a guard.

**ReverseSweep.** `node` says what each vari computes, `adj` its adjoint, `sweeps` is the stack
of `grad()` activations with the loop index, the beginning computed at entry and the callback
that is running, if any. `Chain` is one iteration; a callback may instead open a scope of its
own (`EnterCallback`), after which every action of user code is possible, nested `grad()`
included, until it closes the scope and passes on its adjoint (`LeaveCallback`) or throws
(`CallbackThrows`, which runs the scope's destructor and abandons the sweep). All partial
derivatives are 1: an adjoint is the number of ways the root depends on the vari. A sweep promises a
gradient (`clean`) of the variables its caller computes with (`Usable`), if their adjoints were zero
when it started, as `grad()` asks of its caller, and if no user code, callbacks included, zeroes adjoints
while it runs (`Disturbed`: `set_zero_all_adjoints()` and its nested form, which reaches one vari too
far); the caller of a nested sweep is the callback it runs in, and adjoints outside that callback's
scope may have any value.

**ScopedTapes.** A tape is only an address here: a storage allocated by `init()`, or a
`ScopedChainableStack`, which holds its tape as a member. `instance_` and `is_initialized` are
the thread-local variables; `lifetimes` is, for each thread, the stack of objects whose
lifetimes nest: activations of scoped stacks with the pointer they saved, `ChainableStack`
objects of the client, and, on the main thread, the observers (`global_observer` is in an
unnamed namespace: one for each translation unit). `Construct` and `Destruct` are the
singleton's constructor and destructor; every action that creates or destroys such an object
uses them. An observer's function holds its mutex throughout and touches the caller's
thread-locals and map entry only, so it is one step; `try_lock` and the swap are one step for
the same reason. From TBB's scheduler come the order of notifications, that a worker is notified
before its first task and after its last, and that other threads join at their first parallel
call, possibly inside `execute()`, and leave when their scheduler object ends. Two client rules are
guards: the documented one (`HasObject`: a `ChainableStack` object before any use of AD; without
it an observer met inside `execute()` replaces the scoped tape), and that a scheduler object does
not end inside a functor. At static destruction the model does what the code does: the main
thread destroys the objects of all threads that the map still holds.

**ReduceSum.** One call on reverse-mode variables, from `parallel_reduce` (or its deterministic
variant, `auto = FALSE`) to its return. `task` and `node` are TBB's `start_reduce` and
`finish_reduce` tasks, whose rules are read from `src/lib/tbb_2019_U8/include/tbb` (`parallel_reduce.h`,
`partitioner.h`): a task splits its range and offers the last piece (`Split`, `Offer`), a stolen right
child gets a body of its own (`Take`), the last child to complete makes the finish task ready
(`Finish`, which joins). The `recursive_reducer` is `EnterFunction` (copies or resets the shared
arguments, opens a nested scope), `FunctionReturns` (sweep, accumulation, end of the scope) and
`FunctionThrows`. A sum, a vector of adjoints and a message stream are the sequence of the terms
accumulated in them, which shows order and repetition at once; every sliced term has the same number
of variables. A thread may take a task in the middle of a user function that waits for tasks of its
own, as TBB does; `MaxDepth` bounds that. A cancelled group skips tasks and joins, and the caller
rethrows when all have completed. The group is cancelled by an exception of the call only: an
enclosing TBB group that is cancelled for other reasons, after which `parallel_reduce` returns a
partial sum without an exception, is not modelled.

**MpiCluster.** Collective operations are matched by order alone, so a rank that decides otherwise
than the root leaves the program out of step. `down` and `up` are the queues of what was sent and
not yet received; a broadcast or scatter puts a message in every worker's queue, a gather or
reduction on the root takes one from each; consecutive broadcasts of a size and its data are one
message. `Capacity` lets a sender run ahead, as MPI allows. `pc` follows `reduce_combine`; `todo` is
what is left of `setup_call`, computed from the rank's own `valid` caches. Each job of an evaluation
returns some number of outputs, throws, or calls `map_rect` itself. That call finds the mutex taken
on the root, falls back to the serial code and changes nothing (a second thread of the root does the
same); on a worker the constructor's rank check throws before the lock
(`mpi_parallel_call.hpp:211`), which fails the outer call. A job count other than the cached one throws
with no change of state. Two instantiations share a `call_id` and its caches, but keep the number of
outputs each. The shapes of parameters are not checked by the code and are taken not to change.

**OpenCLEvents.** `buf`, `read_events` and `write_events` are the members of each `matrix_cl`, `cmd`
what the queue and the device hold: each command with the events it waits for and, as history, the
earlier ones it conflicts with (a writer of what it uses, a reader of what it writes). Every operation
that waits for events is possible when they are complete; only `from_matrix_cl` enqueues and then
waits, and has two steps. An event that is complete orders nothing, so `Finish` removes it everywhere.
`packed_copy`, `rev` wrappers and functions on kernels are sequences of these operations.

An assignment takes the events off the lists of its results, and of the index matrices of an indexed
result, before an enqueue that may throw (`AssignThrows`, `AssignIndexedThrows`, with `DropEvents`).
The commands behind these events are then awaited by nobody, and the client may go on with every
matrix. The history variable `forgotten` keeps, for each buffer, the commands that used it at such a
failure. Exempt from the properties is exactly this: that a command forgotten for a buffer is waited
for because of that buffer. What is enqueued on the buffer after the failure is covered again, and
so are all other buffers the forgotten command uses.

Client rules in the guards: a matrix that shares its buffer (`to_arena`) is not written, because its
partner's list would not know; a matrix is not copy-assigned to itself. `PendingIndices` says whether
clients use index matrices that are still being written, which the code does not make safe.

## Runs

| Run | What it shows | Instance |
|---|---|---|
| `stack_alloc` | the pool's invariants; implements `NestedArena` | first block of 2 bytes, requests of 0, 1, 3 and 5, 3 blocks, 3 nested frames |
| `stack_alloc_reuse` | same calls after `recover_all()` give the same addresses; heap at most initial + 3 x requested | requests of 0, 1, 2, 5; 4 calls between recoveries; 6 blocks |
| `autodiff_tape` | no dangling entry, no double delete, nested stacks in step; implements `NestedTape` | stacks of 2, 2 nested scopes, 2 heap objects, arrays of 3 bytes, 3 blocks |
| `reverse_sweep` | gradients are right under nested sweeps and exceptions, while nobody zeroes adjoints | 5 varis, 2 operands, tape of 3, 2 nested scopes |
| `scoped_tapes` | no tape shared by two users, no dangling or leaked tape, each has one owner | 3 threads (main, a worker, another), 2 observers, 2 scoped stacks, 2 frames per thread above the observers |
| `mpi_cluster` | collective operations match, caches agree, the verdict is exact; every call returns and every worker stops | 3 ranks, 1 `call_id` with 2 instantiations, 2 or 4 jobs, 1 or 2 outputs, queues of 2, 2 calls |
| `reduce_sum` | the sum, messages and adjoints are those of each term once and in order; bodies are not shared or outlived; scopes survive exceptions; the call ends | 5 terms, grainsize 1, 3 threads, 3 tasks deep, both modes |
| `opencl_events` | a command runs after those it conflicts with; released buffers are not in use; event lists cover all users; failed enqueues included, but for the commands they drop | 3 matrices, 3 buffers, 3 commands not ended, 2 matrices per command and its indices, 1 command dropped by failed enqueues |
| `main_tape` | finding: the end of the main thread's last scheduler object takes its tape | as `scoped_tapes` |
| `stack_alloc_oom` | finding: after a failed `malloc()` the pool may hand out null | |
| `nested_zeroing` | finding: nested zeroing reaches into the enclosing scope | 3 varis |
| `opencl_indexing` | finding: an indexed assignment forgets a pending write of its index matrix | as `opencl_events`, with `PendingIndices` and no failing enqueue |

Two comments of `stack_alloc.hpp` say more than the code does, and need no run to see: `alloc()`
(line 161) is 8-byte aligned only while every requested length is a multiple of 8, and
`bytes_allocated()` (line 251) adds up the blocks to the current one, not the whole heap of the pool.
The same holds of `~matrix_cl` (`matrix_cl.hpp:469`: it "waits for write events to prevent any kernels
from writing memory that has already been reused"): after a failed enqueue its lists are empty, and it
does not wait for the commands that were dropped from them.

The run `main_tape` needs a client that creates a scheduler object in a block and no other that
lasts. A static one, as `init_threadpool_tbb()` has, keeps the main thread registered. The text the finding
quotes speaks of how the main thread's tape is initialized; what it leaves out is that the tape can end.

Why these bounds. The first block holds two bytes so that a request of one fits, of two is an
exact fit, of three and five skip a block or need one larger than twice the last; three blocks
give a block skipped and used later, after recovery. Three nested frames give a frame that is
neither the first nor the last. `reverse_sweep` needs an outer sweep (an operation and a
callback), and a nested one with an operation of its own: five varis (six, for an outer sweep that has
also done an operation before the callback, are beyond TLC's reach, but not the theorem's). `scoped_tapes` has one
thread of each kind, a scoped stack for each of two nested or concurrent activations, and two
observers, so that one registers a thread another owns; with three frames per thread
TLC finds nothing new. Five terms make trees of three levels with a right child that has both
kinds of sibling, and three threads let one steal while another runs a task inside a task.
Two and four jobs on three ranks give a worker without a job and uneven chunks; the second call
meets caches that the first, which may have failed, left. Three matrices are a source, a result and a
sharer or an index; three commands not ended are a chain in which the last waits for the first only
through the second. Every counter is capped
in a guard by a constant (`MaxBlocks`, `MaxNested`, `MaxCalls`, `MaxTape`, `MaxVaris`,
`MaxOperands`, `MaxAdj`, `MaxObjects`, `MaxCalls`, `Capacity`, `MaxDepth`, `MaxForgotten`,
`MaxArguments`, and the set `Commands`). `scoped_tapes`, `opencl_events` and their findings never stop
and are checked for deadlock. The others stop at their bounds, and `mpi_cluster` and `reduce_sum` when
the cluster is stopped or the call has ended: there the liveness properties say that they stop nowhere
else.

Fairness. `mpi_cluster` assumes weak fairness of `Return`, of each rank's `InCall` and of each worker's
`Listen`: processes run, user functions return, and MPI delivers what was sent; that a client calls
or stops the cluster is not assumed. `reduce_sum` assumes weak fairness of each thread's `Execute`, of
`Schedule` and of `Return`: a thread that executes a task goes on, user functions return, and a
ready task is taken by somebody, which TBB gives because the waiting caller looks for tasks itself
and the thread that completes the last child runs its continuation. The other modules state safety
only; the loops of that code are bounded by lengths fixed at their start.

## What is proved

For every initial size, set of requests, number of blocks and nesting depth (`StackAllocProofs`):
every invariant of `stack_alloc`, the action property that recovered memory leaves the stack,
and that the pool implements `NestedArena`. The inductive invariant `Inv` is the conjunction of
the invariants with `FramesOrdered`, the ordering of grants and saved positions: `NoOverlap`
alone is not inductive, since recovery goes back to a saved position and only the ordering says
that nothing still granted lies beyond it.

For every initial size, set of requests and number of calls between recoveries
(`StackAllocReuseProofs`): both invariants of `stack_alloc_reuse`. Neither is inductive. For the bound
on the heap, `FreshInv` says of a pool that has never recovered memory that its current block is its
last, that what was requested lies in the earlier blocks but for at most the offset in the current
one, and that the earlier blocks are within the initial size plus three times the part of the requests
that is not in the current block: a block of twice the last one is added only when the last one is
full, one of the size of the request is paid for by the request (`FreshArithmetic`). For the reuse,
`Retraced` says that the calls since the last rewinding, and those of the period before, are each
explained by a trace: a sequence of positions of the pool (`Position`: current block, free byte, saved
positions) from the origin, each call leading from one to the next (`Moves`) with the blocks there are
now. Where a call leads is determined by the position and the sizes (`MovesOnce`), and blocks added
later at the end do not change it (`MovesKept`), because the search takes the first block that is
large enough. So as long as the calls are the same the traces are, and `alloc()` finds the block it
found before. The two traces are not state; the step chooses one more position (`CallKeepsTraces`),
and `recover_all()` makes the first trace the second.

For every vari size, set of heap objects and tape bound (`AutodiffTapeProofs`): every invariant of
the tape. Here the strengthening is `Backed`: what a saved length keeps on a stack is held by the
arena frames that stay, because `TapeInFrames` speaks of the current frames only and a recovery
removes one. Lemmas about pushing, opening and closing a slice of a vector (`PushSlices`,
`OpenSlices`, `CloseSlices`) carry each step. The tape also implements `NestedTape`
(`TapeImplementsNested`): the same three cases, stated of a frame's items instead of its positions
(`PushSegments`, `OpenSegments`, `CloseSegments`), map each operation to one step of the abstract
tape, `ArenaArray` to none.

For every expression graph, depth of nesting and number of sweeps (`ReverseSweepProofs`): both invariants
of `reverse_sweep`. `SweepInv` extends `TapeInv`. `Placed` says where each sweep is: it covers the frame
that was innermost when it started, its callers are all in a callback, and each callback opened a scope
above the frame its sweep covers; `SweepsStayApart` follows. `Local` says that a vari refers only to
variables of the frames of the user code that made it, `Ordered` that nothing at or below a vari's place
on the tape adds to the adjoint it passes on. With these `Sound` is inductive: at every moment the
adjoints of the caller's variables are the sums over the part of the frame the sweep has done.
`GradientCorrect` is not inductive, as it speaks of finished sweeps, and only of the innermost. Each step
is shown to change one sweep and to leave its callers alone (`CallersUntouched`), a scope that ends
included, whether the callback returned or threw (`CallersOutlive`). When a sweep is finished the adjoints
solve the recursion by which `Dependence` defines the derivative, and the recursion has one solution: of
the varis where two would differ, the one nearest to the end of the tape passes on the same
(`InvIsGradient`). The sums are cardinalities of sets of pairs (`SumOver`), so that a summand can be
added without induction over data.

For every number of matrices, buffers, commands and failed enqueues (`OpenCLEventsProofs`), under
`PendingIndices = FALSE`: every invariant of `opencl_events`, with the exemption stated above for the
commands a failed enqueue drops. `EventsCover`, which says what waiting for a list waits for
directly or through other commands, is restated as `Cover`: for every set of commands closed under
waiting, lists inside it have their users inside it, and so have the conflicts of commands whose wait
list is inside it. In that form each operation is a local change, and it gives `ConflictsOrdered`
at once: a running command waits for nothing, so what it conflicts with lies in the empty closed
set. `EnqueueCover` carries all operations that enqueue, from one statement (`Ordered`) of what the
wait list and the cleared lists have to be, and `EnqueueUsers` with `EnqueueTypes` says once what
enqueueing does to the users of a buffer and to the types; `AssignIndexed` meets it only if the index matrices have no
pending write, which is the hypothesis. `QuietCover` carries those that enqueue nothing, `FinishInv`
adds the command that ends to the closed set, and `DropInv` carries both failed assignments: of a buffer
whose lists were cleared no user is left to be covered, and the others lose no event.

For any threads, scoped stacks, storages, number of observers and depth of nesting
(`ScopedTapesProofs`): every invariant of `scoped_tapes`. A thread's part of the state is its pointer
and its frames; `Linked` says of these that each activation saved the scoped stack of the one before,
the first the thread's own tape (`Base`), and that no object that owns a tape lies above an
activation. It is what makes a restored pointer valid: the destructor of an owner resets `instance_`,
which would leave a saved pointer dangling if it ran inside `execute()`. `TapesStep` lifts a change of
one thread to all. Ownership is a second invariant on top of it (`OwnersInv`): until static destruction,
a thread's own tape has one owner among the client's objects and the observers' maps, and the heap is
the set of these tapes; only with the observers alive known to be all that were built (`Registry`)
is this inductive. Two guards of the client are used: that execute() follows an object of the thread
(`HasObject`), and that a scheduler object does not end inside a functor.

For any number of terms, grain size, threads, depth of waiting and both partitioners
(`ReduceSumProofs`): every invariant of `reduce_sum`. The inductive invariant `ReduceInv` has, beside
types, stacks and nested scopes, an existential part: tasks that are not done and finish tasks that are
not done form a binary tree, described by three functions that are not state. `lo` and `hi` are the terms
below a finish task, `first` the task whose body accumulates on its left. `Shape` says that the ranges
below a finish task's sides are adjacent, and that `refs` counts the sides still busy. `Bodies` says who
may use which body: siblings share one until the right one is stolen, so that `BodiesApart` alone is not
inductive, and a left result waits in the body of `first` until the join (`Holds`, `Apart`). `Exact`,
while nothing is cancelled, says what each body has accumulated: the terms from the start of its range to
where its next task starts. The new values of the three functions are chosen when a task offers a piece
of its range, and forgotten when a finish task ends. Each action is brought down to one of a few steps
of the tree (`Kept`, `TaskEnds`, `NodeEnds`, `Offers`), proved once.

For any number of processes, call_ids, instantiations, jobs, outputs, messages in a queue and calls
(`MpiClusterProofs`): every invariant of `mpi_cluster`. A worker is at most one call behind the root, and
`Place` lists, for one worker, where the root and it can be at once and what is then in the two queues
between them. `Joining`: the root has sent, or will send, exactly the items of `setup_call` that the worker
still expects (`Stream`); the worker may not even have read that the call before has failed. `Working`:
both are past `setup_call`, and the worker is behind (`Informed`) or level with the root or ahead of it,
its answers waiting (`Level`). `Resting`: between calls. None of it is inductive without the caches: that
both sides choose the same branch at `num_outputs_per_job_ == -1` and at `cache_f_out` is `Agree`, which
counts a cached member as common already while the message that carries it is under way (`Coming`,
`Reported`). `Knows` is what a rank has learned of its own jobs, `RootKnows` what the root has of all. With
these a step of a rank is a step of one pair, root and worker, and the others follow from lemmas that say
what a step leaves alone (`OneRank`, `PlaceStays`, `AgreeStays`). That the chunks of the ranks are disjoint
and none of the root's is empty (`ChunksDisjoint`) needs the sum of the chunks before a rank, a recursive
function: `FirstJobIs` finds its closed form, by the least rank where the two would differ (`Least`, from
the well-foundedness of strict inclusion of finite sets).

Positions that describe a block of the pool (`PositionsConsistent`) are proved for the other invariants'
sake and not listed with a run. That no stack of the tape is cut below a length saved for an open scope
(`NestedLengthsOrdered`) is a part of `NestedStacksInStep`.

Assumptions: sizes are positive naturals (`InitialNBytesAssumption`, `VariSizeAssumption`), requests
are naturals (`LensAssumption`); the main thread, workers and other threads are different threads, and
scoped stacks, storages and `nullptr` different addresses (`ThreadsAssumption`, `TapesAssumption`);
the number of terms, the grain size and the depth of waiting are positive (`ReduceSumAssumption`); there
are a process, a `call_id` and an instantiation, and a call has jobs (`MpiAssumption`).
`size_t` overflow of a request is outside the models.

Only model-checked: the liveness properties, which with ENABLED are out of the prover's reach.

## Not modelled

Floating-point values, the functions and distributions, forward mode, the text of generated kernels,
vendored libraries and the build: pure code, and most of the repository. Debug-only output
(`print_stack`). The Eigen specialisations of `vari_value` are one `NewStackedVari` and two
`ArenaArray` steps each. `map_rect` on threads: disjoint chunks into entries of one output each, which
the caller combines when all have ended; its serial form is in `MpiCluster`, its tapes are in
`ScopedTapes`. Thread pool initialisation and profiling: a parsed environment variable; counters around
a scope. Solvers: clients of nesting and of `grad()` with no state of their own. `reduce_sum` on
arithmetic types has the same reducer without tapes; without `STAN_THREADS` it is one call of the user
function. Of OpenCL: `check_cl`, the caches of compiled kernels, the choice of platform and device,
host memory a pending transfer uses, and what buffers contain. An in-order queue has fewer behaviours
than the out-of-order one that is modelled.

## Plan

1. `MapRectConcurrent`: chunks, the exception of one job, the combination on the caller's tape.
2. Profiling with exceptions and nested tapes.
