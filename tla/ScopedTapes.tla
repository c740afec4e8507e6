---------------------------- MODULE ScopedTapes ----------------------------
(***************************************************************************)
(* Which autodiff tape a thread writes to.  ChainableStack::instance_ is a  *)
(* thread-local pointer.  It is set by the AutodiffStackSingleton objects   *)
(* of the thread (those the client constructs, and those the TBB observer   *)
(* keeps in its map), and it is swapped by ScopedChainableStack::execute.   *)
(*                                                                          *)
(* The objects whose lifetime follows the blocks of the program form a      *)
(* stack per thread, lifetimes: activations of a scoped stack, objects of   *)
(* the client, and, on the main thread, the observers, one for each         *)
(* translation unit that includes init_chainablestack.hpp.                  *)
(***************************************************************************)
EXTENDS Naturals, Sequences, FiniteSets, SequencesExt

CONSTANTS
  Main,          \* the thread of the static constructors and destructors
  Workers,       \* the threads TBB creates
  Masters,       \* the other threads the client creates
  Scopes,        \* ScopedChainableStack objects; each stands for its local_stack_
  Storages,      \* addresses an AutodiffStackStorage may get from new
  NoTape,        \* nullptr
  NumObservers,  \* translation units with a global_observer
  MaxObjects     \* bound: frames of lifetimes above the observers

Threads == {Main} \cup Workers \cup Masters
Observers == 1 .. NumObservers

ASSUME ThreadsAssumption ==
  /\ Main \notin Workers \cup Masters
  /\ Workers \cap Masters = {}
ASSUME TapesAssumption ==
  /\ Scopes \cap Storages = {}
  /\ NoTape \notin Scopes \cup Storages
ASSUME BoundsAssumption == NumObservers \in Nat /\ MaxObjects \in Nat

VARIABLES
  instance_,         \* thread |-> its tape pointer
  is_initialized,    \* thread |-> the flag local to init()
  thread_tape_map_,  \* observer |-> (thread |-> own_instance_ of its object)
  lifetimes,         \* thread |-> the stack of frames described above
  locked,            \* scoped stacks whose local_stack_mutex_ is held
  heap,              \* storages that were allocated and not deleted
  wild,              \* pointers deleted though they were no storage of heap
  built              \* observers constructed so far

vars == <<instance_, is_initialized, thread_tape_map_, lifetimes, locked,
          heap, wild, built>>

ScopeFrame(s, parent) == [kind |-> "scope", scope |-> s, parent |-> parent]
UserFrame(own) == [kind |-> "user", own |-> own]
ObserverFrame(o) == [kind |-> "observer", observer |-> o]

Top(t, kind) == lifetimes[t] # << >> /\ Last(lifetimes[t]).kind = kind
Push(t, frame) == lifetimes' = [lifetimes EXCEPT ![t] = Append(@, frame)]
Pop(t) == lifetimes' = [lifetimes EXCEPT ![t] = Front(@)]
Frames(t, kind) == {i \in DOMAIN lifetimes[t] : lifetimes[t][i].kind = kind}
InScope(t) == Frames(t, "scope") # {}
Room(t) == Len(lifetimes[t]) < MaxObjects + Cardinality(Frames(t, "observer"))

\* The observers alive; they are destroyed in the reverse order.
Observing == {lifetimes[Main][i].observer : i \in Frames(Main, "observer")}
Registered(t, o) == t \in DOMAIN thread_tape_map_[o]
InPool(t) == \E o \in Observers : Registered(t, o)

\* A worker runs tasks between the entry and the exit notifications; other
\* threads run when they like.
MayRun(t) == t \in Workers => NumObservers > 0 /\ Registered(t, 1)

\* The rule for child threads: a ChainableStack object before any use of AD.
HasObject(t) == Frames(t, "user") # {} \/ InPool(t)

----------------------------------------------------------------------------
\* The singleton.  own is what init() returns to own_instance_.

\* init() that forgets it ran: the next object replaces the tape.
Construct_Forgets(t, own) ==
  IF own
  THEN /\ ~is_initialized[t] \/ instance_[t] = NoTape
       /\ \E tape \in Storages \ heap :
            /\ instance_' = [instance_ EXCEPT ![t] = tape]
            /\ heap' = heap \cup {tape}
       /\ UNCHANGED is_initialized
  ELSE /\ is_initialized[t] /\ instance_[t] # NoTape
       /\ UNCHANGED <<instance_, is_initialized, heap>>

\* AutodiffStackSingleton(): a new tape, unless the thread has one already.
Construct(t, own) ==
  IF own
  THEN /\ ~is_initialized[t] \/ instance_[t] = NoTape
       /\ is_initialized' = [is_initialized EXCEPT ![t] = TRUE]
       /\ \E tape \in Storages \ heap :
            /\ instance_' = [instance_ EXCEPT ![t] = tape]
            /\ heap' = heap \cup {tape}
  ELSE /\ is_initialized[t] /\ instance_[t] # NoTape
       /\ UNCHANGED <<instance_, is_initialized, heap>>

\* ~AutodiffStackSingleton() that leaves instance_ as it was.
Destruct_Dangles(t, own) ==
  IF own
  THEN /\ heap' = heap \ {instance_[t]}
       /\ wild' = wild \cup ({instance_[t]} \ (heap \cup {NoTape}))
       /\ UNCHANGED instance_
  ELSE UNCHANGED <<instance_, heap, wild>>

\* ~AutodiffStackSingleton() that only resets the pointer.
Destruct_Leaks(t, own) ==
  /\ instance_' = IF own THEN [instance_ EXCEPT ![t] = NoTape] ELSE instance_
  /\ UNCHANGED <<heap, wild>>

\* ~AutodiffStackSingleton(): the owner deletes what instance_ points to, in
\* the thread that runs the destructor.
Destruct(t, own) ==
  IF own
  THEN /\ heap' = heap \ {instance_[t]}
       /\ wild' = wild \cup ({instance_[t]} \ (heap \cup {NoTape}))
       /\ instance_' = [instance_ EXCEPT ![t] = NoTape]
  ELSE UNCHANGED <<instance_, heap, wild>>

----------------------------------------------------------------------------
\* The observer.

\* on_scheduler_entry that stops after emplacing the null pointer.
RegisterThread_NoObject(t, o) ==
  /\ thread_tape_map_' = [thread_tape_map_ EXCEPT
                            ![o] = [u \in DOMAIN @ \cup {t} |->
                                      IF u = t THEN NoTape ELSE @[u]]]
  /\ UNCHANGED <<instance_, is_initialized, heap>>

\* The body of on_scheduler_entry for a thread the map lacks; for one it has,
\* the call changes nothing.
RegisterThread(t, o) ==
  \E own \in BOOLEAN :
    /\ Construct(t, own)
    /\ thread_tape_map_' = [thread_tape_map_ EXCEPT
                              ![o] = [u \in DOMAIN @ \cup {t} |->
                                        IF u = t THEN own ELSE @[u]]]

\* ad_tape_observer(): the static constructor registers the main thread.
ConstructObserver ==
  /\ built < NumObservers
  /\ ~InScope(Main)
  /\ built' = built + 1
  /\ RegisterThread(Main, built + 1)
  /\ Push(Main, ObserverFrame(built + 1))
  /\ UNCHANGED <<locked, wild>>

\* ~ad_tape_observer(): its map goes with it, and every object of the map is
\* destroyed by the main thread.
DestroyObserver ==
  /\ Top(Main, "observer")
  /\ LET o == Last(lifetimes[Main]).observer
     IN /\ Destruct(Main, \E t \in DOMAIN thread_tape_map_[o] : thread_tape_map_[o][t])
        /\ thread_tape_map_' = [thread_tape_map_ EXCEPT ![o] = << >>]
  /\ Pop(Main)
  /\ UNCHANGED <<is_initialized, locked, built>>

\* A thread joins the scheduler, or one that is in it meets a new observer:
\* the observers are notified in the order of their construction.
on_scheduler_entry(t, o) ==
  /\ o \in Observing
  /\ ~Registered(t, o)
  /\ \A p \in Observers : p < o => Registered(t, p)
  /\ \A p \in Observers : p > o => ~Registered(t, p)
  /\ t \in Workers /\ o = 1 => ~is_initialized[t]
  /\ RegisterThread(t, o)
  /\ UNCHANGED <<lifetimes, locked, wild, built>>

\* A worker ends, or the scheduler object of another thread does, which the
\* client is taken not to end inside a functor given to execute().
on_scheduler_exit(t, o) ==
  /\ o \in Observing
  /\ Registered(t, o)
  /\ \A p \in Observers : p < o => ~Registered(t, p)
  /\ t \in Workers => lifetimes[t] = << >>
  /\ ~InScope(t)
  /\ Destruct(t, thread_tape_map_[o][t])
  /\ thread_tape_map_' = [thread_tape_map_ EXCEPT
                            ![o] = [u \in DOMAIN @ \ {t} |-> @[u]]]
  /\ UNCHANGED <<is_initialized, lifetimes, locked, built>>

\* A thread is gone and another takes its place with fresh thread-locals.
EndThread(t) ==
  /\ t # Main
  /\ lifetimes[t] = << >>
  /\ ~InPool(t)
  /\ is_initialized[t]
  /\ is_initialized' = [is_initialized EXCEPT ![t] = FALSE]
  /\ instance_' = [instance_ EXCEPT ![t] = NoTape]
  /\ UNCHANGED <<thread_tape_map_, lifetimes, locked, heap, wild, built>>

----------------------------------------------------------------------------
\* What the client does.

ConstructUser(t) ==
  /\ MayRun(t) /\ Room(t)
  /\ \E own \in BOOLEAN :
       /\ Construct(t, own)
       /\ Push(t, UserFrame(own))
  /\ UNCHANGED <<thread_tape_map_, locked, wild, built>>

DestroyUser(t) ==
  /\ Top(t, "user")
  /\ Destruct(t, Last(lifetimes[t]).own)
  /\ Pop(t)
  /\ UNCHANGED <<is_initialized, thread_tape_map_, locked, built>>

\* activate_scope() that does not look at the mutex.
Activate_NoLock(t, s) ==
  /\ MayRun(t) /\ Room(t)
  /\ HasObject(t)
  /\ locked' = locked \cup {s}
  /\ Push(t, ScopeFrame(s, instance_[t]))
  /\ instance_' = [instance_ EXCEPT ![t] = s]
  /\ UNCHANGED <<is_initialized, thread_tape_map_, heap, wild, built>>

\* execute() enters: the constructor of activate_scope.
Activate(t, s) ==
  /\ MayRun(t) /\ Room(t)
  /\ HasObject(t)
  /\ s \notin locked
  /\ locked' = locked \cup {s}
  /\ Push(t, ScopeFrame(s, instance_[t]))
  /\ instance_' = [instance_ EXCEPT ![t] = s]
  /\ UNCHANGED <<is_initialized, thread_tape_map_, heap, wild, built>>

\* try_lock fails: execute() throws logic_error before it changed anything.
ActivateThrows(t, s) ==
  /\ MayRun(t) /\ Room(t)
  /\ s \in locked
  /\ UNCHANGED vars

\* ~activate_scope() that loses the pointer it saved.
Deactivate_NoRestore(t) ==
  /\ Top(t, "scope")
  /\ instance_' = [instance_ EXCEPT ![t] = NoTape]
  /\ locked' = locked \ {Last(lifetimes[t]).scope}
  /\ Pop(t)
  /\ UNCHANGED <<is_initialized, thread_tape_map_, heap, wild, built>>

\* execute() returns or throws: the destructor of activate_scope.
Deactivate(t) ==
  /\ Top(t, "scope")
  /\ instance_' = [instance_ EXCEPT ![t] = Last(lifetimes[t]).parent]
  /\ locked' = locked \ {Last(lifetimes[t]).scope}
  /\ Pop(t)
  /\ UNCHANGED <<is_initialized, thread_tape_map_, heap, wild, built>>

----------------------------------------------------------------------------
Init ==
  /\ instance_ = [t \in Threads |-> NoTape]
  /\ is_initialized = [t \in Threads |-> FALSE]
  /\ thread_tape_map_ = [o \in Observers |-> << >>]
  /\ lifetimes = [t \in Threads |-> << >>]
  /\ locked = {}
  /\ heap = {}
  /\ wild = {}
  /\ built = 0

Next ==
  \/ ConstructObserver
  \/ DestroyObserver
  \/ \E t \in Threads :
       \/ \E o \in Observers : on_scheduler_entry(t, o) \/ on_scheduler_exit(t, o)
       \/ EndThread(t)
       \/ ConstructUser(t)
       \/ DestroyUser(t)
       \/ \E s \in Scopes : Activate(t, s) \/ ActivateThrows(t, s)
       \/ Deactivate(t)

Spec == Init /\ [][Next]_vars

----------------------------------------------------------------------------
Frame == [kind : {"scope"}, scope : Scopes, parent : Scopes \cup Storages \cup {NoTape}]
         \cup [kind : {"user"}, own : BOOLEAN]
         \cup [kind : {"observer"}, observer : Observers]

\* The pointer a thread returns to when every execute() on it has returned.
ThreadTape(t) ==
  IF InScope(t)
  THEN LET first == CHOOSE i \in Frames(t, "scope") :
                      \A j \in Frames(t, "scope") : i <= j
       IN lifetimes[t][first].parent
  ELSE instance_[t]

\* Where a thread keeps tape pointers: instance_ (at 0) and the pointers its
\* activations of scoped stacks saved.
Holders == {<<t, 0>> : t \in Threads}
           \cup (UNION {{<<t, i>> : i \in Frames(t, "scope")} : t \in Threads})
Held(h) == IF h[2] = 0 THEN instance_[h[1]] ELSE lifetimes[h[1]][h[2]].parent

\* The objects of a thread with own_instance_ set.
Owners(t) ==
  {<<"user", i>> : i \in {j \in Frames(t, "user") : lifetimes[t][j].own}}
  \cup {<<"map", o>> : o \in {p \in Observers : Registered(t, p) /\ thread_tape_map_[p][t]}}

\* Static destruction has begun.
ShuttingDown == Cardinality(Observing) < built

\* Types, and the mutex of a scoped stack is held exactly while one frame of
\* one thread stands for an activation of it.
TapesTypeOK ==
  /\ instance_ \in [Threads -> Scopes \cup Storages \cup {NoTape}]
  /\ is_initialized \in [Threads -> BOOLEAN]
  /\ \A o \in Observers : /\ DOMAIN thread_tape_map_[o] \subseteq Threads
                          /\ \A t \in DOMAIN thread_tape_map_[o] :
                               thread_tape_map_[o][t] \in BOOLEAN
  /\ \A t \in Threads : \A i \in DOMAIN lifetimes[t] : lifetimes[t][i] \in Frame
  /\ heap \subseteq Storages
  /\ built \in 0 .. NumObservers
  /\ locked = UNION {{lifetimes[t][i].scope : i \in Frames(t, "scope")} : t \in Threads}

\* No tape is reachable twice: not from two threads, and not from the current
\* and a suspended position of one thread.  Each thread may therefore use its
\* tape, which has no lock, while others use theirs.
TapesApart ==
  \A g, h \in Holders : g # h /\ Held(g) # NoTape => Held(g) # Held(h)

\* instance_ and every pointer an activation will restore point to a tape
\* that exists, and only storages allocated by init() were deleted.
NoDanglingTape ==
  /\ \A h \in Holders : Held(h) \in heap \cup Scopes \cup {NoTape}
  /\ wild = {}

\* execute() runs its functor "with reference to an AD tape which is stored
\* with the instance of ScopedChainableStack": while it runs, and no inner
\* execute() does, the thread's pointer is that tape whatever observers and
\* other ChainableStack objects do meanwhile.
ScopeTapeInUse ==
  \A t \in Threads : Frames(t, "scope") # {} =>
    \E i \in Frames(t, "scope") :
      /\ \A j \in Frames(t, "scope") : j <= i
      /\ instance_[t] = lifetimes[t][i].scope

\* Until static destruction, a thread has a tape of its own exactly when one
\* of its objects owns it, never two objects, and no storage is leaked.
SingleOwner ==
  ~ShuttingDown =>
    /\ \A t \in Threads :
         Cardinality(Owners(t)) = IF ThreadTape(t) = NoTape THEN 0 ELSE 1
    /\ heap = {ThreadTape(t) : t \in Threads} \ {NoTape}

\* The observer "ensures that each worker thread has an initialized AD tape
\* ready for use" for as long as the worker runs tasks.
WorkersReady ==
  \A t \in Workers : MayRun(t) => instance_[t] # NoTape

\* The tests assume of the main thread that it "must be initialized by the
\* time this code is reached": from the first static constructor on, until
\* static destruction, it has a tape.
MainInitialized ==
  built > 0 /\ ~ShuttingDown => ThreadTape(Main) # NoTape
=============================================================================
