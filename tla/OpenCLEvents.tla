---------------------------- MODULE OpenCLEvents ----------------------------
(***************************************************************************)
(* opencl/matrix_cl.hpp, kernel_cl.hpp and the kernel generator: the host  *)
(* enqueues commands on an out-of-order queue without waiting for them,    *)
(* and the only order between two commands comes from the events each      *)
(* matrix_cl keeps of those that read and of those that write its buffer.  *)
(* One host thread; the device runs a command when the events in its wait  *)
(* list are complete.  An event that is complete orders nothing any more,  *)
(* so the model forgets it everywhere as soon as its command ends.         *)
(***************************************************************************)
EXTENDS Naturals, FiniteSets

CONSTANTS
  Matrices,       \* matrix_cl objects of the client
  Buffers,        \* cl::Buffer allocations; one released by all matrices is used again
  Commands,       \* bound: commands that have not ended
  MaxArguments,   \* bound: matrices among the inputs and results of one command
  MaxForgotten,   \* bound: commands whose events failed enqueues have dropped
  PendingIndices, \* whether clients index by matrices that are still being written
  None            \* no buffer; no command

ASSUME NoneAssumption == None \notin Buffers \cup Commands
ASSUME IndicesAssumption == PendingIndices \in BOOLEAN

VARIABLES
  buf,           \* buffer_cl_ of each matrix, None for an empty or destroyed one
  read_events,   \* read_events_
  write_events,  \* write_events_
  cmd,           \* the commands in the queue or on the device
  host,          \* the read from the device the host waits for, or None
  forgotten      \* history: the commands that used each buffer when an enqueue failed after
                 \* clearing the lists of a matrix on it

vars == <<buf, read_events, write_events, cmd, host, forgotten>>

NoCommand == [status |-> "free", waits |-> {}, reads |-> {}, writes |-> {},
              conflicts |-> {}]

Init ==
  /\ buf = [m \in Matrices |-> None]
  /\ read_events = [m \in Matrices |-> {}]
  /\ write_events = [m \in Matrices |-> {}]
  /\ cmd = [c \in Commands |-> NoCommand]
  /\ host = None
  /\ forgotten = [b \in Buffers |-> {}]

-----------------------------------------------------------------------------
Pending == {c \in Commands : cmd[c].status # "free"}

Free == Commands \ Pending

Live == {m \in Matrices : buf[m] # None}

Holders(b) == {m \in Matrices : buf[m] = b}

Released == {b \in Buffers : Holders(b) = {}}

read_write_events(m) == read_events[m] \cup write_events[m]

BuffersOf(ms) == {buf'[m] : m \in ms}

\* What may be written.  to_arena() makes a second matrix_cl of one buffer and copies its
\* events once, so its clients do not write to a buffer that two matrices use.
Writable == {m \in Live : Holders(buf[m]) = {m}}

Arguments(ins, outs) ==
  /\ outs # {}
  /\ Cardinality(ins \cup outs) <= MaxArguments

\* wait_for_read_write_events() returns, and clears both lists.
Waited(m) == read_write_events(m) = {}

Users(b) == {c \in Pending : b \in cmd[c].reads \cup cmd[c].writes}

\* The users of a buffer of which the lists should know.
ReadersBefore(b) == {c \in Pending : b \in cmd[c].reads} \ forgotten[b]
WritersBefore(b) == {c \in Pending : b \in cmd[c].writes} \ forgotten[b]

\* The commands not yet ended that exclude a new one which reads R and writes W, but for
\* those that use the same buffer and were dropped from its lists by a failed enqueue.
Conflicts(R, W) ==
  (UNION {WritersBefore(b) : b \in R \cup W}) \cup (UNION {ReadersBefore(b) : b \in W})

\* The host enqueues command c with a wait list.  conflicts is history: the commands before
\* it in program order that it must come after.
Enqueue(c, events, R, W) ==
  /\ cmd[c].status = "free"
  /\ cmd' = [cmd EXCEPT ![c] =
       [status |-> "queued", waits |-> events, reads |-> R, writes |-> W,
        conflicts |-> Conflicts(R, W)]]

AddEvents(c, ins, outs, cleared) ==
  /\ read_events' = [m \in Matrices |->
       (IF m \in cleared THEN {} ELSE read_events[m]) \cup (IF m \in ins THEN {c} ELSE {})]
  /\ write_events' = [m \in Matrices |->
       (IF m \in cleared THEN {} ELSE write_events[m]) \cup (IF m \in outs THEN {c} ELSE {})]

\* What get_clear_read_write_events leaves when the enqueue that follows throws: the lists
\* are cleared, and no command takes the place of what was in them.
DropEvents(cleared) ==
  /\ read_events' = [m \in Matrices |-> IF m \in cleared THEN {} ELSE read_events[m]]
  /\ write_events' = [m \in Matrices |-> IF m \in cleared THEN {} ELSE write_events[m]]
  /\ forgotten' = [b \in Buffers |->
       forgotten[b] \cup (IF b \in BuffersOf(cleared) THEN Users(b) ELSE {})]
  /\ Cardinality(UNION {forgotten'[b] : b \in Buffers}) <= MaxForgotten

\* A result waits for those that write it, not for those that still read it.
EventsFor_WritesOnly(ins, outs) == UNION {write_events[m] : m \in ins \cup outs}

\* select_events, get_write_events, get_clear_read_write_events
EventsFor(ins, outs) ==
  (UNION {write_events[m] : m \in ins}) \cup (UNION {read_write_events(m) : m \in outs})

-----------------------------------------------------------------------------
(* The host.  An operation that waits for events is possible once they are complete:    *)
(* nothing else of the host happens in between.  Reading from the device (from_matrix_cl)*)
(* is the operation that enqueues and then waits, and so has two steps.                  *)

\* matrix_cl(rows, cols)
Construct(m, b) ==
  /\ m \notin Live
  /\ b \in Released
  /\ buf' = [buf EXCEPT ![m] = b]
  /\ UNCHANGED <<read_events, write_events, cmd, host, forgotten>>

\* matrix_cl(A) of host memory: a buffer, and a command that writes it.
FromHost(m, b, c) ==
  /\ m \notin Live
  /\ b \in Released
  /\ buf' = [buf EXCEPT ![m] = b]
  /\ Enqueue(c, {}, {}, {b})
  /\ AddEvents(c, {}, {m}, {})
  /\ UNCHANGED <<host, forgotten>>

\* kernel_cl::operator(): arguments are in_buffer, out_buffer or, in both sets,
\* in_out_buffer.  Nothing is cleared.
Kernel(ins, outs, c) ==
  /\ Arguments(ins, outs)
  /\ UNCHANGED <<buf, host, forgotten>>
  /\ Enqueue(c, EventsFor(ins, outs), BuffersOf(ins), BuffersOf(outs))
  /\ AddEvents(c, ins, outs, {})

\* check_assign_dimensions: a result of other dimensions is move-assigned a new matrix,
\* which waits for what its old buffer is used by; the expressions must not read it.
Dimensions(ins, outs) ==
  {buf} \cup {[buf EXCEPT ![m] = b] :
               m \in {n \in outs \ ins : Waited(n)}, b \in Released}

\* results(outs) = expressions(ins): what the results are used by is moved from their
\* lists to the wait list, and the new command takes its place.
Assign(ins, outs, c) ==
  /\ Arguments(ins, outs)
  /\ buf' \in Dimensions(ins, outs)
  /\ Enqueue(c, EventsFor(ins, outs), BuffersOf(ins), BuffersOf(outs))
  /\ AddEvents(c, ins, outs, outs)
  /\ UNCHANGED <<host, forgotten>>

\* The same when enqueueNDRangeKernel throws.  The client may go on with the results.
AssignThrows(ins, outs) ==
  /\ Arguments(ins, outs)
  /\ buf' \in Dimensions(ins, outs)
  /\ DropEvents(outs)
  /\ UNCHANGED <<cmd, host>>

\* indexing(out, idx) = expression(ins): operation_cl_lhs moves the events of the index
\* matrices too, but what indexing_ gives these is a read event only.
AssignIndexed(ins, idx, out, c) ==
  /\ Arguments(ins, {out})
  /\ idx # {} /\ out \notin idx
  /\ PendingIndices \/ \A m \in idx : write_events[m] = {}
  /\ UNCHANGED <<buf, host, forgotten>>
  /\ Enqueue(c, EventsFor(ins, idx \cup {out}), BuffersOf(ins \cup idx), BuffersOf({out}))
  /\ AddEvents(c, ins \cup idx, {out}, idx \cup {out})

\* The same when enqueueNDRangeKernel throws: the index matrices, which the client only
\* asked to read, have lost their events as well.
AssignIndexedThrows(ins, idx, out) ==
  /\ Arguments(ins, {out})
  /\ idx # {} /\ out \notin idx
  /\ PendingIndices \/ \A m \in idx : write_events[m] = {}
  /\ UNCHANGED <<buf, cmd, host>>
  /\ DropEvents(idx \cup {out})

\* The copy constructor and copy assignment: a new buffer and a command that copies.
Copy(m, a, b, c) ==
  /\ a \in Live \ {m}
  /\ Waited(m)
  /\ b \in Released
  /\ buf' = [buf EXCEPT ![m] = b]
  /\ Enqueue(c, write_events[a], {buf[a]}, {b})
  /\ AddEvents(c, {a}, {m}, {})
  /\ UNCHANGED <<host, forgotten>>

\* A move that copies the event lists and leaves them where they were.
Move_KeepsEvents(m, a) ==
  /\ a \in Live \ {m}
  /\ Waited(m)
  /\ buf' = [buf EXCEPT ![m] = buf[a], ![a] = None]
  /\ read_events' = [read_events EXCEPT ![m] = read_events[a]]
  /\ write_events' = [write_events EXCEPT ![m] = write_events[a]]
  /\ UNCHANGED <<cmd, host, forgotten>>

\* The move constructor and move assignment: the buffer goes with its events.
Move(m, a) ==
  /\ a \in Live \ {m}
  /\ Waited(m)
  /\ buf' = [buf EXCEPT ![m] = buf[a], ![a] = None]
  /\ read_events' = [read_events EXCEPT ![m] = read_events[a], ![a] = {}]
  /\ write_events' = [write_events EXCEPT ![m] = write_events[a], ![a] = {}]
  /\ UNCHANGED <<cmd, host, forgotten>>

\* A shared matrix that starts with empty lists.
ToArena_NoEvents(m, a) ==
  /\ a \in Live
  /\ m \notin Live
  /\ buf' = [buf EXCEPT ![m] = buf[a]]
  /\ UNCHANGED <<read_events, write_events, cmd, host, forgotten>>

\* to_arena(a): another matrix on the same buffer, with a copy of the events.
ToArena(m, a) ==
  /\ a \in Live
  /\ m \notin Live
  /\ buf' = [buf EXCEPT ![m] = buf[a]]
  /\ read_events' = [read_events EXCEPT ![m] = read_events[a]]
  /\ write_events' = [write_events EXCEPT ![m] = write_events[a]]
  /\ UNCHANGED <<cmd, host, forgotten>>

\* A destructor that does what its comment says, and waits for write events only.
Destroy_WritesOnly(m) ==
  /\ m \in Live
  /\ write_events[m] = {}
  /\ buf' = [buf EXCEPT ![m] = None]
  /\ read_events' = [read_events EXCEPT ![m] = {}]
  /\ UNCHANGED <<write_events, cmd, host, forgotten>>

\* ~matrix_cl
Destroy(m) ==
  /\ m \in Live
  /\ Waited(m)
  /\ buf' = [buf EXCEPT ![m] = None]
  /\ UNCHANGED <<read_events, write_events, cmd, host, forgotten>>

\* from_matrix_cl: the read is enqueued, and no list keeps its event ...
FromMatrix(m, c) ==
  /\ m \in Live
  /\ UNCHANGED <<buf, read_events, write_events, forgotten>>
  /\ Enqueue(c, write_events[m], BuffersOf({m}), {})
  /\ host' = c

HostStep ==
  /\ host = None
  /\ \/ \E m \in Matrices, b \in Released : Construct(m, b)
     \/ \E m \in Matrices, b \in Released, c \in Free : FromHost(m, b, c)
     \/ \E ins \in SUBSET Live, outs \in SUBSET Writable, c \in Free :
          Kernel(ins, outs, c) \/ Assign(ins, outs, c)
     \/ \E ins \in SUBSET Live, outs \in SUBSET Writable : AssignThrows(ins, outs)
     \/ \E ins, idx \in SUBSET Live, out \in Writable, c \in Free :
          AssignIndexed(ins, idx, out, c)
     \/ \E ins, idx \in SUBSET Live, out \in Writable : AssignIndexedThrows(ins, idx, out)
     \/ \E m \in Matrices, a \in Live, b \in Released, c \in Free : Copy(m, a, b, c)
     \/ \E m \in Matrices, a \in Live : Move(m, a) \/ ToArena(m, a)
     \/ \E m \in Live : Destroy(m)
     \/ \E m \in Live, c \in Free : FromMatrix(m, c)

-----------------------------------------------------------------------------
(* The device. *)

Start(c) ==
  /\ cmd[c].status = "queued"
  /\ cmd[c].waits = {}
  /\ cmd' = [cmd EXCEPT ![c].status = "running"]
  /\ UNCHANGED <<buf, read_events, write_events, host, forgotten>>

\* A command ends: its event is complete.  The host, if it waits for this one, goes on
\* (and clears the write events of the matrix it read: the read waited for them, so there is
\* none left).
Finish(c) ==
  /\ cmd[c].status = "running"
  /\ cmd' = [d \in Commands |->
       IF d = c THEN NoCommand
       ELSE [cmd[d] EXCEPT !.waits = @ \ {c}, !.conflicts = @ \ {c}]]
  /\ read_events' = [m \in Matrices |-> read_events[m] \ {c}]
  /\ write_events' = [m \in Matrices |-> write_events[m] \ {c}]
  /\ host' = IF host = c THEN None ELSE host
  /\ forgotten' = [b \in Buffers |-> forgotten[b] \ {c}]
  /\ UNCHANGED buf

Next == HostStep \/ \E c \in Commands : Start(c) \/ Finish(c)

Spec == Init /\ [][Next]_vars

-----------------------------------------------------------------------------
(* Properties *)

\* Members range over their types; every event kept belongs to a command that has not
\* ended; a matrix without a buffer keeps no events.
EventsTypeOK ==
  /\ buf \in [Matrices -> Buffers \cup {None}]
  /\ read_events \in [Matrices -> SUBSET Pending]
  /\ write_events \in [Matrices -> SUBSET Pending]
  /\ cmd \in [Commands -> [status : {"free", "queued", "running"},
                           waits : SUBSET Pending, reads : SUBSET Buffers,
                           writes : SUBSET Buffers, conflicts : SUBSET Pending]]
  /\ \A c \in Commands \ Pending : cmd[c] = NoCommand
  /\ host \in Pending \cup {None}
  /\ forgotten \in [Buffers -> SUBSET Commands]
  /\ \A b \in Buffers : forgotten[b] \subseteq Users(b)
  /\ \A m \in Matrices \ Live : read_write_events(m) = {}

\* The purpose of the lists: a command runs only after every command enqueued before it
\* that writes what it reads or writes, or reads what it writes, whichever operations moved,
\* copied or cleared the events in between.  What a failed enqueue dropped from the lists of
\* its results and index matrices before the command was enqueued is not waited for
\* (Conflicts leaves it out); all that was enqueued on them since then is.
ConflictsOrdered ==
  \A c \in Commands : cmd[c].status = "running" => cmd[c].conflicts = {}

\* That for reads of what is written, as the documentation has it: "That way we ensure
\* that an operation that, for example, writes to a buffer, is completed before we allow the
\* OpenCL runtime to read from that buffer" (add_new_opencl_kernel.md).
WriteCompletedBeforeRead ==
  \A c \in Commands : cmd[c].status = "running" =>
    \A d \in cmd[c].conflicts : cmd[d].writes \cap cmd[c].reads = {}

\* "Destructor waits for write events to prevent any kernels from writing memory that has
\* already been reused" (matrix_cl.hpp): a command in the queue or on the device that uses a
\* buffer no matrix holds is one a failed enqueue dropped from the lists of that buffer; so
\* the failure releases no buffer under a command enqueued after it.
NoUseAfterRelease ==
  \A b \in Released : Users(b) \subseteq forgotten[b]

\* Commands waited for by whoever waits for a set of commands.
Awaited(events) ==
  {c \in Commands : \A X \in SUBSET Commands :
     (events \subseteq X /\ \A d \in X : cmd[d].waits \subseteq X) => c \in X}

\* What an operation that clears, copies or moves events must keep true: waiting for the
\* write events of a matrix waits for every command that writes its buffer, and waiting for
\* all events of the matrices on a buffer waits for every command that uses it, but for the
\* commands a failed enqueue dropped from the lists of that very buffer (ReadersBefore and
\* WritersBefore leave them out).
EventsCover ==
  \A b \in Buffers \ Released :
    /\ \A m \in Holders(b) : WritersBefore(b) \subseteq Awaited(write_events[m])
    /\ (ReadersBefore(b) \cup WritersBefore(b)) \ {host}
         \subseteq Awaited(UNION {read_write_events(m) : m \in Holders(b)})
=============================================================================
