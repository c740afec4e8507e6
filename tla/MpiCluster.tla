----------------------------- MODULE MpiCluster -----------------------------
(***************************************************************************)
(* map_rect over MPI: the root (rank 0) broadcasts commands to the workers, *)
(* which listen; root and workers then run the same mpi_parallel_call, each *)
(* deciding from its own caches which collective operations to enter.       *)
(*                                                                          *)
(* A collective operation is matched by order alone.  It is modelled by a   *)
(* queue from the root to each worker (broadcast, scatter) and one back     *)
(* (gather, reduce): a sender may run ahead by Capacity messages, the other *)
(* side waits.  Consecutive broadcasts of one value and its size are one    *)
(* message.                                                                 *)
(***************************************************************************)
EXTENDS Integers, Sequences, Functions, FiniteSetsExt

CONSTANTS
  WorldSize,  \* processes
  Ids,        \* call_id template arguments
  Kinds,      \* instantiations of mpi_parallel_call that share a call_id
  JobCounts,  \* numbers of jobs a client may ask for
  Sizes,      \* numbers of outputs a job may have
  Capacity,   \* bound: messages in a queue
  MaxCalls    \* bound: calls of map_rect

ASSUME MpiAssumption ==
  /\ WorldSize \in Nat \ {0} /\ Ids # {} /\ Kinds # {}
  /\ JobCounts \subseteq Nat \ {0} /\ Sizes \subseteq Nat
  /\ Capacity \in Nat \ {0} /\ MaxCalls \in Nat

Ranks == 0 .. WorldSize - 1
Remotes == Ranks \ {0}
Calls == Ids \X Kinds

\* What setup_call distributes, in its order, on a rank whose caches for the
\* call_id are the members cached of what can be; "f_out" is cached at the end
\* of the first evaluation.
Setup(cached) ==
  LET Unless(m) == IF m \in cached THEN << >> ELSE <<m>>
  IN Unless("chunks") \o Unless("shared_dims") \o <<"shared">> \o Unless("job_dims")
       \o <<"job_params">> \o Unless("x_r") \o Unless("x_i")

Cached == {"chunks", "shared_dims", "job_dims", "x_r", "x_i", "f_out"}

\* What a job does: return a number of outputs, throw, or call map_rect
\* itself and return the least number.
Throws == -1
Nested == -2

VARIABLES
  pc,           \* rank |-> what it does next
  call,         \* rank |-> the call it works on
  todo,         \* rank |-> what is left of setup_call
  valid,        \* rank |-> (call_id |-> members of its cache that are valid)
  jobs,         \* rank |-> (call_id |-> number of jobs of cache_chunks)
  f_out,        \* rank |-> (call_id |-> (job |-> outputs), cache_f_out)
  num_outputs,  \* rank |-> (call |-> num_outputs_per_job_)
  does,         \* rank |-> what each of its jobs does in its last evaluation
  local_ok,     \* rank |-> local_ok
  down, up,     \* worker |-> messages from and to the root
  in_use,       \* the root's mutex is held by a call
  listening,    \* listening_status of the root
  calls         \* calls of map_rect so far

caches == <<valid, jobs, f_out, num_outputs>>
vars == <<pc, call, todo, caches, does, local_ok, down, up, in_use, listening, calls>>

----------------------------------------------------------------------------
\* Jobs by rank: the remainder goes to rank 1 onwards, unless there are
\* fewer jobs than ranks.
mpi_map_chunks(n) ==
  LET delta == IF n \div WorldSize = 0 THEN 0 ELSE 1
  IN [r \in Ranks |->
        n \div WorldSize + (IF r - delta \in 0 .. (n % WorldSize) - 1 THEN 1 ELSE 0)]

FirstJob(n, r) ==
  LET first[q \in Ranks] == IF q = 0 THEN 0 ELSE first[q - 1] + mpi_map_chunks(n)[q - 1]
  IN first[r]

JobsOf(n, r) == FirstJob(n, r) + 1 .. FirstJob(n, r) + mpi_map_chunks(n)[r]
Local(r) == JobsOf(jobs[r][call[r][1]], r)

\* A nested call gets the answer without the cluster on the root, where the
\* mutex is held, and an exception on a worker, whose rank is checked first.
Fails(r, j) == does[r][j] = Throws \/ (does[r][j] = Nested /\ r # 0)

\* local_f_out: -1 for a job that threw, and for those after it.
local_f_out(r) ==
  [j \in DOMAIN does[r] |->
     IF \E i \in DOMAIN does[r] : i <= j /\ Fails(r, i) THEN -1
     ELSE IF does[r][j] = Nested THEN Min(Sizes) ELSE does[r][j]]

Message(what, value) == [what |-> what, call |-> call[0], value |-> value]

\* Collective operations.  The root sends to all at once and takes from all.
RoomDown == \A w \in Remotes : Len(down[w]) < Capacity
RoomUp(w) == Len(up[w]) < Capacity
Broadcast(m) == down' = [w \in Remotes |-> Append(down[w], m)]
Receive(w) == down' = [down EXCEPT ![w] = Tail(@)]
SendUp(w, what, value) ==
  up' = [up EXCEPT ![w] = Append(@, [what |-> what, call |-> call[w], value |-> value])]
AllUp == \A w \in Remotes : up[w] # << >>
TakeUp == up' = [w \in Remotes |-> Tail(up[w])]
Goto(r, where) == pc' = [pc EXCEPT ![r] = where]

----------------------------------------------------------------------------
\* Starting a call.

Begin(r, c) ==
  /\ Goto(r, "setup")
  /\ call' = [call EXCEPT ![r] = c]
  /\ todo' = [todo EXCEPT ![r] = Setup(valid[r][c[1]])]

\* The constructor on the root: the number of jobs must be the cached one,
\* the cluster must listen and be free; otherwise it throws and nothing
\* changes (mpi_is_in_use makes map_rect run without the cluster).
MapRect(c, n) ==
  /\ pc[0] = "idle" /\ calls < MaxCalls
  /\ "chunks" \in valid[0][c[1]] => jobs[0][c[1]] = n
  /\ listening /\ ~in_use /\ RoomDown
  /\ in_use' = TRUE
  /\ calls' = calls + 1
  /\ Begin(0, c)
  /\ jobs' = [jobs EXCEPT ![0][c[1]] = n]
  /\ Broadcast([what |-> "command", call |-> c, value |-> 0])
  /\ UNCHANGED <<valid, f_out, num_outputs, does, local_ok, up, listening>>

\* One turn of the loop in listen().
Listen(w) ==
  /\ pc[w] = "listening" /\ down[w] # << >>
  /\ IF Head(down[w]).what = "stop"
     THEN Goto(w, "stopped") /\ UNCHANGED <<call, todo>>
     ELSE Begin(w, Head(down[w]).call)
  /\ Receive(w)
  /\ UNCHANGED <<caches, does, local_ok, up, in_use, listening, calls>>

\* stop_listen() on the root, from the destructor of the cluster.
StopListen ==
  /\ pc[0] = "idle" /\ listening /\ ~in_use /\ RoomDown
  /\ listening' = FALSE
  /\ Broadcast([what |-> "stop", call |-> call[0], value |-> 0])
  /\ UNCHANGED <<pc, call, todo, caches, does, local_ok, up, in_use, calls>>

\* A cache that the root alone fills.
Store_RootOnly(r, m) ==
  valid' = [valid EXCEPT ![r][call[r][1]] = IF r = 0 THEN @ \cup {m} ELSE @]

\* mpi_parallel_call_cache::store, for the members that are cached.
Store(r, m) ==
  valid' = [valid EXCEPT ![r][call[r][1]] = IF m \in Cached THEN @ \cup {m} ELSE @]

\* One item of setup_call: the root sends it, a worker receives it.
Distribute(r) ==
  /\ pc[r] = "setup" /\ todo[r] # << >>
  /\ IF r = 0
     THEN /\ RoomDown
          /\ Broadcast(Message(Head(todo[0]), jobs[0][call[0][1]]))
          /\ UNCHANGED jobs
     ELSE /\ down[r] # << >>
          /\ jobs' = [jobs EXCEPT ![r][call[r][1]] =
                        IF Head(todo[r]) = "chunks" THEN Head(down[r]).value ELSE @]
          /\ Receive(r)
  /\ Store(r, Head(todo[r]))
  /\ todo' = [todo EXCEPT ![r] = Tail(@)]
  /\ UNCHANGED <<pc, call, f_out, num_outputs, does, local_ok, up, in_use, listening, calls>>

----------------------------------------------------------------------------
\* reduce_combine.

\* The loop over the jobs of a rank; it ends at the first exception.
Evaluate(r) ==
  /\ pc[r] = "setup" /\ todo[r] = << >>
  /\ \E behaviour \in [Local(r) -> Sizes \cup {Throws, Nested}] :
       does' = [does EXCEPT ![r] = behaviour]
  /\ local_ok' = [local_ok EXCEPT ![r] = \A j \in Local(r) : ~Fails(r, j)']
  /\ Goto(r, IF num_outputs[r][call[r]] = -1 THEN "first_ok" ELSE "result")
  /\ UNCHANGED <<call, todo, caches, down, up, in_use, listening, calls>>

\* The first evaluation of an instantiation: did all jobs of all ranks succeed?
FirstOk(r) ==
  /\ pc[r] = "first_ok"
  /\ IF r = 0 THEN AllUp /\ TakeUp ELSE RoomUp(r) /\ SendUp(r, "first_ok", local_ok[r])
  /\ local_ok' = [local_ok EXCEPT ![r] =
                    IF r = 0 THEN @ /\ \A w \in Remotes : Head(up[w]).value ELSE @]
  /\ Goto(r, "all_ok")
  /\ UNCHANGED <<call, todo, caches, does, down, in_use, listening, calls>>

\* Workers that carry on with the evaluation though some job failed.
AllOk_CarryOn(r) ==
  /\ pc[r] = "all_ok"
  /\ IF r = 0
     THEN /\ RoomDown /\ Broadcast(Message("all_ok", local_ok[0]))
          /\ Goto(r, IF local_ok[0] THEN "outputs" ELSE "throws")
     ELSE /\ down[r] # << >> /\ Receive(r)
          /\ Goto(r, "outputs")
  /\ UNCHANGED <<call, todo, caches, does, local_ok, up, in_use, listening, calls>>

\* Every rank throws, and a worker's exception ends its listening.
AllOk_AllThrow(r) ==
  /\ pc[r] = "all_ok"
  /\ IF r = 0
     THEN /\ RoomDown /\ Broadcast(Message("all_ok", local_ok[0]))
          /\ Goto(r, IF local_ok[0] THEN "outputs" ELSE "throws")
     ELSE /\ down[r] # << >> /\ Receive(r)
          /\ Goto(r, IF Head(down[r]).value THEN "outputs" ELSE "throws")
  /\ UNCHANGED <<call, todo, caches, does, local_ok, up, in_use, listening, calls>>

\* If not, the root throws and the workers go back to listening.
AllOk(r) ==
  /\ pc[r] = "all_ok"
  /\ IF r = 0
     THEN /\ RoomDown /\ Broadcast(Message("all_ok", local_ok[0]))
          /\ Goto(r, IF local_ok[0] THEN "outputs" ELSE "throws")
     ELSE /\ down[r] # << >> /\ Receive(r)
          /\ Goto(r, IF Head(down[r]).value THEN "outputs" ELSE "listening")
  /\ UNCHANGED <<call, todo, caches, does, local_ok, up, in_use, listening, calls>>

\* The rows of a job's output, as the root knows them: 1 stands for the
\* number of rows, 0 is what a rank without a job has.
Outputs(r) ==
  /\ pc[r] = "outputs"
  /\ IF r = 0
     THEN LET rows == IF Local(0) = {} THEN 0 ELSE 1
          IN /\ RoomDown /\ Broadcast(Message("outputs", rows))
             /\ num_outputs' = [num_outputs EXCEPT ![0][call[0]] = rows]
     ELSE /\ down[r] # << >> /\ Receive(r)
          /\ num_outputs' = [num_outputs EXCEPT ![r][call[r]] = Head(down[r]).value]
  /\ Goto(r, IF "f_out" \in valid[r][call[r][1]] THEN "result" ELSE "f_out")
  /\ UNCHANGED <<call, todo, valid, jobs, f_out, does, local_ok, up, in_use, listening, calls>>

\* The root takes its first job's size for that of all.
FOut_OneSize(r) ==
  /\ pc[r] = "f_out"
  /\ IF r = 0
     THEN /\ AllUp /\ TakeUp
          /\ f_out' = [f_out EXCEPT ![0][call[0][1]] =
                         [j \in 1 .. jobs[0][call[0][1]] |-> local_f_out(0)[1]]]
     ELSE /\ RoomUp(r) /\ SendUp(r, "f_out", local_f_out(r))
          /\ f_out' = [f_out EXCEPT ![r][call[r][1]] = local_f_out(r)]
  /\ Store(r, "f_out")
  /\ Goto(r, "result")
  /\ UNCHANGED <<call, todo, jobs, num_outputs, does, local_ok, down, in_use, listening, calls>>

\* The sizes of all jobs are gathered on the root; a worker knows its own.
FOut(r) ==
  /\ pc[r] = "f_out"
  /\ LET all == [j \in 1 .. jobs[0][call[0][1]] |->
                   IF j \in Local(0) THEN local_f_out(0)[j]
                   ELSE LET w == CHOOSE q \in Remotes : j \in JobsOf(jobs[0][call[0][1]], q)
                        IN Head(up[w]).value[j]]
     IN IF r = 0
        THEN /\ AllUp /\ TakeUp
             /\ f_out' = [f_out EXCEPT ![0][call[0][1]] = all]
        ELSE /\ RoomUp(r) /\ SendUp(r, "f_out", local_f_out(r))
             /\ f_out' = [f_out EXCEPT ![r][call[r][1]] = local_f_out(r)]
  /\ Store(r, "f_out")
  /\ Goto(r, "result")
  /\ UNCHANGED <<call, todo, jobs, num_outputs, does, local_ok, down, in_use, listening, calls>>

\* Numbers the rank sends, by its cached sizes; chunks_result[q] on rank r.
ChunkLength(r, q) ==
  num_outputs[r][call[r]]
  * SumFunction([j \in JobsOf(jobs[r][call[r][1]], q) |-> f_out[r][call[r][1]][j]])

\* Without comparing the sizes of this evaluation with the cached ones.
Result_Unchecked(r) ==
  /\ pc[r] = "result"
  /\ IF r = 0 THEN AllUp /\ TakeUp ELSE RoomUp(r) /\ SendUp(r, "result", ChunkLength(r, r))
  /\ Goto(r, "status")
  /\ UNCHANGED <<call, todo, caches, does, local_ok, down, in_use, listening, calls>>

\* A size that is not the cached one counts as a failure; the outputs are
\* gathered in any case.
Result(r) ==
  /\ pc[r] = "result"
  /\ local_ok' = [local_ok EXCEPT ![r] =
                    @ /\ \A j \in Local(r) : local_f_out(r)[j] = f_out[r][call[r][1]][j]]
  /\ IF r = 0 THEN AllUp /\ TakeUp ELSE RoomUp(r) /\ SendUp(r, "result", ChunkLength(r, r))
  /\ Goto(r, "status")
  /\ UNCHANGED <<call, todo, caches, does, down, in_use, listening, calls>>

\* The root learns whether all went well, and throws or combines.
Status(r) ==
  /\ pc[r] = "status"
  /\ IF r = 0
     THEN /\ AllUp /\ TakeUp
          /\ Goto(0, IF local_ok[0] /\ \A w \in Remotes : Head(up[w]).value
                     THEN "value" ELSE "throws")
     ELSE /\ RoomUp(r) /\ SendUp(r, "status", local_ok[r])
          /\ Goto(r, "listening")
  /\ UNCHANGED <<call, todo, caches, does, local_ok, down, in_use, listening, calls>>

\* A call that keeps the mutex when it ends.
Return_KeepsLock ==
  /\ pc[0] \in {"value", "throws"}
  /\ Goto(0, "idle")
  /\ UNCHANGED <<call, todo, caches, does, local_ok, down, up, in_use, listening, calls>>

\* map_rect returns or its exception leaves it: the call object releases the
\* mutex.
Return ==
  /\ pc[0] \in {"value", "throws"}
  /\ Goto(0, "idle")
  /\ in_use' = FALSE
  /\ UNCHANGED <<call, todo, caches, does, local_ok, down, up, listening, calls>>

----------------------------------------------------------------------------
Init ==
  /\ pc = [r \in Ranks |-> IF r = 0 THEN "idle" ELSE "listening"]
  /\ call = [r \in Ranks |-> CHOOSE c \in Calls : TRUE]
  /\ todo = [r \in Ranks |-> << >>]
  /\ valid = [r \in Ranks |-> [id \in Ids |-> {}]]
  /\ jobs = [r \in Ranks |-> [id \in Ids |-> 0]]
  /\ f_out = [r \in Ranks |-> [id \in Ids |-> << >>]]
  /\ num_outputs = [r \in Ranks |-> [c \in Calls |-> -1]]
  /\ does = [r \in Ranks |-> << >>]
  /\ local_ok = [r \in Ranks |-> TRUE]
  /\ down = [w \in Remotes |-> << >>]
  /\ up = [w \in Remotes |-> << >>]
  /\ in_use = FALSE
  /\ listening = TRUE
  /\ calls = 0

InCall(r) ==
  \/ Distribute(r) \/ Evaluate(r) \/ FirstOk(r) \/ AllOk(r)
  \/ Outputs(r) \/ FOut(r) \/ Result(r) \/ Status(r)

Next ==
  \/ \E c \in Calls, n \in JobCounts : MapRect(c, n)
  \/ StopListen
  \/ Return
  \/ \E r \in Ranks : InCall(r)
  \/ \E w \in Remotes : Listen(w)

\* Every process runs, the user's functions return, and MPI delivers.
Fairness ==
  /\ WF_vars(Return)
  /\ \A r \in Ranks : WF_vars(InCall(r))
  /\ \A w \in Remotes : WF_vars(Listen(w))

Spec == Init /\ [][Next]_vars /\ Fairness

----------------------------------------------------------------------------
Quiet ==
  /\ pc[0] = "idle"
  /\ \A w \in Remotes : pc[w] = "listening" /\ down[w] = << >>

\* Types; a call has the root's mutex exactly while it is active.
MpiTypeOK ==
  /\ pc \in [Ranks -> {"idle", "listening", "stopped", "setup", "first_ok", "all_ok",
                       "outputs", "f_out", "result", "status", "value", "throws"}]
  /\ call \in [Ranks -> Calls]
  /\ \A r \in Ranks : \A id \in Ids : valid[r][id] \subseteq Cached
  /\ jobs \in [Ranks -> [Ids -> JobCounts \cup {0}]]
  /\ num_outputs \in [Ranks -> [Calls -> {-1, 0, 1}]]
  /\ local_ok \in [Ranks -> BOOLEAN]
  /\ in_use <=> pc[0] # "idle"

\* Ranks enter the same collective operations in the same order: what is
\* first in a queue is what its reader waits for, for the same call.
CollectivesMatch ==
  /\ \A w \in Remotes : down[w] # << >> =>
       CASE pc[w] = "listening" -> Head(down[w]).what \in {"command", "stop"}
         [] pc[w] = "setup" /\ todo[w] # << >> ->
              Head(down[w]).what = Head(todo[w]) /\ Head(down[w]).call = call[w]
         [] pc[w] \in {"all_ok", "outputs"} ->
              Head(down[w]).what = pc[w] /\ Head(down[w]).call = call[w]
         [] OTHER -> pc[w] # "stopped"
  /\ \A w \in Remotes : up[w] # << >> =>
       CASE pc[0] \in {"first_ok", "f_out", "result", "status"} ->
              Head(up[w]).what = pc[0] /\ Head(up[w]).call = call[0]
         [] OTHER -> pc[0] # "idle"

\* A gather works only if the root expects of each worker as many numbers as
\* the worker sends, though each computes that from its own cache.
ChunksMatch ==
  pc[0] = "result" =>
    \A w \in Remotes : up[w] # << >> => Head(up[w]).value = ChunkLength(0, w)

\* Between calls the caches of all ranks are valid for the same members and
\* agree on the number of jobs, the rows and the sizes: a failed first
\* evaluation, on whichever rank, leaves nothing half cached.
CachesAgree ==
  Quiet => \A w \in Remotes :
    /\ valid[w] = valid[0]
    /\ num_outputs[w] = num_outputs[0]
    /\ \A id \in Ids : "f_out" \in valid[0][id] =>
         /\ jobs[w][id] = jobs[0][id]
         /\ \A j \in JobsOf(jobs[0][id], w) : f_out[w][id][j] = f_out[0][id][j]

\* map_rect returns a value exactly when every job of every rank succeeded
\* in this call with the cached number of outputs, and the value has rows.
VerdictExact ==
  LET id == call[0][1]
      done == \A r \in Ranks : \A j \in JobsOf(jobs[0][id], r) :
                 /\ j \in DOMAIN does[r] /\ ~Fails(r, j)
                 /\ "f_out" \in valid[0][id] => local_f_out(r)[j] = f_out[0][id][j]
  IN /\ pc[0] = "value" => done /\ num_outputs[0][call[0]] = 1
     /\ pc[0] = "throws" => ~done

\* Every call of map_rect returns or throws, whichever jobs fail where.
CallsReturn == pc[0] # "idle" ~> pc[0] = "idle"

\* When the root stops the cluster every worker leaves listen().
WorkersStop == ~listening ~> \A w \in Remotes : pc[w] = "stopped"
=============================================================================
