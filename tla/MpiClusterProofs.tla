--------------------------- MODULE MpiClusterProofs ---------------------------
(***************************************************************************)
(* Theorems about MpiCluster, for any number of processes, call_ids,        *)
(* numbers of jobs and of outputs.                                          *)
(*                                                                         *)
(* A worker is at most one call behind the root.  The invariant says, for   *)
(* each worker, where the root and the worker can be at once and what is    *)
(* then in the two queues between them (Joining, Working, Resting); what    *)
(* their caches have in common (Agree); and what each rank knows of the     *)
(* outcome (Knows).                                                         *)
(***************************************************************************)
EXTENDS MpiCluster, FiniteSetTheorems, TLAPS

----------------------------------------------------------------------------
Id(r) == call[r][1]

\* Queues hold any kind of value.
Elements(q) == {q[i] : i \in DOMAIN q}
IsQueue(q) == q \in Seq(Elements(q))

Items == {"chunks", "shared_dims", "shared", "job_dims", "job_params", "x_r", "x_i"}

Types ==
  /\ MpiTypeOK
  /\ valid \in [Ranks -> [Ids -> SUBSET Cached]]
  /\ todo \in [Ranks -> Seq(Items)]
  /\ DOMAIN f_out = Ranks /\ \A r \in Ranks : DOMAIN f_out[r] = Ids
  /\ DOMAIN does = Ranks
  /\ DOMAIN down = Remotes /\ DOMAIN up = Remotes
  /\ \A w \in Remotes : IsQueue(down[w]) /\ IsQueue(up[w])
  /\ listening \in BOOLEAN /\ in_use \in BOOLEAN
----------------------------------------------------------------------------
\* Messages to a worker.
Command(m) == m = [what |-> "command", call |-> call[0], value |-> 0]
Stop(m) == m = [what |-> "stop", call |-> call[0], value |-> 0]
AllWell(m) == m = [what |-> "all_ok", call |-> call[0], value |-> TRUE]
Rows(m) == m = [what |-> "outputs", call |-> call[0], value |-> num_outputs[0][call[0]]]

\* The answer that ends the first evaluation, of the call the worker is in.
Failed(w, m) == m = [what |-> "all_ok", call |-> call[w], value |-> FALSE]

\* Behind skip other messages, the items t of setup_call that a worker has to
\* receive are under way, or what the root has yet to send.
Stream(w, skip, t) ==
  /\ skip <= Len(down[w]) /\ Len(down[w]) + Len(todo[0]) = skip + Len(t)
  /\ \A i \in skip + 1 .. Len(down[w]) :
       down[w][i] = [what |-> t[i - skip], call |-> call[0], value |-> jobs[0][Id(0)]]
  /\ \A i \in 1 .. Len(todo[0]) : todo[0][i] = t[Len(down[w]) - skip + i]

\* Messages to the root.
Reply(w, what) ==
  [what |-> what, call |-> call[w],
   value |-> CASE what = "f_out" -> f_out[w][Id(w)]
               [] what = "result" -> ChunkLength(w, w)
               [] OTHER -> local_ok[w]]

Up1(w, a) == Len(up[w]) = 1 /\ up[w][1] = Reply(w, a)
Up2(w, a, b) == Len(up[w]) = 2 /\ up[w][1] = Reply(w, a) /\ up[w][2] = Reply(w, b)
Up3(w, a, b, c) ==
  /\ Len(up[w]) = 3
  /\ up[w][1] = Reply(w, a) /\ up[w][2] = Reply(w, b) /\ up[w][3] = Reply(w, c)

----------------------------------------------------------------------------
\* The jobs of a rank in the evaluation it is in.
JobsOk(r) == \A j \in Local(r) : ~Fails(r, j)
SizesOk(r) == \A j \in Local(r) : local_f_out(r)[j] = f_out[r][Id(r)][j]

\* A worker that has sent all its answers.
Answered(w) ==
  /\ pc[w] = "listening"
  /\ num_outputs[w][call[w]] # -1 /\ "chunks" \in valid[w][Id(w)] /\ "f_out" \in valid[w][Id(w)]
  /\ DOMAIN does[w] = Local(w)
  /\ local_ok[w] <=> JobsOk(w) /\ SizesOk(w)

\* A worker that has not received all of setup_call; it may not even know
\* that the call before has failed.
Joining(w) ==
  /\ pc[0] \in {"setup", "first_ok", "result"} /\ up[w] = << >>
  /\ \/ /\ pc[w] = "setup" /\ call[w] = call[0]
        /\ Stream(w, 0, todo[w])
     \/ /\ pc[w] = "listening"
        /\ Stream(w, 1, Setup(valid[w][Id(0)])) /\ Command(down[w][1])
     \/ /\ pc[w] = "all_ok"
        /\ Stream(w, 2, Setup(valid[w][Id(0)]))
        /\ Failed(w, down[w][1]) /\ Command(down[w][2])

\* A worker that the root still has to send to.
Informed(w) ==
  /\ up[w] = << >>
  /\ \/ /\ pc[0] = "outputs" /\ pc[w] = "all_ok"
        /\ Len(down[w]) = 1 /\ AllWell(down[w][1])
     \/ /\ pc[0] \in {"f_out", "result"} /\ pc[w] = "all_ok"
        /\ Len(down[w]) = 2 /\ AllWell(down[w][1]) /\ Rows(down[w][2])
     \/ /\ pc[0] \in {"f_out", "result"} /\ pc[w] = "outputs"
        /\ Len(down[w]) = 1 /\ Rows(down[w][1])

\* A worker that is level with the root or ahead of it.
Level(w) ==
  /\ down[w] = << >>
  /\ \/ pc[0] \in {"setup", "first_ok"} /\ pc[w] = "first_ok" /\ up[w] = << >>
     \/ pc[0] \in {"setup", "first_ok"} /\ pc[w] = "all_ok" /\ Up1(w, "first_ok")
     \/ pc[0] = "all_ok" /\ pc[w] = "all_ok" /\ up[w] = << >>
     \/ pc[0] = "outputs" /\ pc[w] = "outputs" /\ up[w] = << >>
     \/ pc[0] = "f_out" /\ pc[w] = "f_out" /\ up[w] = << >>
     \/ pc[0] = "f_out" /\ pc[w] = "result" /\ Up1(w, "f_out")
     \/ pc[0] = "f_out" /\ pc[w] = "status" /\ Up2(w, "f_out", "result")
     \/ pc[0] = "f_out" /\ Answered(w) /\ Up3(w, "f_out", "result", "status")
     \/ pc[0] \in {"setup", "result"} /\ pc[w] = "result" /\ up[w] = << >>
     \/ pc[0] \in {"setup", "result"} /\ pc[w] = "status" /\ Up1(w, "result")
     \/ pc[0] \in {"setup", "result"} /\ Answered(w) /\ Up2(w, "result", "status")
     \/ pc[0] = "status" /\ pc[w] = "status" /\ up[w] = << >>
     \/ pc[0] = "status" /\ Answered(w) /\ Up1(w, "status")

Working(w) == call[w] = call[0] /\ todo[0] = << >> /\ (Informed(w) \/ Level(w))

\* Between calls, or while the root combines or throws.
Resting(w) ==
  /\ pc[0] \in {"idle", "value", "throws"} /\ up[w] = << >>
  /\ \/ pc[w] = "listening" /\ listening /\ down[w] = << >>
     \/ pc[w] = "listening" /\ ~listening /\ Len(down[w]) = 1 /\ Stop(down[w][1])
     \/ pc[w] = "stopped" /\ ~listening /\ down[w] = << >>
     \/ pc[w] = "all_ok" /\ listening /\ Len(down[w]) = 1 /\ Failed(w, down[w][1])
     \/ /\ pc[w] = "all_ok" /\ ~listening
        /\ Len(down[w]) = 2 /\ Failed(w, down[w][1]) /\ Stop(down[w][2])

Place(w) == Joining(w) \/ Working(w) \/ Resting(w)

----------------------------------------------------------------------------
\* What a rank knows in the middle of a call.
Knows(r) ==
  /\ pc[r] # "setup" => todo[r] = << >>
  /\ pc[r] \in {"first_ok", "all_ok", "outputs"} => num_outputs[r][call[r]] = -1
  /\ pc[r] \in {"f_out", "result", "status"} => num_outputs[r][call[r]] # -1
  /\ pc[r] = "f_out" => "f_out" \notin valid[r][Id(r)]
  /\ pc[r] \in {"result", "status"} => "f_out" \in valid[r][Id(r)]
  /\ pc[r] = "setup" =>
       "chunks" \in valid[r][Id(r)] \/ \E i \in 1 .. Len(todo[r]) : todo[r][i] = "chunks"
  /\ pc[r] \in {"first_ok", "all_ok", "outputs", "f_out", "result", "status"} =>
       "chunks" \in valid[r][Id(r)] /\ DOMAIN does[r] = Local(r)
  /\ pc[r] \in {"first_ok", "outputs", "f_out", "result"} => (local_ok[r] <=> JobsOk(r))
  /\ pc[r] = "all_ok" /\ r # 0 => (local_ok[r] <=> JobsOk(r))
  /\ pc[r] = "status" => (local_ok[r] <=> JobsOk(r) /\ SizesOk(r))

\* What the root knows.
RootKnows ==
  /\ ~listening => pc[0] = "idle"
  /\ pc[0] \notin {"idle"} => jobs[0][Id(0)] \in JobCounts
  /\ pc[0] = "value" => num_outputs[0][call[0]] # -1
  /\ pc[0] = "all_ok" => (local_ok[0] <=> \A r \in Ranks : JobsOk(r))
  /\ pc[0] \in {"outputs", "f_out"} => \A r \in Ranks : JobsOk(r)
  /\ \A id \in Ids :
       /\ "chunks" \in valid[0][id] => jobs[0][id] \in JobCounts
       /\ "f_out" \in valid[0][id] => "chunks" \in valid[0][id]
  /\ \A c \in Calls : num_outputs[0][c] # -1 =>
       /\ num_outputs[0][c] = 1
       /\ "f_out" \in valid[0][c[1]] \/ (c = call[0] /\ pc[0] = "f_out")

\* What the caches of the root and a worker have in common.
Coming(w, what) == \E i \in 1 .. Len(down[w]) : down[w][i].what = what
Reported(w, what) == \E i \in 1 .. Len(up[w]) : up[w][i].what = what

Agree(w) ==
  /\ \A id \in Ids : \A m \in Cached :
       (m \in valid[0][id] \/ (id = Id(0) /\ Reported(w, m))) <=>
         (m \in valid[w][id] \/ (id = Id(0) /\ Coming(w, m)))
  /\ \A c \in Calls : (c = call[0] /\ Coming(w, "outputs")) \/ num_outputs[w][c] = num_outputs[0][c]
  /\ \A id \in Ids : "chunks" \in valid[w][id] => jobs[w][id] = jobs[0][id]
  /\ \A id \in Ids : "f_out" \in valid[0][id] =>
       \A j \in JobsOf(jobs[0][id], w) : f_out[w][id][j] = f_out[0][id][j]

MpiInv ==
  /\ Types /\ RootKnows /\ VerdictExact
  /\ \A r \in Ranks : Knows(r)
  /\ \A w \in Remotes : Place(w) /\ Agree(w)
----------------------------------------------------------------------------
\* Queues.

\* Every sequence is a queue.
LEMMA SeqIsQueue ==
  ASSUME NEW S, NEW q \in Seq(S)
  PROVE  IsQueue(q)
<1>1. q = [i \in 1 .. Len(q) |-> q[i]] /\ Len(q) \in Nat /\ DOMAIN q = 1 .. Len(q)
  OBVIOUS
<1>2. \A i \in 1 .. Len(q) : q[i] \in Elements(q)
  BY <1>1 DEF Elements
<1>. QED
  BY <1>1, <1>2 DEF IsQueue

\* What a queue is to the provers.
LEMMA QueueFacts ==
  ASSUME NEW q, IsQueue(q)
  PROVE  /\ Len(q) \in Nat /\ DOMAIN q = 1 .. Len(q)
         /\ q = << >> <=> Len(q) = 0
BY DEF IsQueue

\* Two queues with the same messages are the same.
LEMMA QueueEqual ==
  ASSUME NEW q, NEW s, IsQueue(q), IsQueue(s), Len(q) = Len(s),
         \A i \in 1 .. Len(q) : q[i] = s[i]
  PROVE  q = s
<1>1. Elements(q) = Elements(s)
  BY QueueFacts DEF Elements
<1>. QED
  BY <1>1 DEF IsQueue

\* Sending a message.
LEMMA QueueAppend ==
  ASSUME NEW q, IsQueue(q), NEW m
  PROVE  /\ IsQueue(Append(q, m)) /\ Len(Append(q, m)) = Len(q) + 1
         /\ \A i \in 1 .. Len(q) : Append(q, m)[i] = q[i]
         /\ Append(q, m)[Len(q) + 1] = m
<1>. DEFINE S == Elements(q) \cup {m}
<1>1. q \in Seq(S) /\ m \in S
  <2>1. q \in Seq(Elements(q)) /\ Elements(q) \subseteq S
    BY DEF IsQueue
  <2>. QED
    BY <2>1
<1>. HIDE DEF S
<1>2. Append(q, m) \in Seq(S)
  BY <1>1
<1>3. IsQueue(Append(q, m))
  BY <1>2, SeqIsQueue
<1>. QED
  BY <1>1, <1>3

\* Receiving a message.
LEMMA QueueTail ==
  ASSUME NEW q, IsQueue(q), q # << >>
  PROVE  /\ IsQueue(Tail(q)) /\ Len(Tail(q)) = Len(q) - 1 /\ Head(q) = q[1]
         /\ \A i \in 1 .. Len(q) - 1 : Tail(q)[i] = q[i + 1]
<1>. DEFINE S == Elements(q)
<1>1. q \in Seq(S)
  BY DEF IsQueue
<1>. HIDE DEF S
<1>2. Tail(q) \in Seq(S)
  BY <1>1
<1>3. IsQueue(Tail(q))
  BY <1>2, SeqIsQueue
<1>. QED
  BY <1>1, <1>3

----------------------------------------------------------------------------
\* setup_call.

\* The number of jobs is the first item of setup_call that is sent.
LEMMA SetupFacts ==
  ASSUME NEW cached
  PROVE  /\ Setup(cached) \in Seq(Items)
         /\ "chunks" \notin cached => Len(Setup(cached)) >= 1 /\ Setup(cached)[1] = "chunks"
<1>. DEFINE Unless(m) == IF m \in cached THEN << >> ELSE <<m>>
            a == Unless("chunks")
            b == Unless("shared_dims")
            c == <<"shared">>
            d == Unless("job_dims")
            e == <<"job_params">>
            f == Unless("x_r")
            g == Unless("x_i")
            First(s) == "chunks" \notin cached => Len(s) >= 1 /\ s[1] = "chunks"
<1>1. ASSUME NEW m \in Items
      PROVE  Unless(m) \in Seq(Items) /\ <<m>> \in Seq(Items)
  OBVIOUS
<1>2. First(a)
  OBVIOUS
<1>3. /\ a \in Seq(Items) /\ b \in Seq(Items) /\ c \in Seq(Items) /\ d \in Seq(Items)
      /\ e \in Seq(Items) /\ f \in Seq(Items) /\ g \in Seq(Items)
  <2>. HIDE DEF Unless
  <2>. QED
    BY <1>1 DEF Items
<1>4. Setup(cached) = a \o b \o c \o d \o e \o f \o g
  BY DEF Setup
<1>. HIDE DEF a, b, c, d, e, f, g
<1>5. ASSUME NEW s \in Seq(Items), NEW t \in Seq(Items), First(s)
      PROVE  s \o t \in Seq(Items) /\ First(s \o t)
  BY <1>5
<1>. HIDE DEF First
<1>6. a \o b \in Seq(Items) /\ First(a \o b)
  BY <1>2, <1>3, <1>5
<1>7. a \o b \o c \in Seq(Items) /\ First(a \o b \o c)
  BY <1>6, <1>3, <1>5
<1>8. a \o b \o c \o d \in Seq(Items) /\ First(a \o b \o c \o d)
  BY <1>7, <1>3, <1>5
<1>9. a \o b \o c \o d \o e \in Seq(Items) /\ First(a \o b \o c \o d \o e)
  BY <1>8, <1>3, <1>5
<1>10. a \o b \o c \o d \o e \o f \in Seq(Items) /\ First(a \o b \o c \o d \o e \o f)
  BY <1>9, <1>3, <1>5
<1>11. a \o b \o c \o d \o e \o f \o g \in Seq(Items) /\ First(a \o b \o c \o d \o e \o f \o g)
  BY <1>10, <1>3, <1>5
<1>. QED
  BY <1>4, <1>11 DEF First

----------------------------------------------------------------------------
\* Chunks of jobs.

\* A set of natural numbers has a least one: induction for the functions below.
LEMMA Least ==
  ASSUME NEW S, S \subseteq Nat, S # {}
  PROVE  \E n \in S : \A m \in S : n <= m
<1>. DEFINE Below == {1 .. n : n \in S}
<1>1. Below \subseteq FiniteSubsetsOf(Nat) /\ Below # {}
  <2>1. ASSUME NEW n \in S
        PROVE  1 .. n \in FiniteSubsetsOf(Nat)
    <3>1. IsFiniteSet(1 .. n)
      BY FS_Interval
    <3>. QED
      BY <3>1 DEF FiniteSubsetsOf
  <2>. QED
    BY <2>1
<1>2. PICK X \in Below : \A Y \in Below : <<Y, X>> \notin StrictSubsetOrdering(Nat)
  <2>1. IsWellFoundedOn(StrictSubsetOrdering(Nat), FiniteSubsetsOf(Nat))
    BY FS_StrictSubsetOrderingWellFounded
  <2>. HIDE DEF Below
  <2>. QED
    BY <1>1, <2>1, WFMin
<1>3. PICK n \in S : X = 1 .. n
  OBVIOUS
<1>4. ASSUME NEW m \in S, m < n
      PROVE  FALSE
  <2>1. n \in 1 .. n /\ n \notin 1 .. m
    BY <1>4
  <2>2. 1 .. m \in SUBSET Nat /\ 1 .. n \in SUBSET Nat /\ 1 .. m \subseteq 1 .. n /\ 1 .. m # 1 .. n
    BY <2>1, <1>4
  <2>3. <<1 .. m, 1 .. n>> \in StrictSubsetOrdering(Nat)
    BY <2>2 DEF StrictSubsetOrdering
  <2>. QED
    BY <1>2, <1>3, <2>3
<1>. QED
  BY <1>3, <1>4

\* The jobs of the ranks before q: as many for each, and one more for each of
\* those that have one of the remainder.
Extra(n) == IF n \div WorldSize = 0 THEN 0 ELSE 1
Share(n, q) == q * (n \div WorldSize)
Ones(d, e, q) == IF q <= e THEN 0 ELSE IF q - e <= d THEN q - e ELSE d
More(n, q) == Ones(n % WorldSize, Extra(n), q)
Before(n, q) == Share(n, q) + More(n, q)

\* The processes.
LEMMA RanksAre ==
  /\ WorldSize \in Nat \ {0} /\ Ranks = 0 .. WorldSize - 1 /\ 0 \in Ranks
  /\ Ranks \subseteq Nat /\ \A q \in Ranks : q < WorldSize /\ (q # 0 => q - 1 \in Ranks)
<1>1. WorldSize \in Nat \ {0} /\ Ranks = 0 .. WorldSize - 1
  BY MpiAssumption DEF Ranks
<1>. QED
  BY <1>1

\* Division of jobs among ranks: b for each, d are left, the first e have none of these.
Division(n, b, d, e, W) ==
  /\ b = n \div WorldSize /\ d = n % WorldSize /\ e = Extra(n) /\ W = WorldSize
  /\ b \in Nat /\ d \in Nat /\ W \in Nat /\ d < W /\ n = W * b + d
  /\ (b = 0 /\ e = 0) \/ (b # 0 /\ e = 1)

\* Every number of jobs divides so.
LEMMA Divides ==
  ASSUME NEW n \in Nat
  PROVE  \E b, d, e, W : Division(n, b, d, e, W)
<1>1. WorldSize \in Nat \ {0}
  BY MpiAssumption
<1>2. n \div WorldSize \in Nat /\ n % WorldSize \in 0 .. WorldSize - 1
  BY <1>1
<1>3. n % WorldSize \in Nat /\ n % WorldSize < WorldSize
  BY <1>1, <1>2
<1>4. n = WorldSize * (n \div WorldSize) + (n % WorldSize)
  BY <1>1
<1>5. (n \div WorldSize = 0 /\ Extra(n) = 0) \/ (n \div WorldSize # 0 /\ Extra(n) = 1)
  BY DEF Extra
<1>6. Division(n, n \div WorldSize, n % WorldSize, Extra(n), WorldSize)
  BY <1>1, <1>2, <1>3, <1>4, <1>5 DEF Division
<1>. QED
  BY <1>6

\* Products.
LEMMA Products ==
  ASSUME NEW b \in Nat, NEW q \in Nat, NEW r \in Nat, q <= r
  PROVE  q * b \in Nat /\ (q + 1) * b = q * b + b /\ q * b <= r * b
<1>1. q * b \in Nat /\ (q + 1) * b = q * b + b
  OBVIOUS
<1>2. PICK k \in Nat : r = q + k
  <2>1. r - q \in Nat /\ r = q + (r - q)
    OBVIOUS
  <2>. QED
    BY <2>1
<1>3. k * b \in Nat /\ (q + k) * b = q * b + k * b
  OBVIOUS
<1>. QED
  BY <1>1, <1>2, <1>3

\* The share of the ranks before one.
LEMMA Shares ==
  ASSUME NEW n \in Nat, NEW q \in Nat, NEW r \in Nat, q <= r
  PROVE  /\ Share(n, q) \in Nat /\ Share(n, q + 1) = Share(n, q) + (n \div WorldSize)
         /\ Share(n, q) <= Share(n, r)
<1>1. PICK b \in Nat : b = n \div WorldSize
  BY Divides DEF Division
<1>2. q * b \in Nat /\ (q + 1) * b = q * b + b /\ q * b <= r * b
  BY Products
<1>. QED
  BY <1>1, <1>2 DEF Share

\* The size of a rank's chunk.
LEMMA ChunkIs ==
  ASSUME NEW n \in Nat, NEW q \in Ranks
  PROVE  /\ mpi_map_chunks(n)[q] \in Nat
         /\ Before(n, q) \in Nat
         /\ Before(n, q + 1) = Before(n, q) + mpi_map_chunks(n)[q]
<1>. PICK b, d, e, W : Division(n, b, d, e, W)
  BY Divides
<1>0. /\ b = n \div WorldSize /\ d = n % WorldSize /\ e = Extra(n) /\ W = WorldSize
      /\ b \in Nat /\ d \in Nat /\ W \in Nat /\ d < W
      /\ (b = 0 /\ e = 0) \/ (b # 0 /\ e = 1)
  BY DEF Division
<1>1. mpi_map_chunks(n)[q] = b + (IF q - e \in 0 .. d - 1 THEN 1 ELSE 0)
  BY <1>0 DEF mpi_map_chunks, Extra
<1>2. q \in Nat /\ q < W
  BY <1>0, RanksAre
<1>3. Share(n, q) \in Nat /\ Share(n, q + 1) = Share(n, q) + b
  BY <1>0, <1>2, Shares
<1>4. More(n, q) = Ones(d, e, q) /\ More(n, q + 1) = Ones(d, e, q + 1)
  BY <1>0 DEF More
<1>5. /\ More(n, q) \in Nat
      /\ More(n, q + 1) = More(n, q) + (IF q - e \in 0 .. d - 1 THEN 1 ELSE 0)
  BY <1>0, <1>2, <1>4 DEF Ones
<1>. QED
  BY <1>0, <1>1, <1>3, <1>5 DEF Before

\* Where a chunk starts.
LEMMA FirstJobIs ==
  ASSUME NEW n \in Nat, NEW r \in Ranks
  PROVE  FirstJob(n, r) = Before(n, r)
<1>. DEFINE Sums(g) == g = [q \in Ranks |->
                              IF q = 0 THEN 0 ELSE g[q - 1] + mpi_map_chunks(n)[q - 1]]
            first == CHOOSE g : Sums(g)
<1>1. FirstJob(n, r) = first[r]
  BY DEF FirstJob
<1>2. Ranks \subseteq Nat /\ \A q \in Ranks : q # 0 => q - 1 \in Ranks
  BY RanksAre
<1>3. Before(n, 0) = 0
  <2>1. PICK b \in Nat, e \in {0, 1} : b = n \div WorldSize /\ e = Extra(n)
    BY Divides DEF Division
  <2>2. Share(n, 0) = 0 /\ More(n, 0) = 0
    BY <2>1 DEF Share, More, Ones
  <2>. QED
    BY <2>2 DEF Before
<1>4. \A q \in Ranks : q # 0 => Before(n, q) = Before(n, q - 1) + mpi_map_chunks(n)[q - 1]
  <2>1. ASSUME NEW q \in Ranks, q # 0
        PROVE  Before(n, q) = Before(n, q - 1) + mpi_map_chunks(n)[q - 1]
    <3>1. q - 1 \in Ranks /\ (q - 1) + 1 = q
      BY <1>2, <2>1
    <3>2. Before(n, (q - 1) + 1) = Before(n, q - 1) + mpi_map_chunks(n)[q - 1]
      BY <3>1, ChunkIs
    <3>. QED
      BY <3>1, <3>2
  <2>. QED
    BY <2>1
<1>5. Sums([q \in Ranks |-> Before(n, q)])
  BY <1>2, <1>3, <1>4
<1>6. Sums(first)
  <2>. HIDE DEF Sums
  <2>. QED
    BY <1>5
<1>. HIDE DEF first
<1>7. \A q \in Ranks : first[q] = IF q = 0 THEN 0 ELSE first[q - 1] + mpi_map_chunks(n)[q - 1]
  BY <1>6
<1>. DEFINE Wrong == {q \in Ranks : first[q] # Before(n, q)}
<1>8. ASSUME Wrong # {}
      PROVE  FALSE
  <2>1. PICK q \in Wrong : \A k \in Wrong : q <= k
    BY <1>2, <1>8, Least
  <2>2. q # 0
    BY <1>3, <1>7
  <2>3. q - 1 \in Ranks /\ q - 1 \notin Wrong
    BY <1>2, <2>1, <2>2
  <2>. QED
    BY <1>4, <1>7, <2>2, <2>3
<1>. QED
  BY <1>1, <1>8

\* Chunks lie one behind the other.
LEMMA BeforeGrows ==
  ASSUME NEW n \in Nat, NEW q \in Ranks, NEW r \in 0 .. WorldSize, q < r
  PROVE  Before(n, q) + mpi_map_chunks(n)[q] <= Before(n, r) /\ Before(n, r) \in Nat
<1>. PICK b, d, e, W : Division(n, b, d, e, W)
  BY Divides
<1>0. /\ b = n \div WorldSize /\ d = n % WorldSize /\ e = Extra(n) /\ W = WorldSize
      /\ b \in Nat /\ d \in Nat /\ W \in Nat /\ d < W
      /\ (b = 0 /\ e = 0) \/ (b # 0 /\ e = 1)
  BY DEF Division
<1>1. q \in Nat /\ r \in Nat /\ q + 1 <= r /\ q + 1 \in Nat
  BY <1>0, RanksAre
<1>2. Before(n, q + 1) = Before(n, q) + mpi_map_chunks(n)[q]
  BY ChunkIs
<1>3. Share(n, q + 1) \in Nat /\ Share(n, q + 1) <= Share(n, r) /\ Share(n, r) \in Nat
  BY <1>1, Shares
<1>4. More(n, r) = Ones(d, e, r) /\ More(n, q + 1) = Ones(d, e, q + 1)
  BY <1>0 DEF More
<1>5. More(n, q + 1) <= More(n, r) /\ More(n, r) \in Nat /\ More(n, q + 1) \in Nat
  BY <1>0, <1>1, <1>4 DEF Ones
<1>6. Before(n, q + 1) <= Before(n, r) /\ Before(n, r) \in Nat
  BY <1>3, <1>5 DEF Before
<1>. QED
  BY <1>2, <1>6

\* A range that ends before another starts has no number in common with it.
LEMMA Apart ==
  ASSUME NEW a \in Nat, NEW b \in Nat, NEW c \in Nat, NEW d \in Nat, a + b <= c
  PROVE  (c + 1 .. c + d) \cap (a + 1 .. a + b) = {}
OBVIOUS

\* Every job is of one rank, and the root has one if there are any.
LEMMA ChunksDisjoint ==
  ASSUME NEW n \in Nat, NEW q \in Ranks
  PROVE  /\ JobsOf(n, q) \subseteq 1 .. n
         /\ \A r \in Ranks : r # q => JobsOf(n, r) \cap JobsOf(n, q) = {}
         /\ n # 0 => JobsOf(n, 0) # {}
<1>1. \A r \in Ranks : /\ JobsOf(n, r) = Before(n, r) + 1 .. Before(n, r) + mpi_map_chunks(n)[r]
                       /\ Before(n, r) \in Nat /\ mpi_map_chunks(n)[r] \in Nat
  BY FirstJobIs, ChunkIs DEF JobsOf
<1>2. Ranks = 0 .. WorldSize - 1 /\ WorldSize \in Nat \ {0}
  BY RanksAre
<1>3. Before(n, WorldSize) = n
  <2>. PICK b, d, e, W : Division(n, b, d, e, W)
    BY Divides
  <2>0. /\ b = n \div WorldSize /\ d = n % WorldSize /\ e = Extra(n) /\ W = WorldSize
        /\ b \in Nat /\ d \in Nat /\ W \in Nat /\ d < W /\ n = W * b + d
        /\ (b = 0 /\ e = 0) \/ (b # 0 /\ e = 1)
    BY DEF Division
  <2>1. Before(n, WorldSize) = W * b + Ones(d, e, W)
    BY <2>0 DEF Before, Share, More
  <2>2. Ones(d, e, W) = d
    BY <2>0 DEF Ones
  <2>. QED
    BY <2>0, <2>1, <2>2
<1>4. JobsOf(n, q) \subseteq 1 .. n
  <2>1. Before(n, q) + mpi_map_chunks(n)[q] <= n
    BY <1>2, <1>3, BeforeGrows
  <2>. QED
    BY <1>1, <2>1
<1>5. ASSUME NEW r \in Ranks, r # q
      PROVE  JobsOf(n, r) \cap JobsOf(n, q) = {}
  <2>1. CASE q < r
    <3>1. Before(n, q) + mpi_map_chunks(n)[q] <= Before(n, r)
      BY <1>2, <2>1, BeforeGrows
    <3>. QED
      BY <1>1, <3>1, Apart
  <2>2. CASE r < q
    <3>1. Before(n, r) + mpi_map_chunks(n)[r] <= Before(n, q)
      BY <1>2, <2>2, BeforeGrows
    <3>. QED
      BY <1>1, <3>1, Apart
  <2>. QED
    BY <1>2, <1>5, <2>1, <2>2
<1>6. ASSUME n # 0
      PROVE  JobsOf(n, 0) # {}
  <2>. PICK b, d, e, W : Division(n, b, d, e, W)
    BY Divides
  <2>0. /\ b = n \div WorldSize /\ d = n % WorldSize /\ e = Extra(n) /\ W = WorldSize
        /\ b \in Nat /\ d \in Nat /\ W \in Nat /\ d < W /\ n = W * b + d
        /\ (b = 0 /\ e = 0) \/ (b # 0 /\ e = 1)
    BY DEF Division
  <2>1. mpi_map_chunks(n)[0] = b + (IF 0 - e \in 0 .. d - 1 THEN 1 ELSE 0)
    BY <2>0, <1>2 DEF mpi_map_chunks, Extra
  <2>2. b = 0 => W * b = 0
    BY <2>0
  <2>3. b = 0 => d # 0
    BY <2>0, <1>6, <2>2
  <2>4. mpi_map_chunks(n)[0] >= 1
    BY <2>0, <2>1, <2>3
  <2>5. 0 \in Ranks
    BY <2>0, <1>2
  <2>6. Before(n, 0) + 1 \in JobsOf(n, 0)
    BY <2>0, <1>1, <2>4, <2>5
  <2>. QED
    BY <2>0, <2>6
<1>. QED
  BY <1>4, <1>5, <1>6

----------------------------------------------------------------------------
\* What a step leaves as it is.

\* A rank that takes no part in a step.
Same(r) ==
  /\ pc'[r] = pc[r] /\ call'[r] = call[r] /\ todo'[r] = todo[r]
  /\ valid'[r] = valid[r] /\ jobs'[r] = jobs[r] /\ f_out'[r] = f_out[r]
  /\ num_outputs'[r] = num_outputs[r] /\ does'[r] = does[r] /\ local_ok'[r] = local_ok[r]

\* A rank that keeps its caches, and what its jobs did.
SameJobs(r) ==
  /\ call'[r] = call[r] /\ jobs'[r] = jobs[r] /\ does'[r] = does[r]

\* Its jobs are the same.
LEMMA JobsStay ==
  ASSUME NEW r \in Ranks, SameJobs(r)
  PROVE  /\ Local(r)' = Local(r) /\ local_f_out(r)' = local_f_out(r)
         /\ \A j : Fails(r, j)' <=> Fails(r, j)
         /\ JobsOk(r)' <=> JobsOk(r)
<1>1. call'[r] = call[r] /\ jobs'[r] = jobs[r] /\ does'[r] = does[r]
  BY DEF SameJobs
<1>2. Local(r)' = Local(r)
  BY <1>1 DEF Local
<1>3. \A j : Fails(r, j)' <=> Fails(r, j)
  BY <1>1 DEF Fails
<1>4. local_f_out(r)' = local_f_out(r)
  <2>1. DOMAIN does'[r] = DOMAIN does[r]
    BY <1>1
  <2>2. \A j : (\E i \in DOMAIN does'[r] : i <= j /\ Fails(r, i)')
                 <=> \E i \in DOMAIN does[r] : i <= j /\ Fails(r, i)
    BY <1>3, <2>1
  <2>. QED
    BY <1>1, <2>1, <2>2 DEF local_f_out
<1>5. JobsOk(r)' <=> JobsOk(r)
  BY <1>2, <1>3 DEF JobsOk
<1>. QED
  BY <1>2, <1>3, <1>4, <1>5

\* Its sizes are the same.
LEMMA SizesStay ==
  ASSUME NEW r \in Ranks, SameJobs(r), f_out'[r] = f_out[r]
  PROVE  SizesOk(r)' <=> SizesOk(r)
<1>1. Local(r)' = Local(r) /\ local_f_out(r)' = local_f_out(r) /\ Id(r)' = Id(r)
  BY JobsStay DEF SameJobs, Id
<1>. QED
  BY <1>1 DEF SizesOk

\* Its messages are the same.
LEMMA ReplyStays ==
  ASSUME NEW r \in Ranks, Same(r)
  PROVE  \A what : Reply(r, what)' = Reply(r, what)
<1>1. Id(r)' = Id(r) /\ call'[r] = call[r] /\ f_out'[r] = f_out[r] /\ local_ok'[r] = local_ok[r]
  BY DEF Same, Id
<1>2. ChunkLength(r, r)' = ChunkLength(r, r)
  BY DEF ChunkLength, Same
<1>. QED
  BY <1>1, <1>2 DEF Reply

\* It knows what it knew.
LEMMA KnowsStays ==
  ASSUME NEW r \in Ranks, Same(r), Knows(r)
  PROVE  Knows(r)'
<1>1. SameJobs(r)
  BY DEF Same, SameJobs
<1>2. Local(r)' = Local(r) /\ (JobsOk(r)' <=> JobsOk(r)) /\ (SizesOk(r)' <=> SizesOk(r))
  BY <1>1, JobsStay, SizesStay DEF Same
<1>3. Id(r)' = Id(r)
  BY DEF Same, Id
<1>. QED
  BY <1>2, <1>3 DEF Same, Knows

\* A worker and the root that take no part.
LEMMA PlaceStays ==
  ASSUME NEW w \in Remotes, Same(0), Same(w), Place(w),
         down'[w] = down[w], up'[w] = up[w], listening' = listening
  PROVE  Place(w)'
<1>1. w \in Ranks /\ 0 \in Ranks
  BY RanksAre DEF Remotes
<1>2. \A what : Reply(w, what)' = Reply(w, what)
  BY <1>1, ReplyStays
<1>3. Id(0)' = Id(0) /\ Id(w)' = Id(w)
  BY DEF Same, Id
<1>4. \A skip, t : Stream(w, skip, t) => Stream(w, skip, t)'
  BY <1>3 DEF Stream, Same
<1>5. ASSUME Joining(w)
      PROVE  Joining(w)'
  BY <1>3, <1>4, <1>5 DEF Joining, Same, Command, Failed
<1>6. Informed(w) => Informed(w)'
  BY DEF Informed, AllWell, Rows, Same
<1>7. Answered(w) => Answered(w)'
  <2>1. SameJobs(w) /\ f_out'[w] = f_out[w]
    BY DEF Same, SameJobs
  <2>2. Local(w)' = Local(w) /\ (JobsOk(w)' <=> JobsOk(w)) /\ (SizesOk(w)' <=> SizesOk(w))
    BY <1>1, <2>1, JobsStay, SizesStay
  <2>. QED
    BY <1>3, <2>2 DEF Answered, Same
<1>8. Level(w) => Level(w)'
  BY <1>2, <1>7 DEF Level, Up1, Up2, Up3, Same
<1>9. Working(w) => Working(w)'
  BY <1>6, <1>8 DEF Working, Same
<1>10. Resting(w) => Resting(w)'
  BY DEF Resting, Stop, Failed, Same
<1>. QED
  BY <1>5, <1>9, <1>10 DEF Place

\* Their caches agree as before.
LEMMA AgreeStays ==
  ASSUME NEW w \in Remotes, Same(0), Same(w), Agree(w), down'[w] = down[w], up'[w] = up[w]
  PROVE  Agree(w)'
<1>1. Id(0)' = Id(0) /\ Id(w)' = Id(w)
  BY DEF Same, Id
<1>. QED
  BY <1>1 DEF Agree, Same, Coming, Reported

----------------------------------------------------------------------------
\* The variables, part by part.

RankTypes ==
  /\ pc \in [Ranks -> {"idle", "listening", "stopped", "setup", "first_ok", "all_ok",
                       "outputs", "f_out", "result", "status", "value", "throws"}]
  /\ call \in [Ranks -> Calls]
  /\ jobs \in [Ranks -> [Ids -> JobCounts \cup {0}]]
  /\ num_outputs \in [Ranks -> [Calls -> {-1, 0, 1}]]
  /\ local_ok \in [Ranks -> BOOLEAN]
  /\ valid \in [Ranks -> [Ids -> SUBSET Cached]]
  /\ todo \in [Ranks -> Seq(Items)]
  /\ DOMAIN f_out = Ranks /\ \A r \in Ranks : DOMAIN f_out[r] = Ids
  /\ DOMAIN does = Ranks

QueueTypes ==
  /\ DOMAIN down = Remotes /\ DOMAIN up = Remotes
  /\ \A w \in Remotes : IsQueue(down[w]) /\ IsQueue(up[w])

RootTypes == listening \in BOOLEAN /\ in_use \in BOOLEAN /\ (in_use <=> pc[0] # "idle")

\* Together they are the types.
LEMMA TypesParts == Types <=> RankTypes /\ QueueTypes /\ RootTypes
<1>1. valid \in [Ranks -> [Ids -> SUBSET Cached]]
        => \A r \in Ranks : \A id \in Ids : valid[r][id] \subseteq Cached
  OBVIOUS
<1>. QED
  BY <1>1 DEF Types, RankTypes, QueueTypes, RootTypes, MpiTypeOK

\* So are they after a step.
LEMMA TypesPartsNext == Types' <=> RankTypes' /\ QueueTypes' /\ RootTypes'
<1>1. valid' \in [Ranks -> [Ids -> SUBSET Cached]]
        => \A r \in Ranks : \A id \in Ids : valid'[r][id] \subseteq Cached
  OBVIOUS
<1>. QED
  BY <1>1 DEF Types, RankTypes, QueueTypes, RootTypes, MpiTypeOK

\* The call_id of a call.
LEMMA CallFacts ==
  ASSUME RankTypes, NEW r \in Ranks
  PROVE  call[r] \in Calls /\ Id(r) \in Ids /\ \A c \in Calls : c[1] \in Ids
BY DEF RankTypes, Calls, Id

----------------------------------------------------------------------------
\* The ranks a step leaves alone.

\* What FOut sets.
LEMMA FOutSets ==
  ASSUME NEW r \in Ranks, FOut(r)
  PROVE  /\ UNCHANGED <<call, todo, jobs, num_outputs, does, local_ok, in_use, listening>>
         /\ pc' = [pc EXCEPT ![r] = "result"] /\ Store(r, "f_out")
         /\ \E x : f_out' = [f_out EXCEPT ![r][call[r][1]] = x]
<1>1. \E x : f_out' = [f_out EXCEPT ![r][call[r][1]] = x]
  BY DEF FOut
<1>2. /\ UNCHANGED <<call, todo, jobs, num_outputs, does, local_ok, in_use, listening>>
      /\ pc' = [pc EXCEPT ![r] = "result"] /\ Store(r, "f_out")
  BY DEF FOut, Goto
<1>. QED
  BY <1>1, <1>2

\* A step in a call leaves all other ranks alone.
LEMMA OneRank ==
  ASSUME RankTypes, NEW r \in Ranks, InCall(r)
  PROVE  /\ \A q \in Ranks \ {r} : Same(q)
         /\ in_use' = in_use /\ listening' = listening
<1>. USE DEF Same, RankTypes, Goto, Store, caches
<1>1. CASE Distribute(r)
  BY <1>1 DEF Distribute, Broadcast, Receive
<1>2. CASE Evaluate(r)
  BY <1>2 DEF Evaluate
<1>3. CASE FirstOk(r)
  BY <1>3 DEF FirstOk, TakeUp, SendUp
<1>4. CASE AllOk(r)
  BY <1>4 DEF AllOk, Broadcast, Receive
<1>5. CASE Outputs(r)
  BY <1>5 DEF Outputs, Broadcast, Receive
<1>6. CASE FOut(r)
  <2>1. /\ UNCHANGED <<call, todo, jobs, num_outputs, does, local_ok, in_use, listening>>
        /\ pc' = [pc EXCEPT ![r] = "result"] /\ Store(r, "f_out")
    BY <1>6, FOutSets
  <2>2. PICK x : f_out' = [f_out EXCEPT ![r][call[r][1]] = x]
    BY <1>6, FOutSets
  <2>3. \A q \in Ranks \ {r} : pc'[q] = pc[q] /\ valid'[q] = valid[q] /\ f_out'[q] = f_out[q]
    BY <2>1, <2>2
  <2>. QED
    BY <2>1, <2>3
<1>7. CASE Result(r)
  BY <1>7 DEF Result, TakeUp, SendUp
<1>8. CASE Status(r)
  BY <1>8 DEF Status, TakeUp, SendUp
<1>. QED
  BY <1>1, <1>2, <1>3, <1>4, <1>5, <1>6, <1>7, <1>8 DEF InCall

\* So do the steps that start and end a call, and a worker's loop.
LEMMA OneRankElse ==
  ASSUME RankTypes
  PROVE  /\ \A c \in Calls, n \in JobCounts : MapRect(c, n) => \A q \in Remotes : Same(q)
         /\ StopListen => \A q \in Ranks : Same(q)
         /\ Return => \A q \in Remotes : Same(q)
         /\ \A w \in Remotes : Listen(w) => \A q \in Ranks \ {w} : Same(q)
<1>. USE DEF Same, RankTypes, Goto, caches, Remotes
<1>1. ASSUME NEW c \in Calls, NEW n \in JobCounts, MapRect(c, n)
      PROVE  \A q \in Remotes : Same(q)
  BY <1>1, RanksAre DEF MapRect, Begin, Broadcast
<1>2. ASSUME StopListen
      PROVE  \A q \in Ranks : Same(q)
  BY <1>2 DEF StopListen, Broadcast
<1>3. ASSUME Return
      PROVE  \A q \in Remotes : Same(q)
  BY <1>3 DEF Return
<1>4. ASSUME NEW w \in Remotes, Listen(w)
      PROVE  \A q \in Ranks \ {w} : Same(q)
  BY <1>4 DEF Listen, Begin, Receive
<1>. QED
  BY <1>1, <1>2, <1>3, <1>4

\* The channels of the workers that are not w.
LEMMA OtherChannels ==
  ASSUME RankTypes, QueueTypes, NEW w \in Remotes, InCall(w) \/ Listen(w), NEW v \in Remotes \ {w}
  PROVE  down'[v] = down[v] /\ up'[v] = up[v]
<1>. USE DEF QueueTypes, Receive, SendUp, Remotes
<1>1. CASE Distribute(w)
  BY <1>1 DEF Distribute
<1>2. CASE Evaluate(w)
  BY <1>2 DEF Evaluate
<1>3. CASE FirstOk(w)
  BY <1>3 DEF FirstOk
<1>4. CASE AllOk(w)
  BY <1>4 DEF AllOk
<1>5. CASE Outputs(w)
  BY <1>5 DEF Outputs
<1>6. CASE FOut(w)
  BY <1>6 DEF FOut
<1>7. CASE Result(w)
  BY <1>7 DEF Result
<1>8. CASE Status(w)
  BY <1>8 DEF Status
<1>9. CASE Listen(w)
  BY <1>9 DEF Listen
<1>. QED
  BY <1>1, <1>2, <1>3, <1>4, <1>5, <1>6, <1>7, <1>8, <1>9 DEF InCall

----------------------------------------------------------------------------
\* Collective operations on the queues.

\* The root sends.
LEMMA Broadcasts ==
  ASSUME QueueTypes, NEW m, Broadcast(m)
  PROVE  /\ DOMAIN down' = Remotes
         /\ \A w \in Remotes :
              /\ IsQueue(down'[w]) /\ Len(down'[w]) = Len(down[w]) + 1
              /\ Len(down[w]) \in Nat
              /\ \A i \in 1 .. Len(down[w]) : down'[w][i] = down[w][i]
              /\ down'[w][Len(down[w]) + 1] = m
<1>1. \A w \in Remotes : down'[w] = Append(down[w], m)
  BY DEF Broadcast
<1>2. DOMAIN down' = Remotes
  BY DEF Broadcast
<1>3. ASSUME NEW w \in Remotes
      PROVE  /\ IsQueue(down'[w]) /\ Len(down'[w]) = Len(down[w]) + 1
             /\ Len(down[w]) \in Nat
             /\ \A i \in 1 .. Len(down[w]) : down'[w][i] = down[w][i]
             /\ down'[w][Len(down[w]) + 1] = m
  <2>1. IsQueue(down[w])
    BY DEF QueueTypes
  <2>2. down'[w] = Append(down[w], m)
    BY <1>1
  <2>3. Len(down[w]) \in Nat
    BY <2>1, QueueFacts
  <2>. QED
    BY <2>1, <2>2, <2>3, QueueAppend
<1>. QED
  BY <1>2, <1>3

\* A worker receives.
LEMMA Receives ==
  ASSUME QueueTypes, NEW w \in Remotes, down[w] # << >>, Receive(w)
  PROVE  /\ DOMAIN down' = Remotes
         /\ IsQueue(down'[w]) /\ Len(down'[w]) = Len(down[w]) - 1 /\ Head(down[w]) = down[w][1]
         /\ Len(down[w]) \in Nat /\ Len(down[w]) >= 1
         /\ \A i \in 1 .. Len(down[w]) - 1 : down'[w][i] = down[w][i + 1]
         /\ \A v \in Remotes \ {w} : down'[v] = down[v]
<1>1. down'[w] = Tail(down[w]) /\ DOMAIN down' = Remotes
      /\ \A v \in Remotes \ {w} : down'[v] = down[v]
  BY DEF Receive, QueueTypes
<1>2. IsQueue(down[w])
  BY DEF QueueTypes
<1>3. Len(down[w]) \in Nat /\ Len(down[w]) # 0
  BY <1>2, QueueFacts
<1>. QED
  BY <1>1, <1>2, <1>3, QueueTail

\* A worker answers.
LEMMA Answers ==
  ASSUME QueueTypes, NEW w \in Remotes, NEW what, NEW value, SendUp(w, what, value)
  PROVE  /\ DOMAIN up' = Remotes
         /\ IsQueue(up'[w]) /\ Len(up'[w]) = Len(up[w]) + 1 /\ Len(up[w]) \in Nat
         /\ \A i \in 1 .. Len(up[w]) : up'[w][i] = up[w][i]
         /\ up'[w][Len(up[w]) + 1] = [what |-> what, call |-> call[w], value |-> value]
         /\ \A v \in Remotes \ {w} : up'[v] = up[v]
<1>. DEFINE m == [what |-> what, call |-> call[w], value |-> value]
<1>1. up'[w] = Append(up[w], m) /\ DOMAIN up' = Remotes
      /\ \A v \in Remotes \ {w} : up'[v] = up[v]
  BY DEF SendUp, QueueTypes
<1>2. IsQueue(up[w])
  BY DEF QueueTypes
<1>. HIDE DEF m
<1>3. /\ IsQueue(up'[w]) /\ Len(up'[w]) = Len(up[w]) + 1 /\ Len(up[w]) \in Nat
      /\ \A i \in 1 .. Len(up[w]) : up'[w][i] = up[w][i]
      /\ up'[w][Len(up[w]) + 1] = m
  BY <1>1, <1>2, QueueAppend, QueueFacts
<1>. QED
  BY <1>1, <1>3 DEF m

\* The root takes an answer from each worker.
LEMMA Takes ==
  ASSUME QueueTypes, AllUp, TakeUp
  PROVE  /\ DOMAIN up' = Remotes
         /\ \A w \in Remotes :
              /\ IsQueue(up'[w]) /\ Len(up'[w]) = Len(up[w]) - 1 /\ Head(up[w]) = up[w][1]
              /\ up[w] # << >> /\ Len(up[w]) \in Nat /\ Len(up[w]) >= 1
              /\ \A i \in 1 .. Len(up[w]) - 1 : up'[w][i] = up[w][i + 1]
<1>1. DOMAIN up' = Remotes /\ \A w \in Remotes : up'[w] = Tail(up[w]) /\ up[w] # << >>
  BY DEF TakeUp, AllUp
<1>2. \A w \in Remotes : IsQueue(up[w])
  BY DEF QueueTypes
<1>3. \A w \in Remotes : Len(up[w]) \in Nat /\ Len(up[w]) # 0
  BY <1>1, <1>2, QueueFacts
<1>4. ASSUME NEW w \in Remotes
      PROVE  /\ IsQueue(up'[w]) /\ Len(up'[w]) = Len(up[w]) - 1 /\ Head(up[w]) = up[w][1]
             /\ up[w] # << >> /\ Len(up[w]) \in Nat /\ Len(up[w]) >= 1
             /\ \A i \in 1 .. Len(up[w]) - 1 : up'[w][i] = up[w][i + 1]
  <2>1. up'[w] = Tail(up[w]) /\ up[w] # << >> /\ IsQueue(up[w])
    BY <1>1, <1>2
  <2>2. Len(up[w]) \in Nat /\ Len(up[w]) >= 1
    BY <1>3
  <2>. QED
    BY <2>1, <2>2, QueueTail
<1>. QED
  BY <1>1, <1>4

\* What an action does to the queues leaves queues.
LEMMA QueuesStay ==
  ASSUME QueueTypes,
         \/ UNCHANGED down
         \/ \E m : Broadcast(m)
         \/ \E w \in Remotes : down[w] # << >> /\ Receive(w),
         \/ UNCHANGED up
         \/ AllUp /\ TakeUp
         \/ \E w \in Remotes : \E what, value : SendUp(w, what, value)
  PROVE  QueueTypes'
<1>1. DOMAIN down' = Remotes /\ \A v \in Remotes : IsQueue(down'[v])
  <2>1. CASE UNCHANGED down
    BY <2>1 DEF QueueTypes
  <2>2. CASE \E m : Broadcast(m)
    BY <2>2, Broadcasts
  <2>3. CASE \E w \in Remotes : down[w] # << >> /\ Receive(w)
    <3>1. PICK w \in Remotes : down[w] # << >> /\ Receive(w)
      BY <2>3
    <3>. QED
      BY <3>1, Receives DEF QueueTypes
  <2>. QED
    BY <2>1, <2>2, <2>3
<1>2. DOMAIN up' = Remotes /\ \A v \in Remotes : IsQueue(up'[v])
  <2>1. CASE UNCHANGED up
    BY <2>1 DEF QueueTypes
  <2>2. CASE AllUp /\ TakeUp
    BY <2>2, Takes
  <2>3. CASE \E w \in Remotes : \E what, value : SendUp(w, what, value)
    <3>1. PICK w, what, value : w \in Remotes /\ SendUp(w, what, value)
      BY <2>3
    <3>. QED
      BY <3>1, Answers DEF QueueTypes
  <2>. QED
    BY <2>1, <2>2, <2>3
<1>. QED
  BY <1>1, <1>2 DEF QueueTypes

----------------------------------------------------------------------------
\* Types.

\* What a worker receives in setup_call and of the rows.
LEMMA ReceivedTypes ==
  ASSUME Types, NEW w \in Remotes, Place(w), down[w] # << >>
  PROVE  /\ pc[w] = "setup" =>
              /\ call[w] = call[0] /\ todo[w] # << >>
              /\ down[w][1] = [what |-> todo[w][1], call |-> call[0], value |-> jobs[0][Id(0)]]
         /\ pc[w] = "outputs" =>
              down[w][1] = [what |-> "outputs", call |-> call[0], value |-> num_outputs[0][call[0]]]
<1>0. Len(down[w]) \in Nat /\ Len(down[w]) >= 1
  BY QueueFacts DEF Types
<1>1. ASSUME pc[w] = "setup"
      PROVE  /\ call[w] = call[0] /\ todo[w] # << >>
             /\ down[w][1] = [what |-> todo[w][1], call |-> call[0], value |-> jobs[0][Id(0)]]
  <2>1. Joining(w) /\ call[w] = call[0] /\ Stream(w, 0, todo[w])
    BY <1>1 DEF Place, Joining, Working, Resting, Informed, Level, Answered
  <2>2. todo[w] \in Seq(Items) /\ todo[0] \in Seq(Items)
    BY RanksAre DEF Types, Remotes
  <2>3. Len(todo[w]) \in Nat /\ Len(todo[0]) \in Nat
    BY <2>2
  <2>4. Len(todo[w]) # 0
    <3>1. Len(down[w]) + Len(todo[0]) = 0 + Len(todo[w])
      BY <2>1 DEF Stream
    <3>2. \A a, b, c \in Nat : a >= 1 /\ a + b = 0 + c => c # 0
      OBVIOUS
    <3>. QED
      BY <1>0, <2>3, <3>1, <3>2
  <2>5. \A i \in 1 .. Len(down[w]) :
          down[w][i] = [what |-> todo[w][i], call |-> call[0], value |-> jobs[0][Id(0)]]
    <3>1. ASSUME NEW i \in 1 .. Len(down[w])
          PROVE  down[w][i] = [what |-> todo[w][i], call |-> call[0], value |-> jobs[0][Id(0)]]
      <4>1. i \in 0 + 1 .. Len(down[w]) /\ i - 0 = i
        OBVIOUS
      <4>. QED
        BY <2>1, <4>1 DEF Stream
    <3>. QED
      BY <3>1
  <2>. QED
    BY <1>0, <2>1, <2>2, <2>4, <2>5
<1>2. ASSUME pc[w] = "outputs"
      PROVE  down[w][1] = [what |-> "outputs", call |-> call[0], value |-> num_outputs[0][call[0]]]
  BY <1>2 DEF Place, Joining, Working, Resting, Informed, Level, Answered, Rows
<1>. QED
  BY <1>1, <1>2

\* Every step keeps the types.

\* The root starts a call.
LEMMA MapRectTypes ==
  ASSUME Types, NEW c \in Calls, NEW n \in JobCounts, MapRect(c, n)
  PROVE  Types'
<1>1. RankTypes /\ QueueTypes /\ RootTypes /\ 0 \in Ranks
  BY TypesParts, RanksAre
<1>2. c[1] \in Ids
  BY DEF Calls
<1>3. \A v : Setup(v) \in Seq(Items)
  BY SetupFacts
<1>4. RankTypes'
  <2>1. pc' \in [Ranks -> {"idle", "listening", "stopped", "setup", "first_ok", "all_ok",
                           "outputs", "f_out", "result", "status", "value", "throws"}]
    BY <1>1 DEF RankTypes, MapRect, Begin, Goto
  <2>2. call' \in [Ranks -> Calls] /\ todo' \in [Ranks -> Seq(Items)]
    BY <1>1, <1>3 DEF RankTypes, MapRect, Begin
  <2>3. jobs' \in [Ranks -> [Ids -> JobCounts \cup {0}]]
    BY <1>1, <1>2 DEF RankTypes, MapRect
  <2>. QED
    BY <1>1, <2>1, <2>2, <2>3 DEF RankTypes, MapRect
<1>5. QueueTypes'
  BY <1>1, QueuesStay DEF MapRect
<1>6. RootTypes'
  BY <1>1 DEF RootTypes, MapRect, Begin, Goto, RankTypes
<1>. QED
  BY <1>4, <1>5, <1>6, TypesPartsNext

\* A worker takes a command.
LEMMA ListenTypes ==
  ASSUME Types, NEW w \in Remotes, Place(w), Listen(w)
  PROVE  Types'
<1>1. RankTypes /\ QueueTypes /\ RootTypes /\ 0 \in Ranks /\ w \in Ranks /\ w # 0
  BY TypesParts, RanksAre DEF Remotes
<1>2. Head(down[w]) = down[w][1] /\ Len(down[w]) >= 1
  BY <1>1, Receives DEF Listen
<1>3. Head(down[w]).what # "stop" => Head(down[w]).call \in Calls
  <2>1. down[w] # << >> /\ pc[w] = "listening"
    BY DEF Listen
  <2>2. Command(down[w][1]) \/ Stop(down[w][1])
    BY <2>1, <1>2 DEF Place, Joining, Working, Resting, Informed, Level
  <2>3. call[0] \in Calls
    BY <1>1, CallFacts
  <2>. QED
    BY <1>2, <2>2, <2>3 DEF Command, Stop
<1>4. \A v : Setup(v) \in Seq(Items)
  BY SetupFacts
<1>5. RankTypes'
  <2>1. UNCHANGED caches /\ UNCHANGED <<does, local_ok>>
    BY DEF Listen
  <2>2. pc' \in [Ranks -> {"idle", "listening", "stopped", "setup", "first_ok", "all_ok",
                           "outputs", "f_out", "result", "status", "value", "throws"}]
    BY <1>1 DEF RankTypes, Listen, Begin, Goto
  <2>3. call' \in [Ranks -> Calls]
    BY <1>1, <1>3 DEF RankTypes, Listen, Begin
  <2>4. todo' \in [Ranks -> Seq(Items)]
    <3>1. todo' = todo \/ \E v : todo' = [todo EXCEPT ![w] = Setup(v)]
      BY DEF Listen, Begin
    <3>2. todo' = todo \/ \E s \in Seq(Items) : todo' = [todo EXCEPT ![w] = s]
      BY <1>4, <3>1
    <3>. QED
      BY <1>1, <3>2 DEF RankTypes
  <2>. QED
    BY <1>1, <2>1, <2>2, <2>3, <2>4 DEF RankTypes, caches
<1>6. QueueTypes'
  BY <1>1, QueuesStay DEF Listen
<1>7. RootTypes'
  BY <1>1 DEF RootTypes, Listen, Begin, Goto, RankTypes
<1>. QED
  BY <1>5, <1>6, <1>7, TypesPartsNext

\* The root stops the cluster, or ends a call.
LEMMA RootTypesSteps ==
  ASSUME Types, StopListen \/ Return
  PROVE  Types'
<1>1. RankTypes /\ QueueTypes /\ RootTypes /\ 0 \in Ranks
  BY TypesParts, RanksAre
<1>2. CASE StopListen
  <2>1. RankTypes'
    BY <1>1, <1>2 DEF RankTypes, StopListen, caches
  <2>2. QueueTypes'
    BY <1>1, <1>2, QueuesStay DEF StopListen
  <2>3. RootTypes'
    BY <1>1, <1>2 DEF RootTypes, StopListen
  <2>. QED
    BY <2>1, <2>2, <2>3, TypesPartsNext
<1>3. CASE Return
  <2>1. RankTypes'
    BY <1>1, <1>3 DEF RankTypes, Return, caches, Goto
  <2>2. QueueTypes'
    BY <1>1, <1>3, QueuesStay DEF Return
  <2>3. RootTypes'
    BY <1>1, <1>3 DEF RootTypes, Return, Goto, RankTypes
  <2>. QED
    BY <2>1, <2>2, <2>3, TypesPartsNext
<1>. QED
  BY <1>2, <1>3

\* The queues, in a call.
LEMMA InCallQueueTypes ==
  ASSUME Types, NEW r \in Ranks, InCall(r)
  PROVE  QueueTypes'
<1>1. QueueTypes /\ (r # 0 => r \in Remotes)
  BY TypesParts DEF Remotes
<1>2. CASE Distribute(r)
  BY <1>1, <1>2, QueuesStay DEF Distribute
<1>3. CASE Evaluate(r)
  BY <1>1, <1>3, QueuesStay DEF Evaluate
<1>4. CASE FirstOk(r)
  BY <1>1, <1>4, QueuesStay DEF FirstOk
<1>5. CASE AllOk(r)
  BY <1>1, <1>5, QueuesStay DEF AllOk
<1>6. CASE Outputs(r)
  BY <1>1, <1>6, QueuesStay DEF Outputs
<1>7. CASE FOut(r)
  BY <1>1, <1>7, QueuesStay DEF FOut
<1>8. CASE Result(r)
  BY <1>1, <1>8, QueuesStay DEF Result
<1>9. CASE Status(r)
  BY <1>1, <1>9, QueuesStay DEF Status
<1>. QED
  BY <1>2, <1>3, <1>4, <1>5, <1>6, <1>7, <1>8, <1>9 DEF InCall

\* The variables by rank, in a call.
LEMMA InCallRankTypes ==
  ASSUME Types, NEW r \in Ranks, InCall(r), r # 0 => Place(r)
  PROVE  RankTypes'
<1>1. /\ RankTypes /\ 0 \in Ranks /\ (r # 0 => r \in Remotes)
      /\ call[r] \in Calls /\ call[r][1] \in Ids /\ call[0] \in Calls /\ call[0][1] \in Ids
  BY TypesParts, RanksAre, CallFacts DEF Remotes, Id
<1>2. CASE Distribute(r)
  <2>1. pc' = pc /\ call' = call /\ f_out' = f_out /\ num_outputs' = num_outputs /\ does' = does
        /\ local_ok' = local_ok /\ todo[r] # << >>
    BY <1>2 DEF Distribute
  <2>2. todo' \in [Ranks -> Seq(Items)]
    BY <1>1, <1>2 DEF Distribute, RankTypes
  <2>3. valid' \in [Ranks -> [Ids -> SUBSET Cached]]
    BY <1>1, <1>2 DEF Distribute, Store, RankTypes
  <2>4. jobs' \in [Ranks -> [Ids -> JobCounts \cup {0}]]
    <3>1. CASE r = 0
      BY <1>1, <1>2, <3>1 DEF Distribute, RankTypes
    <3>2. CASE r # 0
      <4>1. r \in Remotes /\ pc[r] = "setup" /\ down[r] # << >> /\ Head(down[r]) = down[r][1]
        BY <1>1, <1>2, <3>2, Receives, TypesParts DEF Distribute
      <4>2. Head(down[r]).value = jobs[0][Id(0)]
        <5>1. Place(r)
          BY <3>2
        <5>2. down[r][1] = [what |-> todo[r][1], call |-> call[0], value |-> jobs[0][Id(0)]]
          BY <4>1, <5>1, ReceivedTypes
        <5>. QED
          BY <4>1, <5>2
      <4>3. jobs[0][Id(0)] \in JobCounts \cup {0}
        BY <1>1 DEF RankTypes, Id
      <4>4. jobs[r][call[r][1]] \in JobCounts \cup {0}
        BY <1>1 DEF RankTypes
      <4>5. PICK x \in JobCounts \cup {0} : jobs' = [jobs EXCEPT ![r][call[r][1]] = x]
        <5>1. \E x : /\ jobs' = [jobs EXCEPT ![r][call[r][1]] = x]
                     /\ x = Head(down[r]).value \/ x = jobs[r][call[r][1]]
          BY <1>2, <3>2 DEF Distribute
        <5>. QED
          BY <4>2, <4>3, <4>4, <5>1
      <4>. QED
        BY <1>1, <4>5 DEF RankTypes
    <3>. QED
      BY <3>1, <3>2
  <2>. QED
    BY <1>1, <2>1, <2>2, <2>3, <2>4 DEF RankTypes
<1>3. CASE Evaluate(r)
  BY <1>1, <1>3 DEF RankTypes, Evaluate, Goto, caches
<1>4. CASE FirstOk(r)
  BY <1>1, <1>4 DEF RankTypes, FirstOk, Goto, caches
<1>5. CASE AllOk(r)
  BY <1>1, <1>5 DEF RankTypes, AllOk, Goto, caches
<1>6. CASE Outputs(r)
  <2>1. num_outputs' \in [Ranks -> [Calls -> {-1, 0, 1}]]
    <3>1. CASE r = 0
      <4>1. \E x \in {0, 1} : num_outputs' = [num_outputs EXCEPT ![0][call[0]] = x]
        BY <1>6, <3>1 DEF Outputs
      <4>. QED
        BY <1>1, <4>1 DEF RankTypes
    <3>2. CASE r # 0
      <4>1. r \in Remotes /\ pc[r] = "outputs" /\ down[r] # << >> /\ Head(down[r]) = down[r][1]
        BY <1>1, <1>6, <3>2, Receives, TypesParts DEF Outputs
      <4>2. Head(down[r]).value = num_outputs[0][call[0]]
        <5>1. Place(r)
          BY <3>2
        <5>2. down[r][1] = [what |-> "outputs", call |-> call[0], value |-> num_outputs[0][call[0]]]
          BY <4>1, <5>1, ReceivedTypes
        <5>. QED
          BY <4>1, <5>2
      <4>3. num_outputs[0][call[0]] \in {-1, 0, 1}
        BY <1>1 DEF RankTypes
      <4>4. num_outputs' = [num_outputs EXCEPT ![r][call[r]] = Head(down[r]).value]
        BY <1>6, <3>2 DEF Outputs
      <4>. QED
        BY <1>1, <4>2, <4>3, <4>4 DEF RankTypes
    <3>. QED
      BY <3>1, <3>2
  <2>2. pc' \in [Ranks -> {"idle", "listening", "stopped", "setup", "first_ok", "all_ok",
                           "outputs", "f_out", "result", "status", "value", "throws"}]
    BY <1>1, <1>6 DEF RankTypes, Outputs, Goto
  <2>. QED
    BY <1>1, <1>6, <2>1, <2>2 DEF RankTypes, Outputs
<1>7. CASE FOut(r)
  <2>1. /\ pc' \in [Ranks -> {"idle", "listening", "stopped", "setup", "first_ok", "all_ok",
                              "outputs", "f_out", "result", "status", "value", "throws"}]
        /\ UNCHANGED <<call, todo, jobs, num_outputs, does, local_ok>>
    BY <1>1, <1>7, FOutSets DEF RankTypes
  <2>2. valid' \in [Ranks -> [Ids -> SUBSET Cached]]
    <3>1. Store(r, "f_out")
      BY <1>7, FOutSets
    <3>. QED
      BY <1>1, <3>1 DEF Store, RankTypes
  <2>3. DOMAIN f_out' = Ranks /\ \A q \in Ranks : DOMAIN f_out'[q] = Ids
    <3>1. \E x : f_out' = [f_out EXCEPT ![r][call[r][1]] = x]
      BY <1>7, FOutSets
    <3>. QED
      BY <1>1, <3>1 DEF RankTypes
  <2>. QED
    BY <1>1, <2>1, <2>2, <2>3 DEF RankTypes
<1>8. CASE Result(r)
  BY <1>1, <1>8 DEF RankTypes, Result, Goto, caches
<1>9. CASE Status(r)
  BY <1>1, <1>9 DEF RankTypes, Status, Goto, caches
<1>. QED
  BY <1>2, <1>3, <1>4, <1>5, <1>6, <1>7, <1>8, <1>9 DEF InCall

----------------------------------------------------------------------------
\* Steps of the messages of setup_call.

\* The messages that are coming after one is received.
LEMMA ComingShifts ==
  ASSUME NEW w \in Remotes, Len(down[w]) \in Nat, Len(down[w]) >= 1,
         Len(down'[w]) = Len(down[w]) - 1,
         \A i \in 1 .. Len(down[w]) - 1 : down'[w][i] = down[w][i + 1]
  PROVE  \A what : Coming(w, what) <=> Coming(w, what)' \/ down[w][1].what = what
<1>. PICK n \in Nat : n = Len(down[w]) /\ n >= 1 /\ Len(down'[w]) = n - 1
  OBVIOUS
<1>1. ASSUME NEW what, Coming(w, what)
      PROVE  Coming(w, what)' \/ down[w][1].what = what
  <2>1. PICK i \in 1 .. n : down[w][i].what = what
    BY <1>1 DEF Coming
  <2>2. CASE i = 1
    BY <2>1, <2>2
  <2>3. CASE i # 1
    <3>1. i - 1 \in 1 .. n - 1 /\ down'[w][i - 1] = down[w][(i - 1) + 1] /\ (i - 1) + 1 = i
      BY <2>3
    <3>. QED
      BY <2>1, <3>1 DEF Coming
  <2>. QED
    BY <2>2, <2>3
<1>2. ASSUME NEW what, Coming(w, what)'
      PROVE  Coming(w, what)
  <2>1. PICK i \in 1 .. n - 1 : down'[w][i].what = what
    BY <1>2 DEF Coming
  <2>2. i + 1 \in 1 .. n /\ down'[w][i] = down[w][i + 1]
    OBVIOUS
  <2>. QED
    BY <2>1, <2>2 DEF Coming
<1>3. ASSUME NEW what, down[w][1].what = what
      PROVE  Coming(w, what)
  <2>1. 1 \in 1 .. Len(down[w])
    OBVIOUS
  <2>. QED
    BY <1>3, <2>1 DEF Coming
<1>. QED
  BY <1>1, <1>2, <1>3

\* Positions in a queue and in what is left of setup_call.
LEMMA Positions ==
  /\ \A n, l, z, k \in Nat : n >= 1 /\ k + 1 <= n /\ n + l = (k + 1) + z =>
       k <= n - 1 /\ n - 1 + l = k + z
  /\ \A n, l, z \in Nat : n >= 1 /\ n + l = 0 + z =>
       /\ 0 <= n - 1 /\ n - 1 + l = 0 + (z - 1)
       /\ \A i \in 0 + 1 .. n - 1 :
            /\ i + 1 \in 0 + 1 .. n /\ i \in 1 .. n - 1 /\ i \in 1 .. z - 1
            /\ i - 0 = i /\ (i + 1) - 0 = i + 1
  /\ \A n, l, z \in Nat : n >= 1 /\ n + l = 0 + z =>
       \A i \in 1 .. l : n - 1 - 0 + i \in 1 .. z - 1 /\ (n - 1 - 0 + i) + 1 = n - 0 + i
OBVIOUS

\* A message that comes before those of setup_call is received.
LEMMA StreamShifts ==
  ASSUME NEW w \in Remotes, Same(0), NEW skip \in Nat, NEW k \in Nat, skip = k + 1, NEW t,
         Len(down[w]) \in Nat, Len(down[w]) >= 1, Len(t) \in Nat, Len(todo[0]) \in Nat,
         Len(down'[w]) = Len(down[w]) - 1,
         \A i \in 1 .. Len(down[w]) - 1 : down'[w][i] = down[w][i + 1],
         Stream(w, skip, t)
  PROVE  Stream(w, k, t)'
<1>p. PICK n \in Nat, l \in Nat, z \in Nat :
       n = Len(down[w]) /\ n >= 1 /\ l = Len(todo[0]) /\ z = Len(t)
  OBVIOUS
<1>0. n >= 1 /\ Len(down'[w]) = n - 1 /\ \A i \in 1 .. n - 1 : down'[w][i] = down[w][i + 1]
  BY <1>p
<1>1. k + 1 <= n /\ n + l = (k + 1) + z
  BY <1>p DEF Stream
<1>2. k <= n - 1 /\ n - 1 + l = k + z
  BY <1>0, <1>1, Positions
<1>3. ASSUME NEW i \in k + 1 .. n - 1
      PROVE  down'[w][i] = [what |-> t[i - k], call |-> call[0], value |-> jobs[0][Id(0)]]
  <2>1. i + 1 \in skip + 1 .. n /\ i \in 1 .. n - 1 /\ (i + 1) - skip = i - k
    BY <1>0, <1>1
  <2>2. down[w][i + 1] = [what |-> t[(i + 1) - skip], call |-> call[0], value |-> jobs[0][Id(0)]]
    BY <1>p, <2>1 DEF Stream
  <2>. QED
    BY <1>0, <2>1, <2>2
<1>4. ASSUME NEW i \in 1 .. l
      PROVE  todo[0][i] = t[n - 1 - k + i]
  <2>1. n - skip + i = n - 1 - k + i
    BY <1>1
  <2>2. todo[0][i] = t[n - skip + i]
    BY <1>p DEF Stream
  <2>. QED
    BY <2>1, <2>2
<1>5. todo'[0] = todo[0] /\ call'[0] = call[0] /\ jobs'[0][Id(0)'] = jobs[0][Id(0)]
  BY DEF Same, Id
<1>. QED
  BY <1>p, <1>0, <1>2, <1>3, <1>4, <1>5 DEF Stream

\* A worker takes the first of what it has to receive.
LEMMA StreamTakes ==
  ASSUME NEW w \in Remotes, Same(0), NEW t, NEW u,
         Len(down[w]) \in Nat, Len(down[w]) >= 1, Len(todo[0]) \in Nat,
         Len(t) \in Nat, Len(u) = Len(t) - 1, \A i \in 1 .. Len(t) - 1 : u[i] = t[i + 1],
         Len(down'[w]) = Len(down[w]) - 1,
         \A i \in 1 .. Len(down[w]) - 1 : down'[w][i] = down[w][i + 1],
         Stream(w, 0, t)
  PROVE  Stream(w, 0, u)'
<1>p. PICK n \in Nat, l \in Nat, z \in Nat :
       n = Len(down[w]) /\ n >= 1 /\ l = Len(todo[0]) /\ z = Len(t)
  OBVIOUS
<1>0. /\ n >= 1 /\ Len(down'[w]) = n - 1 /\ \A i \in 1 .. n - 1 : down'[w][i] = down[w][i + 1]
      /\ Len(u) = z - 1 /\ \A i \in 1 .. z - 1 : u[i] = t[i + 1]
  BY <1>p
<1>1. n + l = 0 + z
  BY <1>p DEF Stream
<1>2. 0 <= n - 1 /\ n - 1 + l = 0 + (z - 1)
  BY <1>0, <1>1, Positions
<1>3. ASSUME NEW i \in 0 + 1 .. n - 1
      PROVE  down'[w][i] = [what |-> u[i - 0], call |-> call[0], value |-> jobs[0][Id(0)]]
  <2>1. /\ i + 1 \in 0 + 1 .. n /\ i \in 1 .. n - 1 /\ i \in 1 .. z - 1
        /\ i - 0 = i /\ (i + 1) - 0 = i + 1
    <3>1. n >= 1 /\ n + l = 0 + z
      BY <1>0, <1>1
    <3>. QED
      BY <3>1, Positions
  <2>2. down[w][i + 1] = [what |-> t[(i + 1) - 0], call |-> call[0], value |-> jobs[0][Id(0)]]
    BY <1>p, <2>1 DEF Stream
  <2>. QED
    BY <1>0, <2>1, <2>2
<1>4. ASSUME NEW i \in 1 .. l
      PROVE  todo[0][i] = u[n - 1 - 0 + i]
  <2>1. n - 1 - 0 + i \in 1 .. z - 1 /\ (n - 1 - 0 + i) + 1 = n - 0 + i
    <3>1. n >= 1 /\ n + l = 0 + z
      BY <1>0, <1>1
    <3>. QED
      BY <3>1, Positions
  <2>2. todo[0][i] = t[n - 0 + i]
    BY <1>p DEF Stream
  <2>. QED
    BY <1>0, <2>1, <2>2
<1>5. todo'[0] = todo[0] /\ call'[0] = call[0] /\ jobs'[0][Id(0)'] = jobs[0][Id(0)]
  BY DEF Same, Id
<1>. QED
  BY <1>p, <1>0, <1>2, <1>3, <1>4, <1>5 DEF Stream

----------------------------------------------------------------------------
\* What is known of a worker before a step.
LEMMA Base ==
  ASSUME MpiInv, NEW w \in Remotes
  PROVE  /\ w \in Ranks /\ w # 0 /\ 0 \in Ranks
         /\ Types /\ RankTypes /\ QueueTypes /\ RootTypes
         /\ Place(w) /\ Agree(w) /\ Knows(w) /\ Knows(0) /\ RootKnows
         /\ Len(down[w]) \in Nat /\ (down[w] = << >> <=> Len(down[w]) = 0)
         /\ Len(up[w]) \in Nat /\ (up[w] = << >> <=> Len(up[w]) = 0)
         /\ call[w] \in Calls /\ Id(w) \in Ids /\ call[0] \in Calls /\ Id(0) \in Ids
         /\ todo[w] \in Seq(Items) /\ todo[0] \in Seq(Items)
         /\ Len(todo[w]) \in Nat /\ Len(todo[0]) \in Nat
<1>1. w \in Ranks /\ w # 0 /\ 0 \in Ranks
  BY RanksAre DEF Remotes
<1>2. /\ Types /\ Place(w) /\ Agree(w) /\ Knows(w) /\ Knows(0) /\ RootKnows
  BY <1>1 DEF MpiInv
<1>3. RankTypes /\ QueueTypes /\ RootTypes
  BY <1>2, TypesParts
<1>4. /\ Len(down[w]) \in Nat /\ (down[w] = << >> <=> Len(down[w]) = 0)
      /\ Len(up[w]) \in Nat /\ (up[w] = << >> <=> Len(up[w]) = 0)
  BY <1>3, QueueFacts DEF QueueTypes
<1>5. /\ call[w] \in Calls /\ Id(w) \in Ids /\ call[0] \in Calls /\ Id(0) \in Ids
  BY <1>1, <1>3, CallFacts
<1>6. todo[w] \in Seq(Items) /\ todo[0] \in Seq(Items)
  BY <1>1, <1>3 DEF RankTypes
<1>7. Len(todo[w]) \in Nat /\ Len(todo[0]) \in Nat
  BY <1>6
<1>. QED
  BY <1>1, <1>2, <1>3, <1>4, <1>5, <1>6, <1>7

\* A worker with nothing to receive.
LEMMA NothingComes ==
  ASSUME NEW w, down[w] = << >>
  PROVE  \A what : ~Coming(w, what)
BY DEF Coming

\* A worker whose answers the root has taken.
LEMMA NothingReported ==
  ASSUME NEW w, up[w] = << >>
  PROVE  \A what : ~Reported(w, what)
BY DEF Reported

\* The caches of a worker that only moves on.
LEMMA AgreeMoves ==
  ASSUME NEW w \in Remotes, Agree(w), Same(0),
         valid'[w] = valid[w], num_outputs'[w] = num_outputs[w], jobs'[w] = jobs[w],
         f_out'[w] = f_out[w],
         \A m \in Cached \cup {"outputs"} : Coming(w, m)' <=> Coming(w, m),
         \A m \in Cached : Reported(w, m)' <=> Reported(w, m)
  PROVE  Agree(w)'
<1>1. Id(0)' = Id(0)
  BY DEF Same, Id
<1>2. /\ valid'[0] = valid[0] /\ call'[0] = call[0] /\ num_outputs'[0] = num_outputs[0]
      /\ jobs'[0] = jobs[0] /\ f_out'[0] = f_out[0]
  BY DEF Same
<1>3. \A id \in Ids : \A m \in Cached :
         ((m \in valid[0][id] \/ (id = Id(0) /\ Reported(w, m))) <=>
            (m \in valid[w][id] \/ (id = Id(0) /\ Coming(w, m))))'
  BY <1>1, <1>2 DEF Agree
<1>4. \A c \in Calls :
         ((c = call[0] /\ Coming(w, "outputs")) \/ num_outputs[w][c] = num_outputs[0][c])'
  BY <1>2 DEF Agree
<1>5. \A id \in Ids : ("chunks" \in valid[w][id] => jobs[w][id] = jobs[0][id])'
  BY <1>2 DEF Agree
<1>6. \A id \in Ids : ("f_out" \in valid[0][id] =>
         \A j \in JobsOf(jobs[0][id], w) : f_out[w][id][j] = f_out[0][id][j])'
  BY <1>2 DEF Agree
<1>. QED
  BY <1>3, <1>4, <1>5, <1>6 DEF Agree

\* A worker takes the command that starts or ends its loop.
LEMMA ListenStep ==
  ASSUME MpiInv, NEW w \in Remotes, Listen(w)
  PROVE  Place(w)' /\ Agree(w)' /\ Knows(w)'
<1>1. /\ w \in Ranks /\ w # 0 /\ 0 \in Ranks
      /\ Types /\ RankTypes /\ QueueTypes
      /\ Place(w) /\ Agree(w) /\ Knows(w)
      /\ Len(todo[0]) \in Nat /\ call[0] \in Calls
  BY Base
<1>2. Same(0)
  BY <1>1, OneRankElse
<1>3. pc[w] = "listening" /\ down[w] # << >> /\ Receive(w) /\ up' = up /\ listening' = listening
      /\ UNCHANGED <<valid, jobs, f_out, num_outputs, does, local_ok>>
  BY DEF Listen, caches
<1>4. /\ Head(down[w]) = down[w][1] /\ Len(down[w]) \in Nat /\ Len(down[w]) >= 1
      /\ Len(down'[w]) = Len(down[w]) - 1 /\ IsQueue(down'[w])
      /\ \A i \in 1 .. Len(down[w]) - 1 : down'[w][i] = down[w][i + 1]
  BY <1>1, <1>3, Receives
<1>5. \A what : Coming(w, what) <=> Coming(w, what)' \/ down[w][1].what = what
  BY <1>4, ComingShifts
<1>6. \A what : Reported(w, what)' <=> Reported(w, what)
  BY <1>3 DEF Reported
<1>7. pc[0] = pc'[0] /\ call'[0] = call[0] /\ todo'[0] = todo[0] /\ Id(0)' = Id(0) /\ jobs' = jobs
  BY <1>2, <1>3 DEF Same, Id
<1>8. CASE Command(down[w][1])
  <2>1. /\ pc'[w] = "setup" /\ call'[w] = call[0] /\ todo'[w] = Setup(valid[w][Id(0)])
    BY <1>1, <1>3, <1>4, <1>8 DEF Listen, Begin, Goto, RankTypes, Command, Id
  <2>2. Joining(w) /\ Stream(w, 1, Setup(valid[w][Id(0)]))
    BY <1>1, <1>3, <1>4, <1>8
    DEF Place, Joining, Working, Informed, Level, Answered, Resting, Command, Stop
  <2>3. PICK t : t = Setup(valid[w][Id(0)])
    OBVIOUS
  <2>4. t \in Seq(Items) /\ Len(t) \in Nat
    BY <2>3, SetupFacts
  <2>5. Stream(w, 1, t) /\ 1 = 0 + 1
    BY <2>2, <2>3
  <2>6. Stream(w, 0, t)'
    BY <1>1, <1>2, <1>4, <2>4, <2>5, StreamShifts
  <2>7. Stream(w, 0, todo[w])'
    BY <2>1, <2>3, <2>6
  <2>8. Joining(w)'
    BY <1>3, <1>7, <2>1, <2>2, <2>7 DEF Joining
  <2>9. Agree(w)'
    <3>1. \A m \in Cached \cup {"outputs"} : Coming(w, m)' <=> Coming(w, m)
      BY <1>5, <1>8 DEF Command, Cached
    <3>. QED
      BY <1>1, <1>2, <1>3, <1>6, <3>1, AgreeMoves
  <2>10. Knows(w)'
    <3>1. "chunks" \in valid[w][Id(0)] \/ (Len(todo'[w]) >= 1 /\ todo'[w][1] = "chunks")
      BY <2>1, SetupFacts
    <3>2. Len(todo'[w]) \in Nat
      BY <2>1, <2>3, <2>4
    <3>3. "chunks" \in valid[w][Id(0)] \/ \E i \in 1 .. Len(todo'[w]) : todo'[w][i] = "chunks"
      BY <3>1, <3>2
    <3>4. Id(w)' = Id(0)
      BY <2>1 DEF Id
    <3>. QED
      BY <1>3, <2>1, <3>3, <3>4 DEF Knows
  <2>. QED
    BY <2>8, <2>9, <2>10 DEF Place
<1>9. CASE Stop(down[w][1])
  <2>1. pc'[w] = "stopped" /\ call'[w] = call[w] /\ todo'[w] = todo[w]
    BY <1>1, <1>3, <1>4, <1>9 DEF Listen, Goto, RankTypes, Stop
  <2>2. Resting(w) /\ ~listening /\ Len(down[w]) = 1
    BY <1>1, <1>3, <1>4, <1>9
    DEF Place, Joining, Working, Informed, Level, Answered, Resting, Command, Stop
  <2>3. down'[w] = << >>
    BY <1>4, <2>2, QueueFacts
  <2>4. Resting(w)'
    BY <1>3, <1>7, <2>1, <2>2, <2>3 DEF Resting
  <2>5. Agree(w)'
    <3>1. \A m \in Cached \cup {"outputs"} : Coming(w, m)' <=> Coming(w, m)
      BY <1>5, <1>9 DEF Stop, Cached
    <3>. QED
      BY <1>1, <1>2, <1>3, <1>6, <3>1, AgreeMoves
  <2>6. Knows(w)'
    BY <1>1, <1>3, <2>1 DEF Knows
  <2>. QED
    BY <2>4, <2>5, <2>6 DEF Place
<1>10. Command(down[w][1]) \/ Stop(down[w][1])
  BY <1>1, <1>3, <1>4 DEF Place, Joining, Working, Resting, Informed, Level
<1>. QED
  BY <1>8, <1>9, <1>10


----------------------------------------------------------------------------
\* The steps of a worker in a call.

\* What such a step leaves as it is.
LEMMA WorkerBase ==
  ASSUME MpiInv, NEW w \in Remotes, InCall(w)
  PROVE  /\ Same(0) /\ Id(0)' = Id(0) /\ listening' = listening
         /\ pc'[0] = pc[0] /\ call'[0] = call[0] /\ todo'[0] = todo[0] /\ jobs'[0] = jobs[0]
         /\ valid'[0] = valid[0] /\ num_outputs'[0] = num_outputs[0] /\ f_out'[0] = f_out[0]
<1>1. w \in Ranks /\ w # 0 /\ 0 \in Ranks /\ RankTypes
  BY Base
<1>2. Same(0) /\ listening' = listening
  BY <1>1, OneRank
<1>. QED
  BY <1>2 DEF Same, Id

\* It receives an item of setup_call.
LEMMA DistributeStep ==
  ASSUME MpiInv, NEW w \in Remotes, Distribute(w)
  PROVE  Place(w)' /\ Agree(w)' /\ Knows(w)'
<1>1. /\ w \in Ranks /\ w # 0 /\ 0 \in Ranks
      /\ Types /\ RankTypes /\ QueueTypes
      /\ Place(w) /\ Agree(w) /\ Knows(w)
      /\ Len(todo[0]) \in Nat /\ call[0] \in Calls /\ Id(w) \in Ids
      /\ todo[w] \in Seq(Items) /\ Len(todo[w]) \in Nat
  BY Base
<1>2. /\ Same(0) /\ Id(0)' = Id(0) /\ pc'[0] = pc[0] /\ call'[0] = call[0] /\ jobs'[0] = jobs[0]
      /\ valid'[0] = valid[0] /\ num_outputs'[0] = num_outputs[0] /\ f_out'[0] = f_out[0]
  BY WorkerBase DEF InCall
<1>3. /\ pc[w] = "setup" /\ todo[w] # << >> /\ down[w] # << >> /\ Receive(w) /\ up' = up
      /\ pc' = pc /\ call' = call /\ f_out' = f_out /\ num_outputs' = num_outputs
  BY <1>1 DEF Distribute
<1>4. /\ Head(down[w]) = down[w][1] /\ Len(down[w]) \in Nat /\ Len(down[w]) >= 1
      /\ Len(down'[w]) = Len(down[w]) - 1
      /\ \A i \in 1 .. Len(down[w]) - 1 : down'[w][i] = down[w][i + 1]
  BY <1>1, <1>3, Receives
<1>5. \A what : Coming(w, what) <=> Coming(w, what)' \/ down[w][1].what = what
  BY <1>4, ComingShifts
<1>6. /\ call[w] = call[0] /\ Id(w) = Id(0)
      /\ down[w][1] = [what |-> todo[w][1], call |-> call[0], value |-> jobs[0][Id(0)]]
  BY <1>1, <1>3, ReceivedTypes DEF Id
<1>. DEFINE m == todo[w][1]
<1>7. m \in Items /\ Head(todo[w]) = m
  BY <1>1, <1>3
<1>8. Joining(w) /\ Stream(w, 0, todo[w]) /\ up[w] = << >>
  BY <1>1, <1>3 DEF Place, Joining, Working, Resting, Informed, Level, Answered
<1>9. /\ todo'[w] = Tail(todo[w]) /\ Len(todo'[w]) = Len(todo[w]) - 1 /\ Len(todo[w]) >= 1
      /\ \A i \in 1 .. Len(todo[w]) - 1 : todo'[w][i] = todo[w][i + 1]
  BY <1>1, <1>3 DEF Distribute, RankTypes
<1>10. valid'[w] = [valid[w] EXCEPT ![Id(w)] = IF m \in Cached THEN @ \cup {m} ELSE @]
       /\ DOMAIN valid[w] = Ids
  BY <1>1, <1>7 DEF Distribute, Store, RankTypes, Id
<1>11. jobs'[w] = [jobs[w] EXCEPT ![Id(w)] = IF m = "chunks" THEN jobs[0][Id(0)] ELSE @]
       /\ DOMAIN jobs[w] = Ids
  BY <1>1, <1>4, <1>6, <1>7 DEF Distribute, RankTypes, Id
<1>12. Place(w)'
  <2>1. PICK t, u : t = todo[w] /\ u = Tail(todo[w])
    OBVIOUS
  <2>2. /\ Len(t) \in Nat /\ Len(u) = Len(t) - 1 /\ \A i \in 1 .. Len(t) - 1 : u[i] = t[i + 1]
        /\ Stream(w, 0, t)
    BY <1>1, <1>8, <1>9, <2>1
  <2>3. Stream(w, 0, u)'
    BY <1>1, <1>2, <1>4, <2>2, StreamTakes
  <2>4. Stream(w, 0, todo[w])'
    BY <1>9, <2>1, <2>3
  <2>. QED
    BY <1>2, <1>3, <1>6, <1>8, <2>4 DEF Place, Joining
<1>13. Agree(w)'
  <2>1. \A what : Coming(w, what) <=> Coming(w, what)' \/ m = what
    BY <1>5, <1>6
  <2>2. \A what : ~Reported(w, what) /\ ~Reported(w, what)'
    BY <1>3, <1>8 DEF Reported
  <2>3. ASSUME NEW id \in Ids, NEW k \in Cached
        PROVE  k \in valid'[w][id] <=> k \in valid[w][id] \/ (id = Id(0) /\ k = m)
    BY <1>6, <1>10, <2>3
  <2>4. \A id \in Ids : \A k \in Cached :
          ((k \in valid[0][id] \/ (id = Id(0) /\ Reported(w, k))) <=>
             (k \in valid[w][id] \/ (id = Id(0) /\ Coming(w, k))))'
    BY <1>1, <1>2, <2>1, <2>2, <2>3 DEF Agree
  <2>5. \A c \in Calls :
          ((c = call[0] /\ Coming(w, "outputs")) \/ num_outputs[w][c] = num_outputs[0][c])'
    <3>1. m # "outputs"
      BY <1>7 DEF Items
    <3>. QED
      BY <1>1, <1>2, <1>3, <2>1, <3>1 DEF Agree
  <2>6. \A id \in Ids : ("chunks" \in valid[w][id] => jobs[w][id] = jobs[0][id])'
    <3>1. SUFFICES ASSUME NEW id \in Ids, "chunks" \in valid'[w][id]
                   PROVE  jobs'[w][id] = jobs[0][id]
      BY <1>2
    <3>2. CASE id = Id(0) /\ m = "chunks"
      BY <1>6, <1>11, <3>2
    <3>3. CASE ~(id = Id(0) /\ m = "chunks")
      <4>1. "chunks" \in valid[w][id] /\ "chunks" \in Cached
        BY <2>3, <3>1, <3>3 DEF Cached
      <4>2. jobs'[w][id] = jobs[w][id]
        BY <1>6, <1>11, <3>3
      <4>. QED
        BY <1>1, <4>1, <4>2 DEF Agree
    <3>. QED
      BY <3>2, <3>3
  <2>7. \A id \in Ids : ("f_out" \in valid[0][id] =>
          \A j \in JobsOf(jobs[0][id], w) : f_out[w][id][j] = f_out[0][id][j])'
    BY <1>1, <1>2, <1>3 DEF Agree
  <2>. QED
    BY <2>4, <2>5, <2>6, <2>7 DEF Agree
<1>14. Knows(w)'
  <2>1. "chunks" \in valid'[w][Id(w)] \/ \E i \in 1 .. Len(todo'[w]) : todo'[w][i] = "chunks"
    <3>1. CASE "chunks" \in valid[w][Id(w)]
      BY <1>1, <1>10, <3>1
    <3>2. CASE \E i \in 1 .. Len(todo[w]) : todo[w][i] = "chunks"
      <4>1. PICK i \in 1 .. Len(todo[w]) : todo[w][i] = "chunks"
        BY <3>2
      <4>2. CASE i = 1
        BY <1>1, <1>10, <4>1, <4>2 DEF Cached
      <4>3. CASE i # 1
        <5>1. i - 1 \in 1 .. Len(todo[w]) - 1 /\ todo'[w][i - 1] = todo[w][(i - 1) + 1]
              /\ (i - 1) + 1 = i
          BY <1>1, <1>9, <4>3
        <5>. QED
          BY <1>9, <4>1, <5>1
      <4>. QED
        BY <4>2, <4>3
    <3>. QED
      BY <1>1, <1>3, <3>1, <3>2 DEF Knows
  <2>2. Id(w)' = Id(w)
    BY <1>3 DEF Id
  <2>. QED
    BY <1>3, <2>1, <2>2 DEF Knows
<1>. QED
  BY <1>12, <1>13, <1>14

\* It evaluates its jobs.
LEMMA EvaluateStep ==
  ASSUME MpiInv, NEW w \in Remotes, Evaluate(w)
  PROVE  Place(w)' /\ Agree(w)' /\ Knows(w)'
<1>1. /\ w \in Ranks /\ w # 0 /\ 0 \in Ranks
      /\ Types /\ RankTypes /\ QueueTypes
      /\ Place(w) /\ Agree(w) /\ Knows(w) /\ Knows(0) /\ RootKnows
      /\ call[0] \in Calls /\ Id(w) \in Ids
  BY Base
<1>2. /\ Same(0) /\ Id(0)' = Id(0) /\ pc'[0] = pc[0] /\ call'[0] = call[0] /\ todo'[0] = todo[0]
  BY WorkerBase DEF InCall
<1>3. /\ pc[w] = "setup" /\ todo[w] = << >> /\ up' = up /\ down' = down
      /\ call' = call /\ todo' = todo /\ UNCHANGED <<valid, jobs, f_out, num_outputs>>
  BY DEF Evaluate, caches
<1>4. Joining(w) /\ Stream(w, 0, todo[w]) /\ up[w] = << >> /\ call[w] = call[0] /\ Id(w) = Id(0)
  BY <1>1, <1>3 DEF Place, Joining, Working, Resting, Informed, Level, Answered, Id
<1>5. down[w] = << >> /\ todo[0] = << >>
  <2>1. Len(todo[w]) = 0 /\ Len(down[w]) \in Nat /\ Len(todo[0]) \in Nat
    BY <1>3, Base
  <2>2. Len(down[w]) + Len(todo[0]) = 0 + Len(todo[w])
    BY <1>4 DEF Stream
  <2>3. \A a, b \in Nat : a + b = 0 + 0 => a = 0 /\ b = 0
    OBVIOUS
  <2>4. Len(down[w]) = 0 /\ Len(todo[0]) = 0
    BY <2>1, <2>2, <2>3
  <2>. QED
    BY <2>4, Base
<1>6. num_outputs[w][call[w]] = num_outputs[0][call[0]]
  BY <1>1, <1>4, <1>5, NothingComes DEF Agree
<1>7. pc'[w] = IF num_outputs[w][call[w]] = -1 THEN "first_ok" ELSE "result"
  BY <1>1 DEF Evaluate, Goto, RankTypes
<1>8. Place(w)'
  <2>1. pc[0] \in {"setup", "first_ok", "result"}
    BY <1>4 DEF Joining
  <2>2. Level(w)'
    <3>1. CASE num_outputs[w][call[w]] = -1
      <4>1. pc[0] # "result"
        BY <1>1, <1>6, <3>1 DEF Knows
      <4>. QED
        BY <1>2, <1>3, <1>4, <1>5, <1>7, <2>1, <3>1, <4>1 DEF Level
    <3>2. CASE num_outputs[w][call[w]] # -1
      <4>1. pc[0] # "first_ok"
        BY <1>1, <1>6, <3>2 DEF Knows
      <4>. QED
        BY <1>2, <1>3, <1>4, <1>5, <1>7, <2>1, <3>2, <4>1 DEF Level
    <3>. QED
      BY <3>1, <3>2
  <2>. QED
    BY <1>2, <1>3, <1>4, <1>5, <2>2 DEF Place, Working
<1>9. Agree(w)'
  <2>1. \A m : Coming(w, m)' <=> Coming(w, m)
    BY <1>3 DEF Coming
  <2>2. \A m : Reported(w, m)' <=> Reported(w, m)
    BY <1>3 DEF Reported
  <2>. QED
    BY <1>1, <1>2, <1>3, <2>1, <2>2, AgreeMoves
<1>10. Knows(w)'
  <2>1. Local(w)' = Local(w) /\ Id(w)' = Id(w)
    BY <1>3 DEF Local, Id
  <2>2. DOMAIN does'[w] = Local(w) /\ (local_ok'[w] <=> \A j \in Local(w) : ~Fails(w, j)')
    <3>1. PICK behaviour \in [Local(w) -> Sizes \cup {Throws, Nested}] :
            does' = [does EXCEPT ![w] = behaviour]
      BY DEF Evaluate
    <3>2. does'[w] = behaviour
      BY <1>1, <3>1 DEF RankTypes
    <3>3. local_ok'[w] <=> \A j \in Local(w) : ~Fails(w, j)'
      BY <1>1 DEF Evaluate, RankTypes
    <3>. QED
      BY <3>2, <3>3
  <2>3. local_ok'[w] <=> JobsOk(w)'
    BY <2>1, <2>2 DEF JobsOk
  <2>4. "chunks" \in valid[w][Id(w)]
    <3>1. Len(todo[w]) = 0
      BY <1>3
    <3>. QED
      BY <1>1, <1>3, <3>1 DEF Knows
  <2>5. num_outputs[w][call[w]] # -1 => "f_out" \in valid[w][Id(w)]
    <3>1. SUFFICES ASSUME num_outputs[w][call[w]] # -1
                   PROVE  "f_out" \in valid[w][Id(w)]
      OBVIOUS
    <3>2. pc[0] # "f_out"
      BY <1>4 DEF Joining
    <3>3. "f_out" \in valid[0][Id(0)]
      BY <1>1, <1>6, <3>1, <3>2 DEF RootKnows, Id
    <3>. QED
      BY <1>1, <1>4, <1>5, <3>3, NothingComes DEF Agree, Cached
  <2>. QED
    BY <1>1, <1>3, <1>7, <2>1, <2>2, <2>3, <2>4, <2>5 DEF Knows
<1>. QED
  BY <1>8, <1>9, <1>10

\* What a worker answers, and what it has reported then.
LEMMA AnswerFacts ==
  ASSUME QueueTypes, NEW w \in Remotes, NEW what, NEW value, SendUp(w, what, value)
  PROVE  /\ Len(up'[w]) = Len(up[w]) + 1 /\ Len(up[w]) \in Nat
         /\ \A i \in 1 .. Len(up[w]) : up'[w][i] = up[w][i]
         /\ up'[w][Len(up[w]) + 1] = [what |-> what, call |-> call[w], value |-> value]
         /\ \A x : Reported(w, x)' <=> Reported(w, x) \/ x = what
<1>1. /\ Len(up'[w]) = Len(up[w]) + 1 /\ Len(up[w]) \in Nat
      /\ \A i \in 1 .. Len(up[w]) : up'[w][i] = up[w][i]
      /\ up'[w][Len(up[w]) + 1] = [what |-> what, call |-> call[w], value |-> value]
  BY Answers
<1>p. PICK n \in Nat : n = Len(up[w]) /\ Len(up'[w]) = n + 1
  BY <1>1
<1>2. \A i : i \in 1 .. n + 1 <=> i \in 1 .. n \/ i = n + 1
  OBVIOUS
<1>3. (\A i \in 1 .. n : up'[w][i] = up[w][i]) /\ up'[w][n + 1].what = what
  BY <1>p, <1>1
<1>4. \A x : Reported(w, x)' <=> Reported(w, x) \/ x = what
  BY <1>p, <1>2, <1>3 DEF Reported
<1>. QED
  BY <1>1, <1>4

\* Its other answers depend on these variables.
LEMMA RepliesStay ==
  ASSUME NEW w \in Ranks, call'[w] = call[w], jobs'[w] = jobs[w],
         f_out'[w] = f_out[w], num_outputs'[w] = num_outputs[w]
  PROVE  /\ \A what \in {"f_out", "result"} : Reply(w, what)' = Reply(w, what)
         /\ local_ok'[w] = local_ok[w] => Reply(w, "status")' = Reply(w, "status")
<1>1. Id(w)' = Id(w) /\ ChunkLength(w, w)' = ChunkLength(w, w)
  BY DEF Id, ChunkLength
<1>. QED
  BY <1>1 DEF Reply

\* It says whether its jobs succeeded.
LEMMA FirstOkStep ==
  ASSUME MpiInv, NEW w \in Remotes, FirstOk(w)
  PROVE  Place(w)' /\ Agree(w)' /\ Knows(w)'
<1>1. /\ w \in Ranks /\ w # 0 /\ 0 \in Ranks
      /\ Types /\ RankTypes /\ QueueTypes /\ Place(w) /\ Agree(w) /\ Knows(w)
  BY Base
<1>2. /\ Same(0) /\ Id(0)' = Id(0) /\ pc'[0] = pc[0] /\ call'[0] = call[0] /\ todo'[0] = todo[0]
  BY WorkerBase DEF InCall
<1>3. /\ pc[w] = "first_ok" /\ SendUp(w, "first_ok", local_ok[w]) /\ down' = down
      /\ call' = call /\ todo' = todo /\ does' = does
      /\ UNCHANGED <<valid, jobs, f_out, num_outputs>>
  BY <1>1 DEF FirstOk, caches
<1>4. /\ pc[0] \in {"setup", "first_ok"} /\ up[w] = << >> /\ down[w] = << >>
      /\ call[w] = call[0] /\ todo[0] = << >>
  BY <1>1, <1>3 DEF Place, Joining, Working, Resting, Informed, Level, Answered
<1>5. pc'[w] = "all_ok" /\ local_ok'[w] = local_ok[w]
  BY <1>1 DEF FirstOk, Goto, RankTypes
<1>6. /\ Len(up'[w]) = 1
      /\ up'[w][1] = [what |-> "first_ok", call |-> call[w], value |-> local_ok[w]]
      /\ \A x : Reported(w, x)' <=> x = "first_ok"
  <2>1. Len(up[w]) = 0
    BY <1>4
  <2>2. \A x : ~Reported(w, x)
    BY <1>4, NothingReported
  <2>3. /\ Len(up'[w]) = Len(up[w]) + 1
        /\ up'[w][Len(up[w]) + 1] = [what |-> "first_ok", call |-> call[w], value |-> local_ok[w]]
        /\ \A x : Reported(w, x)' <=> Reported(w, x) \/ x = "first_ok"
    BY <1>1, <1>3, AnswerFacts
  <2>4. 0 + 1 = 1
    OBVIOUS
  <2>. QED
    BY <2>1, <2>2, <2>3, <2>4
<1>7. Place(w)'
  <2>1. Up1(w, "first_ok")'
    BY <1>3, <1>5, <1>6 DEF Up1, Reply
  <2>. QED
    BY <1>2, <1>3, <1>4, <1>5, <2>1 DEF Place, Working, Level
<1>8. Agree(w)'
  <2>1. \A m : Coming(w, m)' <=> Coming(w, m)
    BY <1>3 DEF Coming
  <2>2. \A m \in Cached : Reported(w, m)' <=> Reported(w, m)
    BY <1>4, <1>6, NothingReported DEF Cached
  <2>. QED
    BY <1>1, <1>2, <1>3, <2>1, <2>2, AgreeMoves
<1>9. Knows(w)'
  <2>1. Local(w)' = Local(w) /\ Id(w)' = Id(w) /\ (JobsOk(w)' <=> JobsOk(w))
    BY <1>1, <1>3, JobsStay DEF Local, Id, SameJobs
  <2>. QED
    BY <1>1, <1>3, <1>5, <2>1 DEF Knows
<1>. QED
  BY <1>7, <1>8, <1>9

\* It learns whether all jobs succeeded.
LEMMA AllOkStep ==
  ASSUME MpiInv, NEW w \in Remotes, AllOk(w)
  PROVE  Place(w)' /\ Agree(w)' /\ Knows(w)'
<1>1. /\ w \in Ranks /\ w # 0 /\ 0 \in Ranks
      /\ Types /\ RankTypes /\ QueueTypes /\ Place(w) /\ Agree(w) /\ Knows(w)
      /\ Len(todo[0]) \in Nat
  BY Base
<1>2. /\ Same(0) /\ Id(0)' = Id(0) /\ listening' = listening
      /\ pc'[0] = pc[0] /\ call'[0] = call[0] /\ todo'[0] = todo[0]
      /\ num_outputs'[0] = num_outputs[0]
  BY WorkerBase DEF InCall
<1>3. /\ pc[w] = "all_ok" /\ down[w] # << >> /\ Receive(w) /\ up' = up
      /\ call' = call /\ todo' = todo /\ does' = does /\ local_ok' = local_ok
      /\ UNCHANGED <<valid, jobs, f_out, num_outputs>>
  BY <1>1 DEF AllOk, caches
<1>4. /\ Head(down[w]) = down[w][1] /\ Len(down[w]) \in Nat /\ Len(down[w]) >= 1
      /\ Len(down'[w]) = Len(down[w]) - 1 /\ IsQueue(down'[w])
      /\ \A i \in 1 .. Len(down[w]) - 1 : down'[w][i] = down[w][i + 1]
  BY <1>1, <1>3, Receives
<1>5. pc'[w] = IF down[w][1].value THEN "outputs" ELSE "listening"
  BY <1>1, <1>4 DEF AllOk, Goto, RankTypes
<1>6. (Failed(w, down[w][1]) \/ AllWell(down[w][1])) /\ up[w] = << >>
  BY <1>1, <1>3 DEF Place, Joining, Working, Resting, Informed, Level, Answered
<1>7. Agree(w)'
  <2>1. \A what : Coming(w, what) <=> Coming(w, what)' \/ down[w][1].what = what
    BY <1>4, ComingShifts
  <2>2. \A m \in Cached \cup {"outputs"} : Coming(w, m)' <=> Coming(w, m)
    BY <1>6, <2>1 DEF Cached, Failed, AllWell
  <2>3. \A m : Reported(w, m)' <=> Reported(w, m)
    BY <1>3 DEF Reported
  <2>. QED
    BY <1>1, <1>2, <1>3, <2>2, <2>3, AgreeMoves
<1>8. Knows(w)'
  <2>1. Local(w)' = Local(w) /\ Id(w)' = Id(w) /\ (JobsOk(w)' <=> JobsOk(w))
    BY <1>1, <1>3, JobsStay DEF Local, Id, SameJobs
  <2>. QED
    BY <1>1, <1>3, <1>5, <2>1 DEF Knows
<1>9. CASE Joining(w)
  <2>1. /\ Stream(w, 2, Setup(valid[w][Id(0)])) /\ Failed(w, down[w][1]) /\ Command(down[w][2])
    BY <1>3, <1>9 DEF Joining
  <2>2. PICK t : t = Setup(valid[w][Id(0)])
    OBVIOUS
  <2>3. Len(t) \in Nat /\ Stream(w, 2, t) /\ 2 = 1 + 1
    BY <2>1, <2>2, SetupFacts
  <2>4. Stream(w, 1, t)'
    BY <1>1, <1>2, <1>4, <2>3, StreamShifts
  <2>5. Stream(w, 1, Setup(valid[w][Id(0)]))'
    BY <1>2, <1>3, <2>2, <2>4
  <2>6. down'[w][1] = down[w][2]
    <3>1. 2 <= Len(down[w])
      BY <2>1 DEF Stream
    <3>2. 1 \in 1 .. Len(down[w]) - 1
      BY <1>4, <3>1
    <3>. QED
      BY <1>4, <3>2
  <2>7. pc'[w] = "listening"
    BY <1>5, <2>1 DEF Failed
  <2>8. Joining(w)'
    BY <1>2, <1>3, <1>9, <2>1, <2>5, <2>6, <2>7 DEF Joining, Command
  <2>. QED
    BY <1>7, <1>8, <2>8 DEF Place
<1>10. CASE Working(w)
  <2>1. Informed(w) /\ call[w] = call[0] /\ todo[0] = << >>
    BY <1>3, <1>10 DEF Working, Level
  <2>2. AllWell(down[w][1]) /\ pc'[w] = "outputs"
    BY <1>3, <1>5, <2>1 DEF Informed, AllWell
  <2>3. CASE pc[0] = "outputs" /\ Len(down[w]) = 1
    <3>1. down'[w] = << >>
      BY <1>4, <2>3, QueueFacts
    <3>2. Level(w)'
      BY <1>2, <1>3, <1>6, <2>2, <2>3, <3>1 DEF Level
    <3>. QED
      BY <1>2, <1>3, <1>7, <1>8, <2>1, <3>2 DEF Place, Working
  <2>4. CASE pc[0] \in {"f_out", "result"} /\ Len(down[w]) = 2 /\ Rows(down[w][2])
    <3>1. Len(down'[w]) = 1 /\ down'[w][1] = down[w][2]
      BY <1>4, <2>4
    <3>2. Informed(w)'
      BY <1>2, <1>3, <1>6, <2>2, <2>4, <3>1 DEF Informed, Rows
    <3>. QED
      BY <1>2, <1>3, <1>7, <1>8, <2>1, <3>2 DEF Place, Working
  <2>. QED
    BY <1>3, <2>1, <2>3, <2>4 DEF Informed
<1>11. CASE Resting(w)
  <2>1. Failed(w, down[w][1]) /\ pc'[w] = "listening"
    BY <1>3, <1>5, <1>11 DEF Resting, Failed
  <2>2. CASE listening /\ Len(down[w]) = 1
    <3>1. down'[w] = << >>
      BY <1>4, <2>2, QueueFacts
    <3>. QED
      BY <1>2, <1>3, <1>7, <1>8, <1>11, <2>1, <2>2, <3>1 DEF Place, Resting
  <2>3. CASE ~listening /\ Len(down[w]) = 2 /\ Stop(down[w][2])
    <3>1. Len(down'[w]) = 1 /\ down'[w][1] = down[w][2]
      BY <1>4, <2>3
    <3>. QED
      BY <1>2, <1>3, <1>7, <1>8, <1>11, <2>1, <2>3, <3>1 DEF Place, Resting, Stop
  <2>. QED
    BY <1>3, <1>11, <2>2, <2>3 DEF Resting
<1>. QED
  BY <1>1, <1>9, <1>10, <1>11 DEF Place

\* It learns the rows of the outputs.
LEMMA OutputsStep ==
  ASSUME MpiInv, NEW w \in Remotes, Outputs(w)
  PROVE  Place(w)' /\ Agree(w)' /\ Knows(w)'
<1>1. /\ w \in Ranks /\ w # 0 /\ 0 \in Ranks
      /\ Types /\ RankTypes /\ QueueTypes /\ Place(w) /\ Agree(w) /\ Knows(w) /\ Knows(0)
      /\ Id(w) \in Ids /\ call[0] \in Calls /\ Id(0) \in Ids
  BY Base
<1>2. /\ Same(0) /\ Id(0)' = Id(0) /\ listening' = listening
      /\ pc'[0] = pc[0] /\ call'[0] = call[0] /\ todo'[0] = todo[0] /\ jobs'[0] = jobs[0]
      /\ valid'[0] = valid[0] /\ num_outputs'[0] = num_outputs[0] /\ f_out'[0] = f_out[0]
  BY WorkerBase DEF InCall
<1>3. /\ pc[w] = "outputs" /\ down[w] # << >> /\ Receive(w) /\ up' = up
      /\ call' = call /\ todo' = todo /\ does' = does /\ local_ok' = local_ok
      /\ UNCHANGED <<valid, jobs, f_out>>
  BY <1>1 DEF Outputs
<1>4. /\ Head(down[w]) = down[w][1] /\ Len(down[w]) \in Nat /\ Len(down[w]) >= 1
      /\ Len(down'[w]) = Len(down[w]) - 1 /\ IsQueue(down'[w])
      /\ \A i \in 1 .. Len(down[w]) - 1 : down'[w][i] = down[w][i + 1]
  BY <1>1, <1>3, Receives
<1>5. /\ pc[0] \in {"f_out", "result"} /\ Len(down[w]) = 1 /\ Rows(down[w][1])
      /\ up[w] = << >> /\ call[w] = call[0] /\ todo[0] = << >> /\ Id(w) = Id(0)
  BY <1>1, <1>3 DEF Place, Joining, Working, Resting, Informed, Level, Answered, Id
<1>6. down'[w] = << >>
  BY <1>4, <1>5, QueueFacts
<1>7. /\ num_outputs'[w] = [num_outputs[w] EXCEPT ![call[0]] = num_outputs[0][call[0]]]
      /\ DOMAIN num_outputs[w] = Calls
  BY <1>1, <1>4, <1>5 DEF Outputs, RankTypes, Rows
<1>8. \A what : Coming(w, what) <=> what = "outputs"
  <2>1. \A i : i \in 1 .. 1 <=> i = 1
    OBVIOUS
  <2>. QED
    BY <1>5, <2>1 DEF Coming, Rows
<1>9. "f_out" \in valid[w][Id(w)] <=> pc[0] = "result"
  <2>1. "f_out" \in valid[0][Id(0)] <=> "f_out" \in valid[w][Id(0)]
    BY <1>1, <1>5, <1>8, NothingReported DEF Agree, Cached
  <2>. QED
    BY <1>1, <1>5, <2>1 DEF Knows
<1>10. pc'[w] = pc[0]
  BY <1>1, <1>5, <1>9 DEF Outputs, Goto, RankTypes, Id
<1>11. Place(w)'
  BY <1>2, <1>3, <1>5, <1>6, <1>10 DEF Place, Working, Level
<1>12. Agree(w)'
  <2>1. \A what : ~Reported(w, what) /\ ~Reported(w, what)'
    BY <1>3, <1>5 DEF Reported
  <2>2. \A what : ~Coming(w, what)'
    BY <1>6 DEF Coming
  <2>3. \A id \in Ids : \A m \in Cached :
          ((m \in valid[0][id] \/ (id = Id(0) /\ Reported(w, m))) <=>
             (m \in valid[w][id] \/ (id = Id(0) /\ Coming(w, m))))'
    BY <1>1, <1>2, <1>3, <1>8, <2>1, <2>2 DEF Agree, Cached
  <2>4. \A c \in Calls :
          ((c = call[0] /\ Coming(w, "outputs")) \/ num_outputs[w][c] = num_outputs[0][c])'
    BY <1>1, <1>2, <1>7 DEF Agree
  <2>5. \A id \in Ids : ("chunks" \in valid[w][id] => jobs[w][id] = jobs[0][id])'
    BY <1>1, <1>2, <1>3 DEF Agree
  <2>6. \A id \in Ids : ("f_out" \in valid[0][id] =>
          \A j \in JobsOf(jobs[0][id], w) : f_out[w][id][j] = f_out[0][id][j])'
    BY <1>1, <1>2, <1>3 DEF Agree
  <2>. QED
    BY <2>3, <2>4, <2>5, <2>6 DEF Agree
<1>13. Knows(w)'
  <2>1. Local(w)' = Local(w) /\ Id(w)' = Id(w) /\ (JobsOk(w)' <=> JobsOk(w))
    BY <1>1, <1>3, JobsStay DEF Local, Id, SameJobs
  <2>2. num_outputs'[w][call[w]] # -1
    BY <1>1, <1>5, <1>7 DEF Knows
  <2>. QED
    BY <1>1, <1>3, <1>5, <1>9, <1>10, <2>1, <2>2 DEF Knows
<1>. QED
  BY <1>11, <1>12, <1>13

\* It sends the sizes of its outputs.
LEMMA FOutStep ==
  ASSUME MpiInv, NEW w \in Remotes, FOut(w)
  PROVE  Place(w)' /\ Agree(w)' /\ Knows(w)'
<1>1. /\ w \in Ranks /\ w # 0 /\ 0 \in Ranks
      /\ Types /\ RankTypes /\ QueueTypes /\ Place(w) /\ Agree(w) /\ Knows(w) /\ Knows(0)
      /\ Id(w) \in Ids
  BY Base
<1>2. /\ Same(0) /\ Id(0)' = Id(0) /\ pc'[0] = pc[0] /\ call'[0] = call[0] /\ todo'[0] = todo[0]
      /\ jobs'[0] = jobs[0]
      /\ valid'[0] = valid[0] /\ num_outputs'[0] = num_outputs[0] /\ f_out'[0] = f_out[0]
  BY WorkerBase DEF InCall
<1>3. /\ pc[w] = "f_out" /\ SendUp(w, "f_out", local_f_out(w)) /\ down' = down
      /\ call' = call /\ todo' = todo /\ does' = does /\ local_ok' = local_ok
      /\ UNCHANGED <<jobs, num_outputs>>
  BY <1>1 DEF FOut
<1>4. /\ pc[0] = "f_out" /\ up[w] = << >> /\ down[w] = << >>
      /\ call[w] = call[0] /\ todo[0] = << >> /\ Id(w) = Id(0)
  BY <1>1, <1>3 DEF Place, Joining, Working, Resting, Informed, Level, Answered, Id
<1>5. /\ pc'[w] = "result"
      /\ valid'[w] = [valid[w] EXCEPT ![Id(w)] = @ \cup {"f_out"}] /\ DOMAIN valid[w] = Ids
      /\ f_out'[w] = [f_out[w] EXCEPT ![Id(w)] = local_f_out(w)] /\ DOMAIN f_out[w] = Ids
  BY <1>1 DEF FOut, Goto, Store, RankTypes, Id, Cached
<1>6. /\ Len(up'[w]) = 1
      /\ up'[w][1] = [what |-> "f_out", call |-> call[w], value |-> local_f_out(w)]
      /\ \A x : Reported(w, x)' <=> x = "f_out"
  <2>1. Len(up[w]) = 0
    BY <1>4
  <2>2. \A x : ~Reported(w, x)
    BY <1>4, NothingReported
  <2>3. /\ Len(up'[w]) = Len(up[w]) + 1
        /\ up'[w][Len(up[w]) + 1] = [what |-> "f_out", call |-> call[w], value |-> local_f_out(w)]
        /\ \A x : Reported(w, x)' <=> Reported(w, x) \/ x = "f_out"
    BY <1>1, <1>3, AnswerFacts
  <2>4. 0 + 1 = 1
    OBVIOUS
  <2>. QED
    BY <2>1, <2>2, <2>3, <2>4
<1>7. Id(w)' = Id(w)
  BY <1>3 DEF Id
<1>8. Place(w)'
  <2>1. Up1(w, "f_out")'
    BY <1>1, <1>3, <1>5, <1>6, <1>7 DEF Up1, Reply
  <2>. QED
    BY <1>2, <1>3, <1>4, <1>5, <2>1 DEF Place, Working, Level
<1>9. Agree(w)'
  <2>1. \A what : ~Coming(w, what) /\ ~Coming(w, what)'
    BY <1>3, <1>4 DEF Coming
  <2>2. \A what : ~Reported(w, what)
    BY <1>4, NothingReported
  <2>3. \A id \in Ids : \A m \in Cached :
          m \in valid'[w][id] <=> m \in valid[w][id] \/ (id = Id(0) /\ m = "f_out")
    BY <1>4, <1>5
  <2>4. \A id \in Ids : \A m \in Cached :
          ((m \in valid[0][id] \/ (id = Id(0) /\ Reported(w, m))) <=>
             (m \in valid[w][id] \/ (id = Id(0) /\ Coming(w, m))))'
    BY <1>1, <1>2, <1>6, <2>1, <2>2, <2>3 DEF Agree
  <2>5. \A c \in Calls :
          ((c = call[0] /\ Coming(w, "outputs")) \/ num_outputs[w][c] = num_outputs[0][c])'
    BY <1>1, <1>2, <1>3, <2>1 DEF Agree
  <2>6. \A id \in Ids : ("chunks" \in valid[w][id] => jobs[w][id] = jobs[0][id])'
    <3>1. \A id \in Ids : "chunks" \in valid'[w][id] => "chunks" \in valid[w][id]
      BY <2>3 DEF Cached
    <3>. QED
      BY <1>1, <1>2, <1>3, <3>1 DEF Agree
  <2>7. \A id \in Ids : ("f_out" \in valid[0][id] =>
          \A j \in JobsOf(jobs[0][id], w) : f_out[w][id][j] = f_out[0][id][j])'
    <3>1. "f_out" \notin valid[0][Id(0)]
      BY <1>1, <1>4 DEF Knows
    <3>2. \A id \in Ids : id # Id(0) => f_out'[w][id] = f_out[w][id]
      BY <1>4, <1>5
    <3>. QED
      BY <1>1, <1>2, <1>3, <3>1, <3>2 DEF Agree
  <2>. QED
    BY <2>4, <2>5, <2>6, <2>7 DEF Agree
<1>10. Knows(w)'
  <2>1. Local(w)' = Local(w) /\ (JobsOk(w)' <=> JobsOk(w))
    BY <1>1, <1>3, JobsStay DEF Local, SameJobs
  <2>2. /\ "f_out" \in valid'[w][Id(w)]
        /\ "chunks" \in valid[w][Id(w)] => "chunks" \in valid'[w][Id(w)]
    BY <1>1, <1>5
  <2>. QED
    BY <1>1, <1>3, <1>5, <1>7, <2>1, <2>2 DEF Knows
<1>. QED
  BY <1>8, <1>9, <1>10

\* It sends its outputs, and compares their sizes with the cached ones.
LEMMA ResultStep ==
  ASSUME MpiInv, NEW w \in Remotes, Result(w)
  PROVE  Place(w)' /\ Agree(w)' /\ Knows(w)'
<1>1. /\ w \in Ranks /\ w # 0 /\ 0 \in Ranks
      /\ Types /\ RankTypes /\ QueueTypes /\ Place(w) /\ Agree(w) /\ Knows(w)
  BY Base
<1>2. /\ Same(0) /\ Id(0)' = Id(0) /\ pc'[0] = pc[0] /\ call'[0] = call[0] /\ todo'[0] = todo[0]
  BY WorkerBase DEF InCall
<1>3. /\ pc[w] = "result" /\ SendUp(w, "result", ChunkLength(w, w)) /\ down' = down
      /\ call' = call /\ todo' = todo /\ does' = does
      /\ UNCHANGED <<valid, jobs, f_out, num_outputs>>
  BY <1>1 DEF Result, caches
<1>4. /\ down[w] = << >> /\ call[w] = call[0] /\ todo[0] = << >>
      /\ \/ pc[0] \in {"setup", "result"} /\ up[w] = << >>
         \/ pc[0] = "f_out" /\ Up1(w, "f_out")
  BY <1>1, <1>3 DEF Place, Joining, Working, Resting, Informed, Level, Answered
<1>5. /\ pc'[w] = "status" /\ (local_ok'[w] <=> local_ok[w] /\ SizesOk(w))
  BY <1>1 DEF Result, Goto, RankTypes, SizesOk, Id
<1>6. /\ Len(up'[w]) = Len(up[w]) + 1 /\ Len(up[w]) \in Nat
      /\ \A i \in 1 .. Len(up[w]) : up'[w][i] = up[w][i]
      /\ up'[w][Len(up[w]) + 1] = Reply(w, "result")
      /\ \A x : Reported(w, x)' <=> Reported(w, x) \/ x = "result"
  BY <1>1, <1>3, AnswerFacts DEF Reply
<1>7. \A what \in {"f_out", "result"} : Reply(w, what)' = Reply(w, what)
  BY <1>1, <1>3, RepliesStay
<1>8. Place(w)'
  <2>1. CASE pc[0] \in {"setup", "result"} /\ up[w] = << >>
    <3>1. Len(up'[w]) = 1 /\ up'[w][1] = Reply(w, "result")'
      <4>1. Len(up[w]) = 0 /\ 0 + 1 = 1
        BY <2>1
      <4>. QED
        BY <1>6, <1>7, <4>1
    <3>. QED
      BY <1>2, <1>3, <1>4, <1>5, <2>1, <3>1 DEF Place, Working, Level, Up1
  <2>2. CASE pc[0] = "f_out" /\ Up1(w, "f_out")
    <3>1. Len(up'[w]) = 2 /\ up'[w][1] = Reply(w, "f_out")' /\ up'[w][2] = Reply(w, "result")'
      <4>1. Len(up[w]) = 1 /\ 1 + 1 = 2 /\ 1 \in 1 .. 1
        BY <2>2 DEF Up1
      <4>. QED
        BY <1>6, <1>7, <2>2, <4>1 DEF Up1
    <3>. QED
      BY <1>2, <1>3, <1>4, <1>5, <2>2, <3>1 DEF Place, Working, Level, Up2
  <2>. QED
    BY <1>4, <2>1, <2>2
<1>9. Agree(w)'
  <2>1. \A m : Coming(w, m)' <=> Coming(w, m)
    BY <1>3 DEF Coming
  <2>2. \A m \in Cached : Reported(w, m)' <=> Reported(w, m)
    BY <1>6 DEF Cached
  <2>. QED
    BY <1>1, <1>2, <1>3, <2>1, <2>2, AgreeMoves
<1>10. Knows(w)'
  <2>1. /\ Local(w)' = Local(w) /\ Id(w)' = Id(w)
        /\ (JobsOk(w)' <=> JobsOk(w)) /\ (SizesOk(w)' <=> SizesOk(w))
    BY <1>1, <1>3, JobsStay, SizesStay DEF Local, Id, SameJobs
  <2>. QED
    BY <1>1, <1>3, <1>5, <2>1 DEF Knows
<1>. QED
  BY <1>8, <1>9, <1>10

\* It says how its part ended, and listens again.
LEMMA StatusStep ==
  ASSUME MpiInv, NEW w \in Remotes, Status(w)
  PROVE  Place(w)' /\ Agree(w)' /\ Knows(w)'
<1>1. /\ w \in Ranks /\ w # 0 /\ 0 \in Ranks
      /\ Types /\ RankTypes /\ QueueTypes /\ Place(w) /\ Agree(w) /\ Knows(w)
  BY Base
<1>2. /\ Same(0) /\ Id(0)' = Id(0) /\ pc'[0] = pc[0] /\ call'[0] = call[0] /\ todo'[0] = todo[0]
  BY WorkerBase DEF InCall
<1>3. /\ pc[w] = "status" /\ SendUp(w, "status", local_ok[w]) /\ down' = down
      /\ call' = call /\ todo' = todo /\ does' = does /\ local_ok' = local_ok
      /\ UNCHANGED <<valid, jobs, f_out, num_outputs>>
  BY <1>1 DEF Status, caches
<1>4. /\ down[w] = << >> /\ call[w] = call[0] /\ todo[0] = << >>
      /\ \/ pc[0] = "status" /\ up[w] = << >>
         \/ pc[0] \in {"setup", "result"} /\ Up1(w, "result")
         \/ pc[0] = "f_out" /\ Up2(w, "f_out", "result")
  BY <1>1, <1>3 DEF Place, Joining, Working, Resting, Informed, Level, Answered
<1>5. pc'[w] = "listening"
  BY <1>1 DEF Status, Goto, RankTypes
<1>6. /\ Len(up'[w]) = Len(up[w]) + 1 /\ Len(up[w]) \in Nat
      /\ \A i \in 1 .. Len(up[w]) : up'[w][i] = up[w][i]
      /\ up'[w][Len(up[w]) + 1] = Reply(w, "status")
      /\ \A x : Reported(w, x)' <=> Reported(w, x) \/ x = "status"
  BY <1>1, <1>3, AnswerFacts DEF Reply
<1>7. \A what \in {"f_out", "result", "status"} : Reply(w, what)' = Reply(w, what)
  BY <1>1, <1>3, RepliesStay
<1>8. /\ Local(w)' = Local(w) /\ Id(w)' = Id(w)
      /\ (JobsOk(w)' <=> JobsOk(w)) /\ (SizesOk(w)' <=> SizesOk(w))
  BY <1>1, <1>3, JobsStay, SizesStay DEF Local, Id, SameJobs
<1>9. Answered(w)'
  BY <1>1, <1>3, <1>5, <1>8 DEF Answered, Knows
<1>10. Place(w)'
  <2>1. CASE pc[0] = "status" /\ up[w] = << >>
    <3>1. Len(up'[w]) = 1 /\ up'[w][1] = Reply(w, "status")'
      <4>1. Len(up[w]) = 0 /\ 0 + 1 = 1
        BY <2>1
      <4>. QED
        BY <1>6, <1>7, <4>1
    <3>. QED
      BY <1>2, <1>3, <1>4, <1>9, <2>1, <3>1 DEF Place, Working, Level, Up1
  <2>2. CASE pc[0] \in {"setup", "result"} /\ Up1(w, "result")
    <3>1. Len(up'[w]) = 2 /\ up'[w][1] = Reply(w, "result")' /\ up'[w][2] = Reply(w, "status")'
      <4>1. Len(up[w]) = 1 /\ 1 + 1 = 2 /\ 1 \in 1 .. 1
        BY <2>2 DEF Up1
      <4>. QED
        BY <1>6, <1>7, <2>2, <4>1 DEF Up1
    <3>. QED
      BY <1>2, <1>3, <1>4, <1>9, <2>2, <3>1 DEF Place, Working, Level, Up2
  <2>3. CASE pc[0] = "f_out" /\ Up2(w, "f_out", "result")
    <3>1. /\ Len(up'[w]) = 3 /\ up'[w][1] = Reply(w, "f_out")'
          /\ up'[w][2] = Reply(w, "result")' /\ up'[w][3] = Reply(w, "status")'
      <4>1. Len(up[w]) = 2 /\ 2 + 1 = 3 /\ 1 \in 1 .. 2 /\ 2 \in 1 .. 2
        BY <2>3 DEF Up2
      <4>. QED
        BY <1>6, <1>7, <2>3, <4>1 DEF Up2
    <3>. QED
      BY <1>2, <1>3, <1>4, <1>9, <2>3, <3>1 DEF Place, Working, Level, Up3
  <2>. QED
    BY <1>4, <2>1, <2>2, <2>3
<1>11. Agree(w)'
  <2>1. \A m : Coming(w, m)' <=> Coming(w, m)
    BY <1>3 DEF Coming
  <2>2. \A m \in Cached : Reported(w, m)' <=> Reported(w, m)
    BY <1>6 DEF Cached
  <2>. QED
    BY <1>1, <1>2, <1>3, <2>1, <2>2, AgreeMoves
<1>12. Knows(w)'
  BY <1>1, <1>3, <1>5, <1>8 DEF Knows
<1>. QED
  BY <1>10, <1>11, <1>12

\* Once a call is past the distribution the jobs of a worker are settled.
LEMMA Settled ==
  ASSUME MpiInv, NEW w \in Remotes, InCall(w) \/ Listen(w),
         pc[0] \notin {"setup", "first_ok", "result"}
  PROVE  SameJobs(w)
<1>1. w \in Ranks /\ w # 0 /\ RankTypes /\ QueueTypes /\ Place(w) /\ ~Joining(w)
  BY Base DEF Joining
<1>2. pc[w] # "setup"
  BY <1>1 DEF Place, Working, Informed, Level, Answered, Resting
<1>3. ~Distribute(w) /\ ~Evaluate(w)
  BY <1>2 DEF Distribute, Evaluate
<1>4. Listen(w) => call' = call
  <2>1. SUFFICES ASSUME Listen(w)
                 PROVE  call' = call
    OBVIOUS
  <2>2. pc[w] = "listening" /\ down[w] # << >> /\ Head(down[w]) = down[w][1]
    BY <1>1, <2>1, Receives DEF Listen
  <2>3. Stop(down[w][1])
    BY <1>1, <2>2 DEF Place, Working, Informed, Level, Resting
  <2>. QED
    BY <2>1, <2>2, <2>3 DEF Listen, Stop
<1>5. Listen(w) => jobs' = jobs /\ does' = does
  BY DEF Listen, caches
<1>6. FirstOk(w) \/ AllOk(w) \/ Outputs(w) \/ FOut(w) \/ Result(w) \/ Status(w)
        => call' = call /\ jobs' = jobs /\ does' = does
  BY DEF FirstOk, AllOk, Outputs, FOut, Result, Status, caches
<1>. QED
  BY <1>3, <1>4, <1>5, <1>6 DEF InCall, SameJobs

\* A step of a worker keeps what is known of it.
LEMMA OwnStep ==
  ASSUME MpiInv, NEW w \in Remotes, InCall(w) \/ Listen(w)
  PROVE  Place(w)' /\ Agree(w)' /\ Knows(w)'
BY ListenStep, DistributeStep, EvaluateStep, FirstOkStep, AllOkStep, OutputsStep,
   FOutStep, ResultStep, StatusStep DEF InCall

\* A step of a worker keeps the invariant.
LEMMA WorkerSteps ==
  ASSUME MpiInv, NEW w \in Remotes, InCall(w) \/ Listen(w)
  PROVE  MpiInv'
<1>1. /\ w \in Ranks /\ w # 0 /\ 0 \in Ranks /\ Types /\ RankTypes /\ QueueTypes
      /\ Place(w) /\ Agree(w) /\ Knows(w) /\ RootKnows
  BY Base
<1>2. (\A q \in Ranks \ {w} : Same(q)) /\ listening' = listening
  BY <1>1, OneRank, OneRankElse DEF Listen
<1>3. Place(w)' /\ Agree(w)' /\ Knows(w)'
  BY OwnStep
<1>4. ASSUME NEW v \in Remotes \ {w}
      PROVE  Place(v)' /\ Agree(v)'
  <2>1. v \in Remotes /\ v \in Ranks /\ Same(v) /\ Same(0)
    BY <1>1, <1>2 DEF Remotes
  <2>2. down'[v] = down[v] /\ up'[v] = up[v]
    BY <1>1, OtherChannels
  <2>3. Place(v) /\ Agree(v)
    BY <2>1 DEF MpiInv
  <2>. QED
    BY <1>2, <2>1, <2>2, <2>3, PlaceStays, AgreeStays
<1>5. ASSUME NEW r \in Ranks \ {w}
      PROVE  Knows(r)'
  <2>1. r \in Ranks /\ Same(r) /\ Knows(r)
    BY <1>2 DEF MpiInv
  <2>. QED
    BY <2>1, KnowsStays
<1>6. Types'
  <2>1. CASE Listen(w)
    BY <1>1, <2>1, ListenTypes
  <2>2. CASE InCall(w)
    <3>1. RankTypes' /\ QueueTypes'
      BY <1>1, <2>2, InCallRankTypes, InCallQueueTypes
    <3>2. pc'[0] = pc[0] /\ in_use' = in_use /\ RootTypes
      BY <1>1, <1>2, <2>2, OneRank, TypesParts DEF Same
    <3>3. RootTypes'
      BY <1>2, <3>2 DEF RootTypes
    <3>. QED
      BY <3>1, <3>3, TypesPartsNext
  <2>. QED
    BY <2>1, <2>2
<1>7. /\ pc'[0] = pc[0] /\ call'[0] = call[0] /\ jobs'[0] = jobs[0] /\ valid'[0] = valid[0]
      /\ num_outputs'[0] = num_outputs[0] /\ f_out'[0] = f_out[0] /\ local_ok'[0] = local_ok[0]
      /\ Id(0)' = Id(0)
  BY <1>1, <1>2 DEF Same, Id
<1>8. pc[0] \notin {"setup", "first_ok", "result"} =>
        \A r \in Ranks : SameJobs(r) /\ (JobsOk(r)' <=> JobsOk(r))
                         /\ local_f_out(r)' = local_f_out(r) /\ \A j : Fails(r, j)' <=> Fails(r, j)
  <2>1. SUFFICES ASSUME pc[0] \notin {"setup", "first_ok", "result"}, NEW r \in Ranks
                 PROVE  SameJobs(r)
    BY JobsStay
  <2>2. SameJobs(w)
    BY <2>1, Settled
  <2>. QED
    BY <1>2, <2>2 DEF Same, SameJobs
<1>9. RootKnows'
  BY <1>1, <1>2, <1>7, <1>8 DEF RootKnows
<1>10. VerdictExact'
  <2>1. CASE pc[0] \notin {"value", "throws"}
    BY <1>7, <2>1 DEF VerdictExact
  <2>2. CASE pc[0] \in {"value", "throws"}
    <3>1. \A r \in Ranks : does'[r] = does[r] /\ local_f_out(r)' = local_f_out(r)
                           /\ \A j : Fails(r, j)' <=> Fails(r, j)
      BY <1>8, <2>2 DEF SameJobs
    <3>2. VerdictExact
      BY DEF MpiInv
    <3>. QED
      BY <1>7, <3>1, <3>2 DEF VerdictExact
  <2>. QED
    BY <2>1, <2>2
<1>11. \A r \in Ranks : Knows(r)'
  BY <1>3, <1>5
<1>12. \A v \in Remotes : Place(v)' /\ Agree(v)'
  BY <1>3, <1>4
<1>. QED
  BY <1>6, <1>9, <1>10, <1>11, <1>12 DEF MpiInv

----------------------------------------------------------------------------
\* The steps of the root.

\* What is known of a worker that takes no part.
LEMMA WorkerStays ==
  ASSUME NEW w \in Remotes, Same(w), Knows(w)
  PROVE  /\ Id(w)' = Id(w) /\ Knows(w)' /\ (Answered(w)' <=> Answered(w))
         /\ \A what : Reply(w, what)' = Reply(w, what)
         /\ Local(w)' = Local(w) /\ local_f_out(w)' = local_f_out(w)
         /\ (JobsOk(w)' <=> JobsOk(w)) /\ (SizesOk(w)' <=> SizesOk(w))
         /\ \A j : Fails(w, j)' <=> Fails(w, j)
<1>1. w \in Ranks
  BY DEF Remotes
<1>2. SameJobs(w) /\ f_out'[w] = f_out[w]
  BY DEF Same, SameJobs
<1>3. /\ Local(w)' = Local(w) /\ local_f_out(w)' = local_f_out(w)
      /\ (JobsOk(w)' <=> JobsOk(w)) /\ (SizesOk(w)' <=> SizesOk(w))
      /\ \A j : Fails(w, j)' <=> Fails(w, j)
  BY <1>1, <1>2, JobsStay, SizesStay
<1>4. Id(w)' = Id(w)
  BY DEF Same, Id
<1>5. Answered(w)' <=> Answered(w)
  BY <1>3, <1>4 DEF Answered, Same
<1>. QED
  BY <1>1, <1>3, <1>4, <1>5, KnowsStays, ReplyStays

\* What a broadcast adds to what a worker has to receive.
LEMMA BroadcastFacts ==
  ASSUME QueueTypes, NEW m, Broadcast(m), NEW w \in Remotes
  PROVE  /\ Len(down'[w]) = Len(down[w]) + 1 /\ Len(down[w]) \in Nat
         /\ \A i \in 1 .. Len(down[w]) : down'[w][i] = down[w][i]
         /\ down'[w][Len(down[w]) + 1] = m
         /\ \A what : Coming(w, what)' <=> Coming(w, what) \/ m.what = what
<1>1. /\ Len(down'[w]) = Len(down[w]) + 1 /\ Len(down[w]) \in Nat
      /\ \A i \in 1 .. Len(down[w]) : down'[w][i] = down[w][i]
      /\ down'[w][Len(down[w]) + 1] = m
  BY Broadcasts
<1>p. PICK n \in Nat : n = Len(down[w]) /\ Len(down'[w]) = n + 1
  BY <1>1
<1>2. \A i : i \in 1 .. n + 1 <=> i \in 1 .. n \/ i = n + 1
  OBVIOUS
<1>3. (\A i \in 1 .. n : down'[w][i] = down[w][i]) /\ down'[w][n + 1] = m
  BY <1>p, <1>1
<1>4. \A what : Coming(w, what)' <=> Coming(w, what) \/ m.what = what
  BY <1>p, <1>2, <1>3 DEF Coming
<1>. QED
  BY <1>1, <1>4

\* The first messages stay the first.
LEMMA BroadcastFirst ==
  ASSUME QueueTypes, NEW m, Broadcast(m), NEW w \in Remotes
  PROVE  /\ Len(down[w]) = 0 => Len(down'[w]) = 1 /\ down'[w][1] = m
         /\ Len(down[w]) = 1 => Len(down'[w]) = 2 /\ down'[w][1] = down[w][1] /\ down'[w][2] = m
<1>1. /\ Len(down'[w]) = Len(down[w]) + 1
      /\ \A i \in 1 .. Len(down[w]) : down'[w][i] = down[w][i]
      /\ down'[w][Len(down[w]) + 1] = m
  BY BroadcastFacts
<1>2. 0 + 1 = 1 /\ 1 + 1 = 2 /\ 1 \in 1 .. 1
  OBVIOUS
<1>. QED
  BY <1>1, <1>2

\* What is left when the root has taken an answer.
LEMMA TakeFacts ==
  ASSUME QueueTypes, AllUp, TakeUp, NEW w \in Remotes
  PROVE  /\ Len(up'[w]) = Len(up[w]) - 1 /\ Head(up[w]) = up[w][1]
         /\ Len(up[w]) \in Nat /\ Len(up[w]) >= 1 /\ up[w] # << >>
         /\ \A i \in 1 .. Len(up[w]) - 1 : up'[w][i] = up[w][i + 1]
         /\ Len(up[w]) = 1 => up'[w] = << >>
         /\ \A x : Reported(w, x) <=> Reported(w, x)' \/ up[w][1].what = x
<1>1. /\ IsQueue(up'[w]) /\ Len(up'[w]) = Len(up[w]) - 1 /\ Head(up[w]) = up[w][1]
      /\ up[w] # << >> /\ Len(up[w]) \in Nat /\ Len(up[w]) >= 1
      /\ \A i \in 1 .. Len(up[w]) - 1 : up'[w][i] = up[w][i + 1]
  BY Takes
<1>2. Len(up[w]) = 1 => up'[w] = << >>
  BY <1>1, QueueFacts
<1>p. PICK n \in Nat : n = Len(up[w]) /\ n >= 1 /\ Len(up'[w]) = n - 1
  BY <1>1
<1>3. ASSUME NEW x
      PROVE  Reported(w, x) <=> Reported(w, x)' \/ up[w][1].what = x
  <2>1. \A i : i \in 1 .. n <=> i = 1 \/ (i - 1 \in 1 .. n - 1 /\ i \in 1 .. n)
    BY <1>p
  <2>2. \A i \in 1 .. n - 1 : i + 1 \in 1 .. n /\ up'[w][i] = up[w][i + 1]
    BY <1>p, <1>1
  <2>3. ASSUME Reported(w, x)
        PROVE  Reported(w, x)' \/ up[w][1].what = x
    <3>1. PICK i \in 1 .. n : up[w][i].what = x
      BY <1>p, <2>3 DEF Reported
    <3>2. CASE i # 1
      <4>1. i - 1 \in 1 .. n - 1 /\ (i - 1) + 1 = i
        BY <3>2
      <4>2. up'[w][i - 1] = up[w][(i - 1) + 1]
        BY <2>2, <4>1
      <4>. QED
        BY <1>p, <3>1, <4>1, <4>2 DEF Reported
    <3>. QED
      BY <3>1, <3>2
  <2>4. ASSUME Reported(w, x)'
        PROVE  Reported(w, x)
    BY <1>p, <2>2, <2>4 DEF Reported
  <2>5. ASSUME up[w][1].what = x
        PROVE  Reported(w, x)
    <3>1. 1 \in 1 .. n
      BY <1>p
    <3>. QED
      BY <1>p, <2>5, <3>1 DEF Reported
  <2>. QED
    BY <2>3, <2>4, <2>5
<1>. QED
  BY <1>1, <1>2, <1>3

\* The caches that a step of the root leaves as they are agree.
LEMMA AgreeRoot ==
  ASSUME NEW w \in Remotes, Agree(w), Same(w), call'[0] = call[0],
         valid'[0] = valid[0], num_outputs'[0] = num_outputs[0], jobs'[0] = jobs[0],
         f_out'[0] = f_out[0],
         \A m \in Cached \cup {"outputs"} : Coming(w, m)' <=> Coming(w, m),
         \A m \in Cached : Reported(w, m)' <=> Reported(w, m)
  PROVE  Agree(w)'
<1>1. Id(0)' = Id(0)
  BY DEF Id
<1>2. /\ valid'[w] = valid[w] /\ num_outputs'[w] = num_outputs[w]
      /\ jobs'[w] = jobs[w] /\ f_out'[w] = f_out[w]
  BY DEF Same
<1>3. \A id \in Ids : \A m \in Cached :
         ((m \in valid[0][id] \/ (id = Id(0) /\ Reported(w, m))) <=>
            (m \in valid[w][id] \/ (id = Id(0) /\ Coming(w, m))))'
  BY <1>1, <1>2 DEF Agree
<1>4. \A c \in Calls :
         ((c = call[0] /\ Coming(w, "outputs")) \/ num_outputs[w][c] = num_outputs[0][c])'
  BY <1>2 DEF Agree
<1>5. \A id \in Ids : ("chunks" \in valid[w][id] => jobs[w][id] = jobs[0][id])'
  BY <1>2 DEF Agree
<1>6. \A id \in Ids : ("f_out" \in valid[0][id] =>
         \A j \in JobsOf(jobs[0][id], w) : f_out[w][id][j] = f_out[0][id][j])'
  BY <1>2 DEF Agree
<1>. QED
  BY <1>3, <1>4, <1>5, <1>6 DEF Agree

\* What a step of the root has to keep.
LEMMA RootCollects ==
  ASSUME MpiInv, Types', \A w \in Remotes : Same(w) /\ Place(w)' /\ Agree(w)',
         Knows(0)', RootKnows', VerdictExact'
  PROVE  MpiInv'
<1>1. \A w \in Remotes : w \in Ranks
  BY DEF Remotes
<1>2. \A w \in Remotes : Knows(w)'
  BY <1>1, WorkerStays DEF MpiInv
<1>3. \A r \in Ranks : Knows(r)'
  BY <1>2 DEF Remotes
<1>. QED
  BY <1>3 DEF MpiInv

\* What is known of the root before a step.
LEMMA RootBase ==
  ASSUME MpiInv
  PROVE  /\ 0 \in Ranks /\ Types /\ RankTypes /\ QueueTypes /\ RootTypes
         /\ Knows(0) /\ RootKnows /\ VerdictExact
         /\ call[0] \in Calls /\ Id(0) \in Ids /\ todo[0] \in Seq(Items)
         /\ \A w \in Remotes : w \in Ranks /\ w # 0 /\ Place(w) /\ Agree(w) /\ Knows(w)
<1>1. 0 \in Ranks /\ \A w \in Remotes : w \in Ranks /\ w # 0
  BY RanksAre DEF Remotes
<1>2. Types /\ Knows(0) /\ RootKnows /\ VerdictExact
      /\ \A w \in Remotes : Place(w) /\ Agree(w) /\ Knows(w)
  BY <1>1 DEF MpiInv
<1>3. RankTypes /\ QueueTypes /\ RootTypes
  BY <1>2, TypesParts
<1>4. call[0] \in Calls /\ Id(0) \in Ids
  BY <1>1, <1>3, CallFacts
<1>5. todo[0] \in Seq(Items)
  BY <1>1, <1>3 DEF RankTypes
<1>. QED
  BY <1>1, <1>2, <1>3, <1>4, <1>5

\* A worker at rest has nothing of the caches under way.
LEMMA RestFacts ==
  ASSUME NEW w \in Remotes, Resting(w), Len(down[w]) \in Nat
  PROVE  /\ \A m \in Cached \cup {"outputs"} : ~Coming(w, m)
         /\ \A m : ~Reported(w, m)
<1>1. ASSUME NEW i \in 1 .. Len(down[w])
      PROVE  down[w][i].what \in {"stop", "all_ok"}
  <2>1. CASE down[w] = << >>
    BY <1>1, <2>1
  <2>2. CASE Len(down[w]) = 1 /\ (Stop(down[w][1]) \/ Failed(w, down[w][1]))
    <3>1. i = 1
      BY <1>1, <2>2
    <3>. QED
      BY <2>2, <3>1 DEF Stop, Failed
  <2>3. CASE Len(down[w]) = 2 /\ Failed(w, down[w][1]) /\ Stop(down[w][2])
    <3>1. i = 1 \/ i = 2
      BY <1>1, <2>3
    <3>. QED
      BY <2>3, <3>1 DEF Stop, Failed
  <2>. QED
    BY <2>1, <2>2, <2>3 DEF Resting
<1>2. \A m \in Cached \cup {"outputs"} : ~Coming(w, m)
  BY <1>1 DEF Coming, Cached
<1>. QED
  BY <1>2, NothingReported DEF Resting

\* The root stops the cluster.
LEMMA StopStep ==
  ASSUME MpiInv, StopListen
  PROVE  MpiInv'
<1>1. /\ 0 \in Ranks /\ Types /\ QueueTypes /\ RankTypes /\ Knows(0) /\ RootKnows
      /\ \A w \in Remotes : w \in Ranks /\ Place(w) /\ Agree(w)
  BY RootBase
<1>2. /\ pc[0] = "idle" /\ pc' = pc /\ call' = call /\ todo' = todo /\ up' = up /\ ~listening'
      /\ listening /\ UNCHANGED <<valid, jobs, f_out, num_outputs>>
      /\ Broadcast([what |-> "stop", call |-> call[0], value |-> 0])
  BY DEF StopListen, caches
<1>3. \A q \in Ranks : Same(q)
  BY <1>1, OneRankElse
<1>4. ASSUME NEW w \in Remotes
      PROVE  Place(w)' /\ Agree(w)'
  <2>1. Resting(w)
    BY <1>1, <1>2 DEF Place, Joining, Working, Informed, Level
  <2>2. Len(down[w]) \in Nat /\ (down[w] = << >> => Len(down[w]) = 0)
    BY Base
  <2>3. ASSUME pc[w] = "listening", down[w] = << >>
        PROVE  Place(w)'
    <3>1. Len(down'[w]) = 1 /\ Stop(down'[w][1])
      BY <1>1, <1>2, <2>2, <2>3, BroadcastFirst DEF Stop
    <3>2. Stop(down[w][1])'
      BY <1>2, <3>1 DEF Stop
    <3>. QED
      BY <1>2, <2>1, <2>3, <3>1, <3>2 DEF Resting, Place
  <2>4. ASSUME pc[w] = "all_ok", Len(down[w]) = 1, Failed(w, down[w][1])
        PROVE  Place(w)'
    <3>1. Len(down'[w]) = 2 /\ down'[w][1] = down[w][1] /\ Stop(down'[w][2])
      BY <1>1, <1>2, <2>2, <2>4, BroadcastFirst DEF Stop
    <3>2. Failed(w, down[w][1])' /\ Stop(down[w][2])'
      BY <1>2, <2>4, <3>1 DEF Stop, Failed
    <3>. QED
      BY <1>2, <2>1, <2>4, <3>1, <3>2 DEF Resting, Place
  <2>5. Place(w)'
    BY <1>2, <2>1, <2>3, <2>4 DEF Resting
  <2>6. \A m \in Cached \cup {"outputs"} : Coming(w, m)' <=> Coming(w, m)
    BY <1>1, <1>2, BroadcastFacts DEF Cached
  <2>7. \A m \in Cached : Reported(w, m)' <=> Reported(w, m)
    BY <1>2 DEF Reported
  <2>8. Agree(w)'
    BY <1>1, <1>2, <1>3, <2>6, <2>7, AgreeRoot
  <2>. QED
    BY <2>5, <2>8
<1>5. Types'
  BY <1>1, RootTypesSteps
<1>6. Knows(0)'
  BY <1>1, <1>3, KnowsStays
<1>7. RootKnows'
  BY <1>1, <1>2 DEF RootKnows, Id
<1>8. VerdictExact'
  BY <1>2 DEF VerdictExact
<1>9. \A w \in Remotes : Same(w)
  BY <1>1, <1>3
<1>. QED
  BY <1>4, <1>5, <1>6, <1>7, <1>8, <1>9, RootCollects

\* map_rect returns or throws on the root.
LEMMA ReturnStep ==
  ASSUME MpiInv, Return
  PROVE  MpiInv'
<1>1. /\ 0 \in Ranks /\ Types /\ QueueTypes /\ RankTypes /\ Knows(0) /\ RootKnows
      /\ \A w \in Remotes : w \in Ranks /\ w # 0 /\ Place(w) /\ Agree(w)
  BY RootBase
<1>2. /\ pc[0] \in {"value", "throws"} /\ call' = call /\ todo' = todo /\ up' = up /\ down' = down
      /\ listening' = listening /\ UNCHANGED <<valid, jobs, f_out, num_outputs>>
      /\ pc' = [pc EXCEPT ![0] = "idle"]
  BY DEF Return, caches, Goto
<1>3. \A w \in Remotes : Same(w)
  BY <1>1, OneRankElse
<1>4. pc'[0] = "idle" /\ \A w \in Remotes : pc'[w] = pc[w]
  BY <1>1, <1>2 DEF RankTypes
<1>5. ASSUME NEW w \in Remotes
      PROVE  Place(w)' /\ Agree(w)'
  <2>1. Resting(w)
    BY <1>1, <1>2 DEF Place, Joining, Working, Informed, Level
  <2>2. Place(w)'
    BY <1>2, <1>4, <2>1 DEF Place, Resting, Stop, Failed
  <2>3. \A m : (Coming(w, m)' <=> Coming(w, m)) /\ (Reported(w, m)' <=> Reported(w, m))
    BY <1>2 DEF Coming, Reported
  <2>4. Agree(w)'
    BY <1>1, <1>2, <1>3, <2>3, AgreeRoot
  <2>. QED
    BY <2>2, <2>4
<1>6. Types'
  BY <1>1, RootTypesSteps
<1>7. Knows(0)'
  BY <1>1, <1>2, <1>4 DEF Knows
<1>8. RootKnows'
  BY <1>1, <1>2, <1>4 DEF RootKnows
<1>9. VerdictExact'
  BY <1>4 DEF VerdictExact
<1>. QED
  BY <1>3, <1>5, <1>6, <1>7, <1>8, <1>9, RootCollects

\* The root starts a call.
LEMMA MapRectStep ==
  ASSUME MpiInv, NEW c \in Calls, NEW n \in JobCounts, MapRect(c, n)
  PROVE  MpiInv'
<1>1. /\ 0 \in Ranks /\ Types /\ QueueTypes /\ RankTypes /\ Knows(0) /\ RootKnows
      /\ \A w \in Remotes : w \in Ranks /\ w # 0 /\ Place(w) /\ Agree(w)
  BY RootBase
<1>2. /\ pc[0] = "idle" /\ listening /\ up' = up /\ listening' = listening
      /\ ("chunks" \in valid[0][c[1]] => jobs[0][c[1]] = n)
      /\ UNCHANGED <<valid, f_out, num_outputs>>
      /\ Broadcast([what |-> "command", call |-> c, value |-> 0])
  BY DEF MapRect
<1>3. \A w \in Remotes : Same(w)
  BY <1>1, OneRankElse
<1>4. /\ pc'[0] = "setup" /\ call'[0] = c /\ todo'[0] = Setup(valid[0][c[1]])
      /\ jobs'[0] = [jobs[0] EXCEPT ![c[1]] = n] /\ DOMAIN jobs[0] = Ids
  BY <1>1 DEF MapRect, Begin, Goto, RankTypes
<1>5. Id(0)' = c[1] /\ c[1] \in Ids
  BY <1>1, <1>4, CallFacts DEF Id
<1>6. jobs'[0][c[1]] = n /\ \A id \in Ids : "chunks" \in valid[0][id] => jobs'[0][id] = jobs[0][id]
  BY <1>2, <1>4, <1>5
<1>7. ASSUME NEW w \in Remotes
      PROVE  Place(w)' /\ Agree(w)'
  <2>1. Resting(w)
    BY <1>1, <1>2 DEF Place, Joining, Working, Informed, Level
  <2>2. Len(down[w]) \in Nat /\ (down[w] = << >> => Len(down[w]) = 0)
    BY Base
  <2>3. (\A m \in Cached \cup {"outputs"} : ~Coming(w, m)) /\ (\A m : ~Reported(w, m))
    BY <2>1, <2>2, RestFacts
  <2>4. /\ \A m \in Cached \cup {"outputs"} : ~Coming(w, m)'
        /\ \A m : ~Reported(w, m)'
    <3>1. \A what : Coming(w, what)' <=> Coming(w, what) \/ what = "command"
      BY <1>1, <1>2, BroadcastFacts
    <3>2. \A m : ~Reported(w, m)'
      BY <1>2, <2>3 DEF Reported
    <3>. QED
      BY <2>3, <3>1, <3>2 DEF Cached
  <2>5. /\ \A id \in Ids : valid[w][id] = valid[0][id]
        /\ valid'[w] = valid[w] /\ num_outputs'[w] = num_outputs[w] /\ pc'[w] = pc[w]
        /\ call'[w] = call[w] /\ jobs'[w] = jobs[w] /\ f_out'[w] = f_out[w]
    <3>1. \A id \in Ids : valid[w][id] \subseteq Cached /\ valid[0][id] \subseteq Cached
      BY <1>1 DEF RankTypes
    <3>2. \A id \in Ids : \A m \in Cached : m \in valid[0][id] <=> m \in valid[w][id]
      BY <1>1, <2>3 DEF Agree
    <3>. QED
      BY <1>3, <3>1, <3>2 DEF Same
  <2>6. Place(w)'
    <3>1. PICK t : t = Setup(valid[0][c[1]])
      OBVIOUS
    <3>2. t = todo'[0] /\ Len(t) \in Nat /\ t = Setup(valid[w][Id(0)])'
      BY <1>2, <1>4, <1>5, <2>5, <3>1, SetupFacts
    <3>3. ASSUME NEW skip \in {1, 2}, Len(down'[w]) = skip
          PROVE  Stream(w, skip, t)'
      <4>1. skip <= skip /\ skip + Len(t) = skip + Len(t)
        BY <3>2
      <4>2. skip + 1 .. skip = {}
        OBVIOUS
      <4>3. \A i \in 1 .. Len(t) : skip - skip + i = i
        BY <3>2
      <4>. QED
        BY <3>2, <3>3, <4>1, <4>2, <4>3 DEF Stream
    <3>4. ASSUME pc[w] = "listening", down[w] = << >>
          PROVE  Joining(w)'
      <4>1. Len(down'[w]) = 1 /\ Command(down[w][1])'
        BY <1>1, <1>2, <1>4, <2>2, <3>4, BroadcastFirst DEF Command
      <4>2. Stream(w, 1, Setup(valid[w][Id(0)]))'
        BY <3>2, <3>3, <4>1
      <4>. QED
        BY <1>2, <1>4, <2>1, <2>5, <3>4, <4>1, <4>2 DEF Resting, Joining
    <3>5. ASSUME pc[w] = "all_ok", Len(down[w]) = 1, Failed(w, down[w][1])
          PROVE  Joining(w)'
      <4>1. Len(down'[w]) = 2 /\ down'[w][1] = down[w][1] /\ Command(down[w][2])'
        BY <1>1, <1>2, <1>4, <2>2, <3>5, BroadcastFirst DEF Command
      <4>2. Failed(w, down[w][1])'
        BY <2>5, <3>5, <4>1 DEF Failed
      <4>3. Stream(w, 2, Setup(valid[w][Id(0)]))'
        BY <3>2, <3>3, <4>1
      <4>. QED
        BY <1>2, <1>4, <2>1, <2>5, <3>5, <4>1, <4>2, <4>3 DEF Resting, Joining
    <3>. QED
      BY <1>2, <2>1, <3>4, <3>5 DEF Resting, Place
  <2>7. Agree(w)'
    <3>1. \A id \in Ids : \A m \in Cached :
            ((m \in valid[0][id] \/ (id = Id(0) /\ Reported(w, m))) <=>
               (m \in valid[w][id] \/ (id = Id(0) /\ Coming(w, m))))'
      BY <1>2, <2>4, <2>5
    <3>2. \A d \in Calls :
            ((d = call[0] /\ Coming(w, "outputs")) \/ num_outputs[w][d] = num_outputs[0][d])'
      BY <1>1, <1>2, <2>3, <2>5 DEF Agree
    <3>3. \A id \in Ids : ("chunks" \in valid[w][id] => jobs[w][id] = jobs[0][id])'
      BY <1>1, <1>2, <1>6, <2>5 DEF Agree
    <3>4. \A id \in Ids : ("f_out" \in valid[0][id] =>
            \A j \in JobsOf(jobs[0][id], w) : f_out[w][id][j] = f_out[0][id][j])'
      BY <1>1, <1>2, <1>6, <2>5 DEF Agree, RootKnows
    <3>. QED
      BY <3>1, <3>2, <3>3, <3>4 DEF Agree
  <2>. QED
    BY <2>6, <2>7
<1>8. Types'
  BY <1>1, MapRectTypes
<1>9. Knows(0)'
  <2>1. "chunks" \in valid[0][c[1]] \/ (Len(todo'[0]) >= 1 /\ todo'[0][1] = "chunks")
    BY <1>4, SetupFacts
  <2>2. Len(todo'[0]) \in Nat
    BY <1>4, SetupFacts
  <2>3. "chunks" \in valid[0][c[1]] \/ \E i \in 1 .. Len(todo'[0]) : todo'[0][i] = "chunks"
    BY <2>1, <2>2
  <2>. QED
    BY <1>2, <1>4, <1>5, <2>3 DEF Knows
<1>10. RootKnows'
  BY <1>1, <1>2, <1>4, <1>5, <1>6 DEF RootKnows
<1>11. VerdictExact'
  BY <1>4 DEF VerdictExact
<1>. QED
  BY <1>3, <1>7, <1>8, <1>9, <1>10, <1>11, RootCollects

\* What a step of the root in a call leaves as it is.
LEMMA RootInCall ==
  ASSUME MpiInv, InCall(0)
  PROVE  /\ \A w \in Remotes : Same(w)
         /\ in_use' = in_use /\ listening' = listening /\ listening
         /\ pc'[0] # "idle" => Types'
<1>1. /\ 0 \in Ranks /\ Types /\ RankTypes /\ QueueTypes /\ RootTypes /\ RootKnows
      /\ \A w \in Remotes : w \in Ranks /\ w # 0
  BY RootBase
<1>2. (\A q \in Ranks \ {0} : Same(q)) /\ in_use' = in_use /\ listening' = listening
  BY <1>1, OneRank
<1>3. RankTypes' /\ QueueTypes'
  BY <1>1, InCallRankTypes, InCallQueueTypes
<1>4. pc[0] # "idle"
  BY DEF InCall, Distribute, Evaluate, FirstOk, AllOk, Outputs, FOut, Result, Status
<1>5. listening
  BY <1>1, <1>4 DEF RootKnows, RootTypes
<1>6. pc'[0] # "idle" => RootTypes'
  BY <1>1, <1>2, <1>4 DEF RootTypes
<1>. QED
  BY <1>1, <1>2, <1>3, <1>5, <1>6, TypesPartsNext

\* The root sends the first of what it has to send.
LEMMA StreamSends ==
  ASSUME NEW w \in Remotes, NEW skip \in Nat, NEW t, Len(t) \in Nat,
         Len(down[w]) \in Nat, Len(todo[0]) \in Nat, Len(todo[0]) >= 1,
         call'[0] = call[0], jobs'[0][Id(0)'] = jobs[0][Id(0)],
         Len(down'[w]) = Len(down[w]) + 1,
         \A i \in 1 .. Len(down[w]) : down'[w][i] = down[w][i],
         down'[w][Len(down[w]) + 1] =
           [what |-> todo[0][1], call |-> call[0], value |-> jobs[0][Id(0)]],
         Len(todo'[0]) = Len(todo[0]) - 1,
         \A i \in 1 .. Len(todo[0]) - 1 : todo'[0][i] = todo[0][i + 1],
         Stream(w, skip, t)
  PROVE  Stream(w, skip, t)'
<1>p. PICK n \in Nat, l \in Nat, z \in Nat :
        n = Len(down[w]) /\ l = Len(todo[0]) /\ l >= 1 /\ z = Len(t)
  OBVIOUS
<1>0. /\ l >= 1 /\ Len(down'[w]) = n + 1 /\ \A i \in 1 .. n : down'[w][i] = down[w][i]
      /\ down'[w][n + 1] = [what |-> todo[0][1], call |-> call[0], value |-> jobs[0][Id(0)]]
      /\ Len(todo'[0]) = l - 1 /\ \A i \in 1 .. l - 1 : todo'[0][i] = todo[0][i + 1]
  BY <1>p
<1>1. skip <= n /\ n + l = skip + z
  BY <1>p DEF Stream
<1>2. skip <= n + 1 /\ (n + 1) + (l - 1) = skip + z
  BY <1>0, <1>1
<1>3. ASSUME NEW i \in skip + 1 .. n + 1
      PROVE  down'[w][i] = [what |-> t[i - skip], call |-> call[0], value |-> jobs[0][Id(0)]]
  <2>1. CASE i = n + 1
    <3>1. 1 \in 1 .. l /\ n - skip + 1 = i - skip
      BY <1>0, <1>1, <2>1
    <3>2. todo[0][1] = t[n - skip + 1]
      BY <1>p, <3>1 DEF Stream
    <3>. QED
      BY <1>0, <2>1, <3>1, <3>2
  <2>2. CASE i # n + 1
    <3>1. i \in skip + 1 .. n /\ i \in 1 .. n
      BY <1>1, <2>2
    <3>. QED
      BY <1>p, <1>0, <3>1 DEF Stream
  <2>. QED
    BY <2>1, <2>2
<1>4. ASSUME NEW i \in 1 .. l - 1
      PROVE  todo'[0][i] = t[n + 1 - skip + i]
  <2>1. i + 1 \in 1 .. l /\ n - skip + (i + 1) = n + 1 - skip + i
    <3>1. \A a, b, k \in Nat : \A j \in 1 .. b - 1 :
            j + 1 \in 1 .. b /\ a - k + (j + 1) = a + 1 - k + j
      OBVIOUS
    <3>. QED
      BY <3>1
  <2>2. todo[0][i + 1] = t[n - skip + (i + 1)]
    BY <1>p, <2>1 DEF Stream
  <2>. QED
    BY <1>0, <2>1, <2>2
<1>5. /\ skip <= Len(down'[w]) /\ Len(down'[w]) + Len(todo'[0]) = skip + Len(t)
      /\ \A i \in skip + 1 .. Len(down'[w]) :
           down'[w][i] = [what |-> t[i - skip], call |-> call[0], value |-> jobs[0][Id(0)]]
  BY <1>p, <1>0, <1>2, <1>3
<1>6. ASSUME NEW i \in 1 .. Len(todo'[0])
      PROVE  todo'[0][i] = t[Len(down'[w]) - skip + i]
  <2>1. Len(todo'[0]) = l - 1
    BY <1>0
  <2>2. i \in 1 .. l - 1
    BY <2>1
  <2>3. Len(down'[w]) = n + 1
    BY <1>0
  <2>4. todo'[0][i] = t[n + 1 - skip + i]
    BY <1>4, <2>2
  <2>. QED
    BY <2>3, <2>4
<1>. QED
  BY <1>5, <1>6 DEF Stream

\* It sends an item of setup_call.
LEMMA DistributeRoot ==
  ASSUME MpiInv, Distribute(0)
  PROVE  MpiInv'
<1>1. /\ 0 \in Ranks /\ Types /\ QueueTypes /\ RankTypes /\ Knows(0) /\ RootKnows
      /\ call[0] \in Calls /\ Id(0) \in Ids /\ todo[0] \in Seq(Items)
      /\ \A w \in Remotes : w \in Ranks /\ w # 0 /\ Place(w) /\ Agree(w)
  BY RootBase
<1>2. /\ \A w \in Remotes : Same(w)
      /\ pc'[0] # "idle" => Types'
  BY RootInCall DEF InCall
<1>3. /\ pc[0] = "setup" /\ todo[0] # << >> /\ up' = up /\ pc' = pc /\ call' = call
      /\ jobs' = jobs /\ f_out' = f_out /\ num_outputs' = num_outputs /\ listening' = listening
      /\ Broadcast(Message(Head(todo[0]), jobs[0][call[0][1]]))
  BY DEF Distribute
<1>. DEFINE m == todo[0][1]
<1>4. /\ m \in Items /\ Head(todo[0]) = m /\ Len(todo[0]) \in Nat /\ Len(todo[0]) >= 1
      /\ todo'[0] = Tail(todo[0]) /\ Len(todo'[0]) = Len(todo[0]) - 1
      /\ \A i \in 1 .. Len(todo[0]) - 1 : todo'[0][i] = todo[0][i + 1]
  BY <1>1, <1>3 DEF Distribute, RankTypes
<1>5. valid'[0] = [valid[0] EXCEPT ![Id(0)] = IF m \in Cached THEN @ \cup {m} ELSE @]
      /\ DOMAIN valid[0] = Ids
  BY <1>1, <1>4 DEF Distribute, Store, RankTypes, Id
<1>6. \A id \in Ids : \A k \in Cached :
        k \in valid'[0][id] <=> k \in valid[0][id] \/ (id = Id(0) /\ k = m)
  BY <1>5
<1>7. Id(0)' = Id(0) /\ m # "outputs" /\ m # "f_out"
  BY <1>3, <1>4 DEF Id, Items
<1>8. ASSUME NEW w \in Remotes
      PROVE  Place(w)' /\ Agree(w)'
  <2>1. Joining(w) /\ up[w] = << >>
    BY <1>1, <1>3 DEF Place, Joining, Working, Resting
  <2>2. Len(down[w]) \in Nat /\ (down[w] = << >> => Len(down[w]) = 0)
        /\ todo[w] \in Seq(Items)
    BY Base
  <2>3. /\ Len(down'[w]) = Len(down[w]) + 1
        /\ \A i \in 1 .. Len(down[w]) : down'[w][i] = down[w][i]
        /\ down'[w][Len(down[w]) + 1] =
             [what |-> m, call |-> call[0], value |-> jobs[0][Id(0)]]
        /\ \A what : Coming(w, what)' <=> Coming(w, what) \/ m = what
    <3>1. Message(Head(todo[0]), jobs[0][call[0][1]]) =
            [what |-> m, call |-> call[0], value |-> jobs[0][Id(0)]]
      BY <1>4 DEF Message, Id
    <3>2. PICK x : x = Message(Head(todo[0]), jobs[0][call[0][1]])
      OBVIOUS
    <3>3. Broadcast(x) /\ x.what = m
      BY <1>3, <3>1, <3>2
    <3>. HIDE DEF m
    <3>. QED
      BY <1>1, <3>1, <3>2, <3>3, BroadcastFacts
  <2>4. ASSUME NEW skip \in Nat, NEW t, Len(t) \in Nat, Stream(w, skip, t)
        PROVE  Stream(w, skip, t)'
    <3>1. jobs'[0][Id(0)'] = jobs[0][Id(0)] /\ call'[0] = call[0]
      BY <1>3, <1>7
    <3>. QED
      BY <1>4, <2>2, <2>3, <2>4, <3>1, StreamSends
  <2>5. PICK s : s = Setup(valid[w][Id(0)])
    OBVIOUS
  <2>6. /\ Len(s) \in Nat /\ Len(todo[w]) \in Nat /\ s = Setup(valid[w][Id(0)])'
        /\ todo'[w] = todo[w] /\ pc'[w] = pc[w] /\ call'[w] = call[w]
        /\ valid'[w] = valid[w] /\ num_outputs'[w] = num_outputs[w] /\ jobs'[w] = jobs[w]
    BY <1>2, <1>7, <2>2, <2>5, SetupFacts DEF Same
  <2>7. ASSUME pc[w] = "setup", call[w] = call[0], Stream(w, 0, todo[w])
        PROVE  Joining(w)'
    <3>1. PICK t : t = todo[w]
      OBVIOUS
    <3>2. Stream(w, 0, t)'
      BY <2>4, <2>6, <2>7, <3>1
    <3>3. Stream(w, 0, todo[w])'
      BY <2>6, <3>1, <3>2
    <3>. QED
      BY <1>3, <2>1, <2>6, <2>7, <3>3 DEF Joining
  <2>8. ASSUME pc[w] = "listening", Stream(w, 1, s), Command(down[w][1])
        PROVE  Joining(w)'
    <3>1. Stream(w, 1, s)'
      BY <2>4, <2>6, <2>8
    <3>2. 1 \in 1 .. Len(down[w])
      BY <2>2, <2>8 DEF Stream
    <3>3. Command(down[w][1])'
      BY <1>3, <2>3, <2>8, <3>2 DEF Command
    <3>4. Stream(w, 1, Setup(valid[w][Id(0)]))'
      BY <2>6, <3>1
    <3>. QED
      BY <1>3, <2>1, <2>6, <2>8, <3>3, <3>4 DEF Joining
  <2>9. ASSUME pc[w] = "all_ok", Stream(w, 2, s), Failed(w, down[w][1]), Command(down[w][2])
        PROVE  Joining(w)'
    <3>1. Stream(w, 2, s)'
      BY <2>4, <2>6, <2>9
    <3>2. 1 \in 1 .. Len(down[w]) /\ 2 \in 1 .. Len(down[w])
      BY <2>2, <2>9 DEF Stream
    <3>3. Failed(w, down[w][1])' /\ Command(down[w][2])'
      BY <1>3, <2>3, <2>6, <2>9, <3>2 DEF Command, Failed
    <3>4. Stream(w, 2, Setup(valid[w][Id(0)]))'
      BY <2>6, <3>1
    <3>. QED
      BY <1>3, <2>1, <2>6, <2>9, <3>3, <3>4 DEF Joining
  <2>10. Joining(w)'
    BY <2>1, <2>5, <2>7, <2>8, <2>9 DEF Joining
  <2>11. Agree(w)'
    <3>1. \A what : ~Reported(w, what) /\ ~Reported(w, what)'
      BY <1>3, <2>1 DEF Reported
    <3>2. \A id \in Ids : \A k \in Cached :
            ((k \in valid[0][id] \/ (id = Id(0) /\ Reported(w, k))) <=>
               (k \in valid[w][id] \/ (id = Id(0) /\ Coming(w, k))))'
      BY <1>1, <1>6, <1>7, <2>3, <2>6, <3>1 DEF Agree
    <3>3. \A c \in Calls :
            ((c = call[0] /\ Coming(w, "outputs")) \/ num_outputs[w][c] = num_outputs[0][c])'
      BY <1>1, <1>3, <1>7, <2>3, <2>6 DEF Agree
    <3>4. \A id \in Ids : ("chunks" \in valid[w][id] => jobs[w][id] = jobs[0][id])'
      BY <1>1, <1>3, <2>6 DEF Agree
    <3>5. \A id \in Ids : ("f_out" \in valid[0][id] =>
            \A j \in JobsOf(jobs[0][id], w) : f_out[w][id][j] = f_out[0][id][j])'
      <4>1. \A id \in Ids : "f_out" \in valid'[0][id] => "f_out" \in valid[0][id]
        BY <1>6, <1>7 DEF Cached
      <4>. QED
        BY <1>1, <1>3, <4>1 DEF Agree
    <3>. QED
      BY <3>2, <3>3, <3>4, <3>5 DEF Agree
  <2>. QED
    BY <2>10, <2>11 DEF Place
<1>9. Types'
  BY <1>2, <1>3
<1>10. Knows(0)'
  <2>1. "chunks" \in valid'[0][Id(0)] \/ \E i \in 1 .. Len(todo'[0]) : todo'[0][i] = "chunks"
    <3>1. CASE "chunks" \in valid[0][Id(0)]
      BY <1>1, <1>5, <3>1
    <3>2. CASE \E i \in 1 .. Len(todo[0]) : todo[0][i] = "chunks"
      <4>1. PICK i \in 1 .. Len(todo[0]) : todo[0][i] = "chunks"
        BY <3>2
      <4>2. CASE i = 1
        BY <1>1, <1>5, <4>1, <4>2 DEF Cached
      <4>3. CASE i # 1
        <5>1. i - 1 \in 1 .. Len(todo[0]) - 1 /\ (i - 1) + 1 = i
          BY <1>4, <4>3
        <5>2. todo'[0][i - 1] = todo[0][(i - 1) + 1]
          BY <1>4, <5>1
        <5>. QED
          BY <1>4, <4>1, <5>1, <5>2
      <4>. QED
        BY <4>2, <4>3
    <3>. QED
      BY <1>1, <1>3, <3>1, <3>2 DEF Knows
  <2>. QED
    BY <1>3, <1>7, <2>1 DEF Knows
<1>11. RootKnows'
  <2>1. \A id \in Ids : /\ "chunks" \in valid'[0][id] => jobs[0][id] \in JobCounts
                        /\ "f_out" \in valid'[0][id] => "chunks" \in valid'[0][id]
                        /\ "f_out" \in valid[0][id] => "f_out" \in valid'[0][id]
    BY <1>1, <1>3, <1>6, <1>7 DEF RootKnows, Cached
  <2>2. \A c \in Calls : c[1] \in Ids
    BY <1>1, CallFacts
  <2>. QED
    BY <1>1, <1>3, <1>7, <2>1, <2>2 DEF RootKnows
<1>12. VerdictExact'
  BY <1>3 DEF VerdictExact
<1>. QED
  BY <1>2, <1>8, <1>9, <1>10, <1>11, <1>12, RootCollects

\* The root evaluates its jobs.
LEMMA EvaluateRoot ==
  ASSUME MpiInv, Evaluate(0)
  PROVE  MpiInv'
<1>1. /\ 0 \in Ranks /\ Types /\ QueueTypes /\ RankTypes /\ Knows(0) /\ RootKnows
      /\ call[0] \in Calls /\ Id(0) \in Ids
      /\ \A w \in Remotes : w \in Ranks /\ w # 0 /\ Place(w) /\ Agree(w) /\ Knows(w)
  BY RootBase
<1>2. /\ \A w \in Remotes : Same(w)
      /\ pc'[0] # "idle" => Types'
  BY RootInCall DEF InCall
<1>3. /\ pc[0] = "setup" /\ todo[0] = << >> /\ up' = up /\ down' = down /\ call' = call
      /\ todo' = todo /\ UNCHANGED <<valid, jobs, f_out, num_outputs>> /\ listening' = listening
  BY DEF Evaluate, caches
<1>4. pc'[0] = IF num_outputs[0][call[0]] = -1 THEN "first_ok" ELSE "result"
  BY <1>1 DEF Evaluate, Goto, RankTypes
<1>5. Id(0)' = Id(0) /\ Local(0)' = Local(0)
  BY <1>3 DEF Id, Local
<1>6. ASSUME NEW w \in Remotes
      PROVE  Place(w)' /\ Agree(w)'
  <2>1. /\ Id(w)' = Id(w) /\ (Answered(w)' <=> Answered(w))
        /\ \A what : Reply(w, what)' = Reply(w, what)
    BY <1>1, <1>2, WorkerStays
  <2>2. pc'[w] = pc[w] /\ call'[w] = call[w] /\ todo'[w] = todo[w] /\ valid'[w] = valid[w]
    BY <1>2 DEF Same
  <2>3. Joining(w) => Joining(w)'
    <3>1. \A skip, t : Stream(w, skip, t) => Stream(w, skip, t)'
      BY <1>3, <1>5 DEF Stream
    <3>2. \A m : (Command(m)' <=> Command(m)) /\ (Failed(w, m)' <=> Failed(w, m))
      BY <1>3, <2>2 DEF Command, Failed
    <3>3. pc'[0] \in {"setup", "first_ok", "result"}
      BY <1>4
    <3>. QED
      BY <1>3, <1>5, <2>2, <3>1, <3>2, <3>3 DEF Joining
  <2>4. Working(w) => Working(w)'
    <3>1. SUFFICES ASSUME call[w] = call[0], Level(w)
                   PROVE  Level(w)'
      BY <1>3, <2>2 DEF Working, Informed
    <3>2. num_outputs[w][call[0]] = num_outputs[0][call[0]]
      BY <1>1, <3>1, NothingComes DEF Agree, Level
    <3>3. pc[w] \in {"first_ok", "all_ok"} => pc'[0] = "first_ok"
      BY <1>1, <1>4, <3>1, <3>2 DEF Knows
    <3>4. pc[w] \in {"result", "status"} \/ Answered(w) => pc'[0] = "result"
      BY <1>1, <1>4, <3>1, <3>2 DEF Knows, Answered
    <3>. QED
      BY <1>3, <2>1, <2>2, <3>1, <3>3, <3>4 DEF Level, Up1, Up2
  <2>5. Place(w)'
    BY <1>1, <1>3, <2>3, <2>4 DEF Place, Resting
  <2>6. \A m : (Coming(w, m)' <=> Coming(w, m)) /\ (Reported(w, m)' <=> Reported(w, m))
    BY <1>3 DEF Coming, Reported
  <2>7. Agree(w)'
    BY <1>1, <1>2, <1>3, <2>6, AgreeRoot
  <2>. QED
    BY <2>5, <2>7
<1>7. Knows(0)'
  <2>1. DOMAIN does'[0] = Local(0) /\ (local_ok'[0] <=> \A j \in Local(0) : ~Fails(0, j)')
    <3>1. PICK behaviour \in [Local(0) -> Sizes \cup {Throws, Nested}] :
            does' = [does EXCEPT ![0] = behaviour]
      BY DEF Evaluate
    <3>2. does'[0] = behaviour
      BY <1>1, <3>1 DEF RankTypes
    <3>3. local_ok'[0] <=> \A j \in Local(0) : ~Fails(0, j)'
      BY <1>1 DEF Evaluate, RankTypes
    <3>. QED
      BY <3>2, <3>3
  <2>2. local_ok'[0] <=> JobsOk(0)'
    BY <1>5, <2>1 DEF JobsOk
  <2>3. "chunks" \in valid[0][Id(0)]
    <3>1. Len(todo[0]) = 0
      BY <1>3
    <3>. QED
      BY <1>1, <1>3, <3>1 DEF Knows
  <2>4. num_outputs[0][call[0]] # -1 => "f_out" \in valid[0][Id(0)]
    BY <1>1, <1>3 DEF RootKnows, Id
  <2>. QED
    BY <1>1, <1>3, <1>4, <1>5, <2>1, <2>2, <2>3, <2>4 DEF Knows
<1>8. RootKnows'
  BY <1>1, <1>3, <1>4, <1>5 DEF RootKnows
<1>9. VerdictExact' /\ Types'
  BY <1>2, <1>4 DEF VerdictExact
<1>. QED
  BY <1>2, <1>6, <1>7, <1>8, <1>9, RootCollects

\* What a step that evaluates nothing keeps of the jobs of all ranks.
LEMMA AllJobsStay ==
  ASSUME \A w \in Remotes : Same(w), SameJobs(0), 0 \in Ranks
  PROVE  \A r \in Ranks :
           /\ SameJobs(r) /\ Id(r)' = Id(r) /\ Local(r)' = Local(r)
           /\ local_f_out(r)' = local_f_out(r)
           /\ (JobsOk(r)' <=> JobsOk(r)) /\ \A j : Fails(r, j)' <=> Fails(r, j)
<1>1. SUFFICES ASSUME NEW r \in Ranks
               PROVE  SameJobs(r)
  BY JobsStay DEF SameJobs, Id
<1>. QED
  BY DEF Remotes, Same, SameJobs

\* It learns whether the jobs of all ranks succeeded.
LEMMA FirstOkRoot ==
  ASSUME MpiInv, FirstOk(0)
  PROVE  MpiInv'
<1>1. /\ 0 \in Ranks /\ Types /\ QueueTypes /\ RankTypes /\ Knows(0) /\ RootKnows
      /\ call[0] \in Calls /\ Id(0) \in Ids
      /\ \A w \in Remotes : w \in Ranks /\ w # 0 /\ Place(w) /\ Agree(w) /\ Knows(w)
  BY RootBase
<1>2. /\ \A w \in Remotes : Same(w)
      /\ pc'[0] # "idle" => Types'
  BY RootInCall DEF InCall
<1>3. /\ pc[0] = "first_ok" /\ AllUp /\ TakeUp /\ down' = down /\ call' = call
      /\ todo' = todo /\ does' = does /\ UNCHANGED <<valid, jobs, f_out, num_outputs>>
      /\ listening' = listening
  BY DEF FirstOk, caches
<1>4. /\ pc'[0] = "all_ok"
      /\ local_ok'[0] <=> local_ok[0] /\ \A w \in Remotes : Head(up[w]).value
  BY <1>1 DEF FirstOk, Goto, RankTypes
<1>5. \A r \in Ranks : SameJobs(r) /\ Id(r)' = Id(r) /\ Local(r)' = Local(r)
                       /\ (JobsOk(r)' <=> JobsOk(r))
  <2>1. SameJobs(0)
    BY <1>3 DEF SameJobs
  <2>. QED
    BY <1>1, <1>2, <2>1, AllJobsStay
<1>6. ASSUME NEW w \in Remotes
      PROVE  /\ pc[w] = "all_ok" /\ Up1(w, "first_ok") /\ call[w] = call[0] /\ todo[0] = << >>
             /\ down[w] = << >> /\ Head(up[w]) = up[w][1] /\ up'[w] = << >>
             /\ \A x : Reported(w, x) <=> Reported(w, x)' \/ x = "first_ok"
  <2>1. up[w] # << >> /\ Head(up[w]) = up[w][1] /\ (Len(up[w]) = 1 => up'[w] = << >>)
        /\ \A x : Reported(w, x) <=> Reported(w, x)' \/ up[w][1].what = x
    BY <1>1, <1>3, TakeFacts
  <2>2. /\ pc[w] = "all_ok" /\ Up1(w, "first_ok") /\ call[w] = call[0] /\ todo[0] = << >>
        /\ down[w] = << >>
    BY <1>1, <1>3, <2>1 DEF Place, Joining, Working, Resting, Informed, Level
  <2>. QED
    BY <2>1, <2>2 DEF Up1, Reply
<1>7. ASSUME NEW w \in Remotes
      PROVE  Place(w)' /\ Agree(w)'
  <2>1. pc'[w] = pc[w] /\ call'[w] = call[w]
    BY <1>2 DEF Same
  <2>2. Place(w)'
    BY <1>3, <1>4, <1>6, <2>1 DEF Place, Working, Level
  <2>3. \A m : Coming(w, m)' <=> Coming(w, m)
    BY <1>3 DEF Coming
  <2>4. \A m \in Cached : Reported(w, m)' <=> Reported(w, m)
    BY <1>6 DEF Cached
  <2>5. Agree(w)'
    BY <1>1, <1>2, <1>3, <2>3, <2>4, AgreeRoot
  <2>. QED
    BY <2>2, <2>5
<1>8. Knows(0)'
  BY <1>1, <1>3, <1>4, <1>5 DEF Knows
<1>9. RootKnows'
  <2>1. local_ok'[0] <=> \A r \in Ranks : JobsOk(r)
    <3>1. \A w \in Remotes : Head(up[w]).value <=> JobsOk(w)
      <4>1. ASSUME NEW w \in Remotes
            PROVE  Head(up[w]).value <=> JobsOk(w)
        <5>1. Head(up[w]).value = local_ok[w]
          <6>1. Reply(w, "first_ok").value = local_ok[w]
            BY DEF Reply
          <6>2. Head(up[w]) = Reply(w, "first_ok")
            BY <1>6 DEF Up1
          <6>. QED
            BY <6>1, <6>2
        <5>2. local_ok[w] <=> JobsOk(w)
          BY <1>1, <1>6 DEF Knows
        <5>. QED
          BY <5>1, <5>2
      <4>. QED
        BY <4>1
    <3>2. local_ok[0] <=> JobsOk(0)
      BY <1>1, <1>3 DEF Knows
    <3>3. \A r \in Ranks : r = 0 \/ r \in Remotes
      BY DEF Remotes
    <3>. QED
      BY <1>1, <1>4, <3>1, <3>2, <3>3
  <2>. QED
    BY <1>1, <1>3, <1>4, <1>5, <2>1 DEF RootKnows
<1>10. VerdictExact' /\ Types'
  BY <1>2, <1>4 DEF VerdictExact
<1>. QED
  BY <1>2, <1>7, <1>8, <1>9, <1>10, RootCollects

\* A worker in the root's call has the jobs that the root divides among the ranks.
LEMMA SameChunks ==
  ASSUME MpiInv, NEW w \in Remotes, call[w] = call[0], "chunks" \in valid[w][Id(w)]
  PROVE  Local(w) = JobsOf(jobs[0][Id(0)], w) /\ Id(w) = Id(0)
<1>1. Id(w) = Id(0) /\ Id(0) \in Ids /\ Agree(w)
  BY Base DEF Id
<1>2. jobs[w][Id(w)] = jobs[0][Id(0)]
  BY <1>1 DEF Agree
<1>. QED
  BY <1>1, <1>2 DEF Local, Id

\* It says whether the jobs of all ranks succeeded, and throws if not.
LEMMA AllOkRoot ==
  ASSUME MpiInv, AllOk(0)
  PROVE  MpiInv'
<1>1. /\ 0 \in Ranks /\ Types /\ QueueTypes /\ RankTypes /\ Knows(0) /\ RootKnows
      /\ call[0] \in Calls /\ Id(0) \in Ids
      /\ \A w \in Remotes : w \in Ranks /\ w # 0 /\ Place(w) /\ Agree(w) /\ Knows(w)
  BY RootBase
<1>2. /\ \A w \in Remotes : Same(w)
      /\ listening' /\ (pc'[0] # "idle" => Types')
  BY RootInCall DEF InCall
<1>3. /\ pc[0] = "all_ok" /\ Broadcast(Message("all_ok", local_ok[0])) /\ up' = up /\ call' = call
      /\ todo' = todo /\ does' = does /\ UNCHANGED <<valid, jobs, f_out, num_outputs>>
      /\ local_ok' = local_ok
  BY DEF AllOk, caches
<1>4. /\ pc'[0] = (IF local_ok[0] THEN "outputs" ELSE "throws") /\ local_ok[0] \in BOOLEAN
  BY <1>1 DEF AllOk, Goto, RankTypes
<1>5. \A r \in Ranks : SameJobs(r) /\ Id(r)' = Id(r) /\ Local(r)' = Local(r)
                       /\ (JobsOk(r)' <=> JobsOk(r)) /\ \A j : Fails(r, j)' <=> Fails(r, j)
  <2>1. SameJobs(0)
    BY <1>3 DEF SameJobs
  <2>. QED
    BY <1>1, <1>2, <2>1, AllJobsStay
<1>6. ASSUME NEW w \in Remotes
      PROVE  /\ pc[w] = "all_ok" /\ up[w] = << >> /\ call[w] = call[0] /\ todo[0] = << >>
             /\ down[w] = << >>
  BY <1>1, <1>3 DEF Place, Joining, Working, Resting, Informed, Level, Answered
<1>7. ASSUME NEW w \in Remotes
      PROVE  Place(w)' /\ Agree(w)'
  <2>1. pc'[w] = pc[w] /\ call'[w] = call[w]
    BY <1>2 DEF Same
  <2>2. Len(down'[w]) = 1 /\ down'[w][1] = Message("all_ok", local_ok[0])
    <3>1. Len(down[w]) = 0
      BY <1>6
    <3>. QED
      BY <1>1, <1>3, <3>1, BroadcastFirst
  <2>3. ASSUME local_ok[0]
        PROVE  Informed(w)'
    <3>1. AllWell(down[w][1])'
      BY <1>3, <1>4, <2>2, <2>3 DEF AllWell, Message
    <3>. QED
      BY <1>3, <1>4, <1>6, <2>1, <2>2, <2>3, <3>1 DEF Informed
  <2>4. ASSUME ~local_ok[0]
        PROVE  Resting(w)'
    <3>1. Failed(w, down[w][1])'
      BY <1>3, <1>4, <1>6, <2>1, <2>2, <2>4 DEF Failed, Message
    <3>. QED
      BY <1>2, <1>3, <1>4, <1>6, <2>1, <2>2, <2>4, <3>1 DEF Resting
  <2>5. Place(w)'
    BY <1>3, <1>6, <2>1, <2>3, <2>4 DEF Place, Working
  <2>6. \A m : Reported(w, m)' <=> Reported(w, m)
    BY <1>3 DEF Reported
  <2>7. \A m \in Cached \cup {"outputs"} : Coming(w, m)' <=> Coming(w, m)
    <3>1. \A what :
            Coming(w, what)' <=> Coming(w, what) \/ Message("all_ok", local_ok[0]).what = what
      BY <1>1, <1>3, BroadcastFacts
    <3>. QED
      BY <3>1 DEF Cached, Message
  <2>8. Agree(w)'
    BY <1>1, <1>2, <1>3, <2>6, <2>7, AgreeRoot
  <2>. QED
    BY <2>5, <2>8
<1>8. local_ok[0] <=> \A r \in Ranks : JobsOk(r)
  BY <1>1, <1>3 DEF RootKnows
<1>9. Knows(0)'
  BY <1>1, <1>3, <1>4, <1>5, <1>8 DEF Knows
<1>10. RootKnows'
  BY <1>1, <1>2, <1>3, <1>4, <1>5, <1>8 DEF RootKnows
<1>11. VerdictExact'
  <2>1. SUFFICES ASSUME ~local_ok[0]
                 PROVE  \E r \in Ranks : \E j \in JobsOf(jobs'[0][Id(0)'], r) : Fails(r, j)'
    BY <1>4 DEF VerdictExact, Id
  <2>2. PICK r \in Ranks : \E j \in Local(r) : Fails(r, j)
    BY <1>8, <2>1 DEF JobsOk
  <2>3. Local(r) = JobsOf(jobs[0][Id(0)], r)
    <3>1. CASE r = 0
      BY <3>1 DEF Local, Id
    <3>2. CASE r # 0
      <4>1. r \in Remotes
        BY <3>2 DEF Remotes
      <4>2. call[r] = call[0] /\ "chunks" \in valid[r][Id(r)]
        BY <1>1, <1>6, <4>1 DEF Knows
      <4>. QED
        BY <4>1, <4>2, SameChunks
    <3>. QED
      BY <3>1, <3>2
  <2>. QED
    BY <1>1, <1>3, <1>5, <2>2, <2>3
<1>12. Types'
  BY <1>2, <1>4
<1>. QED
  BY <1>2, <1>7, <1>9, <1>10, <1>11, <1>12, RootCollects

\* It sends the rows of the outputs.
LEMMA OutputsRoot ==
  ASSUME MpiInv, Outputs(0)
  PROVE  MpiInv'
<1>1. /\ 0 \in Ranks /\ Types /\ QueueTypes /\ RankTypes /\ Knows(0) /\ RootKnows
      /\ call[0] \in Calls /\ Id(0) \in Ids
      /\ \A w \in Remotes : w \in Ranks /\ w # 0 /\ Place(w) /\ Agree(w) /\ Knows(w)
  BY RootBase
<1>2. /\ \A w \in Remotes : Same(w)
      /\ (pc'[0] # "idle" => Types') /\ listening'
  BY RootInCall DEF InCall
<1>3. /\ pc[0] = "outputs" /\ up' = up /\ call' = call
      /\ todo' = todo /\ does' = does /\ UNCHANGED <<valid, jobs, f_out>> /\ local_ok' = local_ok
  BY DEF Outputs
<1>4. Local(0) # {}
  <2>1. jobs[0][Id(0)] \in JobCounts
    BY <1>1, <1>3 DEF RootKnows
  <2>2. jobs[0][Id(0)] \in Nat /\ jobs[0][Id(0)] # 0
    BY <2>1, MpiAssumption
  <2>3. JobsOf(jobs[0][Id(0)], 0) # {}
    BY <1>1, <2>2, ChunksDisjoint
  <2>. QED
    BY <2>3 DEF Local, Id
<1>5. /\ Broadcast(Message("outputs", 1))
      /\ num_outputs'[0] = [num_outputs[0] EXCEPT ![call[0]] = 1] /\ DOMAIN num_outputs[0] = Calls
      /\ pc'[0] = IF "f_out" \in valid[0][Id(0)] THEN "result" ELSE "f_out"
  BY <1>1, <1>4 DEF Outputs, Goto, RankTypes, Id
<1>6. \A r \in Ranks : SameJobs(r) /\ Id(r)' = Id(r) /\ Local(r)' = Local(r)
                       /\ (JobsOk(r)' <=> JobsOk(r))
  <2>1. SameJobs(0)
    BY <1>3 DEF SameJobs
  <2>. QED
    BY <1>1, <1>2, <2>1, AllJobsStay
<1>7. ASSUME NEW w \in Remotes
      PROVE  Place(w)' /\ Agree(w)'
  <2>1. /\ pc'[w] = pc[w] /\ call'[w] = call[w] /\ valid'[w] = valid[w] /\ jobs'[w] = jobs[w]
        /\ num_outputs'[w] = num_outputs[w] /\ f_out'[w] = f_out[w]
    BY <1>2 DEF Same
  <2>2. up[w] = << >> /\ call[w] = call[0] /\ todo[0] = << >> /\ Working(w)
    BY <1>1, <1>3 DEF Place, Joining, Working, Resting, Informed, Level
  <2>3. \A m : Rows(m)' <=> m = Message("outputs", 1)
    BY <1>1, <1>3, <1>5 DEF Rows, Message
  <2>4. ASSUME pc[w] = "all_ok", Len(down[w]) = 1, AllWell(down[w][1])
        PROVE  Informed(w)'
    <3>1. Len(down'[w]) = 2 /\ down'[w][1] = down[w][1] /\ down'[w][2] = Message("outputs", 1)
      BY <1>1, <1>5, <2>4, BroadcastFirst
    <3>2. AllWell(down[w][1])'
      BY <1>3, <2>4, <3>1 DEF AllWell
    <3>3. Rows(down[w][2])'
      BY <2>3, <3>1
    <3>. QED
      BY <1>3, <1>5, <2>1, <2>2, <2>4, <3>1, <3>2, <3>3 DEF Informed
  <2>5. ASSUME pc[w] = "outputs", down[w] = << >>
        PROVE  Informed(w)'
    <3>1. Len(down'[w]) = 1 /\ down'[w][1] = Message("outputs", 1)
      <4>1. Len(down[w]) = 0
        BY <2>5
      <4>. QED
        BY <1>1, <1>5, <4>1, BroadcastFirst
    <3>2. Rows(down[w][1])'
      BY <2>3, <3>1
    <3>. QED
      BY <1>3, <1>5, <2>1, <2>2, <2>5, <3>1, <3>2 DEF Informed
  <2>6. Informed(w)'
    BY <1>3, <2>2, <2>4, <2>5 DEF Working, Informed, Level
  <2>7. Place(w)'
    BY <1>3, <2>1, <2>2, <2>6 DEF Place, Working
  <2>8. \A what : Coming(w, what)' <=> Coming(w, what) \/ what = "outputs"
    <3>1. \A what : Coming(w, what)' <=> Coming(w, what) \/ Message("outputs", 1).what = what
      BY <1>1, <1>5, BroadcastFacts
    <3>. QED
      BY <3>1 DEF Message
  <2>9. Agree(w)'
    <3>1. \A m : Reported(w, m)' <=> Reported(w, m)
      BY <1>3 DEF Reported
    <3>2. \A id \in Ids : \A m \in Cached :
            ((m \in valid[0][id] \/ (id = Id(0) /\ Reported(w, m))) <=>
               (m \in valid[w][id] \/ (id = Id(0) /\ Coming(w, m))))'
      BY <1>1, <1>3, <1>6, <2>1, <2>8, <3>1 DEF Agree, Cached
    <3>3. \A c \in Calls :
            ((c = call[0] /\ Coming(w, "outputs")) \/ num_outputs[w][c] = num_outputs[0][c])'
      BY <1>1, <1>3, <1>5, <2>1, <2>8 DEF Agree
    <3>4. \A id \in Ids : ("chunks" \in valid[w][id] => jobs[w][id] = jobs[0][id])'
      BY <1>1, <1>3, <2>1 DEF Agree
    <3>5. \A id \in Ids : ("f_out" \in valid[0][id] =>
            \A j \in JobsOf(jobs[0][id], w) : f_out[w][id][j] = f_out[0][id][j])'
      BY <1>1, <1>3, <2>1 DEF Agree
    <3>. QED
      BY <3>2, <3>3, <3>4, <3>5 DEF Agree
  <2>. QED
    BY <2>7, <2>9
<1>8. Knows(0)'
  BY <1>1, <1>3, <1>5, <1>6 DEF Knows
<1>9. RootKnows'
  <2>1. \A c \in Calls : num_outputs'[0][c] = IF c = call[0] THEN 1 ELSE num_outputs[0][c]
    BY <1>5
  <2>. QED
    BY <1>1, <1>2, <1>3, <1>5, <1>6, <2>1 DEF RootKnows, Id
<1>10. VerdictExact' /\ Types'
  BY <1>2, <1>5 DEF VerdictExact
<1>. QED
  BY <1>2, <1>7, <1>8, <1>9, <1>10, RootCollects

\* It gathers the sizes of all outputs.
LEMMA FOutRoot ==
  ASSUME MpiInv, FOut(0)
  PROVE  MpiInv'
<1>1. /\ 0 \in Ranks /\ Types /\ QueueTypes /\ RankTypes /\ Knows(0) /\ RootKnows
      /\ call[0] \in Calls /\ Id(0) \in Ids
      /\ \A w \in Remotes : w \in Ranks /\ w # 0 /\ Place(w) /\ Agree(w) /\ Knows(w)
  BY RootBase
<1>2. /\ \A w \in Remotes : Same(w)
      /\ (pc'[0] # "idle" => Types') /\ listening'
  BY RootInCall DEF InCall
<1>3. /\ pc[0] = "f_out" /\ AllUp /\ TakeUp /\ down' = down /\ call' = call
      /\ todo' = todo /\ does' = does /\ local_ok' = local_ok /\ UNCHANGED <<jobs, num_outputs>>
  BY DEF FOut
<1>. DEFINE n == jobs[0][Id(0)]
            all == [j \in 1 .. n |->
                      IF j \in Local(0) THEN local_f_out(0)[j]
                      ELSE LET w == CHOOSE q \in Remotes : j \in JobsOf(n, q)
                           IN Head(up[w]).value[j]]
<1>4. /\ pc'[0] = "result"
      /\ valid'[0] = [valid[0] EXCEPT ![Id(0)] = @ \cup {"f_out"}] /\ DOMAIN valid[0] = Ids
      /\ f_out'[0] = [f_out[0] EXCEPT ![Id(0)] = all] /\ DOMAIN f_out[0] = Ids
  BY <1>1 DEF FOut, Goto, Store, RankTypes, Id, Cached
<1>5. \A id \in Ids : \A m \in Cached :
        m \in valid'[0][id] <=> m \in valid[0][id] \/ (id = Id(0) /\ m = "f_out")
  BY <1>4
<1>6. \A r \in Ranks : SameJobs(r) /\ Id(r)' = Id(r) /\ Local(r)' = Local(r)
                       /\ (JobsOk(r)' <=> JobsOk(r))
  <2>1. SameJobs(0)
    BY <1>3 DEF SameJobs
  <2>. QED
    BY <1>1, <1>2, <2>1, AllJobsStay
<1>7. ASSUME NEW w \in Remotes
      PROVE  /\ call[w] = call[0] /\ todo[0] = << >> /\ down[w] = << >>
             /\ \/ pc[w] = "result" /\ Up1(w, "f_out")
                \/ pc[w] = "status" /\ Up2(w, "f_out", "result")
                \/ Answered(w) /\ Up3(w, "f_out", "result", "status")
  <2>1. up[w] # << >>
    BY <1>1, <1>3, TakeFacts
  <2>. QED
    BY <1>1, <1>3, <2>1 DEF Place, Joining, Working, Resting, Informed, Level
<1>8. ASSUME NEW w \in Remotes
      PROVE  /\ up[w][1] = Reply(w, "f_out") /\ Head(up[w]) = up[w][1]
             /\ Head(up[w]).value = f_out[w][Id(0)]
  <2>1. up[w][1] = Reply(w, "f_out") /\ Head(up[w]) = up[w][1]
    BY <1>1, <1>3, <1>7, TakeFacts DEF Up1, Up2, Up3
  <2>2. Reply(w, "f_out").value = f_out[w][Id(w)] /\ Id(w) = Id(0)
    BY <1>7 DEF Reply, Id
  <2>. QED
    BY <2>1, <2>2
<1>9. ASSUME NEW w \in Remotes, NEW j \in JobsOf(n, w)
      PROVE  f_out'[0][Id(0)][j] = f_out[w][Id(0)][j]
  <2>1. n \in Nat
    BY <1>1, <1>3, MpiAssumption DEF RootKnows
  <2>2. /\ JobsOf(n, w) \subseteq 1 .. n
        /\ \A r \in Ranks : r # w => JobsOf(n, r) \cap JobsOf(n, w) = {}
    BY <1>1, <2>1, ChunksDisjoint
  <2>3. j \in 1 .. n /\ \A r \in Ranks : j \in JobsOf(n, r) <=> r = w
    BY <1>9, <2>2
  <2>4. j \notin Local(0)
    BY <1>1, <2>3 DEF Local, Id
  <2>5. (CHOOSE q \in Remotes : j \in JobsOf(n, q)) = w
    BY <1>1, <2>3
  <2>6. all[j] = Head(up[w]).value[j]
    BY <2>3, <2>4, <2>5
  <2>. QED
    BY <1>1, <1>4, <1>8, <2>6
<1>. HIDE DEF all
<1>10. ASSUME NEW w \in Remotes
       PROVE  Place(w)' /\ Agree(w)'
  <2>1. /\ pc'[w] = pc[w] /\ call'[w] = call[w] /\ valid'[w] = valid[w] /\ jobs'[w] = jobs[w]
        /\ num_outputs'[w] = num_outputs[w] /\ f_out'[w] = f_out[w]
    BY <1>2 DEF Same
  <2>2. (Answered(w)' <=> Answered(w)) /\ \A what : Reply(w, what)' = Reply(w, what)
    BY <1>1, <1>2, WorkerStays
  <2>3. /\ Len(up'[w]) = Len(up[w]) - 1
        /\ \A i \in 1 .. Len(up[w]) - 1 : up'[w][i] = up[w][i + 1]
        /\ Len(up[w]) = 1 => up'[w] = << >>
        /\ \A x : Reported(w, x) <=> Reported(w, x)' \/ x = "f_out"
    <3>1. up[w][1].what = "f_out"
      <4>1. Reply(w, "f_out").what = "f_out"
        BY DEF Reply
      <4>. QED
        BY <1>8, <4>1
    <3>. QED
      BY <1>1, <1>3, <3>1, TakeFacts
  <2>4. Up2(w, "f_out", "result") => Up1(w, "result")'
    <3>1. 2 - 1 = 1 /\ 1 \in 1 .. 2 - 1 /\ 1 + 1 = 2
      OBVIOUS
    <3>. QED
      BY <2>2, <2>3, <3>1 DEF Up1, Up2
  <2>5. Up3(w, "f_out", "result", "status") => Up2(w, "result", "status")'
    <3>1. 3 - 1 = 2 /\ 1 \in 1 .. 3 - 1 /\ 2 \in 1 .. 3 - 1 /\ 1 + 1 = 2 /\ 2 + 1 = 3
      OBVIOUS
    <3>. QED
      BY <2>2, <2>3, <3>1 DEF Up2, Up3
  <2>6. Level(w)'
    BY <1>3, <1>4, <1>7, <2>1, <2>2, <2>3, <2>4, <2>5 DEF Level, Up1
  <2>7. Place(w)'
    BY <1>3, <1>7, <2>1, <2>6 DEF Place, Working
  <2>8. Agree(w)'
    <3>1. \A m : ~Coming(w, m) /\ ~Coming(w, m)'
      BY <1>3, <1>7 DEF Coming
    <3>2. \A m \in Cached : Reported(w, m)' => m = "f_out"
      <4>1. /\ pc[w] = "result" => up'[w] = << >>
            /\ pc[w] = "status" => Up1(w, "result")'
            /\ pc[w] = "listening" => Up2(w, "result", "status")'
        BY <1>7, <2>3, <2>4, <2>5 DEF Up1, Answered
      <4>2. up'[w] = << >> => \A m : ~Reported(w, m)'
        BY DEF Reported
      <4>3. Up1(w, "result")' => \A m : Reported(w, m)' => m = "result"
        <5>1. \A i \in 1 .. 1 : i = 1
          OBVIOUS
        <5>. QED
          BY <5>1 DEF Reported, Up1, Reply
      <4>4. Up2(w, "result", "status")' => \A m : Reported(w, m)' => m \in {"result", "status"}
        <5>1. \A i \in 1 .. 2 : i = 1 \/ i = 2
          OBVIOUS
        <5>. QED
          BY <5>1 DEF Reported, Up2, Reply
      <4>5. pc[w] \in {"result", "status", "listening"}
        BY <1>7 DEF Answered
      <4>. QED
        BY <4>1, <4>2, <4>3, <4>4, <4>5 DEF Cached
    <3>3. \A id \in Ids : \A m \in Cached :
            ((m \in valid[0][id] \/ (id = Id(0) /\ Reported(w, m))) <=>
               (m \in valid[w][id] \/ (id = Id(0) /\ Coming(w, m))))'
      BY <1>1, <1>5, <1>6, <2>1, <2>3, <3>1, <3>2 DEF Agree
    <3>4. \A c \in Calls :
            ((c = call[0] /\ Coming(w, "outputs")) \/ num_outputs[w][c] = num_outputs[0][c])'
      BY <1>1, <1>3, <2>1, <3>1 DEF Agree
    <3>5. \A id \in Ids : ("chunks" \in valid[w][id] => jobs[w][id] = jobs[0][id])'
      BY <1>1, <1>3, <2>1 DEF Agree
    <3>6. \A id \in Ids : ("f_out" \in valid[0][id] =>
            \A j \in JobsOf(jobs[0][id], w) : f_out[w][id][j] = f_out[0][id][j])'
      <4>1. SUFFICES ASSUME NEW id \in Ids, "f_out" \in valid'[0][id],
                            NEW j \in JobsOf(jobs[0][id], w)
                     PROVE  f_out[w][id][j] = f_out'[0][id][j]
        BY <1>3, <2>1
      <4>2. CASE id = Id(0)
        BY <1>9, <4>2
      <4>3. CASE id # Id(0)
        <5>1. f_out'[0][id] = f_out[0][id] /\ "f_out" \in valid[0][id]
          BY <1>4, <1>5, <4>1, <4>3 DEF Cached
        <5>. QED
          BY <1>1, <5>1 DEF Agree
      <4>. QED
        BY <4>2, <4>3
    <3>. QED
      BY <3>3, <3>4, <3>5, <3>6 DEF Agree
  <2>. QED
    BY <2>7, <2>8
<1>11. "f_out" \in valid'[0][Id(0)] /\ "chunks" \in valid[0][Id(0)] /\ "chunks" \in valid'[0][Id(0)]
  BY <1>1, <1>3, <1>5 DEF Knows, Cached
<1>12. Knows(0)'
  BY <1>1, <1>3, <1>4, <1>6, <1>11 DEF Knows
<1>13. RootKnows'
  <2>1. \A id \in Ids : /\ "chunks" \in valid'[0][id] <=> "chunks" \in valid[0][id]
                        /\ "f_out" \in valid'[0][id] <=> "f_out" \in valid[0][id] \/ id = Id(0)
    BY <1>5 DEF Cached
  <2>2. \A c \in Calls : c[1] \in Ids
    BY <1>1, CallFacts
  <2>. QED
    BY <1>1, <1>2, <1>3, <1>4, <1>6, <1>11, <2>1, <2>2 DEF RootKnows, Id
<1>14. VerdictExact' /\ Types'
  BY <1>2, <1>4 DEF VerdictExact
<1>. QED
  BY <1>2, <1>10, <1>12, <1>13, <1>14, RootCollects

\* It gathers the outputs.
LEMMA ResultRoot ==
  ASSUME MpiInv, Result(0)
  PROVE  MpiInv'
<1>1. /\ 0 \in Ranks /\ Types /\ QueueTypes /\ RankTypes /\ Knows(0) /\ RootKnows
      /\ call[0] \in Calls /\ Id(0) \in Ids
      /\ \A w \in Remotes : w \in Ranks /\ w # 0 /\ Place(w) /\ Agree(w) /\ Knows(w)
  BY RootBase
<1>2. /\ \A w \in Remotes : Same(w)
      /\ (pc'[0] # "idle" => Types') /\ listening'
  BY RootInCall DEF InCall
<1>3. /\ pc[0] = "result" /\ AllUp /\ TakeUp /\ down' = down /\ call' = call
      /\ todo' = todo /\ does' = does /\ UNCHANGED <<valid, jobs, f_out, num_outputs>>
  BY DEF Result, caches
<1>4. pc'[0] = "status" /\ (local_ok'[0] <=> local_ok[0] /\ SizesOk(0))
  BY <1>1 DEF Result, Goto, RankTypes, SizesOk, Id
<1>5. \A r \in Ranks : SameJobs(r) /\ Id(r)' = Id(r) /\ Local(r)' = Local(r)
                       /\ (JobsOk(r)' <=> JobsOk(r))
  <2>1. SameJobs(0)
    BY <1>3 DEF SameJobs
  <2>. QED
    BY <1>1, <1>2, <2>1, AllJobsStay
<1>6. ASSUME NEW w \in Remotes
      PROVE  /\ call[w] = call[0] /\ todo[0] = << >> /\ down[w] = << >>
             /\ \/ pc[w] = "status" /\ Up1(w, "result")
                \/ Answered(w) /\ Up2(w, "result", "status")
  <2>1. up[w] # << >>
    BY <1>1, <1>3, TakeFacts
  <2>. QED
    BY <1>1, <1>3, <2>1 DEF Place, Joining, Working, Resting, Informed, Level
<1>7. ASSUME NEW w \in Remotes
      PROVE  Place(w)' /\ Agree(w)'
  <2>1. pc'[w] = pc[w] /\ call'[w] = call[w]
    BY <1>2 DEF Same
  <2>2. (Answered(w)' <=> Answered(w)) /\ \A what : Reply(w, what)' = Reply(w, what)
    BY <1>1, <1>2, WorkerStays
  <2>3. /\ Len(up'[w]) = Len(up[w]) - 1
        /\ \A i \in 1 .. Len(up[w]) - 1 : up'[w][i] = up[w][i + 1]
        /\ Len(up[w]) = 1 => up'[w] = << >>
        /\ \A x : Reported(w, x) <=> Reported(w, x)' \/ x = "result"
    <3>1. up[w][1].what = "result"
      <4>1. Reply(w, "result").what = "result"
        BY DEF Reply
      <4>. QED
        BY <1>6, <4>1 DEF Up1, Up2
    <3>. QED
      BY <1>1, <1>3, <3>1, TakeFacts
  <2>4. Up2(w, "result", "status") => Up1(w, "status")'
    <3>1. 2 - 1 = 1 /\ 1 \in 1 .. 2 - 1 /\ 1 + 1 = 2
      OBVIOUS
    <3>. QED
      BY <2>2, <2>3, <3>1 DEF Up1, Up2
  <2>5. Level(w)'
    BY <1>3, <1>4, <1>6, <2>1, <2>2, <2>3, <2>4 DEF Level, Up1
  <2>6. Place(w)'
    BY <1>3, <1>6, <2>1, <2>5 DEF Place, Working
  <2>7. \A m : Coming(w, m)' <=> Coming(w, m)
    BY <1>3 DEF Coming
  <2>8. \A m \in Cached : Reported(w, m)' <=> Reported(w, m)
    BY <2>3 DEF Cached
  <2>9. Agree(w)'
    BY <1>1, <1>2, <1>3, <2>7, <2>8, AgreeRoot
  <2>. QED
    BY <2>6, <2>9
<1>8. Knows(0)'
  <2>1. SizesOk(0)' <=> SizesOk(0)
    BY <1>1, <1>3, <1>5, SizesStay
  <2>. QED
    BY <1>1, <1>3, <1>4, <1>5, <2>1 DEF Knows
<1>9. RootKnows'
  BY <1>1, <1>2, <1>3, <1>4, <1>5 DEF RootKnows
<1>10. VerdictExact' /\ Types'
  BY <1>2, <1>4 DEF VerdictExact
<1>. QED
  BY <1>2, <1>7, <1>8, <1>9, <1>10, RootCollects

\* It learns how all ranks ended, and combines their outputs or throws.
LEMMA StatusRoot ==
  ASSUME MpiInv, Status(0)
  PROVE  MpiInv'
<1>1. /\ 0 \in Ranks /\ Types /\ QueueTypes /\ RankTypes /\ Knows(0) /\ RootKnows
      /\ call[0] \in Calls /\ Id(0) \in Ids
      /\ \A w \in Remotes : w \in Ranks /\ w # 0 /\ Place(w) /\ Agree(w) /\ Knows(w)
  BY RootBase
<1>2. /\ \A w \in Remotes : Same(w)
      /\ (pc'[0] # "idle" => Types') /\ listening'
  BY RootInCall DEF InCall
<1>3. /\ pc[0] = "status" /\ AllUp /\ TakeUp /\ down' = down /\ call' = call
      /\ todo' = todo /\ does' = does /\ UNCHANGED <<valid, jobs, f_out, num_outputs>>
      /\ local_ok' = local_ok
  BY DEF Status, caches
<1>4. pc'[0] = IF local_ok[0] /\ \A w \in Remotes : Head(up[w]).value THEN "value" ELSE "throws"
  BY <1>1, <1>3 DEF Status, Goto, RankTypes
<1>5. \A r \in Ranks : SameJobs(r) /\ Id(r)' = Id(r) /\ Local(r)' = Local(r)
                       /\ local_f_out(r)' = local_f_out(r)
                       /\ (JobsOk(r)' <=> JobsOk(r)) /\ \A j : Fails(r, j)' <=> Fails(r, j)
  <2>1. SameJobs(0)
    BY <1>3 DEF SameJobs
  <2>. QED
    BY <1>1, <1>2, <2>1, AllJobsStay
<1>6. ASSUME NEW w \in Remotes
      PROVE  /\ call[w] = call[0] /\ todo[0] = << >> /\ down[w] = << >>
             /\ Answered(w) /\ Up1(w, "status")
  <2>1. up[w] # << >>
    BY <1>1, <1>3, TakeFacts
  <2>. QED
    BY <1>1, <1>3, <2>1 DEF Place, Joining, Working, Resting, Informed, Level
<1>7. ASSUME NEW w \in Remotes
      PROVE  /\ up'[w] = << >> /\ Head(up[w]).value = local_ok[w]
             /\ \A x : Reported(w, x) <=> Reported(w, x)' \/ x = "status"
  <2>1. /\ Head(up[w]) = Reply(w, "status") /\ Len(up[w]) = 1 /\ up[w][1] = Reply(w, "status")
    BY <1>1, <1>3, <1>6, TakeFacts DEF Up1
  <2>2. Reply(w, "status").value = local_ok[w] /\ Reply(w, "status").what = "status"
    BY DEF Reply
  <2>. QED
    BY <1>1, <1>3, <2>1, <2>2, TakeFacts
<1>8. ASSUME NEW w \in Remotes
      PROVE  Place(w)' /\ Agree(w)'
  <2>1. pc'[w] = pc[w] /\ call'[w] = call[w]
    BY <1>2 DEF Same
  <2>2. Resting(w)'
    BY <1>2, <1>3, <1>4, <1>6, <1>7, <2>1 DEF Resting, Answered
  <2>3. \A m : Coming(w, m)' <=> Coming(w, m)
    BY <1>3 DEF Coming
  <2>4. \A m \in Cached : Reported(w, m)' <=> Reported(w, m)
    BY <1>7 DEF Cached
  <2>5. Agree(w)'
    BY <1>1, <1>2, <1>3, <2>3, <2>4, AgreeRoot
  <2>. QED
    BY <2>2, <2>5 DEF Place
<1>9. Knows(0)'
  BY <1>1, <1>3, <1>4 DEF Knows
<1>10. num_outputs[0][call[0]] # -1 /\ "f_out" \in valid[0][Id(0)]
  BY <1>1, <1>3 DEF Knows
<1>11. RootKnows'
  BY <1>1, <1>2, <1>3, <1>4, <1>5, <1>10 DEF RootKnows
<1>12. VerdictExact'
  <2>. DEFINE n == jobs[0][Id(0)]
              Well(r) == \A j \in JobsOf(n, r) :
                /\ j \in DOMAIN does[r] /\ ~Fails(r, j)
                /\ local_f_out(r)[j] = f_out[0][Id(0)][j]
  <2>1. local_ok[0] <=> Well(0)
    <3>1. Local(0) = JobsOf(n, 0)
      BY DEF Local, Id
    <3>2. DOMAIN does[0] = Local(0) /\ (local_ok[0] <=> JobsOk(0) /\ SizesOk(0))
      BY <1>1, <1>3 DEF Knows
    <3>. QED
      BY <3>1, <3>2 DEF JobsOk, SizesOk
  <2>2. ASSUME NEW w \in Remotes
        PROVE  local_ok[w] <=> Well(w)
    <3>1. /\ DOMAIN does[w] = Local(w) /\ (local_ok[w] <=> JobsOk(w) /\ SizesOk(w))
          /\ "chunks" \in valid[w][Id(w)]
      BY <1>6 DEF Answered
    <3>2. Local(w) = JobsOf(n, w) /\ Id(w) = Id(0)
      BY <1>6, <3>1, SameChunks
    <3>3. \A j \in JobsOf(n, w) : f_out[w][Id(0)][j] = f_out[0][Id(0)][j]
      BY <1>1, <1>10 DEF Agree
    <3>4. SizesOk(w) <=> \A j \in JobsOf(n, w) : local_f_out(w)[j] = f_out[0][Id(0)][j]
      BY <3>2, <3>3 DEF SizesOk
    <3>. QED
      BY <3>1, <3>2, <3>4 DEF JobsOk
  <2>3. pc'[0] = IF \A r \in Ranks : Well(r) THEN "value" ELSE "throws"
    <3>1. \A r \in Ranks : r = 0 \/ r \in Remotes
      BY DEF Remotes
    <3>2. \A w \in Remotes : Head(up[w]).value <=> Well(w)
      BY <1>7, <2>2
    <3>. HIDE DEF Well
    <3>3. (local_ok[0] /\ \A w \in Remotes : Head(up[w]).value) <=> \A r \in Ranks : Well(r)
      BY <1>1, <2>1, <3>1, <3>2
    <3>. QED
      BY <1>4, <3>3
  <2>4. \A r \in Ranks : \A j \in JobsOf(n, r) :
          /\ j \in DOMAIN does'[r] <=> j \in DOMAIN does[r]
          /\ Fails(r, j)' <=> Fails(r, j)
          /\ local_f_out(r)'[j] = local_f_out(r)[j]
    BY <1>3, <1>5
  <2>5. num_outputs[0][call[0]] = 1
    BY <1>1, <1>10 DEF RootKnows
  <2>6. (LET id == call[0][1]
             done == \A r \in Ranks : \A j \in JobsOf(jobs[0][id], r) :
                        /\ j \in DOMAIN does[r] /\ ~Fails(r, j)
                        /\ "f_out" \in valid[0][id] => local_f_out(r)[j] = f_out[0][id][j]
         IN done)' <=> \A r \in Ranks : Well(r)
    BY <1>1, <1>3, <1>10, <2>4 DEF Id
  <2>. HIDE DEF Well
  <2>. QED
    BY <1>3, <2>3, <2>5, <2>6 DEF VerdictExact
<1>13. Types'
  BY <1>2, <1>4
<1>. QED
  BY <1>2, <1>8, <1>9, <1>11, <1>12, <1>13, RootCollects

----------------------------------------------------------------------------
\* The theorems.

\* Nothing is cached at first, and all workers listen.
LEMMA InitInv == Init => MpiInv
<1>1. SUFFICES ASSUME Init
               PROVE  MpiInv
  OBVIOUS
<1>2. 0 \in Ranks /\ \A w \in Remotes : w \in Ranks /\ w # 0
  BY RanksAre DEF Remotes
<1>3. (CHOOSE c \in Calls : TRUE) \in Calls
  <2>1. PICK id \in Ids, kind \in Kinds : TRUE
    BY MpiAssumption
  <2>2. <<id, kind>> \in Calls
    BY DEF Calls
  <2>. QED
    BY <2>2
<1>4. RankTypes
  BY <1>1, <1>3 DEF Init, RankTypes, Cached
<1>5. QueueTypes
  <2>1. IsQueue(<< >>)
    <3>1. << >> \in Seq(Items)
      OBVIOUS
    <3>. QED
      BY <3>1, SeqIsQueue
  <2>. QED
    BY <1>1, <2>1 DEF Init, QueueTypes
<1>6. RootTypes
  BY <1>1, <1>2 DEF Init, RootTypes
<1>7. Types
  BY <1>4, <1>5, <1>6, TypesParts
<1>8. \A r \in Ranks : pc[r] \in {"idle", "listening"} /\ todo[r] = << >>
  BY <1>1 DEF Init
<1>9. \A r \in Ranks : Knows(r)
  BY <1>8 DEF Knows
<1>10. RootKnows
  <2>1. pc[0] = "idle" /\ valid[0] = [id \in Ids |-> {}] /\ num_outputs[0] = [c \in Calls |-> -1]
    BY <1>1, <1>2 DEF Init
  <2>. QED
    BY <2>1 DEF RootKnows
<1>11. VerdictExact
  BY <1>1, <1>2 DEF Init, VerdictExact
<1>12. ASSUME NEW w \in Remotes
       PROVE  Place(w) /\ Agree(w)
  <2>1. /\ pc[0] = "idle" /\ pc[w] = "listening" /\ down[w] = << >> /\ up[w] = << >> /\ listening
        /\ valid[w] = valid[0] /\ jobs[w] = jobs[0] /\ f_out[w] = f_out[0]
        /\ num_outputs[w] = num_outputs[0]
    BY <1>1, <1>2 DEF Init
  <2>2. Place(w)
    BY <2>1 DEF Place, Resting
  <2>3. \A m : ~Coming(w, m) /\ ~Reported(w, m)
    BY <2>1, NothingComes, NothingReported
  <2>4. Agree(w)
    BY <2>1, <2>3 DEF Agree
  <2>. QED
    BY <2>2, <2>4
<1>. QED
  BY <1>7, <1>9, <1>10, <1>11, <1>12 DEF MpiInv

\* A step that changes nothing.
LEMMA Stutters ==
  ASSUME MpiInv, UNCHANGED vars
  PROVE  MpiInv'
<1>1. 0 \in Ranks /\ \A w \in Remotes : w \in Ranks
  BY RootBase
<1>2. /\ \A r \in Ranks : Same(r)
      /\ down' = down /\ up' = up /\ listening' = listening
  BY DEF vars, caches, Same
<1>3. \A w \in Remotes : Same(w) /\ Place(w)' /\ Agree(w)'
  BY <1>1, <1>2, PlaceStays, AgreeStays DEF MpiInv
<1>4. Knows(0)'
  BY <1>1, <1>2, KnowsStays DEF MpiInv
<1>5. Types'
  <2>1. RankTypes /\ QueueTypes /\ RootTypes
    BY RootBase
  <2>. QED
    BY <2>1, TypesPartsNext DEF RankTypes, QueueTypes, RootTypes, vars, caches
<1>6. /\ call' = call /\ jobs' = jobs /\ valid' = valid /\ num_outputs' = num_outputs
      /\ f_out' = f_out /\ pc' = pc /\ local_ok' = local_ok /\ does' = does
  BY DEF vars, caches
<1>7. \A r \in Ranks : /\ JobsOk(r)' <=> JobsOk(r)
                       /\ local_f_out(r)' = local_f_out(r) /\ \A j : Fails(r, j)' <=> Fails(r, j)
  BY <1>2, JobsStay DEF Same, SameJobs
<1>8. RootKnows'
  BY <1>2, <1>6, <1>7, RootBase DEF RootKnows, Id
<1>9. VerdictExact'
  BY <1>6, <1>7, RootBase DEF VerdictExact
<1>. QED
  BY <1>3, <1>4, <1>5, <1>8, <1>9, RootCollects

\* Every step keeps the invariant.
LEMMA NextInv ==
  ASSUME MpiInv, [Next]_vars
  PROVE  MpiInv'
<1>1. ASSUME NEW r \in Ranks, InCall(r)
      PROVE  MpiInv'
  <2>1. CASE r = 0
    BY <1>1, <2>1, DistributeRoot, EvaluateRoot, FirstOkRoot, AllOkRoot, OutputsRoot,
       FOutRoot, ResultRoot, StatusRoot DEF InCall
  <2>2. CASE r # 0
    BY <1>1, <2>2, WorkerSteps DEF Remotes
  <2>. QED
    BY <2>1, <2>2
<1>2. ASSUME NEW c \in Calls, NEW n \in JobCounts, MapRect(c, n)
      PROVE  MpiInv'
  BY <1>2, MapRectStep
<1>3. ASSUME NEW w \in Remotes, Listen(w)
      PROVE  MpiInv'
  BY <1>3, WorkerSteps
<1>. QED
  BY <1>1, <1>2, <1>3, StopStep, ReturnStep, Stutters DEF Next

\* The invariant holds in every state, with any number of processes, of
\* call_ids, of calls, and of messages in a queue.
THEOREM Invariant == Spec => []MpiInv
<1>1. Init => MpiInv
  BY InitInv
<1>2. MpiInv /\ [Next]_vars => MpiInv'
  BY NextInv
<1>. QED
  BY <1>1, <1>2, PTL DEF Spec

\* The variables keep their types, and a call has the root's mutex exactly
\* while it is active.
THEOREM TypesHold == Spec => []MpiTypeOK
<1>1. MpiInv => MpiTypeOK
  BY DEF MpiInv, Types
<1>. QED
  BY <1>1, Invariant, PTL

\* Root and workers enter the same collective operations in the same order,
\* though each decides from its own caches which ones to enter.
THEOREM CollectivesAlwaysMatch == Spec => []CollectivesMatch
<1>1. ASSUME MpiInv
      PROVE  CollectivesMatch
  <2>1. ASSUME NEW w \in Remotes, down[w] # << >>
        PROVE  CASE pc[w] = "listening" -> Head(down[w]).what \in {"command", "stop"}
                 [] pc[w] = "setup" /\ todo[w] # << >> ->
                      Head(down[w]).what = Head(todo[w]) /\ Head(down[w]).call = call[w]
                 [] pc[w] \in {"all_ok", "outputs"} ->
                      Head(down[w]).what = pc[w] /\ Head(down[w]).call = call[w]
                 [] OTHER -> pc[w] # "stopped"
    <3>1. Types /\ Place(w)
      BY <1>1, Base
    <3>2. Head(down[w]) = down[w][1]
      <4>1. IsQueue(down[w])
        BY <3>1 DEF Types
      <4>. QED
        BY <2>1, <4>1, QueueTail
    <3>3. pc[w] = "listening" => down[w][1].what \in {"command", "stop"}
      BY <2>1, <3>1 DEF Place, Joining, Working, Resting, Informed, Level, Command, Stop
    <3>4. pc[w] = "setup" /\ todo[w] # << >> =>
            down[w][1].what = Head(todo[w]) /\ down[w][1].call = call[w]
      <4>1. todo[w] \in Seq(Items)
        BY <1>1, Base
      <4>2. pc[w] = "setup" => down[w][1].what = todo[w][1] /\ down[w][1].call = call[w]
        <5>1. pc[w] = "setup" =>
                /\ call[w] = call[0]
                /\ down[w][1] =
                     [what |-> todo[w][1], call |-> call[0], value |-> jobs[0][Id(0)]]
          BY <2>1, <3>1, ReceivedTypes
        <5>. QED
          BY <5>1
      <4>3. todo[w] # << >> => Head(todo[w]) = todo[w][1]
        BY <4>1
      <4>. QED
        BY <4>2, <4>3
    <3>5. pc[w] = "all_ok" => down[w][1].what = "all_ok" /\ down[w][1].call = call[w]
      BY <2>1, <3>1 DEF Place, Joining, Working, Resting, Informed, Level, Answered, AllWell, Failed
    <3>6. pc[w] = "outputs" => down[w][1].what = "outputs" /\ down[w][1].call = call[w]
      BY <2>1, <3>1 DEF Place, Joining, Working, Resting, Informed, Level, Answered, Rows
    <3>7. pc[w] # "stopped"
      BY <2>1, <3>1 DEF Place, Joining, Working, Resting, Informed, Level, Answered
    <3>. QED
      BY <3>2, <3>3, <3>4, <3>5, <3>6, <3>7
  <2>2. ASSUME NEW w \in Remotes, up[w] # << >>
        PROVE  CASE pc[0] \in {"first_ok", "f_out", "result", "status"} ->
                      Head(up[w]).what = pc[0] /\ Head(up[w]).call = call[0]
                 [] OTHER -> pc[0] # "idle"
    <3>1. Types /\ Place(w)
      BY <1>1, Base
    <3>2. Head(up[w]) = up[w][1]
      <4>1. IsQueue(up[w])
        BY <3>1 DEF Types
      <4>. QED
        BY <2>2, <4>1, QueueTail
    <3>3. Working(w) /\ Level(w) /\ call[w] = call[0]
      BY <2>2, <3>1 DEF Place, Joining, Working, Resting, Informed
    <3>4. \A what : Reply(w, what).what = what /\ Reply(w, what).call = call[0]
      BY <3>3 DEF Reply
    <3>5. pc[0] \in {"first_ok", "f_out", "result", "status"} => up[w][1] = Reply(w, pc[0])
      BY <2>2, <3>3 DEF Level, Up1, Up2, Up3
    <3>6. pc[0] # "idle"
      BY <3>3 DEF Level
    <3>. QED
      BY <3>2, <3>4, <3>5, <3>6
  <2>. QED
    BY <2>1, <2>2 DEF CollectivesMatch
<1>. QED
  BY <1>1, Invariant, PTL

\* The root expects of each worker as many numbers as the worker sends.
THEOREM ChunksAlwaysMatch == Spec => []ChunksMatch
<1>1. ASSUME MpiInv
      PROVE  ChunksMatch
  <2>1. SUFFICES ASSUME pc[0] = "result", NEW w \in Remotes, up[w] # << >>
                 PROVE  Head(up[w]).value = ChunkLength(0, w)
    BY DEF ChunksMatch
  <2>2. /\ Types /\ Place(w) /\ Agree(w) /\ Knows(w) /\ Knows(0)
        /\ call[0] \in Calls /\ Id(0) \in Ids
    BY <1>1, Base
  <2>3. Head(up[w]) = up[w][1]
    <3>1. IsQueue(up[w])
      BY <2>2 DEF Types
    <3>. QED
      BY <2>1, <3>1, QueueTail
  <2>4. /\ call[w] = call[0] /\ down[w] = << >> /\ up[w][1] = Reply(w, "result")
        /\ pc[w] = "status" \/ Answered(w)
    BY <2>1, <2>2 DEF Place, Joining, Working, Resting, Informed, Level, Up1, Up2
  <2>5. Head(up[w]).value = ChunkLength(w, w)
    <3>1. Reply(w, "result").value = ChunkLength(w, w)
      BY DEF Reply
    <3>. QED
      BY <2>3, <2>4, <3>1
  <2>6. num_outputs[w][call[w]] = num_outputs[0][call[0]]
    BY <2>2, <2>4, NothingComes DEF Agree
  <2>7. "chunks" \in valid[w][Id(w)] /\ "f_out" \in valid[0][Id(0)] /\ Id(w) = Id(0)
    BY <2>1, <2>2, <2>4 DEF Knows, Answered, Id
  <2>8. jobs[w][Id(w)] = jobs[0][Id(0)]
    BY <2>2, <2>7 DEF Agree
  <2>9. \A j \in JobsOf(jobs[0][Id(0)], w) : f_out[w][Id(w)][j] = f_out[0][Id(0)][j]
    BY <2>2, <2>7 DEF Agree
  <2>10. [j \in JobsOf(jobs[w][Id(w)], w) |-> f_out[w][Id(w)][j]]
           = [j \in JobsOf(jobs[0][Id(0)], w) |-> f_out[0][Id(0)][j]]
    BY <2>8, <2>9
  <2>11. ChunkLength(w, w) = ChunkLength(0, w)
    BY <2>6, <2>10 DEF ChunkLength, Id
  <2>. QED
    BY <2>5, <2>11
<1>. QED
  BY <1>1, Invariant, PTL

\* Between calls the caches of all ranks agree, whichever evaluations failed.
THEOREM CachesAlwaysAgree == Spec => []CachesAgree
<1>1. ASSUME MpiInv
      PROVE  CachesAgree
  <2>1. SUFFICES ASSUME Quiet, NEW w \in Remotes
                 PROVE  /\ valid[w] = valid[0]
                        /\ num_outputs[w] = num_outputs[0]
                        /\ \A id \in Ids : "f_out" \in valid[0][id] =>
                             /\ jobs[w][id] = jobs[0][id]
                             /\ \A j \in JobsOf(jobs[0][id], w) : f_out[w][id][j] = f_out[0][id][j]
    BY DEF CachesAgree
  <2>2. w \in Ranks /\ 0 \in Ranks /\ RankTypes /\ Place(w) /\ Agree(w) /\ RootKnows
    BY <1>1, Base
  <2>3. down[w] = << >> /\ up[w] = << >>
    BY <2>1, <2>2 DEF Quiet, Place, Joining, Working, Resting, Informed, Level
  <2>4. \A m : ~Coming(w, m) /\ ~Reported(w, m)
    BY <2>3, NothingComes, NothingReported
  <2>5. \A id \in Ids : valid[w][id] = valid[0][id]
    <3>1. \A id \in Ids : valid[w][id] \subseteq Cached /\ valid[0][id] \subseteq Cached
      BY <2>2 DEF RankTypes
    <3>2. \A id \in Ids : \A m \in Cached : m \in valid[w][id] <=> m \in valid[0][id]
      BY <2>2, <2>4 DEF Agree
    <3>. QED
      BY <3>1, <3>2
  <2>6. valid[w] = valid[0]
    BY <2>2, <2>5 DEF RankTypes
  <2>7. num_outputs[w] = num_outputs[0]
    <3>1. \A c \in Calls : num_outputs[w][c] = num_outputs[0][c]
      BY <2>2, <2>4 DEF Agree
    <3>. QED
      BY <2>2, <3>1 DEF RankTypes
  <2>8. \A id \in Ids : "f_out" \in valid[0][id] =>
          /\ jobs[w][id] = jobs[0][id]
          /\ \A j \in JobsOf(jobs[0][id], w) : f_out[w][id][j] = f_out[0][id][j]
    BY <2>2, <2>5 DEF Agree, RootKnows
  <2>. QED
    BY <2>6, <2>7, <2>8
<1>. QED
  BY <1>1, Invariant, PTL

\* map_rect returns a value exactly when every job of every rank succeeded.
THEOREM VerdictAlwaysExact == Spec => []VerdictExact
<1>1. MpiInv => VerdictExact
  BY DEF MpiInv
<1>. QED
  BY <1>1, Invariant, PTL
=============================================================================
