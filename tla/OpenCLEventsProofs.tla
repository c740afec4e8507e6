------------------------- MODULE OpenCLEventsProofs -------------------------
(***************************************************************************)
(* Theorems about OpenCLEvents, for any number of matrices, buffers and    *)
(* commands, for clients that index by matrices whose writes are complete. *)
(* "What waiting for these events waits for" is handled through the sets   *)
(* of commands that are closed under waiting: ClosedSet.                   *)
(***************************************************************************)
EXTENDS OpenCLEvents, TLAPS

\* The users of a buffer that no failed enqueue has dropped from its lists.
Tracked(b) == ReadersBefore(b) \cup WritersBefore(b)

\* Whoever waits for X waits for nothing outside X.
ClosedSet(X) == \A e \in X : cmd[e].waits \subseteq X

\* EventsCover, and that a command waits for all it conflicts with, as seen from one set.
CoversIn(X) ==
  /\ \A m \in Live : write_events[m] \subseteq X => WritersBefore(buf[m]) \subseteq X
  /\ \A b \in Buffers \ Released :
       (\A m \in Holders(b) : read_write_events(m) \subseteq X) => Tracked(b) \ {host} \subseteq X
  /\ \A c \in Commands : cmd[c].waits \subseteq X => cmd[c].conflicts \subseteq X

Cover == \A X \in SUBSET Commands : ClosedSet(X) => CoversIn(X)

RunningWaitsForNothing == \A c \in Commands : cmd[c].status = "running" => cmd[c].waits = {}

Inv == EventsTypeOK /\ RunningWaitsForNothing /\ NoUseAfterRelease /\ Cover

-----------------------------------------------------------------------------
(* What the invariant gives *)

\* NoUseAfterRelease in terms of the users that were not dropped.
LEMMA TrackedUsers ==
  ASSUME EventsTypeOK
  PROVE  /\ \A b \in Buffers : /\ Tracked(b) = Users(b) \ forgotten[b]
                               /\ Tracked(b) \subseteq Pending
         /\ NoUseAfterRelease <=> \A b \in Released : Tracked(b) = {}
<1>1. \A b : Tracked(b) = Users(b) \ forgotten[b]
  BY DEF Tracked, ReadersBefore, WritersBefore, Users
<1>2. \A b \in Buffers : Tracked(b) \subseteq Pending
  BY <1>1 DEF Users
<1>. QED
  BY <1>1, <1>2 DEF NoUseAfterRelease, Released

\* A running command waits for nothing, so what it conflicts with lies in the empty set.
LEMMA InvOrdered == Inv => ConflictsOrdered
<1>1. ASSUME Inv, NEW c \in Commands, cmd[c].status = "running"
      PROVE  cmd[c].conflicts = {}
  <2>1. cmd[c].waits = {}
    BY <1>1 DEF Inv, RunningWaitsForNothing
  <2>2. CoversIn({})
    BY <1>1 DEF Inv, Cover, ClosedSet
  <2>. QED
    BY <2>1, <2>2 DEF CoversIn
<1>. QED
  BY <1>1 DEF ConflictsOrdered

\* The form of EventsCover with closed sets gives the one with Awaited.
LEMMA InvCovers == Inv => EventsCover
<1>. SUFFICES ASSUME Inv, NEW b \in Buffers \ Released
              PROVE  /\ \A m \in Holders(b) : WritersBefore(b) \subseteq Awaited(write_events[m])
                     /\ Tracked(b) \ {host} \subseteq
                          Awaited(UNION {read_write_events(m) : m \in Holders(b)})
  BY DEF EventsCover, Tracked
<1>0. \A X \in SUBSET Commands : ClosedSet(X) => CoversIn(X)
  BY DEF Inv, Cover
<1>1. ASSUME NEW m \in Holders(b), NEW d \in WritersBefore(b),
             NEW X \in SUBSET Commands, write_events[m] \subseteq X, ClosedSet(X)
      PROVE  d \in X
  <2>1. m \in Live /\ buf[m] = b
    BY <1>1, NoneAssumption DEF Live, Holders
  <2>. QED
    BY <1>0, <1>1, <2>1 DEF CoversIn
<1>2. ASSUME NEW d \in Tracked(b) \ {host}, NEW X \in SUBSET Commands,
             UNION {read_write_events(m) : m \in Holders(b)} \subseteq X, ClosedSet(X)
      PROVE  d \in X
  <2>1. \A m \in Holders(b) : read_write_events(m) \subseteq X
    BY <1>2
  <2>. QED
    BY <1>0, <1>2, <2>1 DEF CoversIn
<1>3. Tracked(b) \subseteq Commands
  BY DEF Tracked, ReadersBefore, WritersBefore, Pending
<1>. QED
  BY <1>1, <1>2, <1>3 DEF Awaited, ClosedSet, Tracked

-----------------------------------------------------------------------------
(* Enqueueing and ending a command *)

\* An enqueued command is one more among those pending, and uses the buffers it was given.
LEMMA EnqueueUsers ==
  ASSUME NEW c \in Commands, NEW E, NEW R, NEW W, EventsTypeOK, Enqueue(c, E, R, W)
  PROVE  /\ cmd[c] = NoCommand /\ c \notin Pending /\ Pending' = Pending \cup {c}
         /\ \A d \in Commands \ {c} : cmd'[d] = cmd[d]
         /\ cmd'[c].waits = E /\ cmd'[c].conflicts = Conflicts(R, W)
         /\ cmd'[c].status = "queued"
         /\ cmd'[c].reads = R /\ cmd'[c].writes = W
<1>1. cmd[c] = NoCommand /\ c \notin Pending
  BY DEF EventsTypeOK, Pending, Enqueue
<1>2. /\ \A d \in Commands \ {c} : cmd'[d] = cmd[d]
      /\ cmd'[c] = [status |-> "queued", waits |-> E, reads |-> R, writes |-> W,
                    conflicts |-> Conflicts(R, W)]
  BY DEF EventsTypeOK, Enqueue
<1>3. Pending' = Pending \cup {c}
  BY <1>2 DEF Pending
<1>. QED
  BY <1>1, <1>2, <1>3

\* The commands keep their types.
LEMMA EnqueueTypes ==
  ASSUME NEW c \in Commands, NEW E, NEW R \in SUBSET Buffers, NEW W \in SUBSET Buffers,
         EventsTypeOK, E \subseteq Pending, Enqueue(c, E, R, W)
  PROVE  /\ cmd' \in [Commands -> [status : {"free", "queued", "running"},
                        waits : SUBSET Pending', reads : SUBSET Buffers,
                        writes : SUBSET Buffers, conflicts : SUBSET Pending']]
         /\ \A d \in Commands \ Pending' : cmd'[d] = NoCommand
<1>1. Pending' = Pending \cup {c}
  BY EnqueueUsers
<1>2. /\ \A d \in Commands \ {c} : cmd'[d] = cmd[d]
      /\ cmd'[c] = [status |-> "queued", waits |-> E, reads |-> R, writes |-> W,
                    conflicts |-> Conflicts(R, W)]
  BY DEF EventsTypeOK, Enqueue
<1>3. Conflicts(R, W) \subseteq Pending
  BY DEF Conflicts, ReadersBefore, WritersBefore
<1>4. cmd' \in [Commands -> [status : {"free", "queued", "running"},
                  waits : SUBSET Pending', reads : SUBSET Buffers,
                  writes : SUBSET Buffers, conflicts : SUBSET Pending']]
  <2>1. cmd'[c] \in [status : {"free", "queued", "running"},
                     waits : SUBSET Pending', reads : SUBSET Buffers,
                     writes : SUBSET Buffers, conflicts : SUBSET Pending']
    BY <1>1, <1>2, <1>3
  <2>2. ASSUME NEW d \in Commands \ {c}
        PROVE  cmd'[d] \in [status : {"free", "queued", "running"},
                     waits : SUBSET Pending', reads : SUBSET Buffers,
                     writes : SUBSET Buffers, conflicts : SUBSET Pending']
    <3>1. cmd[d] \in [status : {"free", "queued", "running"},
                     waits : SUBSET Pending, reads : SUBSET Buffers,
                     writes : SUBSET Buffers, conflicts : SUBSET Pending]
      BY DEF EventsTypeOK
    <3>. QED
      BY <1>1, <1>2, <3>1
  <2>3. cmd' = [d \in Commands |-> cmd'[d]]
    BY DEF EventsTypeOK, Enqueue
  <2>. QED
    BY <2>1, <2>2, <2>3
<1>5. \A d \in Commands \ Pending' : cmd'[d] = NoCommand
  BY <1>1, <1>2 DEF EventsTypeOK
<1>. QED
  BY <1>4, <1>5

\* What is closed under waiting after a command was enqueued was closed before.
LEMMA EnqueueClosed ==
  ASSUME NEW c \in Commands, NEW X \in SUBSET Commands, cmd[c] = NoCommand,
         \A d \in Commands \ {c} : cmd'[d] = cmd[d],
         ClosedSet(X)'
  PROVE  ClosedSet(X)
<1>1. ASSUME NEW e \in X PROVE cmd[e].waits \subseteq X
  <2>1. CASE e = c
    BY <2>1 DEF NoCommand
  <2>2. CASE e # c
    BY <2>2 DEF ClosedSet
  <2>. QED
    BY <2>1, <2>2
<1>. QED
  BY <1>1 DEF ClosedSet

\* The matrices a command reads keep their buffer, and the command waits for their write
\* events.  A result keeps its buffer, which no other matrix uses, and the command waits for
\* all its events; or it waited for them and has a buffer nobody uses.  Lists are cleared of
\* what the command waits for, and not of writers unless it writes the matrix itself.
Ordered(c, E, ins, outs, cleared) ==
  /\ ins \subseteq Live /\ outs \subseteq Matrices /\ cleared \subseteq ins \cup outs
  /\ \A m \in ins : buf'[m] = buf[m] /\ write_events[m] \subseteq E
  /\ \A m \in outs :
       \/ buf'[m] = buf[m] /\ m \in Live /\ read_write_events(m) \subseteq E
       \/ buf'[m] \in Released /\ Waited(m)
  /\ \A m \in outs, n \in Matrices : buf'[n] = buf'[m] => n = m
  /\ \A m \in Matrices \ outs : buf'[m] = buf[m]
  /\ \A m \in cleared \ outs : read_write_events(m) \subseteq E /\ write_events[m] = {}

\* Such a command keeps every buffer covered.
LEMMA EnqueueCover ==
  ASSUME NEW c \in Commands, NEW E, NEW ins, NEW outs, NEW cleared,
         Inv, host = None, host' = None, forgotten' = forgotten,
         buf' \in [Matrices -> Buffers \cup {None}],
         Ordered(c, E, ins, outs, cleared), E \subseteq Pending,
         Enqueue(c, E, BuffersOf(ins), BuffersOf(outs)),
         AddEvents(c, ins, outs, cleared)
  PROVE  Cover'
<1>. DEFINE R == BuffersOf(ins)
            W == BuffersOf(outs)
<1>0. EventsTypeOK /\ NoUseAfterRelease /\ Cover
  BY DEF Inv
<1>2. /\ cmd[c] = NoCommand /\ c \notin Pending /\ Pending' = Pending \cup {c}
      /\ \A d \in Commands \ {c} : cmd'[d] = cmd[d]
      /\ cmd'[c].waits = E /\ cmd'[c].conflicts = Conflicts(R, W)
      /\ \A b \in Buffers :
           /\ ReadersBefore(b)' = ReadersBefore(b) \cup (IF b \in R THEN {c} ELSE {})
           /\ WritersBefore(b)' = WritersBefore(b) \cup (IF b \in W THEN {c} ELSE {})
  <2>1. PICK r, w : r = R /\ w = W
    OBVIOUS
  <2>2. Enqueue(c, E, r, w)
    BY <2>1
  <2>3. /\ cmd[c] = NoCommand /\ c \notin Pending /\ Pending' = Pending \cup {c}
        /\ \A d \in Commands \ {c} : cmd'[d] = cmd[d]
        /\ cmd'[c].waits = E /\ cmd'[c].conflicts = Conflicts(r, w)
        /\ cmd'[c].reads = r /\ cmd'[c].writes = w
    BY <1>0, <2>2, EnqueueUsers
  <2>6. \A b \in Buffers : c \notin forgotten[b]
    BY <1>0, <2>3 DEF EventsTypeOK, Users
  <2>4. ASSUME NEW b \in Buffers
        PROVE  ReadersBefore(b)' = ReadersBefore(b) \cup (IF b \in r THEN {c} ELSE {})
    BY <2>3, <2>6 DEF ReadersBefore, Pending
  <2>5. ASSUME NEW b \in Buffers
        PROVE  WritersBefore(b)' = WritersBefore(b) \cup (IF b \in w THEN {c} ELSE {})
    BY <2>3, <2>6 DEF WritersBefore, Pending
  <2>. QED
    BY <2>1, <2>3, <2>4, <2>5
<1>3. SUFFICES ASSUME NEW X \in SUBSET Commands, ClosedSet(X)'
               PROVE  CoversIn(X)'
  BY DEF Cover
<1>4. ClosedSet(X)
  BY <1>2, <1>3, EnqueueClosed
<1>5. CoversIn(X)
  BY <1>0, <1>4 DEF Cover
<1>6. c \in X => E \subseteq X
  BY <1>2, <1>3 DEF ClosedSet
<1>12. \A b \in Buffers : None \notin Tracked(b)
  BY <1>0, TrackedUsers, NoneAssumption DEF Pending
<1>13. \A m \in Live' : m \in Matrices /\ buf'[m] \in Buffers
  BY DEF Live
\* If the command's wait list lies in X, so do all users of what it writes and all writers
\* of what it reads.
<1>7. ASSUME E \subseteq X, NEW m \in outs PROVE Tracked(buf'[m]) \subseteq X
  <2>1. CASE buf'[m] = buf[m] /\ m \in Live /\ read_write_events(m) \subseteq E
    <3>2. \A n \in Holders(buf[m]) : read_write_events(n) \subseteq X
      <4>1. TAKE n \in Holders(buf[m])
      <4>2. CASE n \in outs /\ buf'[n] # buf[n]
        BY <4>2, <1>7 DEF Ordered, Waited
      <4>3. CASE ~(n \in outs /\ buf'[n] # buf[n])
        <5>1. n \in Matrices /\ buf'[n] = buf'[m]
          BY <4>1, <4>3, <2>1 DEF Ordered, Holders
        <5>. QED
          BY <5>1, <2>1, <1>7 DEF Ordered
      <4>. QED
        BY <4>2, <4>3
    <3>3. buf[m] \in Buffers \ Released
      BY <2>1, <1>0 DEF Live, EventsTypeOK, Released, Holders
    <3>. QED
      BY <1>5, <2>1, <3>2, <3>3, <1>0, <1>12 DEF CoversIn
  <2>2. CASE buf'[m] \in Released /\ Waited(m)
    BY <2>2, <1>0, TrackedUsers
  <2>. QED
    BY <1>7, <2>1, <2>2 DEF Ordered
<1>8. ASSUME E \subseteq X, NEW m \in ins PROVE WritersBefore(buf[m]) \subseteq X
  BY <1>5, <1>8 DEF Ordered, CoversIn
<1>9. ASSUME NEW m \in Live', write_events'[m] \subseteq X
      PROVE  WritersBefore(buf[m])' \subseteq X
  <2>1. m \in Matrices /\ buf'[m] # None /\ buf'[m] \in Buffers
    BY <1>9, <1>13 DEF Live
  <2>4. WritersBefore(buf[m])' =
          WritersBefore(buf'[m]) \cup (IF buf'[m] \in W THEN {c} ELSE {})
    BY <2>1, <1>2
  <2>2. CASE m \in outs
    <3>1. c \in X
      BY <2>2, <2>1, <1>9 DEF AddEvents
    <3>2. Tracked(buf'[m]) \subseteq X
      BY <3>1, <2>2, <1>6, <1>7
    <3>. QED
      BY <3>1, <3>2, <2>4 DEF Tracked
  <2>3. CASE m \notin outs
    <3>1. buf'[m] = buf[m] /\ m \in Live
      BY <2>1, <2>3 DEF Ordered, Live
    <3>2. write_events[m] \subseteq X
      BY <2>1, <2>3, <1>9 DEF AddEvents, Ordered
    <3>3. buf[m] \notin W
      <4>1. ASSUME NEW n \in outs, buf'[n] = buf[m] PROVE FALSE
        BY <4>1, <3>1, <2>1, <2>3 DEF Ordered
      <4>. QED
        BY <4>1 DEF BuffersOf
    <3>. QED
      BY <2>4, <1>5, <3>1, <3>2, <3>3 DEF CoversIn
  <2>. QED
    BY <2>2, <2>3
<1>10. ASSUME NEW b \in Buffers \ Released',
              \A m \in Holders(b)' : read_write_events(m)' \subseteq X
       PROVE  Tracked(b)' \ {host'} \subseteq X
  <2>1. Tracked(b)' = Tracked(b) \cup (IF b \in R \cup W THEN {c} ELSE {})
    BY <1>2 DEF Tracked
  <2>2. \A m \in Holders(b)' : read_events'[m] \cup write_events'[m] \subseteq X
    BY <1>10 DEF read_write_events
  <2>3. PICK h \in Holders(b)' : TRUE
    BY <1>10 DEF Released
  <2>4. CASE b \in W
    <3>1. PICK m \in outs : buf'[m] = b
      BY <2>4 DEF BuffersOf
    <3>2. m \in Holders(b)' /\ m \in Matrices
      BY <3>1 DEF Ordered, Holders
    <3>3. c \in X
      BY <2>2, <3>1, <3>2 DEF AddEvents
    <3>. QED
      BY <2>1, <3>1, <3>3, <1>6, <1>7
  <2>5. CASE b \notin W
    <3>1. \A m \in Holders(b)' : m \in Matrices \ outs /\ buf[m] = b
      BY <2>5 DEF Ordered, Holders, BuffersOf
    <3>2. c \in X => \A m \in Holders(b)' : read_write_events(m) \subseteq X
      BY <3>1, <2>2, <1>6 DEF AddEvents, Ordered, read_write_events
    <3>3. c \notin X => \A m \in Holders(b)' : m \notin ins /\ read_write_events(m) \subseteq X
      BY <3>1, <2>2 DEF AddEvents, Ordered, read_write_events
    <3>4. \A m \in Holders(b) : m \in Holders(b)' \/ Waited(m)
      BY DEF Ordered, Holders
    <3>5. \A m \in Holders(b) : read_write_events(m) \subseteq X
      BY <3>2, <3>3, <3>4 DEF Waited
    <3>6. b \in Buffers \ Released
      BY <1>10, <2>3, <3>1 DEF Released, Holders
    <3>7. Tracked(b) \subseteq X
      BY <1>5, <3>5, <3>6, <1>12 DEF CoversIn
    <3>8. b \in R => c \in X
      <4>1. ASSUME NEW m \in ins, buf'[m] = b PROVE c \in X
        <5>1. m \in Holders(b)' /\ m \in Matrices
          BY <4>1 DEF Ordered, Holders, Live
        <5>. QED
          BY <5>1, <4>1, <2>2 DEF AddEvents
      <4>. QED
        BY <4>1 DEF BuffersOf
    <3>. QED
      BY <2>1, <2>5, <3>7, <3>8
  <2>. QED
    BY <2>4, <2>5
<1>11. ASSUME NEW d \in Commands, cmd'[d].waits \subseteq X PROVE cmd'[d].conflicts \subseteq X
  <2>1. CASE d = c
    <3>1. E \subseteq X
      BY <2>1, <1>2, <1>11
    <3>2. \A b \in W : ReadersBefore(b) \cup WritersBefore(b) \subseteq X
      BY <3>1, <1>7 DEF BuffersOf, Tracked
    <3>3. \A b \in R : WritersBefore(b) \subseteq X
      BY <3>1, <1>8 DEF BuffersOf, Ordered
    <3>. QED
      BY <2>1, <1>2, <3>2, <3>3 DEF Conflicts
  <2>2. CASE d # c
    BY <2>2, <1>2, <1>5, <1>11 DEF CoversIn
  <2>. QED
    BY <2>1, <2>2
<1>. QED
  BY <1>9, <1>10, <1>11 DEF CoversIn

\* And it keeps the rest of the invariant.
LEMMA EnqueueInv ==
  ASSUME NEW c \in Commands, NEW E, NEW ins, NEW outs, NEW cleared,
         Inv, host = None, host' = None, forgotten' = forgotten,
         buf' \in [Matrices -> Buffers \cup {None}],
         Ordered(c, E, ins, outs, cleared), E \subseteq Pending,
         Enqueue(c, E, BuffersOf(ins), BuffersOf(outs)),
         AddEvents(c, ins, outs, cleared)
  PROVE  Inv'
<1>0. EventsTypeOK /\ NoUseAfterRelease /\ Cover /\ RunningWaitsForNothing
  BY DEF Inv
<1>1. /\ \A m \in ins : m \in Matrices /\ buf'[m] \in Buffers
      /\ \A m \in outs : m \in Matrices /\ buf'[m] \in Buffers
  BY <1>0 DEF Ordered, Live, EventsTypeOK, Released
<1>2. PICK r \in SUBSET Buffers, w \in SUBSET Buffers : r = BuffersOf(ins) /\ w = BuffersOf(outs)
  BY <1>1 DEF BuffersOf
<1>3. Enqueue(c, E, r, w)
  BY <1>2
<1>4. /\ cmd[c] = NoCommand /\ c \notin Pending /\ Pending' = Pending \cup {c}
      /\ \A d \in Commands \ {c} : cmd'[d] = cmd[d]
      /\ cmd'[c].reads = r /\ cmd'[c].writes = w /\ cmd'[c].status = "queued"
  BY <1>0, <1>3, EnqueueUsers
<1>10. /\ cmd' \in [Commands -> [status : {"free", "queued", "running"},
                     waits : SUBSET Pending', reads : SUBSET Buffers,
                     writes : SUBSET Buffers, conflicts : SUBSET Pending']]
      /\ \A d \in Commands \ Pending' : cmd'[d] = NoCommand
  BY <1>0, <1>3, EnqueueTypes
<1>5. \A b \in Buffers : Users(b)' = Users(b) \cup (IF b \in r \cup w THEN {c} ELSE {})
  BY <1>4 DEF Users, Pending
<1>6. EventsTypeOK'
  <2>1. /\ read_events' \in [Matrices -> SUBSET Pending']
        /\ write_events' \in [Matrices -> SUBSET Pending']
    BY <1>0, <1>4 DEF AddEvents, EventsTypeOK
  <2>2. \A b \in Buffers : forgotten'[b] \subseteq Users(b)'
    BY <1>0, <1>5 DEF EventsTypeOK
  <2>3. ASSUME NEW m \in Matrices, buf'[m] = None
        PROVE  read_events'[m] \cup write_events'[m] = {}
    <3>1. m \notin outs
      BY <2>3, <1>1, NoneAssumption
    <3>2. buf[m] = None /\ m \notin ins
      BY <2>3, <3>1, <1>1, NoneAssumption DEF Ordered
    <3>3. read_events[m] = {} /\ write_events[m] = {}
      BY <3>2, <1>0 DEF EventsTypeOK, Live, read_write_events
    <3>. QED
      BY <3>1, <3>2, <3>3 DEF AddEvents
  <2>4. \A m \in Matrices \ Live' : read_write_events(m)' = {}
    BY <2>3 DEF Live, read_write_events
  <2>. QED
    BY <1>0, <1>10, <2>1, <2>2, <2>4 DEF EventsTypeOK
<1>7. RunningWaitsForNothing'
  BY <1>0, <1>4 DEF RunningWaitsForNothing
<1>8. NoUseAfterRelease'
  <2>. SUFFICES ASSUME NEW b \in Released' PROVE Users(b)' \subseteq forgotten[b]
    BY DEF NoUseAfterRelease
  <2>0. b \in Buffers
    BY DEF Released
  <2>1. \A m \in Matrices : buf'[m] # b
    BY DEF Holders, Released
  <2>7. b \notin r \cup w
    <3>1. r = {buf'[m] : m \in ins} /\ w = {buf'[m] : m \in outs}
      BY <1>2 DEF BuffersOf
    <3>. QED
      BY <3>1, <2>1, <1>1
  <2>2. Users(b)' = Users(b)
    BY <2>0, <2>7, <1>5
  <2>3. \A m \in Holders(b) : read_write_events(m) = {}
    BY <2>1 DEF Ordered, Holders, Waited
  <2>4. CoversIn({})
    BY <1>0 DEF Cover, ClosedSet
  <2>5. CASE b \in Released
    BY <2>2, <2>5, <1>0 DEF NoUseAfterRelease
  <2>6. CASE b \notin Released
    <3>1. Tracked(b) \ {None} = {}
      BY <2>0, <2>3, <2>4, <2>6 DEF CoversIn
    <3>2. Tracked(b) = Users(b) \ forgotten[b] /\ Tracked(b) \subseteq Pending
      BY <2>0, <1>0, TrackedUsers
    <3>3. None \notin Pending
      BY NoneAssumption DEF Pending
    <3>. QED
      BY <2>2, <3>1, <3>2, <3>3
  <2>. QED
    BY <2>5, <2>6
<1>9. Cover'
  BY EnqueueCover
<1>. QED
  BY <1>6, <1>7, <1>8, <1>9 DEF Inv

-----------------------------------------------------------------------------
(* Operations that enqueue nothing, and the device *)

\* When no command is enqueued, buffers stay covered if every list that is given up is empty,
\* or is taken over by a matrix with the same buffer, or all users of the buffer count as
\* dropped from then on.
Kept ==
  /\ \A b \in Buffers : forgotten[b] \subseteq forgotten'[b]
  /\ \A m \in Live' :
       \/ Users(buf'[m]) \subseteq forgotten'[buf'[m]]
       \/ \E n \in Live : buf[n] = buf'[m] /\ write_events[n] \subseteq write_events'[m]
  /\ \A b \in Buffers \ Released' :
       \/ Users(b) \subseteq forgotten'[b]
       \/ \A n \in Holders(b) :
            \/ Waited(n)
            \/ \E m \in Matrices : /\ buf'[m] = b
                                   /\ read_write_events(n) \subseteq
                                        read_events'[m] \cup write_events'[m]
  /\ \A b \in Released' : \/ Users(b) \subseteq forgotten'[b]
                          \/ b \in Released
                          \/ \A n \in Holders(b) : Waited(n)

\* An operation that keeps the lists in that sense keeps the invariant.
LEMMA QuietCover ==
  ASSUME Inv, host = None, UNCHANGED <<cmd, host>>, EventsTypeOK', Kept
  PROVE  Inv'
<1>0. EventsTypeOK /\ NoUseAfterRelease /\ Cover /\ RunningWaitsForNothing
  BY DEF Inv
<1>1. \A b \in Buffers : /\ ReadersBefore(b)' \subseteq ReadersBefore(b)
                         /\ WritersBefore(b)' \subseteq WritersBefore(b)
                         /\ Tracked(b)' \subseteq Tracked(b)
                         /\ Users(b)' = Users(b)
                         /\ Tracked(b) = Users(b) \ forgotten[b]
                         /\ None \notin Tracked(b)
  <2>1. \A b \in Buffers : /\ ReadersBefore(b)' \subseteq ReadersBefore(b)
                           /\ WritersBefore(b)' \subseteq WritersBefore(b)
                           /\ Users(b)' = Users(b)
    BY DEF ReadersBefore, WritersBefore, Pending, Users, Kept
  <2>. QED
    BY <2>1, <1>0, TrackedUsers, NoneAssumption DEF Tracked, Pending
<1>2. \A b \in Buffers : Users(b) \subseteq forgotten'[b] =>
         Tracked(b)' = {} /\ WritersBefore(b)' = {}
  BY DEF Tracked, ReadersBefore, WritersBefore, Users, Pending
<1>3. \A b \in Buffers \ Released : Tracked(b) = {} \/ ~ \A m \in Holders(b) : Waited(m)
  <2>1. CoversIn({})
    BY <1>0 DEF Cover, ClosedSet
  <2>. QED
    BY <2>1, <1>1 DEF CoversIn, Waited
<1>4. NoUseAfterRelease'
  <2>. SUFFICES ASSUME NEW b \in Released' PROVE Users(b)' \subseteq forgotten'[b]
    BY DEF NoUseAfterRelease
  <2>1. b \in Buffers /\ forgotten[b] \subseteq forgotten'[b] /\ Users(b)' = Users(b)
    BY <1>1 DEF Released, Kept
  <2>2. CASE b \in Released
    BY <2>1, <2>2, <1>0 DEF NoUseAfterRelease
  <2>3. CASE b \notin Released /\ \A n \in Holders(b) : Waited(n)
    BY <2>1, <2>3, <1>1, <1>3
  <2>4. CASE Users(b) \subseteq forgotten'[b]
    BY <2>1, <2>4
  <2>. QED
    BY <2>2, <2>3, <2>4 DEF Kept
<1>5. ASSUME NEW X \in SUBSET Commands, ClosedSet(X)' PROVE CoversIn(X)'
  <2>1. CoversIn(X)
    BY <1>0, <1>5 DEF Cover, ClosedSet
  <2>2. ASSUME NEW m \in Live', write_events'[m] \subseteq X
        PROVE  WritersBefore(buf[m])' \subseteq X
    <3>1. buf'[m] \in Buffers
      BY <2>2 DEF EventsTypeOK, Live
    <3>2. CASE Users(buf'[m]) \subseteq forgotten'[buf'[m]]
      BY <3>1, <3>2, <1>2
    <3>3. ASSUME NEW n \in Live, buf[n] = buf'[m], write_events[n] \subseteq write_events'[m]
          PROVE  WritersBefore(buf[m])' \subseteq X
      <4>1. WritersBefore(buf[n]) \subseteq X
        BY <2>1, <2>2, <3>3 DEF CoversIn
      <4>2. WritersBefore(buf[m])' \subseteq WritersBefore(buf'[m])
        BY <1>1, <3>1
      <4>. QED
        BY <4>1, <4>2, <3>3
    <3>. QED
      BY <3>2, <3>3, <2>2 DEF Kept
  <2>3. ASSUME NEW b \in Buffers \ Released',
               \A m \in Holders(b)' : read_write_events(m)' \subseteq X
        PROVE  Tracked(b)' \ {host'} \subseteq X
    <3>1. CASE Users(b) \subseteq forgotten'[b]
      BY <3>1, <1>2
    <3>2. CASE ~(Users(b) \subseteq forgotten'[b])
      <4>1. \A m \in Matrices : buf'[m] = b => read_events'[m] \cup write_events'[m] \subseteq X
        BY <2>3 DEF Holders, read_write_events
      <4>2. \A n \in Holders(b) : read_write_events(n) \subseteq X
        BY <2>3, <3>2, <4>1 DEF Kept, Waited
      <4>3. b \notin Released
        BY <2>3, <3>2, <1>0 DEF NoUseAfterRelease, Kept
      <4>. QED
        BY <2>1, <4>2, <4>3, <1>1 DEF CoversIn
    <3>. QED
      BY <3>1, <3>2
  <2>4. ASSUME NEW d \in Commands, cmd'[d].waits \subseteq X PROVE cmd'[d].conflicts \subseteq X
    BY <2>1, <2>4 DEF CoversIn
  <2>. QED
    BY <2>2, <2>3, <2>4 DEF CoversIn
<1>6. Cover'
  BY <1>5 DEF Cover
<1>. QED
  BY <1>0, <1>4, <1>6 DEF Inv, RunningWaitsForNothing

\* The device starts a command: nothing the invariant speaks of changes but its status.
LEMMA StartInv ==
  ASSUME Inv, NEW c \in Commands, Start(c)
  PROVE  Inv'
<1>0. EventsTypeOK /\ NoUseAfterRelease /\ Cover /\ RunningWaitsForNothing
  BY DEF Inv
<1>1. /\ \A d \in Commands \ {c} : cmd'[d] = cmd[d]
      /\ cmd'[c] = [cmd[c] EXCEPT !.status = "running"]
      /\ cmd[c].status = "queued" /\ cmd[c].waits = {}
      /\ UNCHANGED <<buf, read_events, write_events, host, forgotten>>
  BY <1>0 DEF Start, EventsTypeOK
<1>2. \A d \in Commands : /\ cmd'[d].waits = cmd[d].waits /\ cmd'[d].reads = cmd[d].reads
                          /\ cmd'[d].writes = cmd[d].writes
                          /\ cmd'[d].conflicts = cmd[d].conflicts
                          /\ (cmd'[d].status = "free" <=> cmd[d].status = "free")
  <2>1. cmd[c] \in [status : {"free", "queued", "running"},
                    waits : SUBSET Pending, reads : SUBSET Buffers,
                    writes : SUBSET Buffers, conflicts : SUBSET Pending]
    BY <1>0 DEF EventsTypeOK
  <2>. QED
    BY <1>1, <2>1
<1>3. Pending' = Pending
  BY <1>2 DEF Pending
<1>4. \A b : /\ ReadersBefore(b)' = ReadersBefore(b)
             /\ WritersBefore(b)' = WritersBefore(b)
             /\ Tracked(b)' = Tracked(b)
             /\ Users(b)' = Users(b)
             /\ Holders(b)' = Holders(b)
  BY <1>1, <1>2, <1>3 DEF ReadersBefore, WritersBefore, Tracked, Users, Holders, Pending
<1>5. Released' = Released /\ Live' = Live
  BY <1>1 DEF Released, Holders, Live
<1>6. EventsTypeOK'
  <2>1. cmd' \in [Commands -> [status : {"free", "queued", "running"},
                   waits : SUBSET Pending, reads : SUBSET Buffers,
                   writes : SUBSET Buffers, conflicts : SUBSET Pending]]
    BY <1>0 DEF Start, EventsTypeOK
  <2>2. \A d \in Commands \ Pending : cmd'[d] = NoCommand
    BY <1>0, <1>1 DEF EventsTypeOK, Pending
  <2>3. \A m \in Matrices \ Live : read_events'[m] \cup write_events'[m] = {}
    BY <1>0, <1>1 DEF EventsTypeOK, read_write_events
  <2>5. \A b \in Buffers : forgotten'[b] \subseteq Users(b)'
    BY <1>0, <1>1, <1>4 DEF EventsTypeOK
  <2>6. \A m \in Matrices \ Live' : read_write_events(m)' = {}
    BY <2>3, <1>5 DEF read_write_events
  <2>. QED
    BY <1>0, <1>1, <1>3, <2>1, <2>2, <2>5, <2>6 DEF EventsTypeOK
<1>7. NoUseAfterRelease'
  BY <1>0, <1>1, <1>4, <1>5 DEF NoUseAfterRelease
<1>8. Cover'
  <2>1. ASSUME NEW X \in SUBSET Commands, ClosedSet(X)' PROVE CoversIn(X)'
    <3>1. CoversIn(X)
      BY <1>0, <1>2, <2>1 DEF Cover, ClosedSet
    <3>2. \A m \in Live' : write_events'[m] \subseteq X => WritersBefore(buf[m])' \subseteq X
      BY <3>1, <1>1, <1>4, <1>5 DEF CoversIn
    <3>3. ASSUME NEW b \in Buffers \ Released',
                 \A m \in Holders(b)' : read_write_events(m)' \subseteq X
          PROVE  Tracked(b)' \ {host'} \subseteq X
      <4>1. \A m \in Holders(b) : read_write_events(m) \subseteq X
        BY <3>3, <1>1 DEF Holders, read_write_events
      <4>. QED
        BY <3>1, <4>1, <1>1, <1>4, <1>5 DEF CoversIn
    <3>4. \A d \in Commands : cmd'[d].waits \subseteq X => cmd'[d].conflicts \subseteq X
      BY <3>1, <1>2 DEF CoversIn
    <3>. QED
      BY <3>2, <3>3, <3>4 DEF CoversIn
  <2>. QED
    BY <2>1 DEF Cover
<1>9. RunningWaitsForNothing'
  BY <1>0, <1>1, <1>2 DEF RunningWaitsForNothing
<1>. QED
  BY <1>6, <1>7, <1>8, <1>9 DEF Inv

\* A command that ends is forgotten everywhere.  What is closed under waiting afterwards is
\* closed before when that command, which waited for nothing, is added to it.
LEMMA FinishInv ==
  ASSUME Inv, NEW c \in Commands, Finish(c)
  PROVE  Inv'
<1>0. EventsTypeOK /\ NoUseAfterRelease /\ Cover /\ RunningWaitsForNothing
  BY DEF Inv
<1>1. /\ cmd[c].status = "running" /\ cmd[c].waits = {}
      /\ cmd'[c] = NoCommand
      /\ \A m \in Matrices : /\ read_events'[m] = read_events[m] \ {c}
                             /\ write_events'[m] = write_events[m] \ {c}
      /\ buf' = buf
  BY <1>0 DEF Finish, RunningWaitsForNothing
<1>12. \A d \in Commands \ {c} :
        cmd'[d] = [cmd[d] EXCEPT !.waits = cmd[d].waits \ {c},
                                 !.conflicts = cmd[d].conflicts \ {c}]
  BY DEF Finish
<1>13. /\ cmd'[c].status = "free" /\ cmd'[c].waits = {} /\ cmd'[c].reads = {}
       /\ cmd'[c].writes = {} /\ cmd'[c].conflicts = {}
  <2>1. cmd'[c] = NoCommand
    BY <1>1
  <2>. QED
    BY <2>1 DEF NoCommand
<1>2. \A d \in Commands \ {c} :
        /\ cmd'[d].waits = cmd[d].waits \ {c} /\ cmd'[d].reads = cmd[d].reads
        /\ cmd'[d].writes = cmd[d].writes /\ cmd'[d].conflicts = cmd[d].conflicts \ {c}
        /\ cmd'[d].status = cmd[d].status
  <2>1. TAKE d \in Commands \ {c}
  <2>2. cmd[d] \in [status : {"free", "queued", "running"},
                    waits : SUBSET Pending, reads : SUBSET Buffers,
                    writes : SUBSET Buffers, conflicts : SUBSET Pending]
    BY <1>0 DEF EventsTypeOK
  <2>. QED
    BY <1>12, <2>2
<1>3. Pending' = Pending \ {c} /\ c \in Pending
  BY <1>1, <1>2, <1>13 DEF Pending
<1>6. \A b \in Buffers : forgotten'[b] = forgotten[b] \ {c}
  BY DEF Finish
<1>4. ASSUME NEW b \in Buffers
      PROVE  /\ ReadersBefore(b)' = ReadersBefore(b) \ {c}
             /\ WritersBefore(b)' = WritersBefore(b) \ {c}
             /\ Tracked(b)' = Tracked(b) \ {c}
             /\ Users(b)' = Users(b) \ {c}
             /\ Holders(b)' = Holders(b)
  <2>1. /\ {d \in Pending : b \in cmd[d].reads}' = {d \in Pending : b \in cmd[d].reads} \ {c}
        /\ {d \in Pending : b \in cmd[d].writes}' = {d \in Pending : b \in cmd[d].writes} \ {c}
        /\ Users(b)' = Users(b) \ {c}
    BY <1>2, <1>3 DEF Users, Pending
  <2>2. /\ ReadersBefore(b)' = ReadersBefore(b) \ {c}
        /\ WritersBefore(b)' = WritersBefore(b) \ {c}
    BY <2>1, <1>6 DEF ReadersBefore, WritersBefore
  <2>. QED
    BY <2>1, <2>2, <1>1 DEF Tracked, Holders
<1>5. Released' = Released /\ Live' = Live
  BY <1>1 DEF Released, Holders, Live
<1>8. EventsTypeOK'
  <2>1. \A d \in Commands : cmd'[d] \in [status : {"free", "queued", "running"},
                   waits : SUBSET Pending', reads : SUBSET Buffers,
                   writes : SUBSET Buffers, conflicts : SUBSET Pending']
    <3>1. TAKE d \in Commands
    <3>2. cmd[d] \in [status : {"free", "queued", "running"},
                      waits : SUBSET Pending, reads : SUBSET Buffers,
                      writes : SUBSET Buffers, conflicts : SUBSET Pending]
      BY <1>0 DEF EventsTypeOK
    <3>3. CASE d = c
      <4>1. cmd'[d] = NoCommand
        BY <3>3, <1>1
      <4>. QED
        BY <4>1 DEF NoCommand
    <3>4. CASE d # c
      <4>1. /\ cmd[d].waits \ {c} \subseteq Pending'
            /\ cmd[d].conflicts \ {c} \subseteq Pending'
        BY <3>2, <1>3
      <4>2. cmd'[d] = [cmd[d] EXCEPT !.waits = cmd[d].waits \ {c},
                                     !.conflicts = cmd[d].conflicts \ {c}]
        BY <3>4, <1>12
      <4>. QED
        BY <3>2, <4>1, <4>2
    <3>. QED
      BY <3>3, <3>4
  <2>2. cmd' \in [Commands -> [status : {"free", "queued", "running"},
                   waits : SUBSET Pending', reads : SUBSET Buffers,
                   writes : SUBSET Buffers, conflicts : SUBSET Pending']]
    <3>1. cmd' = [d \in Commands |-> cmd'[d]]
      BY DEF Finish
    <3>. QED
      BY <2>1, <3>1
  <2>3. \A d \in Commands \ Pending' : cmd'[d] = NoCommand
    <3>1. TAKE d \in Commands \ Pending'
    <3>2. CASE d = c
      BY <3>2, <1>1
    <3>3. CASE d # c
      <4>1. cmd[d] = NoCommand
        BY <3>1, <3>3, <1>0, <1>3 DEF EventsTypeOK
      <4>2. cmd'[d] = [NoCommand EXCEPT !.waits = NoCommand.waits \ {c},
                                        !.conflicts = NoCommand.conflicts \ {c}]
        BY <4>1, <3>3, <1>12
      <4>. QED
        BY <4>2 DEF NoCommand
    <3>. QED
      BY <3>2, <3>3
  <2>4. /\ read_events' \in [Matrices -> SUBSET Pending']
        /\ write_events' \in [Matrices -> SUBSET Pending']
    BY <1>0, <1>3 DEF Finish, EventsTypeOK
  <2>5. host' \in Pending' \cup {None}
    BY <1>0, <1>3 DEF Finish, EventsTypeOK
  <2>6. /\ forgotten' \in [Buffers -> SUBSET Commands]
        /\ \A b \in Buffers : forgotten'[b] \subseteq Users(b)'
    BY <1>0, <1>4, <1>6 DEF EventsTypeOK, Finish
  <2>7. \A m \in Matrices \ Live' : read_write_events(m)' = {}
    BY <1>0, <1>1, <1>5 DEF EventsTypeOK, read_write_events
  <2>. QED
    BY <1>0, <1>1, <2>2, <2>3, <2>4, <2>5, <2>6, <2>7 DEF EventsTypeOK
<1>9. NoUseAfterRelease'
  <2>1. ASSUME NEW b \in Released' PROVE Users(b)' \subseteq forgotten'[b]
    <3>1. b \in Released /\ b \in Buffers
      BY <2>1, <1>5 DEF Released
    <3>2. Users(b) \subseteq forgotten[b]
      BY <3>1, <1>0 DEF NoUseAfterRelease
    <3>. QED
      BY <3>1, <3>2, <1>4, <1>6
  <2>. QED
    BY <2>1 DEF NoUseAfterRelease
<1>10. ASSUME NEW X \in SUBSET Commands, ClosedSet(X)' PROVE CoversIn(X)'
  <2>1. \A d \in Commands \ {c} : cmd[d].waits \subseteq cmd'[d].waits \cup {c}
    BY <1>2
  <2>2. CoversIn(X \cup {c})
    <3>1. ClosedSet(X \cup {c})
      BY <2>1, <1>1, <1>10 DEF ClosedSet
    <3>. QED
      BY <3>1, <1>0 DEF Cover
  <2>3. ASSUME NEW m \in Live', write_events'[m] \subseteq X
        PROVE  WritersBefore(buf[m])' \subseteq X
    <3>1. m \in Live /\ buf[m] \in Buffers
      BY <2>3, <1>0, <1>5 DEF EventsTypeOK, Live
    <3>2. WritersBefore(buf[m])' = WritersBefore(buf[m]) \ {c}
      BY <3>1, <1>1, <1>4
    <3>3. write_events[m] \subseteq X \cup {c}
      BY <2>3, <3>1, <1>1 DEF Live
    <3>. QED
      BY <2>2, <3>1, <3>2, <3>3 DEF CoversIn
  <2>4. ASSUME NEW b \in Buffers \ Released',
               \A m \in Holders(b)' : read_write_events(m)' \subseteq X
        PROVE  Tracked(b)' \ {host'} \subseteq X
    <3>1. \A m \in Holders(b) : read_write_events(m) \subseteq X \cup {c}
      BY <2>4, <1>1 DEF Holders, read_write_events
    <3>2. Tracked(b) \ {host} \subseteq X \cup {c}
      BY <2>2, <2>4, <3>1, <1>5 DEF CoversIn
    <3>3. host' = host \/ host = c
      BY DEF Finish
    <3>. QED
      BY <3>2, <3>3, <1>4
  <2>5. ASSUME NEW d \in Commands, cmd'[d].waits \subseteq X PROVE cmd'[d].conflicts \subseteq X
    <3>1. CASE d = c
      BY <3>1, <1>13
    <3>2. CASE d # c
      BY <3>2, <2>2, <2>5, <1>2 DEF CoversIn
    <3>. QED
      BY <3>1, <3>2
  <2>. QED
    BY <2>3, <2>4, <2>5 DEF CoversIn
<1>11. RunningWaitsForNothing'
  <2>1. ASSUME NEW d \in Commands, cmd'[d].status = "running" PROVE cmd'[d].waits = {}
    BY <2>1, <1>0, <1>2, <1>13 DEF RunningWaitsForNothing
  <2>. QED
    BY <2>1 DEF RunningWaitsForNothing
<1>. QED
  BY <1>8, <1>9, <1>10, <1>11 DEF Inv, Cover

\* The read that from_matrix_cl waits for: no list keeps it, and the host does nothing else.
LEMMA FromMatrixInv ==
  ASSUME Inv, host = None, NEW m \in Live, NEW c \in Commands, FromMatrix(m, c)
  PROVE  Inv'
<1>0. EventsTypeOK /\ NoUseAfterRelease /\ Cover /\ RunningWaitsForNothing
  BY DEF Inv
<1>1. /\ UNCHANGED <<buf, read_events, write_events, forgotten>>
      /\ host' = c /\ m \in Matrices /\ buf[m] \in Buffers
  BY <1>0 DEF FromMatrix, Live, EventsTypeOK
<1>2. PICK E \in SUBSET Pending, r \in SUBSET Buffers, w \in SUBSET Buffers :
        E = write_events[m] /\ r = {buf[m]} /\ w = {}
  <2>1. /\ write_events[m] \in SUBSET Pending /\ {buf[m]} \in SUBSET Buffers
        /\ {} \in SUBSET Buffers
    BY <1>0, <1>1 DEF EventsTypeOK
  <2>. QED
    BY <2>1
<1>3. E \subseteq Pending /\ Enqueue(c, E, r, w)
  <2>1. BuffersOf({m}) = {buf[m]}
    BY <1>1 DEF BuffersOf
  <2>. QED
    BY <1>2, <2>1 DEF FromMatrix
<1>4. /\ cmd[c] = NoCommand /\ c \notin Pending /\ Pending' = Pending \cup {c}
      /\ \A d \in Commands \ {c} : cmd'[d] = cmd[d]
      /\ cmd'[c].reads = r /\ cmd'[c].writes = w /\ cmd'[c].status = "queued"
      /\ cmd'[c].waits = E /\ cmd'[c].conflicts = Conflicts(r, w)
  BY <1>0, <1>3, EnqueueUsers
<1>5. /\ cmd' \in [Commands -> [status : {"free", "queued", "running"},
                     waits : SUBSET Pending', reads : SUBSET Buffers,
                     writes : SUBSET Buffers, conflicts : SUBSET Pending']]
      /\ \A d \in Commands \ Pending' : cmd'[d] = NoCommand
  BY <1>0, <1>3, EnqueueTypes
<1>12. \A b \in Buffers : c \notin forgotten[b]
  BY <1>0, <1>4 DEF EventsTypeOK, Users
<1>6. ASSUME NEW b \in Buffers
      PROVE  /\ WritersBefore(b)' = WritersBefore(b)
             /\ Tracked(b)' = Tracked(b) \cup (IF b = buf[m] THEN {c} ELSE {})
             /\ Users(b)' = Users(b) \cup (IF b = buf[m] THEN {c} ELSE {})
             /\ Holders(b)' = Holders(b)
  <2>1. /\ ReadersBefore(b)' = ReadersBefore(b) \cup (IF b = buf[m] THEN {c} ELSE {})
        /\ WritersBefore(b)' = WritersBefore(b)
        /\ Users(b)' = Users(b) \cup (IF b = buf[m] THEN {c} ELSE {})
    BY <1>1, <1>2, <1>4, <1>12 DEF ReadersBefore, WritersBefore, Users, Pending
  <2>. QED
    BY <2>1, <1>1 DEF Tracked, Holders
<1>7. Released' = Released /\ Live' = Live
  BY <1>1 DEF Released, Holders, Live
<1>8. EventsTypeOK'
  <2>1. \A b \in Buffers : forgotten'[b] \subseteq Users(b)'
    BY <1>0, <1>1, <1>6 DEF EventsTypeOK
  <2>2. \A n \in Matrices \ Live' : read_write_events(n)' = {}
    BY <1>0, <1>1, <1>7 DEF EventsTypeOK, read_write_events
  <2>. QED
    BY <1>0, <1>1, <1>4, <1>5, <2>1, <2>2 DEF EventsTypeOK
<1>9. NoUseAfterRelease'
  <2>1. buf[m] \notin Released /\ Released \subseteq Buffers
    BY <1>1 DEF Released, Holders
  <2>. QED
    BY <2>1, <1>0, <1>1, <1>6, <1>7 DEF NoUseAfterRelease
<1>10. ASSUME NEW X \in SUBSET Commands, ClosedSet(X)' PROVE CoversIn(X)'
  <2>1. ClosedSet(X)
    BY <1>4, <1>10, EnqueueClosed
  <2>2. CoversIn(X)
    BY <2>1, <1>0 DEF Cover
  <2>3. ASSUME NEW n \in Live', write_events'[n] \subseteq X
        PROVE  WritersBefore(buf[n])' \subseteq X
    <3>1. n \in Live /\ buf[n] \in Buffers
      BY <2>3, <1>0, <1>7 DEF EventsTypeOK, Live
    <3>. QED
      BY <2>2, <2>3, <3>1, <1>1, <1>6 DEF CoversIn
  <2>4. ASSUME NEW b \in Buffers \ Released',
               \A n \in Holders(b)' : read_write_events(n)' \subseteq X
        PROVE  Tracked(b)' \ {host'} \subseteq X
    <3>1. \A n \in Holders(b) : read_write_events(n) \subseteq X
      BY <2>4, <1>1 DEF Holders, read_write_events
    <3>0. None \notin Tracked(b)
      BY <2>4, <1>0, TrackedUsers, NoneAssumption DEF Pending
    <3>2. Tracked(b) \subseteq X
      BY <2>2, <2>4, <3>0, <3>1, <1>1, <1>7 DEF CoversIn
    <3>. QED
      BY <3>2, <1>1, <1>6
  <2>5. ASSUME NEW d \in Commands, cmd'[d].waits \subseteq X PROVE cmd'[d].conflicts \subseteq X
    <3>1. CASE d = c
      BY <3>1, <1>2, <1>4, <2>2, <2>5 DEF CoversIn, Conflicts
    <3>2. CASE d # c
      BY <3>2, <1>4, <2>2, <2>5 DEF CoversIn
    <3>. QED
      BY <3>1, <3>2
  <2>. QED
    BY <2>3, <2>4, <2>5 DEF CoversIn
<1>11. RunningWaitsForNothing'
  BY <1>0, <1>4 DEF RunningWaitsForNothing
<1>. QED
  BY <1>8, <1>9, <1>10, <1>11 DEF Inv, Cover

-----------------------------------------------------------------------------
(* The operations of the host *)

\* Facts of the type invariant that every operation needs.
LEMMA MatrixFacts ==
  ASSUME EventsTypeOK
  PROVE  /\ buf \in [Matrices -> Buffers \cup {None}]
         /\ \A m \in Live : m \in Matrices /\ buf[m] \in Buffers
         /\ \A m \in Matrices : /\ read_events[m] \subseteq Pending
                                /\ write_events[m] \subseteq Pending
         /\ \A m \in Matrices \ Live : buf[m] = None /\ Waited(m)
         /\ Writable \subseteq Live
         /\ Released \subseteq Buffers
  BY DEF EventsTypeOK, Live, Writable, Released, Waited, read_write_events

\* A matrix that may be written is the only one on its buffer.
LEMMA WritableAlone ==
  ASSUME EventsTypeOK, NEW m \in Writable, NEW n \in Matrices, buf[n] = buf[m]
  PROVE  n = m
  BY DEF Writable, Holders

\* A new matrix of host memory: one command, which writes a buffer nobody uses.
LEMMA FromHostInv ==
  ASSUME Inv, host = None, NEW m \in Matrices, NEW b \in Released, NEW c \in Free,
         FromHost(m, b, c)
  PROVE  Inv'
<1>0. EventsTypeOK
  BY DEF Inv
<1>1. Ordered(c, {}, {}, {m}, {})
  BY <1>0, MatrixFacts DEF FromHost, Ordered, Released, Holders
<1>2. BuffersOf({}) = {} /\ BuffersOf({m}) = {b} /\ buf' \in [Matrices -> Buffers \cup {None}]
  BY <1>0, MatrixFacts DEF FromHost, BuffersOf
<1>3. Enqueue(c, {}, BuffersOf({}), BuffersOf({m}))
  BY <1>2 DEF FromHost
<1>. QED
  BY <1>1, <1>2, <1>3, EnqueueInv DEF FromHost, Free

\* A kernel waits for the events of its arguments, and clears none.
LEMMA KernelInv ==
  ASSUME Inv, host = None, NEW ins \in SUBSET Live, NEW outs \in SUBSET Writable,
         NEW c \in Free, Kernel(ins, outs, c)
  PROVE  Inv'
<1>0. EventsTypeOK
  BY DEF Inv
<1>1. PICK E : E = EventsFor(ins, outs)
  OBVIOUS
<1>2. E \subseteq Pending
  BY <1>0, <1>1, MatrixFacts DEF EventsFor, read_write_events
<1>3. Ordered(c, E, ins, outs, {})
  BY <1>0, <1>1, MatrixFacts, WritableAlone DEF Kernel, Ordered, EventsFor
<1>4. Enqueue(c, E, BuffersOf(ins), BuffersOf(outs)) /\ AddEvents(c, ins, outs, {})
  BY <1>1 DEF Kernel
<1>. QED
  BY <1>0, <1>2, <1>3, <1>4, EnqueueInv, MatrixFacts DEF Kernel, Free

\* What check_assign_dimensions leaves of the results' buffers.
LEMMA DimensionsFacts ==
  ASSUME EventsTypeOK, NEW ins \in SUBSET Live, NEW outs \in SUBSET Writable,
         buf' \in Dimensions(ins, outs)
  PROVE  /\ buf' \in [Matrices -> Buffers \cup {None}]
         /\ \A m \in Matrices : buf'[m] = buf[m] \/ (/\ m \in outs \ ins /\ Waited(m)
                                                     /\ buf'[m] \in Released)
         /\ \A m \in outs, n \in Matrices : buf'[n] = buf'[m] => n = m
<1>1. CASE buf' = buf
  BY <1>1, MatrixFacts, WritableAlone
<1>2. ASSUME NEW k \in outs \ ins, Waited(k), NEW b \in Released, buf' = [buf EXCEPT ![k] = b]
      PROVE  /\ buf' \in [Matrices -> Buffers \cup {None}]
             /\ \A m \in Matrices : buf'[m] = buf[m] \/ (/\ m \in outs \ ins /\ Waited(m)
                                                         /\ buf'[m] \in Released)
             /\ \A m \in outs, n \in Matrices : buf'[n] = buf'[m] => n = m
  <2>1. /\ buf' \in [Matrices -> Buffers \cup {None}] /\ k \in Matrices
        /\ buf'[k] = b /\ \A n \in Matrices \ {k} : buf'[n] = buf[n] /\ buf[n] # b
    BY <1>2, MatrixFacts DEF Released, Holders
  <2>. QED
    BY <2>1, <1>2, WritableAlone, MatrixFacts
<1>. QED
  BY <1>1, <1>2 DEF Dimensions

\* An assignment clears the lists of its results, whose events the command waits for.
LEMMA AssignInv ==
  ASSUME Inv, host = None, NEW ins \in SUBSET Live, NEW outs \in SUBSET Writable,
         NEW c \in Free, Assign(ins, outs, c)
  PROVE  Inv'
<1>0. EventsTypeOK
  BY DEF Inv
<1>1. PICK E : E = EventsFor(ins, outs)
  OBVIOUS
<1>2. E \subseteq Pending
  BY <1>0, <1>1, MatrixFacts DEF EventsFor, read_write_events
<1>3. /\ buf' \in [Matrices -> Buffers \cup {None}]
      /\ \A m \in Matrices : buf'[m] = buf[m] \/ (/\ m \in outs \ ins /\ Waited(m)
                                                  /\ buf'[m] \in Released)
      /\ \A m \in outs, n \in Matrices : buf'[n] = buf'[m] => n = m
  BY <1>0, DimensionsFacts DEF Assign
<1>4. Ordered(c, E, ins, outs, outs)
  BY <1>0, <1>1, <1>3, MatrixFacts DEF Ordered, EventsFor
<1>5. Enqueue(c, E, BuffersOf(ins), BuffersOf(outs)) /\ AddEvents(c, ins, outs, outs)
  BY <1>1 DEF Assign
<1>. QED
  BY <1>2, <1>3, <1>4, <1>5, EnqueueInv DEF Assign, Free

\* Here the matrices used as indices must have no write that is not complete.
LEMMA AssignIndexedInv ==
  ASSUME Inv, host = None, PendingIndices = FALSE, NEW ins \in SUBSET Live,
         NEW idx \in SUBSET Live, NEW out \in Writable, NEW c \in Free,
         AssignIndexed(ins, idx, out, c)
  PROVE  Inv'
<1>0. EventsTypeOK
  BY DEF Inv
<1>1. PICK E : E = EventsFor(ins, idx \cup {out})
  OBVIOUS
<1>2. E \subseteq Pending
  BY <1>0, <1>1, MatrixFacts DEF EventsFor, read_write_events
<1>3. Ordered(c, E, ins \cup idx, {out}, idx \cup {out})
  <2>1. \A m \in idx : write_events[m] = {}
    BY DEF AssignIndexed
  <2>. QED
    BY <2>1, <1>0, <1>1, MatrixFacts, WritableAlone DEF AssignIndexed, Ordered, EventsFor
<1>4. /\ Enqueue(c, E, BuffersOf(ins \cup idx), BuffersOf({out}))
      /\ AddEvents(c, ins \cup idx, {out}, idx \cup {out})
  BY <1>1 DEF AssignIndexed
<1>. QED
  BY <1>0, <1>2, <1>3, <1>4, EnqueueInv, MatrixFacts DEF AssignIndexed, Free

\* A copy reads one matrix and writes a new buffer.
LEMMA CopyInv ==
  ASSUME Inv, host = None, NEW m \in Matrices, NEW a \in Live, NEW b \in Released,
         NEW c \in Free, Copy(m, a, b, c)
  PROVE  Inv'
<1>0. EventsTypeOK
  BY DEF Inv
<1>1. PICK E : E = write_events[a]
  OBVIOUS
<1>2. E \subseteq Pending
  BY <1>0, <1>1, MatrixFacts
<1>3. /\ buf' \in [Matrices -> Buffers \cup {None}] /\ a # m /\ Waited(m)
      /\ buf'[m] = b /\ \A n \in Matrices \ {m} : buf'[n] = buf[n] /\ buf[n] # b
  BY <1>0, MatrixFacts DEF Copy, Released, Holders
<1>4. Ordered(c, E, {a}, {m}, {})
  BY <1>0, <1>1, <1>3, MatrixFacts DEF Ordered
<1>5. BuffersOf({a}) = {buf[a]} /\ BuffersOf({m}) = {b}
  BY <1>0, <1>3, MatrixFacts DEF BuffersOf
<1>6. Enqueue(c, E, BuffersOf({a}), BuffersOf({m})) /\ AddEvents(c, {a}, {m}, {})
  BY <1>1, <1>5 DEF Copy
<1>. QED
  BY <1>2, <1>3, <1>4, <1>6, EnqueueInv DEF Copy, Free

\* The type invariant of an operation that enqueues nothing.
LEMMA QuietType ==
  ASSUME EventsTypeOK, UNCHANGED <<cmd, host>>, buf' \in [Matrices -> Buffers \cup {None}],
         read_events' \in [Matrices -> SUBSET Pending],
         write_events' \in [Matrices -> SUBSET Pending],
         \A m \in Matrices : buf'[m] = None => read_events'[m] \cup write_events'[m] = {},
         forgotten' \in [Buffers -> SUBSET Commands],
         \A b \in Buffers : forgotten'[b] \subseteq Users(b)
  PROVE  EventsTypeOK'
<1>1. Pending' = Pending /\ \A b : Users(b)' = Users(b)
  BY DEF Pending, Users
<1>2. \A b \in Buffers : forgotten'[b] \subseteq Users(b)'
  BY <1>1
<1>3. \A m \in Matrices \ Live' : read_write_events(m)' = {}
  BY DEF Live, read_write_events
<1>. QED
  BY <1>1, <1>2, <1>3 DEF EventsTypeOK

\* A new matrix without contents takes a buffer nobody uses.
LEMMA ConstructInv ==
  ASSUME Inv, host = None, NEW m \in Matrices, NEW b \in Released, Construct(m, b)
  PROVE  Inv'
<1>0. EventsTypeOK
  BY DEF Inv
<1>1. /\ UNCHANGED <<read_events, write_events, cmd, host, forgotten>>
      /\ buf[m] = None /\ Waited(m) /\ b \in Released
      /\ buf' \in [Matrices -> Buffers \cup {None}]
      /\ buf'[m] = b /\ \A n \in Matrices \ {m} : buf'[n] = buf[n] /\ buf[n] # b
  BY <1>0, MatrixFacts DEF Construct, Live, Released, Holders
<1>2. Users(b) \subseteq forgotten[b] /\ b \in Buffers
  BY DEF Inv, NoUseAfterRelease, Released
<1>3. EventsTypeOK'
  BY <1>0, <1>1, <1>2, NoneAssumption, QuietType DEF EventsTypeOK, Live, read_write_events
<1>4. Kept
  <2>1. \A n \in Live' : n = m \/ n \in Live
    BY <1>1 DEF Live
  <2>2. \A n \in Matrices : buf[n] \in Buffers => buf'[n] = buf[n]
    BY <1>1, NoneAssumption
  <2>3. Released' \subseteq Released
    BY <2>2 DEF Released, Holders
  <2>4. \A x \in Buffers : \A n \in Holders(x) : buf'[n] = x /\ n \in Matrices
    BY <2>2 DEF Holders
  <2>. QED
    BY <1>1, <1>2, <2>1, <2>3, <2>4, <1>0, MatrixFacts DEF Kept, read_write_events
<1>. QED
  BY <1>1, <1>3, <1>4, QuietCover

\* A moved buffer keeps its events: they move with it.
LEMMA MoveInv ==
  ASSUME Inv, host = None, NEW m \in Matrices, NEW a \in Live, Move(m, a)
  PROVE  Inv'
<1>0. EventsTypeOK
  BY DEF Inv
<1>1. /\ UNCHANGED <<cmd, host, forgotten>> /\ a \in Matrices /\ a # m /\ Waited(m)
      /\ buf' \in [Matrices -> Buffers \cup {None}]
      /\ buf'[m] = buf[a] /\ buf'[a] = None
      /\ read_events'[m] = read_events[a] /\ read_events'[a] = {}
      /\ write_events'[m] = write_events[a] /\ write_events'[a] = {}
      /\ \A n \in Matrices \ {a, m} : /\ buf'[n] = buf[n] /\ read_events'[n] = read_events[n]
                                      /\ write_events'[n] = write_events[n]
  BY <1>0, MatrixFacts DEF Move, EventsTypeOK
<1>2. EventsTypeOK'
  <2>1. \A n \in Matrices : buf'[n] = None => read_events'[n] \cup write_events'[n] = {}
    BY <1>0, <1>1, MatrixFacts, NoneAssumption DEF Waited, read_write_events, Live
  <2>2. /\ read_events' \in [Matrices -> SUBSET Pending]
        /\ write_events' \in [Matrices -> SUBSET Pending]
    BY <1>0, <1>1 DEF Move, EventsTypeOK
  <2>3. /\ forgotten' \in [Buffers -> SUBSET Commands]
        /\ \A b \in Buffers : forgotten'[b] \subseteq Users(b)
    BY <1>0, <1>1 DEF EventsTypeOK
  <2>. QED
    BY <1>0, <1>1, <2>1, <2>2, <2>3, QuietType
<1>3. Kept
  <2>1. \A n \in Live' : n = m \/ (n \in Live /\ n \in Matrices \ {a, m})
    BY <1>1 DEF Live
  <2>2. \A n \in Matrices : \/ n = m
                            \/ n = a /\ buf'[m] = buf[n]
                            \/ n \notin {a, m} /\ buf'[n] = buf[n]
    BY <1>1
  <2>3. \A x \in Released' : \A n \in Holders(x) : Waited(n)
    BY <1>1, <2>2 DEF Released, Holders
  <2>4. \A x : \A n \in Matrices : buf[n] = x =>
          \/ Waited(n)
          \/ \E k \in Matrices : /\ buf'[k] = x
                                 /\ read_write_events(n) \subseteq
                                      read_events'[k] \cup write_events'[k]
    BY <1>1, <2>2 DEF read_write_events
  <2>5. \A n \in Live' : \E k \in Live :
          buf[k] = buf'[n] /\ write_events[k] \subseteq write_events'[n]
    BY <1>1, <2>1
  <2>. QED
    BY <1>1, <2>3, <2>4, <2>5 DEF Kept, Holders
<1>. QED
  BY <1>1, <1>2, <1>3, QuietCover

\* A second matrix on a buffer starts with the events of the first.
LEMMA ToArenaInv ==
  ASSUME Inv, host = None, NEW m \in Matrices, NEW a \in Live, ToArena(m, a)
  PROVE  Inv'
<1>0. EventsTypeOK
  BY DEF Inv
<1>1. /\ UNCHANGED <<cmd, host, forgotten>> /\ a \in Matrices /\ buf[m] = None /\ Waited(m)
      /\ buf' \in [Matrices -> Buffers \cup {None}] /\ buf[a] \in Buffers
      /\ buf'[m] = buf[a]
      /\ read_events'[m] = read_events[a] /\ write_events'[m] = write_events[a]
      /\ \A n \in Matrices \ {m} : /\ buf'[n] = buf[n] /\ read_events'[n] = read_events[n]
                                   /\ write_events'[n] = write_events[n]
  BY <1>0, MatrixFacts DEF ToArena, EventsTypeOK, Live
<1>2. EventsTypeOK'
  <2>1. \A n \in Matrices : buf'[n] = None => read_events'[n] \cup write_events'[n] = {}
    BY <1>0, <1>1, MatrixFacts, NoneAssumption DEF Waited, read_write_events, Live
  <2>2. /\ read_events' \in [Matrices -> SUBSET Pending]
        /\ write_events' \in [Matrices -> SUBSET Pending]
    BY <1>0, <1>1 DEF ToArena, EventsTypeOK
  <2>3. /\ forgotten' \in [Buffers -> SUBSET Commands]
        /\ \A b \in Buffers : forgotten'[b] \subseteq Users(b)
    BY <1>0, <1>1 DEF EventsTypeOK
  <2>. QED
    BY <1>0, <1>1, <2>1, <2>2, <2>3, QuietType
<1>3. Kept
  <2>1. \A n \in Live' : n = m \/ (n \in Live /\ n \in Matrices \ {m})
    BY <1>1 DEF Live
  <2>2. \A n \in Matrices : n = m \/ (n # m /\ buf'[n] = buf[n])
    BY <1>1
  <2>3. \A x \in Released' : \A n \in Holders(x) : Waited(n)
    BY <1>1, <2>2 DEF Released, Holders
  <2>4. \A x : \A n \in Matrices : buf[n] = x =>
          \/ Waited(n)
          \/ \E k \in Matrices : /\ buf'[k] = x
                                 /\ read_write_events(n) \subseteq
                                      read_events'[k] \cup write_events'[k]
    BY <1>1, <2>2 DEF read_write_events
  <2>5. \A n \in Live' : \E k \in Live :
          buf[k] = buf'[n] /\ write_events[k] \subseteq write_events'[n]
    BY <1>1, <2>1
  <2>. QED
    BY <1>1, <2>3, <2>4, <2>5 DEF Kept, Holders
<1>. QED
  BY <1>1, <1>2, <1>3, QuietCover

\* A destroyed matrix waited for its events; other matrices on its buffer keep theirs.
LEMMA DestroyInv ==
  ASSUME Inv, host = None, NEW m \in Live, Destroy(m)
  PROVE  Inv'
<1>0. EventsTypeOK
  BY DEF Inv
<1>1. /\ UNCHANGED <<read_events, write_events, cmd, host, forgotten>>
      /\ m \in Matrices /\ Waited(m)
      /\ buf' \in [Matrices -> Buffers \cup {None}]
      /\ buf'[m] = None /\ \A n \in Matrices \ {m} : buf'[n] = buf[n]
  BY <1>0, MatrixFacts DEF Destroy, Live
<1>2. EventsTypeOK'
  <2>1. \A n \in Matrices : buf'[n] = None => read_events'[n] \cup write_events'[n] = {}
    BY <1>0, <1>1, MatrixFacts DEF Waited, read_write_events, Live
  <2>2. /\ forgotten' \in [Buffers -> SUBSET Commands]
        /\ \A b \in Buffers : forgotten'[b] \subseteq Users(b)
    BY <1>0, <1>1 DEF EventsTypeOK
  <2>. QED
    BY <1>0, <1>1, <2>1, <2>2, QuietType DEF EventsTypeOK
<1>3. Kept
  <2>1. \A n \in Live' : n \in Live /\ n \in Matrices \ {m}
    BY <1>1 DEF Live
  <2>2. \A n \in Matrices : n = m \/ (n # m /\ buf'[n] = buf[n])
    BY <1>1
  <2>3. \A x \in Released' : \A n \in Holders(x) : Waited(n)
    BY <1>1, <2>2 DEF Released, Holders
  <2>4. \A x : \A n \in Matrices : buf[n] = x =>
          \/ Waited(n)
          \/ \E k \in Matrices : /\ buf'[k] = x
                                 /\ read_write_events(n) \subseteq
                                      read_events'[k] \cup write_events'[k]
    BY <1>1, <2>2 DEF read_write_events
  <2>5. \A n \in Live' : \E k \in Live :
          buf[k] = buf'[n] /\ write_events[k] \subseteq write_events'[n]
    BY <1>1, <2>1
  <2>. QED
    BY <1>1, <2>3, <2>4, <2>5 DEF Kept, Holders
<1>. QED
  BY <1>1, <1>2, <1>3, QuietCover

\* When an enqueue throws, every user of a buffer whose lists were cleared counts as dropped
\* from then on; other matrices and buffers keep what they had.
LEMMA DropInv ==
  ASSUME Inv, host = None, NEW ms \in SUBSET Matrices, UNCHANGED <<cmd, host>>,
         DropEvents(ms), buf' \in [Matrices -> Buffers \cup {None}],
         \A m \in ms : buf'[m] \in Buffers,
         \A m \in Matrices : buf'[m] = buf[m] \/ (Waited(m) /\ buf'[m] \in Released /\ m \in ms)
  PROVE  Inv'
<1>0. EventsTypeOK /\ NoUseAfterRelease
  BY DEF Inv
<1>1. /\ \A m \in ms : read_events'[m] = {} /\ write_events'[m] = {}
      /\ \A m \in Matrices \ ms : /\ read_events'[m] = read_events[m]
                                  /\ write_events'[m] = write_events[m]
      /\ \A b \in Buffers : forgotten[b] \subseteq forgotten'[b]
  BY DEF DropEvents
<1>2. \A m \in ms : Users(buf'[m]) \subseteq forgotten'[buf'[m]]
  BY DEF DropEvents, BuffersOf
<1>3. EventsTypeOK'
  <2>1. \A n \in Matrices : buf'[n] = None => read_events'[n] \cup write_events'[n] = {}
    BY <1>0, <1>1, MatrixFacts, NoneAssumption DEF Waited, read_write_events, Live
  <2>2. /\ read_events' \in [Matrices -> SUBSET Pending]
        /\ write_events' \in [Matrices -> SUBSET Pending]
    BY <1>0 DEF DropEvents, EventsTypeOK
  <2>3. \A b \in Buffers : Users(b) \subseteq Commands
    BY DEF Users, Pending
  <2>4. /\ forgotten' \in [Buffers -> SUBSET Commands]
        /\ \A b \in Buffers : forgotten'[b] \subseteq Users(b)
    BY <1>0, <2>3 DEF DropEvents, EventsTypeOK
  <2>. QED
    BY <1>0, <2>1, <2>2, <2>4, QuietType
<1>4. Kept
  <2>1. ASSUME NEW m \in Live', m \notin ms
        PROVE  m \in Live /\ buf[m] = buf'[m] /\ write_events[m] \subseteq write_events'[m]
    BY <2>1, <1>1 DEF Live
  <2>2. ASSUME NEW b \in Buffers, ~(Users(b) \subseteq forgotten'[b]), NEW n \in Holders(b)
        PROVE  \/ Waited(n)
               \/ /\ n \in Matrices /\ buf'[n] = b
                  /\ read_write_events(n) \subseteq read_events'[n] \cup write_events'[n]
    <3>1. n \in Matrices /\ buf[n] = b
      BY DEF Holders
    <3>2. CASE buf'[n] = buf[n]
      BY <2>2, <3>1, <3>2, <1>1, <1>2 DEF read_write_events
    <3>3. CASE buf'[n] # buf[n]
      BY <3>1, <3>3
    <3>. QED
      BY <3>2, <3>3
  <2>3. \A m \in Live' : \/ Users(buf'[m]) \subseteq forgotten'[buf'[m]]
                         \/ \E n \in Live : /\ buf[n] = buf'[m]
                                            /\ write_events[n] \subseteq write_events'[m]
    BY <2>1, <1>2
  <2>4. ASSUME NEW b \in Released', NEW n \in Holders(b) PROVE Waited(n)
    BY <2>4 DEF Released, Holders
  <2>. QED
    BY <1>1, <2>2, <2>3, <2>4 DEF Kept
<1>. QED
  BY <1>3, <1>4, QuietCover

\* An assignment that throws drops the events of its results,
LEMMA AssignThrowsInv ==
  ASSUME Inv, host = None, NEW ins \in SUBSET Live, NEW outs \in SUBSET Writable,
         AssignThrows(ins, outs)
  PROVE  Inv'
<1>0. EventsTypeOK
  BY DEF Inv
<1>1. /\ buf' \in [Matrices -> Buffers \cup {None}]
      /\ \A m \in Matrices : buf'[m] = buf[m] \/ (/\ m \in outs \ ins /\ Waited(m)
                                                  /\ buf'[m] \in Released)
  BY <1>0, DimensionsFacts DEF AssignThrows
<1>2. outs \subseteq Matrices /\ \A m \in outs : buf'[m] \in Buffers
  BY <1>0, <1>1, MatrixFacts
<1>. QED
  BY <1>1, <1>2, DropInv DEF AssignThrows

\* and one that indexes drops those of the index matrices too.
LEMMA AssignIndexedThrowsInv ==
  ASSUME Inv, host = None, NEW ins \in SUBSET Live, NEW idx \in SUBSET Live,
         NEW out \in Writable, AssignIndexedThrows(ins, idx, out)
  PROVE  Inv'
<1>0. EventsTypeOK
  BY DEF Inv
<1>1. PICK ms \in SUBSET Matrices : ms = idx \cup {out}
  BY <1>0, MatrixFacts
<1>2. DropEvents(ms) /\ UNCHANGED <<buf, cmd, host>>
  BY <1>1 DEF AssignIndexedThrows
<1>. QED
  BY <1>0, <1>1, <1>2, DropInv, MatrixFacts

-----------------------------------------------------------------------------
(* The theorems *)

\* No matrix, no command.
LEMMA InitInv == Init => Inv
<1>. SUFFICES ASSUME Init PROVE Inv
  OBVIOUS
<1>1. Pending = {} /\ Live = {}
  BY DEF Init, Pending, NoCommand, Live
<1>2. \A b : ReadersBefore(b) = {} /\ WritersBefore(b) = {} /\ Tracked(b) = {} /\ Users(b) = {}
  BY <1>1 DEF ReadersBefore, WritersBefore, Tracked, Users
<1>3. EventsTypeOK
  BY <1>1, <1>2 DEF Init, EventsTypeOK, NoCommand, read_write_events
<1>4. \A X \in SUBSET Commands : CoversIn(X)
  BY <1>1, <1>2 DEF Init, CoversIn, NoCommand
<1>. QED
  BY <1>2, <1>3, <1>4 DEF Inv, Cover, NoUseAfterRelease, RunningWaitsForNothing, Init, NoCommand

\* What the invariant says is a function of the variables.
LEMMA StutterInv ==
  ASSUME Inv, UNCHANGED vars
  PROVE  Inv'
<1>0. EventsTypeOK /\ NoUseAfterRelease /\ Cover /\ RunningWaitsForNothing
  BY DEF Inv
<1>1. UNCHANGED <<buf, read_events, write_events, cmd, host, forgotten>>
  BY DEF vars
<1>2. Pending' = Pending /\ Live' = Live
  BY <1>1 DEF Pending, Live
<1>3. \A b : /\ WritersBefore(b)' = WritersBefore(b)
             /\ Tracked(b)' = Tracked(b)
             /\ Users(b)' = Users(b)
             /\ Holders(b)' = Holders(b)
  BY <1>1 DEF ReadersBefore, WritersBefore, Tracked, Users, Holders, Pending
<1>4. Released' = Released
  BY <1>1 DEF Released, Holders
<1>5. EventsTypeOK'
  <2>1. \A b \in Buffers : forgotten'[b] \subseteq Users(b)'
    BY <1>0, <1>1, <1>3 DEF EventsTypeOK
  <2>. QED
    BY <1>0, <1>1, <1>2, <2>1 DEF EventsTypeOK, read_write_events
<1>6. NoUseAfterRelease'
  BY <1>0, <1>1, <1>3, <1>4 DEF NoUseAfterRelease
<1>7. ASSUME NEW X \in SUBSET Commands, ClosedSet(X)' PROVE CoversIn(X)'
  <2>1. CoversIn(X)
    BY <1>0, <1>1, <1>7 DEF Cover, ClosedSet
  <2>2. \A m \in Live' : write_events'[m] \subseteq X => WritersBefore(buf[m])' \subseteq X
    BY <2>1, <1>1, <1>2, <1>3 DEF CoversIn
  <2>3. ASSUME NEW b \in Buffers \ Released',
               \A m \in Holders(b)' : read_write_events(m)' \subseteq X
        PROVE  Tracked(b)' \ {host'} \subseteq X
    <3>1. \A m \in Holders(b) : read_write_events(m) \subseteq X
      BY <2>3, <1>1 DEF Holders, read_write_events
    <3>. QED
      BY <2>1, <3>1, <1>1, <1>3, <1>4 DEF CoversIn
  <2>. QED
    BY <2>1, <2>2, <2>3, <1>1 DEF CoversIn
<1>8. Cover'
  BY <1>7 DEF Cover
<1>9. RunningWaitsForNothing'
  BY <1>0, <1>1 DEF RunningWaitsForNothing
<1>. QED
  BY <1>5, <1>6, <1>8, <1>9 DEF Inv

\* One lemma for each operation of the host and each step of the device.
LEMMA NextInv ==
  ASSUME PendingIndices = FALSE, Inv, [Next]_vars
  PROVE  Inv'
<1>1. CASE HostStep
  BY <1>1, ConstructInv, FromHostInv, KernelInv, AssignInv, AssignThrowsInv, AssignIndexedInv,
     AssignIndexedThrowsInv, CopyInv, MoveInv, ToArenaInv, DestroyInv, FromMatrixInv DEF HostStep, Free
<1>2. ASSUME NEW c \in Commands, Start(c) \/ Finish(c) PROVE Inv'
  BY <1>2, StartInv, FinishInv
<1>3. CASE UNCHANGED vars
  BY <1>3, StutterInv
<1>. QED
  BY <1>1, <1>2, <1>3 DEF Next

\* The inductive invariant holds in every reachable state.
THEOREM InvAlways == PendingIndices = FALSE => (Spec => []Inv)
<1>. SUFFICES ASSUME PendingIndices = FALSE PROVE Spec => []Inv
  OBVIOUS
<1>1. Inv /\ [Next]_vars => Inv'
  BY NextInv
<1>. QED
  BY <1>1, InitInv, PTL DEF Spec

\* matrix_cl keeps well-formed lists: members are in their types, no event of a command that
\* ended is kept, and a matrix without a buffer keeps none.
THEOREM EventsType == PendingIndices = FALSE => (Spec => []EventsTypeOK)
<1>1. Inv => EventsTypeOK
  BY DEF Inv
<1>. QED
  BY <1>1, InvAlways, PTL

\* The event lists of matrix_cl order every two commands that conflict: one that runs has
\* nothing before it in program order that excludes it and has not ended.  An enqueue that
\* throws, also that of an assignment to an indexing, unorders what comes after it from the
\* commands it dropped from the lists of a buffer both use, and from no other.
THEOREM ConflictsAlwaysOrdered == PendingIndices = FALSE => (Spec => []ConflictsOrdered)
  BY InvOrdered, InvAlways, PTL

\* What ~matrix_cl and the operations that replace a buffer wait for suffices: a command that
\* uses a buffer no matrix holds is one that a failed enqueue dropped from the lists of that
\* buffer, enqueued before the failure; of the commands enqueued since then there is none.
THEOREM BuffersOutliveCommands == PendingIndices = FALSE => (Spec => []NoUseAfterRelease)
<1>1. Inv => NoUseAfterRelease
  BY DEF Inv
<1>. QED
  BY <1>1, InvAlways, PTL

\* Whatever cleared, copied or moved events, waiting for those of a matrix waits, directly or
\* through other commands, for all that use its buffer, but for those that a failed enqueue
\* (of its results or of its index matrices) dropped from the lists of that buffer.
THEOREM EventsAlwaysCover == PendingIndices = FALSE => (Spec => []EventsCover)
  BY InvCovers, InvAlways, PTL
=============================================================================
