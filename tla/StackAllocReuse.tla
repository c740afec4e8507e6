--------------------------- MODULE StackAllocReuse ---------------------------
(***************************************************************************)
(* Why the pool exists: a program that repeats its requests after          *)
(* recover_all() gets the same memory again, without malloc(), and a       *)
(* program that never recovers wastes a bounded share of what it mallocs.  *)
(* StackAlloc with a log of the client's calls.                            *)
(***************************************************************************)
EXTENDS StackAlloc, Sums

CONSTANT MaxCalls  \* bound: calls between two recoveries

VARIABLES
  log,    \* history: the calls since the pool was last rewound, with what they returned
  past,   \* history: the calls of the period before that
  fresh   \* history: no memory has ever been recovered

allVars == <<vars, log, past, fresh>>

ReuseInit == Init /\ log = << >> /\ past = << >> /\ fresh = TRUE

\* An entry: the call, and for alloc() the pointer returned and the blocks owned after.
Call(op, len) ==
  [op |-> op, len |-> len, next |-> next_loc_', blocks |-> Len(sizes_')]

LogCall(op, len) ==
  /\ Len(log) < MaxCalls
  /\ log' = Append(log, Call(op, len))
  /\ UNCHANGED past

Rewound == log' = << >> /\ past' = log

ReuseNext ==
  \/ \E len \in Lens : alloc(len) /\ LogCall("alloc", len) /\ UNCHANGED fresh
  \/ start_nested /\ LogCall("start_nested", 0) /\ UNCHANGED fresh
  \/ recover_nested /\ LogCall("recover_nested", 0) /\ fresh' = FALSE
  \/ nested_cur_blocks_ = << >> /\ recover_all /\ Rewound /\ fresh' = FALSE
  \/ nested_cur_blocks_ = << >> /\ free_all /\ log' = << >> /\ past' = << >> /\ fresh' = FALSE

ReuseSpec == ReuseInit /\ [][ReuseNext]_allVars

\* The sum of sizes_ up to and including cur_block_.
bytes_allocated == SumOver(1..cur_block_, sizes_)

Requested == SumOver(DOMAIN log, [i \in DOMAIN log |-> log[i].len])

\* The calls made so far are those of the previous period, in the same order.
Repeating ==
  /\ Len(log) <= Len(past)
  /\ \A i \in DOMAIN log : log[i].op = past[i].op /\ log[i].len = past[i].len

\* The class comment "the memory may be recovered, with the blocks being reused":
\* after recover_all(), repeating the same calls leads to the same addresses and
\* never to a malloc(), nested frames and skipped blocks included.
RepeatReusesMemory ==
  Repeating => \A i \in DOMAIN log :
    log[i].next = past[i].next /\ log[i].blocks = past[Len(past)].blocks

\* test/unit/math/memory/stack_alloc_test.cpp bounds the heap memory of a pool by its
\* initial size plus three times what was requested, and from below by what was
\* requested: both hold for every sequence of requests to a new pool (the test's upper
\* bound is strict, and two exact fits in a row reach it).
HeapOverheadBounded ==
  fresh => /\ Requested <= bytes_allocated
           /\ bytes_allocated <= InitialNBytes + 3 * Requested
=============================================================================
