------------------------------- MODULE Queue --------------------------------
(***************************************************************************)
(* t_slot::t_queue: the single-producer single-consumer ring in which a    *)
(* mutator thread leaves its reference-count operations for the collector, *)
(* together with the handshake on v_collector__running that wakes the      *)
(* collector and blocks a mutator whose ring is full.                      *)
(*                                                                         *)
(* Pointers into v_objects are indices 0 .. A_SIZE - 1.  v_head is the     *)
(* entry written next, v_tail the entry applied last or being applied, so  *)
(* the ring is empty when v_head follows v_tail and full when they meet.   *)
(* An entry holds the number of the push that wrote it, which is all the   *)
(* properties need to tell entries apart.                                  *)
(***************************************************************************)
EXTENDS Integers

CONSTANTS
  A_SIZE,    \* entries in the ring
  Deferred,  \* FALSE: t_increments, TRUE: t_decrements
  MaxPush,   \* bound: operations the mutator pushes
  MaxTicks   \* bound: ticks coming from elsewhere (other mutators, the heap)

ASSUME SizeAssumption == A_SIZE \in Nat /\ A_SIZE >= 2
ASSUME DeferredAssumption == Deferred \in BOOLEAN
ASSUME BoundsAssumption == MaxPush \in Nat /\ MaxTicks \in Nat

VARIABLES
  v_head, v_next, v_objects,     \* written by the producer
  v_epoch,                       \* v_head as of the latest suspension
  v_tail, v_last,                \* written by the collector
  a_epoch, next,                 \* locals of f__flush
  producer,                      \* where the mutator is in f__push
  collector,                     \* where the collector is in its loop
  running,                       \* v_collector__running
  ticks,                         \* ticks from elsewhere so far
  pushed, applied, got,          \* history: numbers of operations
  mark, limit                    \* history: snapshot and limit of the epoch

producerVars == <<v_head, v_next, v_objects, producer, pushed>>
collectorVars == <<v_epoch, v_tail, v_last, a_epoch, next, collector, applied,
                   got, mark, limit>>
vars == <<producerVars, collectorVars, running, ticks>>

Index == 0 .. A_SIZE - 1
End == A_SIZE - 1

\* The pointer before p in the ring, as f__flush computes it from a_epoch.
Before(p) == IF p > 0 THEN p - 1 ELSE End

AtMost(a, b) == IF a <= b THEN a ELSE b
-----------------------------------------------------------------------------
Init ==
  /\ v_head = 0
  /\ v_next = A_SIZE \div 8
  /\ v_objects = [i \in Index |-> 0]
  /\ v_epoch = 0
  /\ v_tail = End
  /\ v_last = 0
  /\ a_epoch = End
  /\ next = End
  /\ producer = "idle"
  /\ collector = "wait"
  /\ running = FALSE
  /\ ticks = 0
  /\ pushed = 0 /\ applied = 0 /\ got = 0 /\ mark = 0 /\ limit = 0

(***************************************************************************)
(* The mutator.                                                            *)
(***************************************************************************)

\* f__push: write the entry and step past it; at v_next, fall into f_next,
\* which ticks the collector while v_head is still on the entry.
f__push ==
  /\ producer = "idle"
  /\ pushed < MaxPush
  /\ v_objects' = [v_objects EXCEPT ![v_head] = pushed + 1]
  /\ IF v_head = v_next
       THEN /\ producer' = "head" /\ running' = TRUE
            /\ UNCHANGED <<v_head, pushed>>
       ELSE /\ v_head' = v_head + 1 /\ pushed' = pushed + 1
            /\ UNCHANGED <<producer, running>>
  /\ UNCHANGED <<v_next, collectorVars, ticks>>

\* f_next: move v_head past the entry before looking for room.
f_next_head ==
  /\ producer = "head"
  /\ v_head' = IF v_head < End THEN v_head + 1 ELSE 0
  /\ pushed' = pushed + 1
  /\ producer' = "check"
  /\ UNCHANGED <<v_next, v_objects, collectorVars, running, ticks>>

\* f_next: "while (v_tail == v_head) engine->f_wait();"
f_next_check ==
  /\ producer = "check"
  /\ IF v_tail = v_head
       THEN producer' = "wait" /\ running' = TRUE
       ELSE producer' = "next" /\ UNCHANGED running
  /\ UNCHANGED <<v_head, v_next, v_objects, pushed, collectorVars, ticks>>

\* f_wait: "v_collector__running.wait(true)" returns once the flag is clear.
f_wait_return ==
  /\ producer = "wait"
  /\ ~running
  /\ producer' = "check"
  /\ UNCHANGED <<v_head, v_next, v_objects, pushed, collectorVars, running, ticks>>

\* Mutants: the limit may lie past the end of the ring, or on the entry the
\* collector is at.
f_next_limitUnbounded ==
  /\ producer = "next"
  /\ v_next' = v_head + A_SIZE \div 8
  /\ producer' = "idle"
  /\ UNCHANGED <<v_head, v_objects, pushed, collectorVars, running, ticks>>

f_next_limitTail ==
  /\ producer = "next"
  /\ LET room == IF v_tail < v_head THEN End ELSE v_tail
     IN v_next' = AtMost(room, v_head + A_SIZE \div 8)
  /\ producer' = "idle"
  /\ UNCHANGED <<v_head, v_objects, pushed, collectorVars, running, ticks>>

\* f_next: there is room; how far it may write before it must look again.
f_next_limit ==
  /\ producer = "next"
  /\ LET room == IF v_tail < v_head THEN End ELSE v_tail - 1
     IN v_next' = AtMost(room, v_head + A_SIZE \div 8)
  /\ producer' = "idle"
  /\ UNCHANGED <<v_head, v_objects, pushed, collectorVars, running, ticks>>

\* f_tick from another mutator, or from the heap when it grows.
f_tick ==
  /\ ~running
  /\ ticks < MaxTicks
  /\ ticks' = ticks + 1
  /\ running' = TRUE
  /\ UNCHANGED <<producerVars, collectorVars>>

(***************************************************************************)
(* The collector.                                                          *)
(***************************************************************************)

\* f_collector: "v_collector__running.wait(false)" returns, and f_epoch
\* suspends the mutator, whose handler stores v_head to v_epoch; f_flush then
\* starts f__flush from v_epoch (increments) or v_last (decrements).
f_epoch_suspend ==
  /\ collector = "wait"
  /\ running
  /\ v_epoch' = v_head
  /\ a_epoch' = Before(IF Deferred THEN v_last ELSE v_head)
  /\ collector' = "flush"
  /\ mark' = pushed
  /\ limit' = IF Deferred THEN mark ELSE pushed
  /\ UNCHANGED <<producerVars, v_tail, v_last, next, applied, got, running, ticks>>

\* Mutant: the run starts at the entry applied last.
f__flush_runAgain ==
  /\ collector = "flush"
  /\ v_tail # a_epoch
  /\ next' = IF v_tail < End /\ a_epoch < v_tail THEN End ELSE a_epoch
  /\ collector' = "apply"
  /\ UNCHANGED <<producerVars, v_epoch, v_tail, v_last, a_epoch, applied, got,
                 mark, limit, running, ticks>>

\* f__flush, outer loop: pick the end of the next run of entries and move
\* v_tail onto its first entry.
f__flush_run ==
  /\ collector = "flush"
  /\ v_tail # a_epoch
  /\ next' = IF v_tail < End /\ a_epoch < v_tail THEN End ELSE a_epoch
  /\ v_tail' = IF v_tail < End THEN v_tail + 1 ELSE 0
  /\ collector' = "apply"
  /\ UNCHANGED <<producerVars, v_epoch, v_last, a_epoch, applied, got, mark,
                 limit, running, ticks>>

\* f__flush, inner loop: apply the entry at v_tail and step to the next one.
f__flush_apply ==
  /\ collector = "apply"
  /\ got' = v_objects[v_tail]
  /\ applied' = applied + 1
  /\ IF v_tail = next
       THEN collector' = "flush" /\ UNCHANGED v_tail
       ELSE v_tail' = v_tail + 1 /\ UNCHANGED collector
  /\ UNCHANGED <<producerVars, v_epoch, v_last, a_epoch, next, mark, limit,
                 running, ticks>>

\* Mutants: v_epoch is not remembered, or the flag is not cleared.
f_flush_endForgetful ==
  /\ collector = "flush"
  /\ v_tail = a_epoch
  /\ running' = FALSE
  /\ collector' = "wait"
  /\ UNCHANGED <<producerVars, v_epoch, v_tail, v_last, a_epoch, next, applied,
                 got, mark, limit, ticks>>

f_flush_endSilent ==
  /\ collector = "flush"
  /\ v_tail = a_epoch
  /\ v_last' = v_epoch
  /\ collector' = "wait"
  /\ UNCHANGED <<producerVars, v_epoch, v_tail, a_epoch, next, applied, got,
                 mark, limit, running, ticks>>

\* The flush is complete; t_decrements::f_flush remembers v_epoch, and the
\* loop of f_collector clears the flag and notifies the waiting mutators.
f_flush_end ==
  /\ collector = "flush"
  /\ v_tail = a_epoch
  /\ v_last' = v_epoch
  /\ running' = FALSE
  /\ collector' = "wait"
  /\ UNCHANGED <<producerVars, v_epoch, v_tail, a_epoch, next, applied, got,
                 mark, limit, ticks>>

Mutator ==
  f__push \/ f_next_head \/ f_next_check \/ f_wait_return \/ f_next_limit
Collector == f_epoch_suspend \/ f__flush_run \/ f__flush_apply \/ f_flush_end

Next == Mutator \/ f_tick \/ Collector

Spec == Init /\ [][Next]_vars

(***************************************************************************)
(* The collector thread runs on, and a mutator inside f_next does not stop *)
(* there by itself; nothing forces a mutator to push.                      *)
(***************************************************************************)
Fairness ==
  /\ WF_vars(Collector)
  /\ WF_vars(f_next_head \/ f_next_check \/ f_wait_return \/ f_next_limit)

FairSpec == Spec /\ Fairness
-----------------------------------------------------------------------------
TypeOK ==
  /\ v_head \in Index /\ v_next \in Index /\ v_tail \in Index
  /\ v_epoch \in Index /\ v_last \in Index
  /\ a_epoch \in Index /\ next \in Index
  /\ v_objects \in [Index -> Nat]
  /\ producer \in {"idle", "head", "check", "wait", "next"}
  /\ collector \in {"wait", "flush", "apply"}
  /\ running \in BOOLEAN
  /\ ticks \in Nat
  /\ pushed \in Nat /\ applied \in Nat /\ got \in Nat
  /\ mark \in Nat /\ limit \in Nat

(***************************************************************************)
(* While the collector applies the entry under v_tail, that entry is still *)
(* the oldest operation not yet applied: the mutator, which checks for     *)
(* room only once every A_SIZE / 8 pushes, has not written over it, and    *)
(* the flush has not run past the head into stale entries.                 *)
(***************************************************************************)
EntryIntact == collector = "apply" => v_objects[v_tail] = applied + 1

(***************************************************************************)
(* An epoch applies everything it owes and nothing more: when f__flush     *)
(* ends, exactly the operations pushed before the snapshot (increments) or *)
(* before the snapshot of the previous epoch (decrements) are applied.     *)
(***************************************************************************)
EpochComplete ==
  /\ applied <= limit
  /\ collector # "apply" /\ v_tail = a_epoch => applied = limit

\* The ring implements the queue the collector relies on: each operation is
\* applied once, in order, and a decrement never in the epoch after its push.
Abstract == INSTANCE EpochQueue
AbstractSpec == Abstract!Spec

\* A mutator that found its ring full gets room again: the collector it woke
\* drains the ring and wakes it.
BlockedResumes == (producer = "wait") ~> (producer = "idle")
=============================================================================
