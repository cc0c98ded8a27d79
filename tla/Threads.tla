------------------------------ MODULE Threads -------------------------------
(***************************************************************************)
(* The life of the threads of the engine: t_engine::f_fork starts one,     *)
(* f_finalize ends it, t_thread::f_join and t_engine::f_run wait for it,   *)
(* and the collector, which reaches a thread through v_thread__internals,  *)
(* goes on visiting it until everything it queued is applied.  ~t_engine   *)
(* waits for the collector and expects the list to be empty.               *)
(*                                                                         *)
(* A thread queues increments and decrements of t_thread objects, the ones *)
(* f_fork and the finalization push, and of other things (Work).  A queue  *)
(* is the sequence of what is not applied yet, v_epoch and v_last are      *)
(* positions in it; that the ring behaves so is Queue.  The collector      *)
(* holds v_thread__mutex during an epoch.  There is no debugger here.      *)
(***************************************************************************)
EXTENDS Integers, Sequences, SequencesExt, FiniteSets

CONSTANTS
  N,         \* bound: threads that may ever exist
  MaxWork    \* bound: other decrements a thread queues

Ids == 1 .. N             \* in the order they are forked
Main == 1                 \* the thread that runs the engine
Work == 0                 \* an object that is not a t_thread

ASSUME BoundsAssumption == N \in Nat /\ N >= 1 /\ MaxWork \in Nat

VARIABLES
  v_thread__internals,    \* the list, front first
  v_done,                 \* t_internal::v_done
  v_internal,             \* t_thread::v_internal is not null
  increments, decrements, \* what a thread queued and is not applied yet
  v_epoch, v_last,        \* positions in the queues
  stack, last,            \* thread objects on a stack, now and last epoch
  v_count,                \* reference count of a thread object
  pc, other,              \* where a thread is, and the thread that is about
  work,                   \* Work queued so far
  waits,                  \* calls of f_wait in ~t_engine so far
  running, quitting,      \* v_collector__running, v_collector__quitting
  collector, cursor       \* where the collector is, on the list too

threadVars == <<v_internal, increments, decrements, stack, pc, other, work, waits>>
collectorVars == <<v_last, last, v_count, collector, cursor>>
vars == <<v_thread__internals, v_done, v_epoch, threadVars, collectorVars, running, quitting>>

\* Places where there is no thread for the collector to signal.
Finished == {"none", "forked", "failed", "start", "gone", "wait", "waiting", "quit",
             "quitting", "end"}

Init ==
  /\ v_thread__internals = <<Main>>
  /\ v_done = [t \in Ids |-> IF t = Main THEN 0 ELSE -1]
  /\ v_internal = [t \in Ids |-> t = Main]
  /\ increments = [t \in Ids |-> <<>>] /\ decrements = increments
  /\ v_epoch = [t \in Ids |-> [inc |-> 0, dec |-> 0]]
  /\ v_last = [t \in Ids |-> 0]
  /\ stack = [t \in Ids |-> {}] /\ last = stack
  /\ v_count = [t \in Ids |-> IF t = Main THEN 1 ELSE 0]
  /\ pc = [t \in Ids |-> IF t = Main THEN "run" ELSE "none"]
  /\ other = [t \in Ids |-> Main]
  /\ work = [t \in Ids |-> 0]
  /\ waits = 0
  /\ running = FALSE /\ quitting = FALSE
  /\ collector = "wait" /\ cursor = 1

Unlocked == collector # "epoch"     \* v_thread__mutex can be taken

Go(t, to) == pc' = [pc EXCEPT ![t] = to]

\* v_thread__condition.notify_all(): the sleeping threads look again.
Notified(f) ==
  [t \in Ids |-> CASE f[t] = "join_sleep" -> "join"
                   [] f[t] = "exit_sleep" -> "exit"
                   [] OTHER -> f[t]]
-----------------------------------------------------------------------------
(***************************************************************************)
(* f_fork.                                                                 *)
(***************************************************************************)

\* Link a new t_internal at the front of the list.
f_fork_link(t, u) ==
  /\ pc[t] = "run" /\ Unlocked
  /\ pc[u] = "none" /\ u # Main /\ \A x \in Ids : pc[x] = "none" /\ x # Main => u <= x
  /\ v_thread__internals' = <<u>> \o v_thread__internals
  /\ pc' = [pc EXCEPT ![t] = "fork_new", ![u] = "forked"]
  /\ other' = [other EXCEPT ![t] = u]
  /\ UNCHANGED <<v_done, v_epoch, v_internal, increments, decrements, stack, work,
                 waits, collectorVars, running, quitting>>

\* f_new<t_thread>: the object, whose first count is due to be taken back.
f_fork_new(t) ==
  /\ pc[t] = "fork_new"
  /\ v_count' = [v_count EXCEPT ![other[t]] = 1]
  /\ v_internal' = [v_internal EXCEPT ![other[t]] = TRUE]
  /\ stack' = [stack EXCEPT ![t] = @ \cup {other[t]}]
  /\ decrements' = [decrements EXCEPT ![t] = Append(@, other[t])]
  /\ Go(t, "fork_hold")
  /\ UNCHANGED <<v_thread__internals, v_done, v_epoch, increments, other, work, waits,
                 v_last, last, collector, cursor, running, quitting>>

\* Mutant: the new thread does not hold its object.
f_fork_holdNot(t) ==
  /\ pc[t] = "fork_hold"
  /\ Go(t, "spawn")
  /\ UNCHANGED <<v_thread__internals, v_done, v_epoch, v_internal, increments,
                 decrements, stack, other, work, waits, collectorVars, running, quitting>>

\* The count the new thread owns.
f_fork_hold(t) ==
  /\ pc[t] = "fork_hold"
  /\ increments' = [increments EXCEPT ![t] = Append(@, other[t])]
  /\ Go(t, "spawn")
  /\ UNCHANGED <<v_thread__internals, v_done, v_epoch, v_internal, decrements, stack,
                 other, work, waits, collectorVars, running, quitting>>

f_fork_spawn(t) ==
  /\ pc[t] = "spawn"
  /\ pc' = [pc EXCEPT ![t] = "run", ![other[t]] = "start"]
  /\ UNCHANGED <<v_thread__internals, v_done, v_epoch, v_internal, increments,
                 decrements, stack, other, work, waits, collectorVars, running, quitting>>

\* "catch (std::system_error&)": give the count back ...
f_fork_fail(t) ==
  /\ pc[t] = "spawn"
  /\ decrements' = [decrements EXCEPT ![t] = Append(@, other[t])]
  /\ Go(t, "fork_failed")
  /\ UNCHANGED <<v_thread__internals, v_done, v_epoch, v_internal, increments, stack,
                 other, work, waits, collectorVars, running, quitting>>

\* ... mark the t_internal as done, and throw.
f_fork_failed(t) ==
  /\ pc[t] = "fork_failed" /\ Unlocked
  /\ v_done' = [v_done EXCEPT ![other[t]] = 1]
  /\ stack' = [stack EXCEPT ![t] = @ \ {other[t]}]
  /\ pc' = [pc EXCEPT ![t] = "run", ![other[t]] = "failed"]
  /\ UNCHANGED <<v_thread__internals, v_epoch, v_internal, increments, decrements,
                 other, work, waits, collectorVars, running, quitting>>

\* The new thread: f_initialize, after which the collector visits it.
f_initialize(t) ==
  /\ pc[t] = "start" /\ Unlocked
  /\ v_done' = [v_done EXCEPT ![t] = 0]
  /\ Go(t, "run")
  /\ UNCHANGED <<v_thread__internals, v_epoch, v_internal, increments, decrements,
                 stack, other, work, waits, collectorVars, running, quitting>>

(***************************************************************************)
(* A running thread.                                                       *)
(***************************************************************************)
f_work(t) ==
  /\ pc[t] = "run"
  /\ work[t] < MaxWork
  /\ work' = [work EXCEPT ![t] = @ + 1]
  /\ decrements' = [decrements EXCEPT ![t] = Append(@, Work)]
  /\ UNCHANGED <<v_thread__internals, v_done, v_epoch, v_internal, increments, stack,
                 pc, other, waits, collectorVars, running, quitting>>

\* A thread object leaves the stack.
f_drop(t, u) ==
  /\ pc[t] = "run"
  /\ u \in stack[t]
  /\ stack' = [stack EXCEPT ![t] = @ \ {u}]
  /\ UNCHANGED <<v_thread__internals, v_done, v_epoch, v_internal, increments,
                 decrements, pc, other, work, waits, collectorVars, running, quitting>>

f_tick(t) ==
  /\ pc[t] = "run"
  /\ ~running
  /\ running' = TRUE
  /\ UNCHANGED <<v_thread__internals, v_done, v_epoch, threadVars, collectorVars,
                 quitting>>

f_join_enter(t, u) ==
  /\ pc[t] = "run"
  /\ u \in stack[t] /\ u # t /\ u # Main
  /\ other' = [other EXCEPT ![t] = u]
  /\ Go(t, "join")
  /\ UNCHANGED <<v_thread__internals, v_done, v_epoch, v_internal, increments,
                 decrements, stack, work, waits, collectorVars, running, quitting>>

\* "while (v_internal) engine->v_thread__condition.wait(lock);"
f_join(t) ==
  /\ pc[t] = "join" /\ Unlocked
  /\ Go(t, IF v_internal[other[t]] THEN "join_sleep" ELSE "run")
  /\ UNCHANGED <<v_thread__internals, v_done, v_epoch, v_internal, increments,
                 decrements, stack, other, work, waits, collectorVars, running, quitting>>

\* The function of the thread has returned: the t_thread lets the t_internal
\* go, so that it can be joined.
f_finish(t) ==
  /\ pc[t] = "run" /\ t # Main /\ Unlocked
  /\ v_internal' = [v_internal EXCEPT ![t] = FALSE]
  /\ stack' = [stack EXCEPT ![t] = {}]
  /\ Go(t, "release")
  /\ UNCHANGED <<v_thread__internals, v_done, v_epoch, increments, decrements,
                 other, work, waits, collectorVars, running, quitting>>

\* Give the count of f_fork back; in the destructor of the engine, that of
\* v_thread.
f_release(t) ==
  /\ pc[t] = "release"
  /\ decrements' = [decrements EXCEPT ![t] = Append(@, t)]
  /\ Go(t, "finalize")
  /\ UNCHANGED <<v_thread__internals, v_done, v_epoch, v_internal, increments, stack,
                 other, work, waits, collectorVars, running, quitting>>

Heads(t) == [inc |-> Len(increments[t]), dec |-> Len(decrements[t])]

\* f_finalize: f_epoch_get, as nobody will suspend this thread any more ...
f_finalize_get(t) ==
  /\ pc[t] = "finalize"
  /\ v_epoch' = [v_epoch EXCEPT ![t] = Heads(t)]
  /\ Go(t, "finalize_done")
  /\ UNCHANGED <<v_thread__internals, v_done, v_internal, increments, decrements,
                 stack, other, work, waits, collectorVars, running, quitting>>

\* Mutant: the thread is not marked as done.
f_finalize_doneUncounted(t) ==
  /\ pc[t] = "finalize_done" /\ Unlocked
  /\ pc' = Notified([pc EXCEPT ![t] = IF t = Main THEN "wait" ELSE "gone"])
  /\ UNCHANGED <<v_thread__internals, v_done, v_epoch, v_internal, increments,
                 decrements, stack, other, work, waits, collectorVars, running, quitting>>

\* ... and v_done, which tells everyone who waits.
f_finalize_done(t) ==
  /\ pc[t] = "finalize_done" /\ Unlocked
  /\ v_done' = [v_done EXCEPT ![t] = @ + 1]
  /\ pc' = Notified([pc EXCEPT ![t] = IF t = Main THEN "wait" ELSE "gone"])
  /\ UNCHANGED <<v_thread__internals, v_epoch, v_internal, increments, decrements,
                 stack, other, work, waits, collectorVars, running, quitting>>

(***************************************************************************)
(* The main thread: the rest of f_run, and ~t_engine.                      *)
(***************************************************************************)

f_run_exit ==
  /\ pc[Main] = "run"
  /\ stack' = [stack EXCEPT ![Main] = {}]
  /\ Go(Main, "exit")
  /\ UNCHANGED <<v_thread__internals, v_done, v_epoch, v_internal, increments,
                 decrements, other, work, waits, collectorVars, running, quitting>>

\* Mutant: only threads already running are waited for.
f_run_waitStarted ==
  /\ pc[Main] = "exit" /\ Unlocked
  /\ Go(Main, IF \E t \in ToSet(v_thread__internals) \ {Main} : v_done[t] = 0
                THEN "exit_sleep" ELSE "release")
  /\ UNCHANGED <<v_thread__internals, v_done, v_epoch, v_internal, increments,
                 decrements, stack, other, work, waits, collectorVars, running, quitting>>

\* Wait until every other thread on the list is done.
f_run_wait ==
  /\ pc[Main] = "exit" /\ Unlocked
  /\ Go(Main, IF \E t \in ToSet(v_thread__internals) \ {Main} : v_done[t] <= 0
                THEN "exit_sleep" ELSE "release")
  /\ UNCHANGED <<v_thread__internals, v_done, v_epoch, v_internal, increments,
                 decrements, stack, other, work, waits, collectorVars, running, quitting>>

\* f_wait: set the flag ...
f_wait ==
  /\ pc[Main] = "wait"
  /\ running' = TRUE
  /\ Go(Main, "waiting")
  /\ UNCHANGED <<v_thread__internals, v_done, v_epoch, v_internal, increments,
                 decrements, stack, other, work, waits, collectorVars, quitting>>

\* ... and wait until it is clear.
f_wait_return ==
  /\ pc[Main] = "waiting"
  /\ ~running
  /\ waits' = waits + 1
  /\ Go(Main, IF waits' < 5 THEN "wait" ELSE "quit")
  /\ UNCHANGED <<v_thread__internals, v_done, v_epoch, v_internal, increments,
                 decrements, stack, other, work, collectorVars, running, quitting>>

f_quit ==
  /\ pc[Main] = "quit"
  /\ quitting' = TRUE
  /\ running' = TRUE
  /\ Go(Main, "quitting")
  /\ UNCHANGED <<v_thread__internals, v_done, v_epoch, v_internal, increments,
                 decrements, stack, other, work, waits, collectorVars>>

f_quit_return ==
  /\ pc[Main] = "quitting"
  /\ ~running
  /\ Go(Main, "end")
  /\ UNCHANGED <<v_thread__internals, v_done, v_epoch, v_internal, increments,
                 decrements, stack, other, work, waits, collectorVars, running, quitting>>
-----------------------------------------------------------------------------
(***************************************************************************)
(* The collector.                                                          *)
(***************************************************************************)
f_collector_wait ==
  /\ collector = "wait"
  /\ running
  /\ IF quitting
       THEN collector' = "quit" /\ running' = FALSE
       ELSE collector' = "epoch" /\ UNCHANGED running
  /\ UNCHANGED <<v_thread__internals, v_done, v_epoch, threadVars, v_last, last,
                 v_count, cursor, quitting>>

\* How often u occurs in the first n of s.
Times(s, n, u) == Cardinality({i \in 1 .. n : s[i] = u})

Skip(s, n) == SubSeq(s, n + 1, Len(s))

\* t_internal::f_epoch for a thread whose queues are to be flushed up to e.
Flush(t, e, found) ==
  /\ v_count' = [u \in Ids |->
       v_count[u] + Times(increments[t], e.inc, u) + (IF u \in found \ last[t] THEN 1 ELSE 0)
                  - Times(decrements[t], v_last[t], u) - (IF u \in last[t] \ found THEN 1 ELSE 0)]
  /\ increments' = [increments EXCEPT ![t] = Skip(@, e.inc)]
  /\ decrements' = [decrements EXCEPT ![t] = Skip(@, v_last[t])]
  /\ v_last' = [v_last EXCEPT ![t] = e.dec - v_last[t]]
  /\ v_epoch' = [v_epoch EXCEPT ![t] = [inc |-> 0, dec |-> e.dec - v_last[t]]]
  /\ last' = [last EXCEPT ![t] = found]

\* f_epoch, deleting the thread once v_done reaches limit.
Visit(limit) ==
  /\ collector = "epoch" /\ cursor <= Len(v_thread__internals)
  /\ LET t == v_thread__internals[cursor]
         done == IF v_done[t] > 0 THEN v_done[t] + 1 ELSE v_done[t]
     IN /\ IF v_done[t] < 0
             THEN UNCHANGED <<v_count, increments, decrements, v_last, v_epoch, last>>
           ELSE IF v_done[t] > 0 THEN Flush(t, v_epoch[t], {})
           ELSE Flush(t, Heads(t), stack[t])
        /\ v_done' = [v_done EXCEPT ![t] = done]
        /\ IF done < limit
             THEN cursor' = cursor + 1 /\ UNCHANGED v_thread__internals
             ELSE v_thread__internals' = RemoveAt(v_thread__internals, cursor) /\ UNCHANGED cursor
  /\ UNCHANGED <<v_internal, stack, pc, other, work, waits, collector, running, quitting>>

\* Mutants: a thread that is done gets one more epoch only, or one too many.
f_epochHasty == Visit(2)
f_epochLate == Visit(4)

\* One thread of the list: skip it (v_done < 0), suspend it and flush up to
\* where it is now (0), or flush up to where it ended and, the second time,
\* delete it.
f_epoch == Visit(3)

\* Mutant: the collector does not wait for a tick.
f_collector_roundNot ==
  /\ collector = "epoch" /\ cursor = Len(v_thread__internals) + 1
  /\ cursor' = 1
  /\ UNCHANGED <<v_thread__internals, v_done, v_epoch, threadVars, v_last, last,
                 v_count, collector, running, quitting>>

\* The threads are done: v_thread__mutex is free during the rest of the round.
f_collector_round ==
  /\ collector = "epoch" /\ cursor = Len(v_thread__internals) + 1
  /\ collector' = "round" /\ cursor' = 1
  /\ UNCHANGED <<v_thread__internals, v_done, v_epoch, threadVars, v_last, last,
                 v_count, running, quitting>>

\* Back to clear the flag.
f_collector_clear ==
  /\ collector = "round"
  /\ collector' = "wait" /\ running' = FALSE
  /\ UNCHANGED <<v_thread__internals, v_done, v_epoch, threadVars, v_last, last,
                 v_count, cursor, quitting>>

Collector == f_collector_wait \/ f_epoch \/ f_collector_round \/ f_collector_clear

\* What a thread does by itself once it has begun.
Step(t) ==
  \/ f_fork_new(t) \/ f_fork_hold(t) \/ f_fork_spawn(t) \/ f_fork_fail(t)
  \/ f_fork_failed(t) \/ f_initialize(t) \/ f_join(t) \/ f_release(t)
  \/ f_finalize_get(t) \/ f_finalize_done(t)

\* What the program decides.
Program(t) ==
  \/ \E u \in Ids : f_fork_link(t, u) \/ f_drop(t, u) \/ f_join_enter(t, u)
  \/ f_work(t) \/ f_tick(t)

Engine == f_run_wait \/ f_wait \/ f_wait_return \/ f_quit \/ f_quit_return

\* Everything is over, or only the collector is left, waiting for a tick.
Idle ==
  /\ pc[Main] = "end"
  /\ UNCHANGED vars

Next ==
  \/ \E t \in Ids : Step(t) \/ Program(t) \/ f_finish(t)
  \/ f_run_exit \/ Engine \/ Collector \/ Idle

Spec == Init /\ [][Next]_vars

(***************************************************************************)
(* Threads are scheduled: each one goes on unless it is blocked, the       *)
(* functions they run return, and so does the script.  The lock of the     *)
(* collector comes and goes, hence the strong fairness.                    *)
(***************************************************************************)
Fairness ==
  /\ WF_vars(Collector)
  /\ \A t \in Ids : SF_vars(Step(t)) /\ SF_vars(f_finish(t))
  /\ SF_vars(f_run_exit) /\ SF_vars(Engine)

FairSpec == Spec /\ Fairness
-----------------------------------------------------------------------------
TypeOK ==
  /\ v_thread__internals \in Seq(Ids)
  /\ cursor \in 1 .. Len(v_thread__internals) + 1
  /\ v_done \in [Ids -> -1 .. 3]
  /\ v_internal \in [Ids -> BOOLEAN]
  /\ increments \in [Ids -> Seq(Ids)] /\ decrements \in [Ids -> Seq(Ids \cup {Work})]
  /\ v_epoch \in [Ids -> [inc : Nat, dec : Nat]] /\ v_last \in [Ids -> Nat]
  /\ stack \in [Ids -> SUBSET Ids] /\ last \in [Ids -> SUBSET Ids]
  /\ v_count \in [Ids -> Nat]
  /\ other \in [Ids -> Ids]
  /\ waits \in 0 .. 5
  /\ running \in BOOLEAN /\ quitting \in BOOLEAN
  /\ collector \in {"wait", "epoch", "round", "quit"}

(***************************************************************************)
(* The t_internal of a thread, which holds its queues, is deleted only     *)
(* when all that the thread ever queued has been applied: the decrements   *)
(* it queued last are two epochs behind.                                   *)
(***************************************************************************)
NothingLost ==
  \A t \in Ids :
    pc[t] # "none" /\ t \notin ToSet(v_thread__internals) =>
      increments[t] = <<>> /\ decrements[t] = <<>>

(***************************************************************************)
(* The t_thread object exists as long as someone uses it through a plain   *)
(* pointer: the parent in f_fork, the thread itself up to its last         *)
(* decrement.  Its count is in the queues of two different threads.        *)
(***************************************************************************)
ThreadAlive ==
  \A t \in Ids :
    /\ pc[t] \in {"start", "run", "join", "join_sleep", "release"} => v_count[t] > 0
    /\ pc[t] \in {"fork_hold", "spawn", "join", "join_sleep"} => v_count[other[t]] > 0

(***************************************************************************)
(* The collector signals only threads that exist: one that is not yet      *)
(* initialized, or has returned, has no handle to send to.                 *)
(***************************************************************************)
SignalsLiveThread ==
  collector = "epoch" /\ cursor <= Len(v_thread__internals) =>
    LET t == v_thread__internals[cursor] IN v_done[t] = 0 => pc[t] \notin Finished

(***************************************************************************)
(* ~t_engine: "assert(!v_thread__internals)", and no t_thread object is    *)
(* left.                                                                   *)
(***************************************************************************)
ShutDownClean ==
  pc[Main] = "end" =>
    v_thread__internals = <<>> /\ \A t \in Ids : v_count[t] = 0

\* The destructor of the engine returns once the program has ended.  It waits for
\* every thread, so that every join returns as well.
EngineEnds == <>(pc[Main] = "end")
=============================================================================
