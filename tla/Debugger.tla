------------------------------ MODULE Debugger ------------------------------
(***************************************************************************)
(* Stopping the world for the debugger.  Threads meet safe points and      *)
(* break points, block inside safe regions, start and end; the debugger    *)
(* thread of main.cc waits for events, prompts and lets the threads go on. *)
(* v_thread__mutex guards it all: what happens between taking it and the   *)
(* next wait on v_thread__condition is one step.                           *)
(***************************************************************************)
EXTENDS Integers, FiniteSets

CONSTANTS
  Threads,   \* threads of the engine
  Main,      \* the one that runs the script
  Debugger,  \* the thread of t_debugger
  None

ASSUME ThreadsAssumption ==
  /\ IsFiniteSet(Threads) /\ Main \in Threads
  /\ Debugger \notin Threads /\ None \notin Threads \cup {Debugger}

VARIABLES
  v_done,             \* t_internal::v_done; -1 before f_initialize
  v_debug__stopping, v_debug__safe, v_debug__stepping,
  counted,            \* threads counted by the f_debug_stop_and_wait under way
  pc,                 \* where a thread, or the debugger, is
  event,              \* what a thread that stops the others has to report
  asleep,             \* who waits on v_thread__condition
  v_stopped, v_loaded, v_interrupted,   \* posted to the debugger
  v_debugger          \* t_engine::v_debugger is set

engineVars == <<v_debug__stopping, v_debug__safe, v_debug__stepping, counted>>
postVars == <<v_stopped, v_loaded, v_interrupted>>
vars == <<v_done, engineVars, pc, event, asleep, postVars, v_debugger>>

\* Places of a thread that v_debug__safe counts.
SafePlaces ==
  {"start_leave", "point_leave", "break_leave", "stop", "leave", "region",
   "region_leave", "finish_leave", "exit", "exit_leave"}

\* f_run: the script begins with the debugger stopped.
Init ==
  /\ v_done = [t \in Threads |-> IF t = Main THEN 0 ELSE -1]
  /\ v_debug__stopping = TRUE /\ v_debug__safe = 1 /\ v_debug__stepping = None
  /\ counted = {}
  /\ pc = [t \in Threads \cup {Debugger} |->
             IF t = Main THEN "leave" ELSE IF t = Debugger THEN "wait" ELSE "none"]
  /\ event = [t \in Threads |-> "stopped"]
  /\ asleep = {Main}
  /\ v_stopped = Main /\ v_loaded = FALSE /\ v_interrupted = FALSE
  /\ v_debugger = TRUE

Go(t, to) == pc' = [pc EXCEPT ![t] = to]

\* f_debug_enter_and_notify, then wait at the given place.
Enter(t, to) ==
  /\ Go(t, to)
  /\ v_debug__safe' = v_debug__safe + 1
  /\ asleep' = {t}
  /\ UNCHANGED <<v_debug__stopping, v_debug__stepping, counted>>

\* The awakened thread sees v_debug__stopping still set and waits again.
Sleep(t) ==
  /\ v_debug__stopping
  /\ asleep' = asleep \cup {t}
  /\ UNCHANGED <<engineVars, pc>>

\* Mutant: the thread stays counted as safe.
LeaveCounted(t, to) ==
  /\ ~v_debug__stopping
  /\ Go(t, to)
  /\ UNCHANGED <<engineVars, asleep>>

\* f_debug_wait_and_leave, f_debug_safe_region_leave: the wait is over.
Leave(t, to) ==
  /\ ~v_debug__stopping
  /\ Go(t, to)
  /\ v_debug__safe' = v_debug__safe - 1
  /\ UNCHANGED <<v_debug__stopping, v_debug__stepping, counted, asleep>>

Stays == UNCHANGED <<engineVars, asleep>>
-----------------------------------------------------------------------------
(***************************************************************************)
(* Threads.                                                                *)
(***************************************************************************)

\* f_fork links a t_internal, whose v_done is -1.
f_fork(t) ==
  /\ pc[t] = "run"
  /\ \E u \in Threads : pc[u] = "none" /\ Go(u, "start")
  /\ Stays
  /\ UNCHANGED <<v_done, event, postVars, v_debugger>>

\* The new thread: f_debug_safe_point, then f_initialize.
f_start(t) ==
  /\ pc[t] = "start"
  /\ IF v_debug__stopping
       THEN Enter(t, "start_leave") /\ UNCHANGED v_done
       ELSE Go(t, "run") /\ v_done' = [v_done EXCEPT ![t] = 0] /\ Stays
  /\ UNCHANGED <<event, postVars, v_debugger>>

f_start_leave(t) ==
  /\ pc[t] = "start_leave" /\ t \notin asleep
  /\ \/ Sleep(t) /\ UNCHANGED v_done
     \/ Leave(t, "run") /\ v_done' = [v_done EXCEPT ![t] = 0]
  /\ UNCHANGED <<event, postVars, v_debugger>>

\* The SAFE_POINT instruction.
f_debug_safe_point(t) ==
  /\ pc[t] = "run"
  /\ IF v_debug__stepping = t
       THEN Go(t, "break") /\ event' = [event EXCEPT ![t] = "stopped"] /\ Stays
       ELSE v_debug__stopping /\ Enter(t, "point_leave") /\ UNCHANGED event
  /\ UNCHANGED <<v_done, postVars, v_debugger>>

\* The BREAK_POINT instruction, and f_debug_script_loaded.
f_debug_break(t) ==
  /\ pc[t] = "run"
  /\ \E e \in {"stopped", "loaded"} : event' = [event EXCEPT ![t] = e]
  /\ Go(t, "break") /\ Stays
  /\ UNCHANGED <<v_done, postVars, v_debugger>>

\* Mutant: a break point does not wait for a stop under way to end.
f_debug_break_pointNested(t) ==
  /\ pc[t] = "break"
  /\ Go(t, "stop")
  /\ v_debug__safe' = v_debug__safe + 1
  /\ v_debug__stopping' = TRUE
  /\ counted' = {u \in Threads : v_done[u] = 0}
  /\ UNCHANGED <<v_debug__stepping, asleep, v_done, event, postVars, v_debugger>>

\* f_debug_break_point: while someone else stops, be stopped; then stop the
\* others.
f_debug_break_point(t) ==
  /\ pc[t] = "break"
  /\ IF v_debug__stopping THEN Enter(t, "break_leave")
     ELSE /\ Go(t, "stop")
          /\ v_debug__safe' = v_debug__safe + 1
          /\ v_debug__stopping' = TRUE
          /\ counted' = {u \in Threads : v_done[u] = 0}
          /\ UNCHANGED <<v_debug__stepping, asleep>>
  /\ UNCHANGED <<v_done, event, postVars, v_debugger>>

f_debug_break_leave(t) ==
  /\ pc[t] = "break_leave" /\ t \notin asleep
  /\ Sleep(t) \/ Leave(t, "break")
  /\ UNCHANGED <<v_done, event, postVars, v_debugger>>

\* f_debug_stop_and_wait: "while (v_debug__safe < n)"; then report and wait
\* to be continued.
f_debug_stop_and_wait(t) ==
  /\ pc[t] = "stop" /\ t \notin asleep
  /\ IF v_debug__safe < Cardinality(counted)
       THEN UNCHANGED <<pc, v_stopped, v_loaded>>
       ELSE /\ Go(t, "leave")
            /\ IF event[t] = "stopped"
                 THEN v_stopped' = t /\ UNCHANGED v_loaded
                 ELSE v_loaded' = TRUE /\ UNCHANGED v_stopped
  /\ asleep' = asleep \cup {t}
  /\ UNCHANGED <<v_done, engineVars, event, v_interrupted, v_debugger>>

\* f_debug_wait_and_leave, at a safe point or after a break.
f_debug_wait_and_leave(t) ==
  /\ pc[t] \in {"point_leave", "leave"} /\ t \notin asleep
  /\ Sleep(t) \/ Leave(t, "run")
  /\ UNCHANGED <<v_done, event, postVars, v_debugger>>

\* Mutant: a safe region is entered without a notification.
f_debug_safe_region_enterSilent(t) ==
  /\ pc[t] = "run"
  /\ Go(t, "region")
  /\ v_debug__safe' = v_debug__safe + 1
  /\ UNCHANGED <<v_debug__stopping, v_debug__stepping, counted, asleep, v_done, event,
                 postVars, v_debugger>>

\* t_safe_region: around whatever may block.
f_debug_safe_region_enter(t) ==
  /\ pc[t] = "run"
  /\ Go(t, "region")
  /\ v_debug__safe' = v_debug__safe + 1
  /\ asleep' = {}
  /\ UNCHANGED <<v_debug__stopping, v_debug__stepping, counted, v_done, event,
                 postVars, v_debugger>>

\* Mutant: the region is left while the threads are stopped.
f_debug_safe_region_leaveAlways(t) ==
  /\ pc[t] \in {"region", "region_leave"} /\ t \notin asleep
  /\ Go(t, "run")
  /\ v_debug__safe' = v_debug__safe - 1
  /\ UNCHANGED <<v_debug__stopping, v_debug__stepping, counted, asleep, v_done, event,
                 postVars, v_debugger>>

f_debug_safe_region_leave(t) ==
  /\ pc[t] \in {"region", "region_leave"} /\ t \notin asleep
  /\ \/ /\ v_debug__stopping
        /\ Go(t, "region_leave") /\ asleep' = asleep \cup {t}
        /\ UNCHANGED engineVars
     \/ Leave(t, "run")
  /\ UNCHANGED <<v_done, event, postVars, v_debugger>>

\* The function of a thread has returned: no longer the one that steps, a
\* last safe point, and v_internal is let go.
f_finish(t) ==
  /\ pc[t] = "run" /\ t # Main
  /\ v_debug__stepping' = IF v_debug__stepping = t THEN None ELSE v_debug__stepping
  /\ IF v_debug__stopping
       THEN /\ Go(t, "finish_leave")
            /\ v_debug__safe' = v_debug__safe + 1
            /\ asleep' = {t}
       ELSE Go(t, "closing") /\ UNCHANGED <<v_debug__safe, asleep>>
  /\ UNCHANGED <<v_debug__stopping, counted, v_done, event, postVars, v_debugger>>

f_finish_leave(t) ==
  /\ pc[t] = "finish_leave" /\ t \notin asleep
  /\ Sleep(t) \/ Leave(t, "closing")
  /\ UNCHANGED <<v_done, event, postVars, v_debugger>>

\* f_finalize
f_finalize(t) ==
  /\ pc[t] = "closing"
  /\ v_done' = [v_done EXCEPT ![t] = 1]
  /\ Go(t, "gone")
  /\ asleep' = {}
  /\ UNCHANGED <<engineVars, event, postVars, v_debugger>>

\* f_run, after the script: safe while waiting for the other threads.
f_run_exit ==
  /\ pc[Main] = "run"
  /\ v_debug__stepping' = IF v_debug__stepping = Main THEN None ELSE v_debug__stepping
  /\ Go(Main, "exit")
  /\ v_debug__safe' = v_debug__safe + 1
  /\ asleep' = {}
  /\ UNCHANGED <<v_debug__stopping, counted, v_done, event, postVars, v_debugger>>

f_run_wait ==
  /\ pc[Main] = "exit" /\ Main \notin asleep
  /\ IF \E t \in Threads \ {Main} : pc[t] # "none" /\ v_done[t] <= 0
       THEN asleep' = asleep \cup {Main} /\ UNCHANGED pc
       ELSE Go(Main, "exit_leave") /\ UNCHANGED asleep
  /\ UNCHANGED <<v_done, engineVars, event, postVars, v_debugger>>

\* Leave the safe region; then there is no debugger any more.
f_run_leave ==
  /\ pc[Main] = "exit_leave" /\ Main \notin asleep
  /\ Sleep(Main) \/ Leave(Main, "detach")
  /\ UNCHANGED <<v_done, event, postVars, v_debugger>>

f_run_detach ==
  /\ pc[Main] = "detach"
  /\ v_debugger' = FALSE
  /\ Go(Main, "end")
  /\ Stays
  /\ UNCHANGED <<v_done, event, postVars>>
-----------------------------------------------------------------------------
(***************************************************************************)
(* The debugger thread, t_debugger::f_run.                                 *)
(***************************************************************************)
f_interrupted ==
  /\ pc[Main] # "end"
  /\ ~v_interrupted
  /\ v_interrupted' = TRUE
  /\ Stays
  /\ UNCHANGED <<v_done, pc, event, v_stopped, v_loaded, v_debugger>>

\* Take whatever was posted; a stop comes before a load before an interrupt,
\* and only one of them is acted on.
f_debugger_run ==
  /\ pc[Debugger] = "wait"
  /\ \/ v_stopped # None /\ Go(Debugger, "prompt")
     \/ v_stopped = None /\ v_loaded /\ Go(Debugger, "load")
     \/ v_stopped = None /\ ~v_loaded /\ v_interrupted /\ Go(Debugger, "interrupt")
  /\ v_stopped' = None /\ v_loaded' = FALSE /\ v_interrupted' = FALSE
  /\ Stays
  /\ UNCHANGED <<v_done, event, v_debugger>>

\* f_debug_stop: throws without a debugger, which ends the program; does
\* nothing if the threads are being stopped already.
f_debug_stop ==
  /\ pc[Debugger] = "interrupt"
  /\ IF ~v_debugger
       THEN Go(Debugger, "thrown") /\ UNCHANGED <<v_debug__stopping, counted>>
     ELSE IF v_debug__stopping
       THEN Go(Debugger, "wait") /\ UNCHANGED <<v_debug__stopping, counted>>
     ELSE /\ Go(Debugger, "stop")
          /\ v_debug__stopping' = TRUE
          /\ counted' = {u \in Threads : v_done[u] = 0}
  /\ UNCHANGED <<v_debug__safe, v_debug__stepping, asleep, v_done, event, postVars,
                 v_debugger>>

f_debug_stop_wait ==
  /\ pc[Debugger] = "stop" /\ Debugger \notin asleep
  /\ IF v_debug__safe < Cardinality(counted)
       THEN asleep' = asleep \cup {Debugger} /\ UNCHANGED <<pc, v_stopped>>
       ELSE v_stopped' = Main /\ Go(Debugger, "wait") /\ UNCHANGED asleep
  /\ UNCHANGED <<v_done, engineVars, event, v_loaded, v_interrupted, v_debugger>>

\* f_debug_continue: from the prompt, with or without a thread to step; after
\* a load, with the one that was.
f_debug_continue ==
  /\ pc[Debugger] \in {"prompt", "load"}
  /\ v_debug__stopping' = FALSE
  /\ \/ pc[Debugger] = "load" /\ UNCHANGED v_debug__stepping
     \/ /\ pc[Debugger] = "prompt"
        /\ v_debug__stepping' \in {t \in Threads : v_done[t] = 0} \cup {None}
  /\ Go(Debugger, "wait")
  /\ asleep' = {}
  /\ UNCHANGED <<v_debug__safe, counted, v_done, event, postVars, v_debugger>>

\* What a thread does without the program deciding anything.
Step(t) ==
  \/ f_start(t) \/ f_start_leave(t) \/ f_debug_break_point(t) \/ f_debug_break_leave(t)
  \/ f_debug_stop_and_wait(t) \/ f_debug_wait_and_leave(t) \/ f_finish_leave(t)
  \/ f_finalize(t)

Waits == f_run_wait \/ f_run_leave \/ f_run_detach

Prompt == f_debugger_run \/ f_debug_stop \/ f_debug_stop_wait \/ f_debug_continue

Next ==
  \/ \E t \in Threads :
       \/ Step(t) \/ f_fork(t) \/ f_debug_safe_point(t) \/ f_debug_break(t)
       \/ f_debug_safe_region_enter(t) \/ f_debug_safe_region_leave(t) \/ f_finish(t)
  \/ f_run_exit \/ Waits \/ Prompt \/ f_interrupted

Spec == Init /\ [][Next]_vars

(***************************************************************************)
(* Threads are scheduled, come to a safe point sooner or later while they  *)
(* run, and the user answers the prompt.                                   *)
(***************************************************************************)
Fairness ==
  /\ \A t \in Threads : WF_vars(Step(t)) /\ WF_vars(f_debug_safe_point(t))
  /\ WF_vars(Prompt) /\ WF_vars(Waits)

FairSpec == Spec /\ Fairness
-----------------------------------------------------------------------------
TypeOK ==
  /\ v_done \in [Threads -> -1 .. 1]
  /\ v_debug__stopping \in BOOLEAN
  /\ v_debug__safe \in 0 .. Cardinality(Threads)
  /\ v_debug__stepping \in Threads \cup {None}
  /\ counted \subseteq Threads
  /\ event \in [Threads -> {"stopped", "loaded"}]
  /\ asleep \subseteq Threads \cup {Debugger}
  /\ v_stopped \in Threads \cup {None}

(***************************************************************************)
(* v_debug__safe is the number of threads that are in a safe place.  So    *)
(* the asserts hold that it is positive before it is decremented, and zero *)
(* at the end of f_run.                                                    *)
(***************************************************************************)
SafeCounted ==
  /\ TypeOK
  /\ v_debug__safe = Cardinality({t \in Threads : pc[t] \in SafePlaces})

\* Only one thread at a time stops the others, or has them stopped.
OneStops ==
  /\ Cardinality({t \in Threads \cup {Debugger} : pc[t] \in {"stop", "prompt", "load"}}) <= 1
  /\ \A t \in Threads \cup {Debugger} :
       pc[t] \in {"stop", "prompt", "load"} => v_debug__stopping

(***************************************************************************)
(* While the debugger prompts, or sets break points in the code, no thread *)
(* runs.  A thread that was about to start counts as safe without having   *)
(* been counted, and can stand for one that runs: the exception.           *)
(***************************************************************************)
StoppedWhilePrompting ==
  pc[Debugger] \in {"prompt", "load"} =>
    \/ \A t \in Threads : v_done[t] = 0 => pc[t] \in SafePlaces
    \/ \E t \in Threads : pc[t] = "start_leave"

(***************************************************************************)
(* A stop completes, and the threads go on again: none of the counted ones *)
(* keeps the others waiting.  The exception is a thread counted past its   *)
(* last safe point, which ends without ever being safe.                    *)
(***************************************************************************)
EndedUnsafe ==
  \E t \in counted : pc[t] \in {"closing", "gone", "detach", "end"}

StopCompletes == v_debug__stopping ~> (~v_debug__stopping \/ EndedUnsafe)
=============================================================================
