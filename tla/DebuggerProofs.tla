--------------------------- MODULE DebuggerProofs ---------------------------
(***************************************************************************)
(* Proofs about Debugger for any finite set of threads.                    *)
(*                                                                         *)
(* IInv adds to the properties what they rest on.  DoneInv ties v_done to  *)
(* the place of a thread.  StopInv says that v_debug__stopping is held     *)
(* like a baton: by whoever is stopping the others, then by what is posted *)
(* to the debugger, then by the debugger at its prompt.  CountInv says     *)
(* that nobody joins the threads that were counted while a stop waits, and *)
(* ReportInv that from the report on no counted thread runs.               *)
(***************************************************************************)
EXTENDS Debugger, FiniteSetTheorems, TLAPS

Places ==
  {"none", "start", "start_leave", "run", "break", "break_leave", "stop", "leave",
   "point_leave", "region", "region_leave", "finish_leave", "closing", "gone",
   "exit", "exit_leave", "detach", "end"}

DebuggerPlaces == {"wait", "prompt", "load", "interrupt", "stop", "thrown"}

PlacesInv ==
  /\ pc \in [Threads \cup {Debugger} -> Places \cup DebuggerPlaces]
  /\ pc[Debugger] \in DebuggerPlaces
  /\ \A t \in Threads : pc[t] \in Places
  /\ v_loaded \in BOOLEAN

\* f_initialize and f_finalize are what moves v_done.
DoneInv ==
  \A t \in Threads :
    /\ v_done[t] = -1 <=> pc[t] \in {"none", "start", "start_leave"}
    /\ v_done[t] = 1 <=> pc[t] = "gone"

Safe == {t \in Threads : pc[t] \in SafePlaces}

CountedInv == v_debug__safe = Cardinality(Safe)

Posted == v_stopped # None \/ v_loaded

Stops(t) == pc[t] \in {"stop", "prompt", "load"}

StopInv ==
  /\ \A t, u \in Threads \cup {Debugger} : Stops(t) /\ Stops(u) => t = u
  /\ \A t \in Threads \cup {Debugger} : Stops(t) => v_debug__stopping /\ ~Posted
  /\ Posted => v_debug__stopping

\* While a stop waits, every initialized thread is among the counted ones.
CountInv ==
  \A t \in Threads \cup {Debugger} :
    pc[t] = "stop" => \A u \in Threads : v_done[u] = 0 => u \in counted

AllSafe ==
  \/ \A t \in Threads : v_done[t] = 0 => pc[t] \in SafePlaces
  \/ \E t \in Threads : pc[t] = "start_leave"

ReportInv == Posted \/ pc[Debugger] \in {"prompt", "load"} => AllSafe

TypesInv ==
  /\ v_done \in [Threads -> -1 .. 1]
  /\ v_debug__stopping \in BOOLEAN
  /\ v_debug__stepping \in Threads \cup {None}
  /\ counted \subseteq Threads
  /\ event \in [Threads -> {"stopped", "loaded"}]
  /\ asleep \subseteq Threads \cup {Debugger}
  /\ v_stopped \in Threads \cup {None}
  /\ PlacesInv

IInv == TypesInv /\ CountedInv /\ DoneInv /\ StopInv /\ CountInv /\ ReportInv

USE ThreadsAssumption
-----------------------------------------------------------------------------
(***************************************************************************)
(* Counting the threads in a set.                                          *)
(***************************************************************************)
LEMMA Sizes ==
  ASSUME NEW S \in SUBSET Threads
  PROVE  IsFiniteSet(S) /\ Cardinality(S) \in 0 .. Cardinality(Threads)
<1>1. IsFiniteSet(S) /\ Cardinality(S) <= Cardinality(Threads)
  BY FS_Subset
<1>2. Cardinality(S) \in Nat /\ Cardinality(Threads) \in Nat
  BY <1>1, FS_CardinalityType
<1> QED BY <1>1, <1>2

(***************************************************************************)
(* At most one thread enters or leaves a safe place in a step, and         *)
(* v_debug__safe follows.                                                  *)
(***************************************************************************)
Follows(t) ==
  \/ Safe' = Safe /\ v_debug__safe' = v_debug__safe
  \/ t \notin Safe /\ Safe' = Safe \cup {t} /\ v_debug__safe' = v_debug__safe + 1
  \/ t \in Safe /\ Safe' = Safe \ {t} /\ v_debug__safe' = v_debug__safe - 1

LEMMA Counting ==
  ASSUME CountedInv, NEW t \in Threads, Follows(t)
  PROVE  CountedInv'
<1>1. IsFiniteSet(Safe)
  BY Sizes DEF Safe
<1>2. Cardinality(Safe \cup {t}) = IF t \in Safe THEN Cardinality(Safe) ELSE Cardinality(Safe) + 1
  BY <1>1, FS_AddElement
<1>3. Cardinality(Safe \ {t}) = IF t \in Safe THEN Cardinality(Safe) - 1 ELSE Cardinality(Safe)
  BY <1>1, FS_RemoveElement
<1> QED BY <1>2, <1>3 DEF CountedInv, Follows

(***************************************************************************)
(* When as many threads are safe as were counted, and no thread is about   *)
(* to start, the safe threads are the counted ones.                        *)
(***************************************************************************)
LEMMA EnoughSafe ==
  ASSUME IInv, NEW t \in Threads \cup {Debugger}, pc[t] = "stop",
         ~(v_debug__safe < Cardinality(counted))
  PROVE  AllSafe
<1> SUFFICES ASSUME \A u \in Threads : pc[u] # "start_leave"
             PROVE  \A u \in Threads : v_done[u] = 0 => pc[u] \in SafePlaces
  BY DEF AllSafe
<1>1. \A u \in Safe : v_done[u] = 0
  BY DEF IInv, TypesInv, DoneInv, Safe, SafePlaces
<1>2. Safe \subseteq counted
  BY <1>1 DEF IInv, CountInv, Safe
<1>3. IsFiniteSet(counted) /\ Cardinality(counted) \in Nat /\ Cardinality(Safe) \in Nat
  BY Sizes DEF IInv, TypesInv, Safe
<1>4. Cardinality(Safe) <= Cardinality(counted) /\ (Cardinality(counted) = Cardinality(Safe) => counted = Safe)
  BY <1>2, <1>3, FS_Subset
<1>5. Safe = counted
  BY <1>3, <1>4 DEF IInv, CountedInv
<1> QED BY <1>5 DEF IInv, CountInv, Safe


(***************************************************************************)
(* One step.                                                               *)
(***************************************************************************)
\* A thread is forked and starts.
LEMMA Starting ==
  ASSUME IInv, NEW t \in Threads,
         f_fork(t) \/ f_start(t) \/ f_start_leave(t)
  PROVE  IInv'
<1> USE DEF f_fork, f_start, f_start_leave,
            Enter, Sleep, Leave, Go, Stays, engineVars, postVars
<1>1. TypesInv'
  BY DEF IInv, TypesInv, PlacesInv, Places, DebuggerPlaces
<1>2. DoneInv'
  BY DEF IInv, TypesInv, PlacesInv, DoneInv
<1>3. StopInv'
  BY DEF IInv, TypesInv, PlacesInv, StopInv, Stops, Posted
<1>4. CountInv'
  BY DEF IInv, TypesInv, PlacesInv, CountInv, StopInv, Stops, DoneInv
<1>5. ReportInv'
  BY DEF IInv, TypesInv, PlacesInv, DoneInv, StopInv, Stops, ReportInv, Posted, AllSafe, SafePlaces
<1>6. Follows(t)
  BY DEF IInv, TypesInv, PlacesInv, Follows, Safe, SafePlaces
<1>7. CountedInv'
  BY <1>6, Counting DEF IInv
<1> QED BY <1>1, <1>2, <1>3, <1>4, <1>5, <1>7 DEF IInv

\* Safe points, break points and safe regions.
LEMMA Pausing ==
  ASSUME IInv, NEW t \in Threads,
         f_debug_safe_point(t) \/ f_debug_break(t) \/ f_debug_break_leave(t)
          \/ f_debug_wait_and_leave(t) \/ f_debug_safe_region_enter(t)
          \/ f_debug_safe_region_leave(t)
  PROVE  IInv'
<1> USE DEF f_debug_safe_point, f_debug_break, f_debug_break_leave, f_debug_wait_and_leave, f_debug_safe_region_enter, f_debug_safe_region_leave,
            Enter, Sleep, Leave, Go, Stays, engineVars, postVars
<1>1. TypesInv'
  BY DEF IInv, TypesInv, PlacesInv, Places, DebuggerPlaces
<1>2. DoneInv'
  BY DEF IInv, TypesInv, PlacesInv, DoneInv
<1>3. StopInv'
  BY DEF IInv, TypesInv, PlacesInv, StopInv, Stops, Posted
<1>4. CountInv'
  BY DEF IInv, TypesInv, PlacesInv, CountInv, StopInv, Stops, DoneInv
<1>5. ReportInv'
  BY DEF IInv, TypesInv, PlacesInv, DoneInv, StopInv, Stops, ReportInv, Posted, AllSafe, SafePlaces
<1>6. Follows(t)
  BY DEF IInv, TypesInv, PlacesInv, Follows, Safe, SafePlaces
<1>7. CountedInv'
  BY <1>6, Counting DEF IInv
<1> QED BY <1>1, <1>2, <1>3, <1>4, <1>5, <1>7 DEF IInv

\* A thread at a break point stops the others, or is stopped.
LEMMA Breaking ==
  ASSUME IInv, NEW t \in Threads,
         f_debug_break_point(t)
  PROVE  IInv'
<1> USE DEF f_debug_break_point,
            Enter, Sleep, Leave, Go, Stays, engineVars, postVars
<1>1. TypesInv'
  <2>1. PlacesInv'
    BY DEF IInv, TypesInv, PlacesInv, Places, DebuggerPlaces
  <2>2. counted' \subseteq Threads /\ asleep' \subseteq Threads \cup {Debugger}
    BY DEF IInv, TypesInv
  <2> QED BY <2>1, <2>2 DEF IInv, TypesInv
<1>2. DoneInv'
  BY DEF IInv, TypesInv, PlacesInv, DoneInv
<1>3. StopInv'
  BY DEF IInv, TypesInv, PlacesInv, StopInv, Stops, Posted
<1>4. CountInv'
  BY DEF IInv, TypesInv, PlacesInv, CountInv, StopInv, Stops, DoneInv
<1>5. ReportInv'
  BY DEF IInv, TypesInv, PlacesInv, DoneInv, StopInv, Stops, ReportInv, Posted, AllSafe, SafePlaces
<1>6. Follows(t)
  BY DEF IInv, TypesInv, PlacesInv, Follows, Safe, SafePlaces
<1>7. CountedInv'
  BY <1>6, Counting DEF IInv
<1> QED BY <1>1, <1>2, <1>3, <1>4, <1>5, <1>7 DEF IInv

\* The stop is complete once enough threads are safe.
LEMMA Reporting ==
  ASSUME IInv, NEW t \in Threads,
         f_debug_stop_and_wait(t)
  PROVE  IInv'
<1> USE DEF f_debug_stop_and_wait,
            Enter, Sleep, Leave, Go, Stays, engineVars, postVars
<1>1. TypesInv'
  <2>1. v_loaded' \in BOOLEAN
    BY DEF IInv, TypesInv, PlacesInv
  <2>2. /\ pc' \in [Threads \cup {Debugger} -> Places \cup DebuggerPlaces]
        /\ pc'[Debugger] \in DebuggerPlaces
        /\ \A u \in Threads : pc'[u] \in Places
    BY DEF IInv, TypesInv, PlacesInv, Places, DebuggerPlaces
  <2>3. counted' \subseteq Threads /\ asleep' \subseteq Threads \cup {Debugger}
    BY DEF IInv, TypesInv
  <2> QED BY <2>1, <2>2, <2>3 DEF IInv, TypesInv, PlacesInv
<1>2. DoneInv'
  BY DEF IInv, TypesInv, PlacesInv, DoneInv
<1>3. StopInv'
  BY DEF IInv, TypesInv, PlacesInv, StopInv, Stops, Posted
<1>4. CountInv'
  BY DEF IInv, TypesInv, PlacesInv, CountInv, StopInv, Stops, DoneInv
<1>5. ReportInv'
  BY EnoughSafe DEF IInv, TypesInv, PlacesInv, DoneInv, StopInv, Stops, ReportInv, Posted, AllSafe, SafePlaces
<1>6. Follows(t)
  BY DEF IInv, TypesInv, PlacesInv, Follows, Safe, SafePlaces
<1>7. CountedInv'
  BY <1>6, Counting DEF IInv
<1> QED BY <1>1, <1>2, <1>3, <1>4, <1>5, <1>7 DEF IInv

\* A thread ends.
LEMMA Ending ==
  ASSUME IInv, NEW t \in Threads,
         f_finish(t) \/ f_finish_leave(t) \/ f_finalize(t)
  PROVE  IInv'
<1> USE DEF f_finish, f_finish_leave, f_finalize,
            Enter, Sleep, Leave, Go, Stays, engineVars, postVars
<1>1. TypesInv'
  BY DEF IInv, TypesInv, PlacesInv, Places, DebuggerPlaces
<1>2. DoneInv'
  BY DEF IInv, TypesInv, PlacesInv, DoneInv
<1>3. StopInv'
  BY DEF IInv, TypesInv, PlacesInv, StopInv, Stops, Posted
<1>4. CountInv'
  BY DEF IInv, TypesInv, PlacesInv, CountInv, StopInv, Stops, DoneInv
<1>5. ReportInv'
  BY DEF IInv, TypesInv, PlacesInv, DoneInv, StopInv, Stops, ReportInv, Posted, AllSafe, SafePlaces
<1>6. Follows(t)
  BY DEF IInv, TypesInv, PlacesInv, Follows, Safe, SafePlaces
<1>7. CountedInv'
  BY <1>6, Counting DEF IInv
<1> QED BY <1>1, <1>2, <1>3, <1>4, <1>5, <1>7 DEF IInv

\* The main thread ends.
LEMMA Exiting ==
  ASSUME IInv,
         f_run_exit \/ f_run_wait \/ f_run_leave \/ f_run_detach
  PROVE  IInv'
<1> USE DEF f_run_exit, f_run_wait, f_run_leave, f_run_detach,
            Enter, Sleep, Leave, Go, Stays, engineVars, postVars
<1>1. TypesInv'
  BY DEF IInv, TypesInv, PlacesInv, Places, DebuggerPlaces
<1>2. DoneInv'
  BY DEF IInv, TypesInv, PlacesInv, DoneInv
<1>3. StopInv'
  BY DEF IInv, TypesInv, PlacesInv, StopInv, Stops, Posted
<1>4. CountInv'
  BY DEF IInv, TypesInv, PlacesInv, CountInv, StopInv, Stops, DoneInv
<1>5. ReportInv'
  BY DEF IInv, TypesInv, PlacesInv, DoneInv, StopInv, Stops, ReportInv, Posted, AllSafe, SafePlaces
<1>6. Follows(Main)
  BY DEF IInv, TypesInv, PlacesInv, Follows, Safe, SafePlaces
<1>7. CountedInv'
  BY <1>6, Counting DEF IInv
<1> QED BY <1>1, <1>2, <1>3, <1>4, <1>5, <1>7 DEF IInv

\* The debugger thread.
LEMMA Prompting ==
  ASSUME IInv,
         f_interrupted \/ f_debugger_run \/ f_debug_stop \/ f_debug_stop_wait
          \/ f_debug_continue
  PROVE  IInv'
<1> USE DEF f_interrupted, f_debugger_run, f_debug_stop, f_debug_stop_wait, f_debug_continue,
            Enter, Sleep, Leave, Go, Stays, engineVars, postVars
<1>1. TypesInv'
  <2>1. v_loaded' \in BOOLEAN
    BY DEF IInv, TypesInv, PlacesInv
  <2>2. /\ pc' \in [Threads \cup {Debugger} -> Places \cup DebuggerPlaces]
        /\ pc'[Debugger] \in DebuggerPlaces
        /\ \A u \in Threads : pc'[u] \in Places
    BY DEF IInv, TypesInv, PlacesInv, Places, DebuggerPlaces
  <2>3. counted' \subseteq Threads /\ asleep' \subseteq Threads \cup {Debugger}
    BY DEF IInv, TypesInv
  <2> QED BY <2>1, <2>2, <2>3 DEF IInv, TypesInv, PlacesInv
<1>2. DoneInv'
  BY DEF IInv, TypesInv, PlacesInv, DoneInv
<1>3. StopInv'
  BY DEF IInv, TypesInv, PlacesInv, StopInv, Stops, Posted
<1>4. CountInv'
  BY DEF IInv, TypesInv, PlacesInv, CountInv, StopInv, Stops, DoneInv
<1>5. ReportInv'
  BY EnoughSafe DEF IInv, TypesInv, PlacesInv, DoneInv, StopInv, Stops, ReportInv, Posted, AllSafe, SafePlaces
<1>6. Follows(Main)
  BY DEF IInv, TypesInv, PlacesInv, Follows, Safe, SafePlaces
<1>7. CountedInv'
  BY <1>6, Counting DEF IInv
<1> QED BY <1>1, <1>2, <1>3, <1>4, <1>5, <1>7 DEF IInv

-----------------------------------------------------------------------------
LEMMA Initially ==
  Init => IInv
<1> SUFFICES ASSUME Init PROVE IInv
  OBVIOUS
<1>1. TypesInv
  <2>1. PlacesInv
    BY DEF Init, PlacesInv, Places, DebuggerPlaces
  <2>2. /\ v_done \in [Threads -> -1 .. 1]
        /\ event \in [Threads -> {"stopped", "loaded"}]
    BY DEF Init
  <2> QED BY <2>1, <2>2 DEF Init, TypesInv
<1>2. DoneInv /\ StopInv /\ CountInv
  BY DEF Init, DoneInv, StopInv, Stops, Posted, CountInv
<1>3. Safe = {Main}
  BY DEF Init, Safe, SafePlaces
<1>4. CountedInv
  BY <1>3, FS_Singleton DEF Init, CountedInv
<1>5. ReportInv
  BY DEF Init, ReportInv, AllSafe, SafePlaces
<1> QED BY <1>1, <1>2, <1>4, <1>5 DEF IInv

LEMMA Inductive ==
  IInv /\ [Next]_vars => IInv'
<1> SUFFICES ASSUME IInv, [Next]_vars PROVE IInv'
  OBVIOUS
<1>1. ASSUME NEW t \in Threads,
             \/ Step(t) \/ f_fork(t) \/ f_debug_safe_point(t) \/ f_debug_break(t)
             \/ f_debug_safe_region_enter(t) \/ f_debug_safe_region_leave(t) \/ f_finish(t)
      PROVE  IInv'
  BY <1>1, Starting, Pausing, Breaking, Reporting, Ending DEF Step
<1>2. CASE f_run_exit \/ Waits
  BY <1>2, Exiting DEF Waits
<1>3. CASE Prompt \/ f_interrupted
  BY <1>3, Prompting DEF Prompt
<1>4. CASE UNCHANGED vars
  BY <1>4 DEF vars, engineVars, postVars, IInv, TypesInv, PlacesInv, CountedInv, Safe,
              DoneInv, StopInv, Stops, Posted, CountInv, ReportInv, AllSafe
<1> QED BY <1>1, <1>2, <1>3, <1>4 DEF Next

LEMMA Invariance ==
  Spec => []IInv
BY Initially, Inductive, PTL DEF Spec

(***************************************************************************)
(* v_debug__safe counts exactly the threads that are in a safe place,      *)
(* whatever stops, regions, starts and ends of threads overlap: what the   *)
(* asserts in f_debug_wait_and_leave, f_debug_safe_region_leave and at the *)
(* end of f_run say.                                                       *)
(***************************************************************************)
THEOREM SafeCountExact ==
  Spec => []SafeCounted
<1>1. IInv => SafeCounted
  <2> SUFFICES ASSUME IInv PROVE SafeCounted
    OBVIOUS
  <2>1. v_debug__safe = Cardinality(Safe)
    BY DEF IInv, CountedInv
  <2>2. v_debug__safe \in 0 .. Cardinality(Threads)
    BY <2>1, Sizes DEF Safe
  <2>3. TypeOK
    BY <2>2 DEF IInv, TypesInv, TypeOK
  <2> QED BY <2>1, <2>3 DEF SafeCounted, Safe
<1> QED BY <1>1, Invariance, PTL

(***************************************************************************)
(* Of the threads and the debugger at most one stops the others or has     *)
(* them stopped, and v_debug__stopping is set all that while: break        *)
(* points, loads and interrupts that come together queue up behind each    *)
(* other in f_debug_break_point and f_debug_stop.                          *)
(***************************************************************************)
THEOREM SingleStopper ==
  Spec => []OneStops
<1>1. IInv => OneStops
  <2> SUFFICES ASSUME IInv PROVE OneStops
    OBVIOUS
  <2> DEFINE S == {t \in Threads \cup {Debugger} : pc[t] \in {"stop", "prompt", "load"}}
  <2>1. \A t, u \in S : t = u
    BY DEF IInv, StopInv, Stops
  <2>2. Cardinality(S) <= 1
    <3>1. Cardinality({}) = 0
      BY FS_EmptySet
    <3>2. CASE S = {}
      BY <3>1, <3>2
    <3>3. CASE S # {}
      <4>1. PICK t : S = {t}
        BY <2>1, <3>3
      <4> QED BY <4>1, FS_Singleton
    <3> QED BY <3>2, <3>3
  <2>3. \A t \in Threads \cup {Debugger} :
          pc[t] \in {"stop", "prompt", "load"} => v_debug__stopping
    BY DEF IInv, StopInv, Stops
  <2> QED BY <2>2, <2>3 DEF OneStops
<1> QED BY <1>1, Invariance, PTL

(***************************************************************************)
(* While t_debugger prompts or sets break points no initialized thread     *)
(* runs, except behind a thread that was about to start: the threads       *)
(* f_debug_stop_and_wait counted are the safe ones by then, and none of    *)
(* them leaves its safe place before f_debug_continue.                     *)
(***************************************************************************)
THEOREM PromptSafe ==
  Spec => []StoppedWhilePrompting
<1>1. IInv => StoppedWhilePrompting
  BY DEF IInv, ReportInv, AllSafe, StoppedWhilePrompting
<1> QED BY <1>1, Invariance, PTL
=============================================================================
