------------------------------ MODULE Sharable ------------------------------
(***************************************************************************)
(* t_sharable: an object is owned by one thread, which works on it without *)
(* locking, or shared, and then every operation locks v_mutex.  A thread   *)
(* works on the object while the operation it passed to f_owned_or_shared  *)
(* runs.  Calls that throw change nothing and are no steps.                *)
(***************************************************************************)
CONSTANTS
  Threads,
  None       \* no thread: v_owner is null

ASSUME NoneAssumption == None \notin Threads

VARIABLES
  v_owner,
  writer, readers,   \* who holds v_mutex: for writing, for reading
  doing,             \* where each thread is in f_owned_or_shared
  mode               \* the lock its operation takes if the object is shared

sharableVars == <<v_owner, writer, readers, doing, mode>>

Modes == {"read", "write"}

Working(t) == doing[t] \in {"owned", "locked"}

\* v_mutex can be taken, for writing or for reading.
Available(m) == writer = None /\ (m = "write" => readers = {})

\* Mutant: the lock is not taken.
f_ownUnlocked(t) ==
  /\ doing[t] = "idle"
  /\ v_owner = None
  /\ v_owner' = t
  /\ UNCHANGED <<writer, readers, doing, mode>>

\* Under v_mutex, so that nobody works on a shared object at the time.
f_own(t) ==
  /\ doing[t] = "idle"
  /\ Available("write")
  /\ v_owner = None
  /\ v_owner' = t
  /\ UNCHANGED <<writer, readers, doing, mode>>

f_share(t) ==
  /\ doing[t] = "idle"
  /\ v_owner = t
  /\ Available("write")
  /\ v_owner' = None
  /\ UNCHANGED <<writer, readers, doing, mode>>

\* The first tests: the owner goes to work, others wait for a shared object.
f_owned_or_shared(t, m) ==
  /\ doing[t] = "idle"
  /\ v_owner \in {t, None}
  /\ doing' = [doing EXCEPT ![t] = IF v_owner = t THEN "owned" ELSE "waiting"]
  /\ mode' = [mode EXCEPT ![t] = m]
  /\ UNCHANGED <<v_owner, writer, readers>>

\* Mutant: the object is not tested again.
f_lockUnchecked(t) ==
  /\ doing[t] = "waiting"
  /\ Available(mode[t])
  /\ doing' = [doing EXCEPT ![t] = "locked"]
  /\ IF mode[t] = "write"
       THEN writer' = t /\ UNCHANGED readers
       ELSE readers' = readers \cup {t} /\ UNCHANGED writer
  /\ UNCHANGED <<v_owner, mode>>

\* The lock is taken, and dropped again if the object has got an owner.
f_lock(t) ==
  /\ doing[t] = "waiting"
  /\ Available(mode[t])
  /\ IF v_owner # None
       THEN doing' = [doing EXCEPT ![t] = "idle"] /\ UNCHANGED <<writer, readers>>
     ELSE /\ doing' = [doing EXCEPT ![t] = "locked"]
          /\ IF mode[t] = "write"
               THEN writer' = t /\ UNCHANGED readers
               ELSE readers' = readers \cup {t} /\ UNCHANGED writer
  /\ UNCHANGED <<v_owner, mode>>

\* The operation has returned or thrown.
f_leave(t) ==
  /\ Working(t)
  /\ doing' = [doing EXCEPT ![t] = "idle"]
  /\ writer' = IF writer = t THEN None ELSE writer
  /\ readers' = readers \ {t}
  /\ UNCHANGED <<v_owner, mode>>

\* The thread that creates the object owns it.
SharableInit ==
  /\ v_owner \in Threads
  /\ writer = None /\ readers = {}
  /\ doing = [t \in Threads |-> "idle"]
  /\ mode = [t \in Threads |-> "read"]

Switch(t) ==
  \/ f_own(t) \/ f_share(t) \/ f_lock(t)
  \/ \E m \in Modes : f_owned_or_shared(t, m)

SharableNext == \E t \in Threads : Switch(t) \/ f_leave(t)

SharableSpec == SharableInit /\ [][SharableNext]_sharableVars
-----------------------------------------------------------------------------
SharableTypeOK ==
  /\ v_owner \in Threads \cup {None}
  /\ writer \in Threads \cup {None}
  /\ readers \subseteq Threads
  /\ doing \in [Threads -> {"idle", "waiting", "owned", "locked"}]
  /\ mode \in [Threads -> Modes]

(***************************************************************************)
(* "Some objects such as lists and maps needs to be accessed exclusively": *)
(* two threads work on the object at the same time only to read it while   *)
(* it is shared, also while it changes from owned to shared and back.      *)
(***************************************************************************)
Exclusive ==
  \A t, u \in Threads :
    t # u /\ Working(t) /\ Working(u) =>
      \A x \in {t, u} : doing[x] = "locked" /\ mode[x] = "read"

(***************************************************************************)
(* Nobody owns or shares the object while some thread works on it.         *)
(***************************************************************************)
OwnerStable ==
  [][(\E t \in Threads : Working(t)) => v_owner' = v_owner]_sharableVars
=============================================================================
