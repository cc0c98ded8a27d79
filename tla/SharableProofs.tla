--------------------------- MODULE SharableProofs ---------------------------
(***************************************************************************)
(* Proofs about Sharable for any set of threads.                           *)
(*                                                                         *)
(* That threads exclude each other is not inductive: it depends on who     *)
(* owns the object and who holds v_mutex.  IInv says that a thread at work *)
(* either owns the object or holds v_mutex while nobody owns it, and that  *)
(* v_mutex is held as a lock for one writer or many readers is.            *)
(***************************************************************************)
EXTENDS Sharable, TLAPS

\* A thread works as the owner, or holds the lock of a shared object.
WorkInv ==
  \A t \in Threads :
    /\ doing[t] = "owned" => v_owner = t
    /\ doing[t] = "locked" =>
         /\ v_owner = None
         /\ mode[t] = "write" => writer = t
         /\ mode[t] = "read" => t \in readers

\* One writer or many readers, each of them at work.
LockInv ==
  /\ writer # None => readers = {} /\ doing[writer] = "locked" /\ mode[writer] = "write"
  /\ \A t \in readers : doing[t] = "locked" /\ mode[t] = "read"

IInv == SharableTypeOK /\ WorkInv /\ LockInv

USE NoneAssumption

\* An object starts idle, without a lock.
LEMMA Initially == SharableInit => IInv
  BY DEF SharableInit, IInv, SharableTypeOK, WorkInv, LockInv, Modes

\* f_own and f_share need v_mutex free: nobody works on a shared object.
LEMMA Owning ==
  ASSUME IInv, NEW t \in Threads, f_own(t) \/ f_share(t)
  PROVE  IInv'
<1>1. SharableTypeOK'
  BY DEF IInv, SharableTypeOK, f_own, f_share
<1>2. WorkInv'
  <2> SUFFICES ASSUME NEW u \in Threads
               PROVE  /\ doing[u] = "owned" => v_owner' = u
                      /\ doing[u] # "locked"
    BY DEF WorkInv, f_own, f_share
  <2>1. doing[u] # "locked"
    BY DEF IInv, SharableTypeOK, WorkInv, f_own, f_share, Available, Modes
  <2>2. doing[u] # "owned"
    BY DEF IInv, WorkInv, f_own, f_share
  <2> QED BY <2>1, <2>2
<1>3. LockInv'
  BY DEF IInv, LockInv, f_own, f_share
<1> QED BY <1>1, <1>2, <1>3 DEF IInv

\* f_owned_or_shared goes straight to work as the owner only.
LEMMA Entering ==
  ASSUME IInv, NEW t \in Threads, NEW m \in Modes, f_owned_or_shared(t, m)
  PROVE  IInv'
<1>1. SharableTypeOK'
  BY DEF IInv, SharableTypeOK, f_owned_or_shared
<1>2. WorkInv'
  BY DEF IInv, SharableTypeOK, WorkInv, f_owned_or_shared
<1>3. LockInv'
  BY DEF IInv, SharableTypeOK, LockInv, f_owned_or_shared
<1> QED BY <1>1, <1>2, <1>3 DEF IInv

\* v_mutex lets a writer in alone, and readers together.
LEMMA Locking ==
  ASSUME IInv, NEW t \in Threads, f_lock(t)
  PROVE  IInv'
<1>1. SharableTypeOK'
  BY DEF IInv, SharableTypeOK, f_lock
<1>2. WorkInv'
  BY DEF IInv, SharableTypeOK, WorkInv, f_lock, Available, Modes
<1>3. LockInv'
  BY DEF IInv, SharableTypeOK, LockInv, f_lock, Available, Modes
<1> QED BY <1>1, <1>2, <1>3 DEF IInv

\* A thread that leaves releases what it held.
LEMMA Leaving ==
  ASSUME IInv, NEW t \in Threads, f_leave(t)
  PROVE  IInv'
<1>1. SharableTypeOK'
  BY DEF IInv, SharableTypeOK, f_leave
<1>2. WorkInv'
  BY DEF IInv, SharableTypeOK, WorkInv, f_leave
<1>3. LockInv'
  BY DEF IInv, SharableTypeOK, LockInv, f_leave
<1> QED BY <1>1, <1>2, <1>3 DEF IInv

\* A thread owns the object or holds v_mutex for what it does.
LEMMA Excluding == IInv => Exclusive
  BY DEF IInv, SharableTypeOK, WorkInv, LockInv, Exclusive, Working, Modes

\* Nor does any of these disturb the invariant.
LEMMA Switching ==
  ASSUME IInv, NEW t \in Threads, Switch(t)
  PROVE  IInv'
BY Owning, Entering, Locking DEF Switch

\* f_own and f_share fail while somebody works.
LEMMA Keeping ==
  ASSUME IInv, NEW t \in Threads, Switch(t), NEW u \in Threads, Working(u)
  PROVE  v_owner' = v_owner
<1>1. ~f_own(t)
  BY DEF IInv, SharableTypeOK, WorkInv, Working, f_own, Available, Modes
<1>2. ~f_share(t)
  BY DEF IInv, SharableTypeOK, WorkInv, Working, f_share, Available, Modes
<1> QED BY <1>1, <1>2 DEF Switch, f_lock, f_owned_or_shared

\* The invariant is inductive.
LEMMA Inductive == IInv /\ [SharableNext]_sharableVars => IInv'
<1> SUFFICES ASSUME IInv, [SharableNext]_sharableVars PROVE IInv'
  OBVIOUS
<1>1. CASE UNCHANGED sharableVars
  BY <1>1 DEF IInv, SharableTypeOK, WorkInv, LockInv, sharableVars
<1>2. ASSUME NEW t \in Threads, Switch(t) \/ f_leave(t) PROVE IInv'
  BY <1>2, Switching, Leaving
<1> QED BY <1>1, <1>2 DEF SharableNext

(***************************************************************************)
(* The state of a sharable object stays well formed (f_own, f_share and    *)
(* f_owned_or_shared).                                                     *)
(***************************************************************************)
THEOREM TypeCorrect == SharableSpec => []SharableTypeOK
<1>1. IInv => SharableTypeOK
  BY DEF IInv
<1> QED BY <1>1, Initially, Inductive, PTL DEF SharableSpec

(***************************************************************************)
(* f_owned_or_shared lets two threads work on an object at the same time   *)
(* only to read it while it is shared, whoever calls f_own and f_share     *)
(* meanwhile.                                                              *)
(***************************************************************************)
THEOREM Exclusion == SharableSpec => []Exclusive
BY Excluding, Initially, Inductive, PTL DEF SharableSpec

(***************************************************************************)
(* f_own and f_share never take effect while a thread works on the object. *)
(***************************************************************************)
THEOREM Stability == SharableSpec => OwnerStable
<1>1. IInv /\ [SharableNext]_sharableVars
        => [(\E t \in Threads : Working(t)) => v_owner' = v_owner]_sharableVars
  <2> SUFFICES ASSUME IInv, SharableNext, NEW u \in Threads, Working(u)
               PROVE  v_owner' = v_owner
    BY DEF sharableVars
  <2>1. PICK t \in Threads : Switch(t) \/ f_leave(t)
    BY DEF SharableNext
  <2> QED BY <2>1, Keeping DEF f_leave
<1> QED BY <1>1, Initially, Inductive, PTL DEF SharableSpec, OwnerStable
=============================================================================
