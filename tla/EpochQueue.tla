----------------------------- MODULE EpochQueue -----------------------------
(***************************************************************************)
(* What the collector relies on from the increment and decrement queue of  *)
(* a mutator thread, without the ring: operations are numbered 1, 2, ...   *)
(* in the order they are pushed; an epoch takes a snapshot of how many     *)
(* were pushed and then applies, in order and once each, everything up to  *)
(* its limit.  The limit of the increments is the snapshot itself, that of *)
(* the decrements (Deferred) the snapshot of the epoch before.             *)
(***************************************************************************)
EXTENDS Integers

CONSTANT Deferred  \* FALSE: t_increments, TRUE: t_decrements

VARIABLES
  pushed,    \* how many operations were pushed
  applied,   \* how many of them the collector has applied
  got,       \* number of the operation applied last
  mark,      \* value of pushed at the latest snapshot
  limit      \* how far the current epoch applies

vars == <<pushed, applied, got, mark, limit>>

Init ==
  /\ pushed = 0
  /\ applied = 0
  /\ got = 0
  /\ mark = 0
  /\ limit = 0

Push ==
  /\ pushed' = pushed + 1
  /\ UNCHANGED <<applied, got, mark, limit>>

Snapshot ==
  /\ applied = limit
  /\ mark' = pushed
  /\ limit' = IF Deferred THEN mark ELSE pushed
  /\ UNCHANGED <<pushed, applied, got>>

Apply ==
  /\ applied < limit
  /\ applied' = applied + 1
  /\ got' = applied + 1
  /\ UNCHANGED <<pushed, mark, limit>>

Next == Push \/ Snapshot \/ Apply

Spec == Init /\ [][Next]_vars
=============================================================================
