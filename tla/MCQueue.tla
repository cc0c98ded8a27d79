------------------------------ MODULE MCQueue -------------------------------
(***************************************************************************)
(* Instances of Queue for TLC.  A mutator that has pushed its MaxPush      *)
(* operations and a collector with no tick left stop, so the configurations*)
(* allow deadlock; that nobody stops too early is BlockedResumes.          *)
(***************************************************************************)
EXTENDS Queue
=============================================================================
