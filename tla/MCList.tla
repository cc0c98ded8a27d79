------------------------------- MODULE MCList -------------------------------
(***************************************************************************)
(* Instances of List for TLC.                                              *)
(***************************************************************************)
EXTENDS List

\* No action reads call: states that differ only there have the same futures.
View == <<listVars, sorted>>
=============================================================================
