----------------------------- MODULE MCDebugger -----------------------------
(***************************************************************************)
(* Instances of Debugger for TLC.                                          *)
(***************************************************************************)
EXTENDS Debugger
=============================================================================
