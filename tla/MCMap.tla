------------------------------- MODULE MCMap --------------------------------
(***************************************************************************)
(* Instances of Map for TLC.  A thread that is not the owner of an owned   *)
(* map may have no step, but the owner always has one.                     *)
(***************************************************************************)
EXTENDS Map, TLC

Ranks == <<6, 9>>

\* Hashes are chosen for every key alike.
Symmetry == Permutations(Keys) \cup Permutations(Values) \cup Permutations(Threads)

\* No action reads call: states that differ only there have the same futures.
View == <<sharableVars, f_hash, mapVars, found>>
=============================================================================
