----------------------------- MODULE MapObject ------------------------------
(***************************************************************************)
(* What a Map promises: a finite function from keys to values.  call is    *)
(* the last operation that took effect, with its arguments and what it     *)
(* returned or threw.                                                      *)
(***************************************************************************)
EXTENDS Integers, FiniteSets, Functions

CONSTANTS
  Keys, Values, Null, Error,
  Limit      \* a map of this size does not take another key

VARIABLES map, call

vars == <<map, call>>

Called(op, k, v, x) == [op |-> op, key |-> k, value |-> v, result |-> x]

Nothing == [k \in {} |-> Null]

Init == map = Nothing /\ call = Called("new", Null, Null, Null)

Has(k) == k \in DOMAIN map

Put(k, v) ==
  /\ Has(k) \/ Cardinality(DOMAIN map) < Limit
  /\ map' = [x \in DOMAIN map \cup {k} |-> IF x = k THEN v ELSE map[x]]
  /\ call' = Called("put", k, v, v)

Remove(k) ==
  /\ Has(k)
  /\ map' = Restrict(map, DOMAIN map \ {k})
  /\ call' = Called("remove", k, Null, map[k])

Get(k) ==
  /\ Has(k)
  /\ call' = Called("get", k, Null, map[k])
  /\ UNCHANGED map

Find(k) == call' = Called("has", k, Null, Has(k)) /\ UNCHANGED map

Size == call' = Called("size", Null, Null, Cardinality(DOMAIN map)) /\ UNCHANGED map

Clear == map' = Nothing /\ call' = Called("clear", Null, Null, Null)

\* No such key, or no room for another one.
Throw(k) ==
  /\ ~Has(k)
  /\ \/ \E op \in {"get", "remove"} : call' = Called(op, k, Null, Error)
     \/ /\ Cardinality(DOMAIN map) = Limit
        /\ \E v \in Values : call' = Called("put", k, v, Error)
  /\ UNCHANGED map

Next ==
  \/ \E k \in Keys :
       \/ Remove(k) \/ Get(k) \/ Find(k) \/ Throw(k)
       \/ \E v \in Values : Put(k, v)
  \/ Size \/ Clear

Spec == Init /\ [][Next]_vars
=============================================================================
