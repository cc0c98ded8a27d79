-------------------------------- MODULE Map ---------------------------------
(***************************************************************************)
(* t_map: a table with open addressing in which an entry records how far   *)
(* it lies from the slot of its hash (v_gap, 1 for the slot itself, 0 for  *)
(* none), and entries that are farther from home come first.  Operations   *)
(* of the Map type run in f_owned_or_shared and find the place of the key  *)
(* first.  Each time round a loop that changes a table is a step; a search *)
(* is one step.  Other threads may run between steps.                      *)
(*                                                                         *)
(* Hash and equality of keys are those of values that do not run scripts.  *)
(* A table is a function on 0 .. v_capacity - 1.                           *)
(***************************************************************************)
EXTENDS Sharable, Integers, Sequences, FiniteSets, FiniteSetsExt

CONSTANTS
  Keys, Values, Null, Error,
  Hashes,      \* hashes of keys
  Capacities   \* v_capacity of v_ranks

ASSUME NullAssumption == Null \notin Nat

ASSUME HashesAssumption == Hashes \subseteq Nat

\* A larger table takes more entries, and the next smaller one has room for
\* the entries of one that is to shrink.
Growing(ranks) ==
  /\ ranks \in Seq(Nat \ {0}) /\ ranks # <<>>
  /\ \A r, s \in DOMAIN ranks : r < s => ranks[r] \div 2 < ranks[s] \div 2
  /\ \A r \in DOMAIN ranks \ {1} : ranks[r] \div 4 <= ranks[r - 1]

ASSUME CapacitiesAssumption == Growing(Capacities)

\* The capacities of the source are such.
v_ranks ==
  <<11, 23, 53, 97, 193, 389, 769, 1543, 3079, 6151, 12289, 24593, 49157, 98317,
    196613, 393241, 786433, 1572869, 3145739, 6291469, 12582917, 25165843, 50331653,
    100663319, 201326611, 402653189, 805306457, 1610612741>>

ASSUME RanksAssumption == Growing(v_ranks)

VARIABLES
  f_hash,                  \* the hash of each key
  v_table, rank, v_size,   \* the map
  found,                   \* the operation of each thread, and where it is
  call                     \* the last operation that took effect

mapVars == <<v_table, rank, v_size>>
vars == <<sharableVars, f_hash, mapVars, found, call>>

v_upper(r) == Capacities[r] \div 2
v_lower(r) == IF r = 1 THEN 0 ELSE Capacities[r] \div 4

Vacant == [v_gap |-> 0, v_hash |-> 0, v_key |-> Null, v_value |-> Null]
NewTable(r) == [i \in 0 .. Capacities[r] - 1 |-> Vacant]

Capacity(tb) == Cardinality(DOMAIN tb)

\* The place n after i, going round the table.
After(tb, i, n) == IF i + n < Capacity(tb) THEN i + n ELSE i + n - Capacity(tb)

\* The place an entry of this hash has with this gap.
Place(tb, hash, gap) == After(tb, hash % Capacity(tb), gap - 1)
-----------------------------------------------------------------------------
(***************************************************************************)
(* Searches of t_table.                                                    *)
(***************************************************************************)

\* Mutant: keys of the same hash are taken for equal.
f_equalsHash(e, hash, key) == e.v_hash = hash

f_equals(e, hash, key) == e.v_hash = hash /\ e.v_key = key

\* The gap from which entries may have this hash.
Skipped(tb, hash) ==
  Min({g \in 1 .. Capacity(tb) : tb[Place(tb, hash, g)].v_gap <= g})

\* f_find(a_hash, a_key): the gap at which the key is or would be put.
f_find_for_put(tb, hash, key) ==
  Min({g \in Skipped(tb, hash) .. Capacity(tb) :
         LET e == tb[Place(tb, hash, g)]
         IN e.v_gap < g \/ f_equals(e, hash, key)})

\* f_find(a_key): the place of the key, or Null.
f_find(tb, hash, key) ==
  LET gap == Min({g \in Skipped(tb, hash) .. Capacity(tb) :
                    LET e == tb[Place(tb, hash, g)]
                    IN e.v_gap # g \/ f_equals(e, hash, key)})
      i == Place(tb, hash, gap)
  IN IF tb[i].v_gap = gap THEN i ELSE Null

\* The gap at which f_rehash puts an entry of this hash.
Free(tb, hash) ==
  Min({g \in 1 .. Capacity(tb) : tb[Place(tb, hash, g)].v_gap < g})

\* How far the entries behind i reach that are as far from home as an entry
\* of this gap at i would be there.
Run(tb, i, gap) ==
  Min({k \in 1 .. Capacity(tb) : tb[After(tb, i, k)].v_gap < gap + k})
-----------------------------------------------------------------------------
(***************************************************************************)
(* Operations of the Map type.  An operation starts when its thread gets   *)
(* to work in the mode the operation needs, and ends with f_leave.  step   *)
(* says where it is:                                                       *)
(*   found    it knows the place of the key                                *)
(*   place    t_table::f_put has e to put at the place at                  *)
(*   rehash   f_rehash has yet to put entries from next on into table      *)
(*   move     t_table::f_put has e to put at the place at of table         *)
(*   fill     f_remove has the place at to fill                            *)
(***************************************************************************)
Nothing ==
  [op |-> "none", step |-> "none", key |-> Null, value |-> Null,
   at |-> Null, e |-> Vacant, table |-> <<>>, next |-> 0]

Called(op, k, v, x) == [op |-> op, key |-> k, value |-> v, result |-> x]

\* Thread t starts op on k, and finds the place i.
Start(t, m, op, k, v, i, e) ==
  /\ Working(t) /\ mode[t] = m
  /\ found[t] = Nothing
  /\ found' = [found EXCEPT ![t] =
                 [Nothing EXCEPT !.op = op, !.step = "found", !.key = k,
                                 !.value = v, !.at = i, !.e = e]]
  /\ UNCHANGED <<sharableVars, f_hash, mapVars, call>>

Proceed(t, f) ==
  /\ Working(t)
  /\ found' = [found EXCEPT ![t] = f]
  /\ UNCHANGED <<sharableVars, f_hash, call>>

Finish(t, x) ==
  /\ f_leave(t)
  /\ found' = [found EXCEPT ![t] = Nothing]
  /\ call' = Called(found[t].op, found[t].key,
                    IF found[t].op = "put" THEN found[t].value ELSE Null, x)
  /\ UNCHANGED f_hash

\* The entry to put for k, with the gap it gets in tb.
NewEntry(tb, k, v) ==
  [v_gap |-> f_find_for_put(tb, f_hash[k], k), v_hash |-> f_hash[k],
   v_key |-> k, v_value |-> v]

PlaceOf(tb, e) == Place(tb, e.v_hash, e.v_gap)

\* What follows when e has been put at the place of an entry: that one moves
\* on, past the entries that are at least as far from home.
Carry(tb, f) ==
  LET out == tb[f.at]
      n == Run(tb, f.at, out.v_gap)
  IN [f EXCEPT !.at = After(tb, f.at, n), !.e = [out EXCEPT !.v_gap = @ + n]]

\* f_rehash starts with a new table.
Rehash(f, r) == [f EXCEPT !.step = "rehash", !.table = NewTable(r), !.next = 0]

f_put_find(t) ==
  \E k \in Keys, v \in Values :
    LET e == NewEntry(v_table, k, v)
    IN Start(t, "write", "put", k, v, PlaceOf(v_table, e), e)

\* Mutant: the table takes one entry more.
FullLate == v_size > v_upper(rank)

Full == v_size >= v_upper(rank)

\* Replace the value, put a new entry, or grow first.
f_put(t) ==
  /\ found[t].op = "put" /\ found[t].step = "found"
  /\ LET f == found[t]
     IN IF v_table[f.at].v_gap = f.e.v_gap
          THEN /\ v_table' = [v_table EXCEPT ![f.at].v_value = f.value]
               /\ UNCHANGED <<rank, v_size>>
               /\ Finish(t, f.value)
        ELSE /\ UNCHANGED mapVars
             /\ IF ~Full THEN Proceed(t, [f EXCEPT !.step = "place"])
                ELSE IF rank = Len(Capacities) THEN Finish(t, Error)
                ELSE Proceed(t, Rehash(f, rank + 1))

\* Once round the loop of t_table::f_put.
f_put_place(t) ==
  /\ found[t].step = "place"
  /\ LET f == found[t]
     IN /\ v_table' = [v_table EXCEPT ![f.at] = f.e]
        /\ UNCHANGED rank
        /\ IF v_table[f.at].v_gap = 0
             THEN v_size' = v_size + 1 /\ Finish(t, f.value)
             ELSE UNCHANGED v_size /\ Proceed(t, Carry(v_table, f))

\* The entries f_rehash has yet to put into the new table.
Left(f) == {i \in DOMAIN v_table : i >= f.next /\ v_table[i].v_gap > 0}

\* The next entry, and its place in the new table.
f_rehash(t) ==
  /\ found[t].step = "rehash" /\ Left(found[t]) # {}
  /\ LET f == found[t]
         i == Min(Left(f))
         e == [v_table[i] EXCEPT !.v_gap = Free(f.table, v_table[i].v_hash)]
     IN Proceed(t, [f EXCEPT !.step = "move", !.next = i + 1,
                             !.at = PlaceOf(f.table, e), !.e = e])
  /\ UNCHANGED mapVars

\* Once round the loop of t_table::f_put, on the new table.
f_rehash_move(t) ==
  /\ found[t].step = "move"
  /\ LET f == found[t]
         g == IF f.table[f.at].v_gap = 0 THEN [f EXCEPT !.step = "rehash"]
              ELSE Carry(f.table, f)
     IN Proceed(t, [g EXCEPT !.table = [f.table EXCEPT ![f.at] = f.e]])
  /\ UNCHANGED mapVars

\* The new table replaces the old one; f_put finds the place in it anew.
f_rehash_end(t) ==
  /\ found[t].step = "rehash" /\ Left(found[t]) = {}
  /\ v_table' = found[t].table
  /\ UNCHANGED v_size
  /\ LET f == found[t]
         e == NewEntry(f.table, f.key, f.value)
     IN \/ /\ f.op = "put"
           /\ rank' = rank + 1
           /\ Proceed(t, [f EXCEPT !.step = "place", !.at = PlaceOf(f.table, e), !.e = e,
                                   !.table = <<>>])
        \/ /\ f.op = "remove"
           /\ rank' = rank - 1
           /\ Finish(t, f.value)

f_remove_find(t) ==
  \E k \in Keys :
    Start(t, "write", "remove", k, Null, f_find(v_table, f_hash[k], k), Vacant)

\* Take the entry out.
f_remove(t) ==
  /\ found[t].op = "remove" /\ found[t].step = "found"
  /\ UNCHANGED <<rank, v_size>>
  /\ LET f == found[t]
     IN IF f.at = Null
          THEN UNCHANGED v_table /\ Finish(t, Error)
          ELSE /\ v_table' = [v_table EXCEPT ![f.at] = Vacant]
               /\ Proceed(t, [f EXCEPT !.step = "fill", !.value = v_table[f.at].v_value])

\* Mutant: only a vacant place ends the loop.
SettledVacant(gap) == gap = 0

\* An entry at home, or none, need not move back.
Settled(gap) == gap <= 1

\* Once round the loop of f_remove: of the entries behind the place with the
\* same slot the last one moves there, and leaves its own place to be filled.
\* In the end, shrink if needed.
f_remove_fill(t) ==
  /\ found[t].step = "fill"
  /\ LET f == found[t]
         q == After(v_table, f.at, 1)
         gap == v_table[q].v_gap
         end == After(v_table, q, Run(v_table, q, gap) - 1)
     IN IF Settled(gap)
          THEN /\ v_size' = v_size - 1
               /\ UNCHANGED <<v_table, rank>>
               /\ IF v_size - 1 < v_lower(rank)
                    THEN Proceed(t, Rehash(f, rank - 1))
                    ELSE Finish(t, f.value)
          ELSE /\ v_table' = [v_table EXCEPT ![f.at] = [v_table[end] EXCEPT !.v_gap = gap - 1],
                                             ![end] = Vacant]
               /\ UNCHANGED <<rank, v_size>>
               /\ Proceed(t, [f EXCEPT !.at = end])

f_get_find(t) ==
  \E op \in {"get", "has"}, k \in Keys :
    Start(t, "read", op, k, Null, f_find(v_table, f_hash[k], k), Vacant)

f_get(t) ==
  /\ found[t].op = "get"
  /\ Finish(t, IF found[t].at = Null THEN Error ELSE v_table[found[t].at].v_value)
  /\ UNCHANGED mapVars

f_has(t) ==
  /\ found[t].op = "has"
  /\ Finish(t, found[t].at # Null)
  /\ UNCHANGED mapVars

\* f_clear and f_size do not look for a key.
f_clear(t) ==
  /\ Working(t) /\ mode[t] = "write" /\ found[t] = Nothing
  /\ f_leave(t)
  /\ v_table' = NewTable(1) /\ rank' = 1 /\ v_size' = 0
  /\ call' = Called("clear", Null, Null, Null)
  /\ UNCHANGED <<f_hash, found>>

f_size(t) ==
  /\ Working(t) /\ mode[t] = "read" /\ found[t] = Nothing
  /\ f_leave(t)
  /\ call' = Called("size", Null, Null, v_size)
  /\ UNCHANGED <<f_hash, mapVars, found>>
-----------------------------------------------------------------------------
Init ==
  /\ SharableInit
  /\ f_hash \in [Keys -> Hashes]
  /\ v_table = NewTable(1) /\ rank = 1 /\ v_size = 0
  /\ found = [t \in Threads |-> Nothing]
  /\ call = Called("new", Null, Null, Null)

Next ==
  \E t \in Threads :
    \/ Switch(t) /\ UNCHANGED <<f_hash, mapVars, found, call>>
    \/ f_put_find(t) \/ f_put(t) \/ f_put_place(t)
    \/ f_rehash(t) \/ f_rehash_move(t) \/ f_rehash_end(t)
    \/ f_remove_find(t) \/ f_remove(t) \/ f_remove_fill(t)
    \/ f_get_find(t) \/ f_get(t) \/ f_has(t)
    \/ f_clear(t) \/ f_size(t)

Spec == Init /\ [][Next]_vars
-----------------------------------------------------------------------------
\* The places of the entries of a table.
Entries(tb) == {i \in DOMAIN tb : tb[i].v_gap > 0}

\* The most entries a table has: as many as f_put puts into it or, if those
\* are more, as f_remove leaves when the next larger one shrinks to it.  (A
\* table of 53 shrinks to one of 23 with 12 entries, where v_upper is 11.)
Load(r) ==
  IF r < Len(Capacities) /\ v_upper(r) < v_lower(r + 1) THEN v_lower(r + 1) - 1
  ELSE v_upper(r)

TypeOK ==
  /\ SharableTypeOK
  /\ f_hash \in [Keys -> Hashes]
  /\ rank \in DOMAIN Capacities
  /\ DOMAIN v_table = 0 .. Capacities[rank] - 1
  /\ v_size \in 0 .. Load(rank)
  /\ \A i \in DOMAIN v_table :
       /\ v_table[i].v_gap \in 0 .. Capacities[rank]
       /\ v_table[i].v_key \in Keys \cup {Null}
       /\ v_table[i].v_value \in Values \cup {Null}

(***************************************************************************)
(* What the probing of f_find relies on, and f_put and f_remove have to    *)
(* keep around the end of the table too: the gap of an entry is its true   *)
(* distance from home; and, except while f_remove fills the place of an    *)
(* entry, gaps grow by one at most from a place to the next, and v_size    *)
(* counts the entries.                                                     *)
(***************************************************************************)
GapsTrue ==
  /\ \A i \in Entries(v_table) :
       LET e == v_table[i]
       IN e.v_hash = f_hash[e.v_key] /\ PlaceOf(v_table, e) = i
  /\ (\A t \in Threads : found[t].step # "fill") =>
       /\ v_size = Cardinality(Entries(v_table))
       /\ \A i \in DOMAIN v_table :
            v_table[After(v_table, i, 1)].v_gap <= v_table[i].v_gap + 1

(***************************************************************************)
(* The table behaves as the function its entries make up, for threads that *)
(* share it and wherever hashes collide and tables grow and shrink.  While *)
(* an operation is under way the function is that from before it: with the *)
(* entry that t_table::f_put carries and without the one it is called for, *)
(* and with the one that f_remove has taken out.                           *)
(***************************************************************************)
Pair(e) == <<e.v_key, e.v_value>>

Putting == {t \in Threads : found[t].step = "place"}
Removing == {t \in Threads : found[t].op = "remove" /\ found[t].step # "found"}

Pairs ==
  {p \in {Pair(v_table[i]) : i \in Entries(v_table)} \cup {Pair(found[t].e) : t \in Putting} :
     \A t \in Putting : p[1] # found[t].key}
  \cup {<<found[t].key, found[t].value>> : t \in Removing}

Contents == [k \in {p[1] : p \in Pairs} |-> CHOOSE v \in Values : <<k, v>> \in Pairs]

Abstract ==
  INSTANCE MapObject WITH map <- Contents, Limit <- v_upper(Len(Capacities))
AbstractSpec == Abstract!Spec
=============================================================================
