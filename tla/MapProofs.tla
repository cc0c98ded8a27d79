------------------------------ MODULE MapProofs ------------------------------
(***************************************************************************)
(* Proofs about Map for any threads, keys, values and hashes, and any      *)
(* capacities that grow as those of the source do.                         *)
(*                                                                         *)
(* That probing finds every key is not inductive: it depends on what an    *)
(* operation has done so far.  MapInv says for each step of an operation   *)
(* what the table and the entry in hand are, and that the table is sound   *)
(* except for the hole that f_remove fills; SharableProofs gives that an   *)
(* operation that changes the table is alone.                              *)
(***************************************************************************)
EXTENDS MapSteps, SharableProofs

FoundType == DOMAIN found = Threads /\ \A t \in Threads : DOMAIN found[t] = Fields

\* A thread that is in an operation works, in the mode of the operation.
AtWork ==
  \A t \in Threads :
    found[t] # Nothing =>
      /\ Working(t)
      /\ found[t].op \in {"put", "remove"} => mode[t] = "write"

StepInv == \A t \in Threads : StepIs(f_hash, v_table, rank, v_size, found[t])

TableInv ==
  (\A t \in Threads : found[t].step # "fill") => Table(f_hash, v_table, rank, v_size)

\* Pairs as a function of the table and the operations.
PairsIn(tb, fd) ==
  LET P == {t \in Threads : fd[t].step = "place"}
      R == {t \in Threads : fd[t].op = "remove" /\ fd[t].step # "found"}
  IN {p \in Held(tb) \cup {Pair(fd[t].e) : t \in P} : \A t \in P : p[1] # fd[t].key}
     \cup {<<fd[t].key, fd[t].value>> : t \in R}

\* What a step does to the pairs.
Most == v_upper(Len(Capacities))

Keeps == UNCHANGED call /\ Pairs' = Pairs

Puts(k, v) ==
  /\ k \in Keys /\ v \in Values
  /\ k \in KeysOf(Pairs) \/ Cardinality(KeysOf(Pairs)) < Most
  /\ Pairs' = Without(Pairs, k) \cup {<<k, v>>}
  /\ call' = Called("put", k, v, v)

Removes(k, v) ==
  /\ <<k, v>> \in Pairs
  /\ Pairs' = Without(Pairs, k)
  /\ call' = Called("remove", k, Null, v)

Gets(k, v) ==
  /\ <<k, v>> \in Pairs
  /\ Pairs' = Pairs
  /\ call' = Called("get", k, Null, v)

Tells(k) ==
  /\ k \in Keys
  /\ Pairs' = Pairs
  /\ call' = Called("has", k, Null, k \in KeysOf(Pairs))

Throws(k) ==
  /\ k \in Keys /\ k \notin KeysOf(Pairs)
  /\ \/ \E op \in {"get", "remove"} : call' = Called(op, k, Null, Error)
     \/ /\ Cardinality(KeysOf(Pairs)) = Most
        /\ \E v \in Values : call' = Called("put", k, v, Error)
  /\ Pairs' = Pairs

Counts == Pairs' = Pairs /\ call' = Called("size", Null, Null, Cardinality(KeysOf(Pairs)))

Clears == Pairs' = {} /\ call' = Called("clear", Null, Null, Null)

Effect ==
  \/ Keeps \/ Counts \/ Clears
  \/ \E k, v : Puts(k, v) \/ Removes(k, v) \/ Gets(k, v)
  \/ \E k : Tells(k) \/ Throws(k)

MapInv ==
  /\ IInv
  /\ f_hash \in [Keys -> Hashes]
  /\ RankInv(rank, v_size)
  /\ FoundType
  /\ AtWork
  /\ StepInv
  /\ TableInv
-----------------------------------------------------------------------------
\* A thread that is in no operation.
LEMMA NothingIs ==
  /\ DOMAIN Nothing = Fields /\ Nothing.op = "none" /\ Nothing.step = "none"
  /\ Nothing.table = <<>>
BY DEF Nothing, Fields

\* A map is a sharable object.
LEMMA MapShares ==
  ASSUME [Next]_vars
  PROVE  [SharableNext]_sharableVars
<1>1. CASE UNCHANGED vars
  BY <1>1 DEF vars
<1>2. ASSUME NEW t \in Threads, Switch(t) \/ f_leave(t) \/ UNCHANGED sharableVars
      PROVE  [SharableNext]_sharableVars
  BY <1>2 DEF SharableNext
<1>3. ASSUME NEW t \in Threads,
             \/ Switch(t)
             \/ f_put_find(t) \/ f_put(t) \/ f_put_place(t)
             \/ f_rehash(t) \/ f_rehash_move(t) \/ f_rehash_end(t)
             \/ f_remove_find(t) \/ f_remove(t) \/ f_remove_fill(t)
             \/ f_get_find(t) \/ f_get(t) \/ f_has(t)
             \/ f_clear(t) \/ f_size(t)
      PROVE  Switch(t) \/ f_leave(t) \/ UNCHANGED sharableVars
  <2>1. CASE f_put_find(t) \/ f_remove_find(t) \/ f_get_find(t)
    BY <2>1 DEF f_put_find, f_remove_find, f_get_find, Start
  <2>2. CASE f_put(t)
    BY <2>2 DEF f_put, Finish, Proceed
  <2>3. CASE f_put_place(t)
    BY <2>3 DEF f_put_place, Finish, Proceed
  <2>4. CASE f_rehash(t) \/ f_rehash_move(t)
    BY <2>4 DEF f_rehash, f_rehash_move, Proceed
  <2>5. CASE f_rehash_end(t)
    BY <2>5 DEF f_rehash_end, Finish, Proceed
  <2>6. CASE f_remove(t)
    BY <2>6 DEF f_remove, Finish, Proceed
  <2>7. CASE f_remove_fill(t)
    BY <2>7 DEF f_remove_fill, Finish, Proceed
  <2>8. CASE f_get(t) \/ f_has(t) \/ f_clear(t) \/ f_size(t)
    BY <2>8 DEF f_get, f_has, f_clear, f_size, Finish
  <2> QED BY <1>3, <2>1, <2>2, <2>3, <2>4, <2>5, <2>6, <2>7, <2>8
<1> QED BY <1>1, <1>2, <1>3 DEF Next

\* A thread that works on the map to change it is alone.
LEMMA Alone ==
  ASSUME MapInv, NEW t \in Threads, Working(t), mode[t] = "write",
         NEW u \in Threads, u # t
  PROVE  found[u] = Nothing /\ ~Working(u)
<1>1. ~Working(u)
  <2>1. Exclusive
    BY Excluding DEF MapInv
  <2> QED BY <2>1 DEF Exclusive
<1> QED BY <1>1 DEF MapInv, AtWork

\* The operation of a thread.
LEMMA InOperation ==
  ASSUME MapInv, NEW t \in Threads, found[t] # Nothing
  PROVE  /\ Working(t)
         /\ DOMAIN found[t] = Fields
         /\ StepIs(f_hash, v_table, rank, v_size, found[t])
         /\ found[t].op \in {"put", "remove"} => mode[t] = "write"
BY DEF MapInv, AtWork, FoundType, StepInv

\* The pairs before and after a step.
LEMMA PairsAre == Pairs = PairsIn(v_table, found) /\ Pairs' = PairsIn(v_table', found')
BY DEF Pairs, PairsIn, Held, PairsOf, Putting, Removing

\* Operations that have just started hide nothing,
LEMMA PairsQuiet ==
  ASSUME NEW tb, NEW fd, \A t \in Threads : fd[t] = Nothing \/ fd[t].step = "found"
  PROVE  PairsIn(tb, fd) = Held(tb)
<1>1. \A t \in Threads : /\ fd[t].step # "place"
                          /\ ~(fd[t].op = "remove" /\ fd[t].step # "found")
  BY NothingIs
<1> QED BY <1>1 DEF PairsIn

\* and one that changes the map is alone.
LEMMA PairsAlone ==
  ASSUME NEW tb, NEW fd, NEW t \in Threads, \A u \in Threads : u # t => fd[u] = Nothing,
         fd[t].step = "place" => fd[t].op = "put"
  PROVE  PairsIn(tb, fd) = Shown(tb, fd[t])
<1> DEFINE P == {u \in Threads : fd[u].step = "place"}
           R == {u \in Threads : fd[u].op = "remove" /\ fd[u].step # "found"}
<1>1. \A u \in Threads : u # t => fd[u].step = "none" /\ fd[u].op = "none"
  BY NothingIs
<1>2. CASE fd[t].step = "place"
  <2>1. P = {t} /\ R = {}
    BY <1>1, <1>2
  <2> HIDE DEF P, R
  <2> QED BY <1>2, <2>1 DEF PairsIn, Shown, With, Without, P, R
<1>3. CASE fd[t].step # "place" /\ fd[t].op = "remove" /\ fd[t].step # "found"
  <2>1. P = {} /\ R = {t}
    BY <1>1, <1>3
  <2> HIDE DEF P, R
  <2> QED BY <1>3, <2>1 DEF PairsIn, Shown, P, R
<1>4. CASE fd[t].step # "place" /\ ~(fd[t].op = "remove" /\ fd[t].step # "found")
  <2>1. P = {} /\ R = {}
    BY <1>1, <1>4
  <2> HIDE DEF P, R
  <2> QED BY <1>4, <2>1 DEF PairsIn, Shown, P, R
<1> QED BY <1>2, <1>3, <1>4

\* Only an operation of f_put has an entry to put into the map.
LEMMA PlacePuts ==
  ASSUME NEW h, NEW tb, NEW r, NEW n, NEW f, StepIs(h, tb, r, n, f), f.step = "place"
  PROVE  f.op = "put"
BY NothingIs DEF StepIs, Placing

\* An operation that changes the map goes on with g.
LEMMA GoesOn ==
  ASSUME MapInv, IInv', NEW t \in Threads, found[t] # Nothing, found[t].op \in {"put", "remove"},
         NEW g, DOMAIN g = Fields, g.op = found[t].op,
         UNCHANGED <<sharableVars, f_hash>>, found' = [found EXCEPT ![t] = g],
         RankInv(rank', v_size'), StepIs(f_hash, v_table', rank', v_size', g),
         g.step # "fill" => Table(f_hash, v_table', rank', v_size')
  PROVE  MapInv' /\ Pairs' = Shown(v_table', g)
<1>1. Working(t) /\ mode[t] = "write"
  BY InOperation
<1>2. \A u \in Threads : u # t => found[u] = Nothing
  BY <1>1, Alone
<1>3. DOMAIN found = Threads
  BY DEF MapInv, FoundType
<1>4. /\ DOMAIN found' = Threads /\ found'[t] = g
      /\ \A u \in Threads : u # t => found'[u] = Nothing
  BY <1>2, <1>3
<1>5. FoundType'
  BY <1>4, NothingIs DEF FoundType
<1>6. AtWork'
  BY <1>1, <1>4 DEF AtWork, Working, sharableVars
<1>7. StepInv'
  <2> SUFFICES ASSUME NEW u \in Threads
               PROVE  StepIs(f_hash', v_table', rank', v_size', found'[u])
    BY DEF StepInv
  <2>1. CASE u = t
    BY <1>4, <2>1
  <2>2. CASE u # t
    BY <1>4, <2>2 DEF StepIs
  <2> QED BY <2>1, <2>2
<1>8. TableInv'
  BY <1>4 DEF TableInv
<1>9. (f_hash \in [Keys -> Hashes])' /\ RankInv(rank', v_size')
  BY DEF MapInv
<1>10. Pairs' = Shown(v_table', g)
  <2>1. g.step = "place" => g.op = "put"
    BY PlacePuts
  <2>2. PICK fd : fd = found'
    OBVIOUS
  <2>3. fd[t] = g /\ \A u \in Threads : u # t => fd[u] = Nothing
    BY <1>4, <2>2
  <2>4. PairsIn(v_table', fd) = Shown(v_table', fd[t])
    BY <2>1, <2>3, PairsAlone
  <2> QED BY <2>2, <2>3, <2>4, PairsAre
<1> QED BY <1>5, <1>6, <1>7, <1>8, <1>9, <1>10 DEF MapInv

\* An operation that has changed the map returns.
LEMMA Returns ==
  ASSUME MapInv, IInv', NEW t \in Threads, Working(t), mode[t] = "write",
         f_leave(t), UNCHANGED f_hash,
         DOMAIN found' = Threads, found'[t] = Nothing,
         \A u \in Threads : u # t => found'[u] = found[u],
         RankInv(rank', v_size'), Table(f_hash, v_table', rank', v_size')
  PROVE  MapInv' /\ Pairs' = Held(v_table')
<1>1. \A u \in Threads : found'[u] = Nothing
  BY Alone
<1>2. FoundType' /\ AtWork'
  BY <1>1, NothingIs DEF FoundType, AtWork
<1>3. StepInv'
  BY <1>1 DEF StepInv, StepIs
<1>4. TableInv'
  BY DEF TableInv
<1>5. (f_hash \in [Keys -> Hashes])' /\ RankInv(rank', v_size')
  BY DEF MapInv
<1>6. Pairs' = Held(v_table')
  BY <1>1, PairsQuiet, PairsAre
<1> QED BY <1>2, <1>3, <1>4, <1>5, <1>6 DEF MapInv

\* The map is as before, and so are the operations of other threads.
LEMMA Others ==
  ASSUME MapInv, IInv', NEW t \in Threads, UNCHANGED <<f_hash, mapVars>>,
         DOMAIN found' = Threads, \A u \in Threads : u # t => found'[u] = found[u],
         \A u \in Threads : u # t => doing'[u] = doing[u] /\ mode'[u] = mode[u],
         NEW g, found'[t] = g, DOMAIN g = Fields,
         g # Nothing => /\ doing'[t] \in {"owned", "locked"}
                        /\ g.op \in {"put", "remove"} => mode'[t] = "write",
         StepIs(f_hash, v_table, rank, v_size, g),
         found[t].step # "fill"
  PROVE  MapInv'
<1>1. FoundType'
  BY DEF FoundType, MapInv
<1>2. AtWork'
  <2> SUFFICES ASSUME NEW u \in Threads, found'[u] # Nothing
               PROVE  /\ doing'[u] \in {"owned", "locked"}
                      /\ found'[u].op \in {"put", "remove"} => mode'[u] = "write"
    BY DEF AtWork, Working
  <2>1. CASE u = t
    BY <2>1
  <2>2. CASE u # t
    BY <2>2 DEF MapInv, AtWork, Working
  <2> QED BY <2>1, <2>2
<1>3. v_table' = v_table /\ rank' = rank /\ v_size' = v_size /\ f_hash' = f_hash
  BY DEF mapVars
<1>4. StepInv'
  <2> SUFFICES ASSUME NEW u \in Threads
               PROVE  StepIs(f_hash, v_table, rank, v_size, found'[u])
    BY <1>3 DEF StepInv
  <2> QED BY DEF MapInv, StepInv
<1>5. TableInv'
  <2> SUFFICES ASSUME \A u \in Threads : found'[u].step # "fill"
               PROVE  Table(f_hash, v_table, rank, v_size)
    BY <1>3 DEF TableInv
  <2> QED BY DEF MapInv, TableInv
<1> QED BY <1>1, <1>2, <1>3, <1>4, <1>5 DEF MapInv

\* An operation that changes the map knows it.
LEMMA Writing ==
  ASSUME MapInv, NEW t \in Threads, found[t].op \in {"put", "remove"}
  PROVE  /\ found[t] # Nothing /\ Working(t) /\ mode[t] = "write"
         /\ DOMAIN found[t] = Fields /\ DOMAIN found = Threads
         /\ StepIs(f_hash, v_table, rank, v_size, found[t])
         /\ found[t].step # "fill" => Table(f_hash, v_table, rank, v_size)
         /\ f_hash \in [Keys -> Hashes]
         /\ rank \in DOMAIN Capacities /\ v_size \in Nat /\ v_size <= Load(rank)
         /\ Pairs = Shown(v_table, found[t])
<1>1. found[t] # Nothing
  BY NothingIs
<1>2. Working(t) /\ mode[t] = "write" /\ DOMAIN found[t] = Fields
      /\ StepIs(f_hash, v_table, rank, v_size, found[t])
  BY <1>1, InOperation
<1>3. \A u \in Threads : u # t => found[u].step # "fill"
  BY <1>2, Alone, NothingIs
<1>4. found[t].step # "fill" => Table(f_hash, v_table, rank, v_size)
  BY <1>3 DEF MapInv, TableInv
<1>5. v_upper(rank) \in Nat /\ Load(rank) \in Nat /\ v_upper(rank) <= Load(rank)
  BY RankIs DEF MapInv, RankInv
<1>6. Pairs = Shown(v_table, found[t])
  <2>1. found[t].step = "place" => found[t].op = "put"
    BY <1>2, PlacePuts
  <2>2. PairsIn(v_table, found) = Shown(v_table, found[t])
    BY <1>2, <2>1, Alone, PairsAlone
  <2> QED BY <2>2, PairsAre
<1> QED BY <1>1, <1>2, <1>4, <1>5, <1>6 DEF MapInv, RankInv, FoundType

\* The next larger table takes one entry more than any this one has.
LEMMA RankUp ==
  ASSUME NEW r \in DOMAIN Capacities, r # Len(Capacities)
  PROVE  r + 1 \in DOMAIN Capacities /\ Load(r) < v_upper(r + 1)
<1>1. DOMAIN Capacities = 1 .. Len(Capacities) /\ Len(Capacities) \in Nat
  BY CapacitiesAssumption DEF Growing
<1>2. r + 1 \in DOMAIN Capacities /\ r < r + 1 /\ r + 1 # 1
  BY <1>1
<1>3. PICK c \in Nat \ {0} : c = Capacities[r]
  BY <1>2, RankIs
<1>4. PICK d \in Nat \ {0} : d = Capacities[r + 1]
  BY <1>2, RankIs
<1>5. c \div 2 < d \div 2
  BY <1>2, <1>3, <1>4, CapacitiesAssumption DEF Growing
<1>6. v_upper(r) = c \div 2 /\ v_upper(r + 1) = d \div 2 /\ v_lower(r + 1) = d \div 4
  BY <1>2, <1>3, <1>4 DEF v_upper, v_lower
<1>7. Load(r) = d \div 4 - 1 \/ Load(r) = c \div 2
  BY <1>6 DEF Load
<1>8. d \div 4 - 1 < d \div 2
  BY <1>4
<1> QED BY <1>2, <1>5, <1>6, <1>7, <1>8

\* The next smaller table has the entries of one that is to shrink.
LEMMA RankDown ==
  ASSUME NEW r \in DOMAIN Capacities, NEW n \in Nat, n < v_lower(r)
  PROVE  r - 1 \in DOMAIN Capacities /\ n <= Load(r - 1)
<1>1. DOMAIN Capacities = 1 .. Len(Capacities) /\ Len(Capacities) \in Nat
  BY CapacitiesAssumption DEF Growing
<1>2. r # 1 /\ n < Capacities[r] \div 4
  BY DEF v_lower
<1>3. r \in DOMAIN Capacities \ {1} /\ r - 1 \in DOMAIN Capacities
  BY <1>1, <1>2
<1>4. r - 1 < Len(Capacities) /\ (r - 1) + 1 = r
  BY <1>1, <1>3
<1>5. v_upper(r - 1) \in Nat /\ v_lower(r) \in Nat
  <2>1. Capacities[r] \in Nat \ {0}
    BY RankIs
  <2>2. v_lower(r) \in Nat
    BY <2>1 DEF v_lower
  <2> QED BY <1>3, <2>2, RankIs
<1>6. CASE v_upper(r - 1) < v_lower(r)
  <2>1. Load(r - 1) = v_lower(r) - 1
    BY <1>4, <1>6 DEF Load
  <2> QED BY <1>3, <1>5, <2>1
<1>7. CASE ~(v_upper(r - 1) < v_lower(r))
  <2>1. Load(r - 1) = v_upper(r - 1)
    BY <1>4, <1>7 DEF Load
  <2> QED BY <1>3, <1>5, <1>7, <2>1
<1> QED BY <1>6, <1>7

\* An operation that starts with the place it has found.
Begun(op, k, v, i, e) ==
  [Nothing EXCEPT !.op = op, !.step = "found", !.key = k, !.value = v, !.at = i, !.e = e]

\* The start of an operation keeps MapInv, if it found the place of its key.
LEMMA Begins ==
  ASSUME MapInv, IInv', NEW t \in Threads,
         NEW m, NEW op, NEW k, NEW v, NEW i, NEW e, Start(t, m, op, k, v, i, e),
         NEW g, g = Begun(op, k, v, i, e),
         op \in {"put", "remove"} => m = "write",
         FoundFind(f_hash, v_table, g) \/ FoundPut(f_hash, v_table, g)
  PROVE  MapInv'
<1>1. DOMAIN g = Fields /\ g.op = op /\ g.step = "found"
  BY DEF Begun, Nothing, Fields
<1>2. /\ Working(t) /\ mode[t] = m /\ found[t] = Nothing
      /\ found' = [found EXCEPT ![t] = g]
      /\ UNCHANGED <<sharableVars, f_hash, mapVars>>
  BY DEF Start, Begun
<1>3. DOMAIN found = Threads
  BY DEF MapInv, FoundType
<1>4. /\ DOMAIN found' = Threads /\ found'[t] = g
      /\ \A u \in Threads : u # t => found'[u] = found[u]
  BY <1>2, <1>3
<1>5. StepIs(f_hash, v_table, rank, v_size, g)
  BY <1>1 DEF StepIs
<1>6. found[t].step # "fill"
  BY <1>2, NothingIs
<1>7. doing' = doing /\ mode' = mode
  BY <1>2 DEF sharableVars
<1>8. doing'[t] \in {"owned", "locked"} /\ (g.op \in {"put", "remove"} => mode'[t] = "write")
  BY <1>1, <1>2, <1>7 DEF Working
<1> QED BY <1>1, <1>2, <1>4, <1>5, <1>6, <1>7, <1>8, Others

\* It does.
LEMMA InvFind ==
  ASSUME MapInv, IInv', NEW t \in Threads, f_put_find(t) \/ f_remove_find(t) \/ f_get_find(t)
  PROVE  MapInv'
<1>1. ASSUME f_put_find(t) PROVE MapInv'
  <2>1. PICK k \in Keys, v \in Values :
          Start(t, "write", "put", k, v, PlaceOf(v_table, NewEntry(v_table, k, v)),
                NewEntry(v_table, k, v))
    BY <1>1 DEF f_put_find
  <2>2. PICK e : e = NewEntry(v_table, k, v)
    OBVIOUS
  <2>3. PICK i : i = PlaceOf(v_table, e)
    OBVIOUS
  <2>4. PICK g : g = Begun("put", k, v, i, e)
    OBVIOUS
  <2>5. g.op = "put" /\ g.key = k /\ g.value = v /\ g.at = i /\ g.e = e
    BY <2>4 DEF Begun, Nothing
  <2>6. FoundPut(f_hash, v_table, g)
    BY <2>2, <2>3, <2>5 DEF FoundPut, NewEntry
  <2>7. Start(t, "write", "put", k, v, i, e)
    BY <2>1, <2>2, <2>3
  <2> QED BY <2>4, <2>6, <2>7, Begins
<1>2. ASSUME NEW k \in Keys, NEW op \in {"remove", "get", "has"}, NEW m,
             op = "remove" => m = "write",
             Start(t, m, op, k, Null, f_find(v_table, f_hash[k], k), Vacant)
      PROVE  MapInv'
  <2>1. PICK i : i = f_find(v_table, f_hash[k], k)
    OBVIOUS
  <2>2. PICK g : g = Begun(op, k, Null, i, Vacant)
    OBVIOUS
  <2>3. g.op = op /\ g.key = k /\ g.at = i
    BY <2>2 DEF Begun, Nothing
  <2>4. FoundFind(f_hash, v_table, g)
    BY <2>1, <2>3 DEF FoundFind
  <2>5. Start(t, m, op, k, Null, i, Vacant)
    BY <1>2, <2>1
  <2>6. op \in {"put", "remove"} => m = "write"
    BY <1>2
  <2> QED BY <2>2, <2>4, <2>5, <2>6, Begins
<1>3. ASSUME f_remove_find(t) PROVE MapInv'
  BY <1>2, <1>3 DEF f_remove_find
<1>4. ASSUME f_get_find(t) PROVE MapInv'
  BY <1>2, <1>4 DEF f_get_find
<1> QED BY <1>1, <1>3, <1>4

\* Steps that leave the map alone and end an operation.
LEMMA Ends ==
  ASSUME MapInv, IInv', NEW t \in Threads, UNCHANGED <<f_hash, mapVars>>, f_leave(t),
         DOMAIN found' = Threads, found'[t] = Nothing,
         \A u \in Threads : u # t => found'[u] = found[u],
         found[t].step # "fill"
  PROVE  MapInv'
<1>1. doing \in [Threads -> {"idle", "waiting", "owned", "locked"}]
  BY DEF MapInv, IInv, SharableTypeOK
<1>2. \A u \in Threads : u # t => doing'[u] = doing[u] /\ mode'[u] = mode[u]
  BY <1>1 DEF f_leave
<1>3. StepIs(f_hash, v_table, rank, v_size, Nothing)
  BY DEF StepIs
<1> QED BY <1>2, <1>3, NothingIs, Others

\* The end of an operation.
LEMMA Finished ==
  ASSUME MapInv, NEW t \in Threads, NEW x, Finish(t, x)
  PROVE  /\ f_leave(t) /\ UNCHANGED f_hash
         /\ DOMAIN found' = Threads /\ found'[t] = Nothing
         /\ \A u \in Threads : u # t => found'[u] = found[u]
BY DEF Finish, MapInv, FoundType
-----------------------------------------------------------------------------
(***************************************************************************)
(* One lemma for each operation: it keeps MapInv, and what it does to the  *)
(* pairs.                                                                  *)
(***************************************************************************)
LEMMA MostIs ==
  ASSUME NEW r \in DOMAIN Capacities
  PROVE  Most \in Nat /\ v_upper(r) <= Most
<1>1. /\ DOMAIN Capacities = 1 .. Len(Capacities)
      /\ Len(Capacities) \in Nat /\ Len(Capacities) # 0
  BY CapacitiesAssumption DEF Growing
<1>2. Len(Capacities) \in DOMAIN Capacities
  BY <1>1
<1>3. Most \in Nat /\ v_upper(r) \in Nat
  BY <1>2, RankIs DEF Most
<1>4. CASE r = Len(Capacities)
  BY <1>3, <1>4 DEF Most
<1>5. CASE r # Len(Capacities)
  <2>1. r < Len(Capacities)
    BY <1>1, <1>5
  <2>2. Capacities[r] \div 2 < Capacities[Len(Capacities)] \div 2
    BY <1>2, <2>1, CapacitiesAssumption DEF Growing
  <2> QED BY <1>3, <2>2 DEF Most, v_upper
<1> QED BY <1>4, <1>5

\* The table of an operation that is not changing it.
LEMMA TableHeld ==
  ASSUME NEW h, NEW tb, NEW r \in DOMAIN Capacities, NEW n, Table(h, tb, r, n)
  PROVE  /\ Functional(Held(tb))
         /\ IsFiniteSet(KeysOf(Held(tb)))
         /\ Cardinality(KeysOf(Held(tb))) = n
         /\ \A i \in Entries(tb) : tb[i].v_key \in KeysOf(Held(tb))
         /\ \A k : Absent(tb, k) => k \notin KeysOf(Held(tb))
<1>1. PICK c \in Nat \ {0} : c = Capacities[r]
  BY RankIs
<1>2. Sound(h, tb, c, NoHole) /\ n = Cardinality(Entries(tb))
  BY <1>1 DEF Table
<1> QED BY <1>2, HeldIs

\* f_put with the place it has found: replace, place, grow or throw.
LEMMA DoesPut ==
  ASSUME MapInv, IInv', NEW t \in Threads, f_put(t)
  PROVE  MapInv' /\ Effect
<1>1. PICK f : f = found[t]
  OBVIOUS
<1>2. f.op = "put" /\ f.step = "found"
  BY <1>1 DEF f_put
<1>3. /\ f # Nothing /\ Working(t) /\ mode[t] = "write"
      /\ DOMAIN f = Fields /\ DOMAIN found = Threads
      /\ StepIs(f_hash, v_table, rank, v_size, f)
      /\ Table(f_hash, v_table, rank, v_size)
      /\ f_hash \in [Keys -> Hashes]
      /\ rank \in DOMAIN Capacities /\ v_size \in Nat /\ v_size <= Load(rank)
      /\ Pairs = Shown(v_table, f)
  BY <1>1, <1>2, Writing
<1>4. FoundPut(f_hash, v_table, f)
  BY <1>2, <1>3 DEF StepIs, FoundFind
<1>5. Pairs = Held(v_table)
  BY <1>2, <1>3 DEF Shown
<1>6. f.key \in Keys /\ f.value \in Values
  BY <1>4 DEF FoundPut
<1>7. v_upper(rank) \in Nat /\ Load(rank) \in Nat /\ v_upper(rank) <= Load(rank)
  BY <1>3, RankIs
<1>8. CASE v_table[f.at].v_gap = f.e.v_gap
  <2>1. /\ v_table' = Valued(v_table, f.at, f.value)
        /\ rank' = rank /\ v_size' = v_size /\ Finish(t, f.value)
    BY <1>1, <1>8 DEF f_put, Valued
  <2>2. f.at \in Entries(v_table) /\ v_table[f.at].v_key = f.key
    BY <1>3, <1>4, <1>8, PutFound
  <2>3. /\ Table(f_hash, v_table', rank, v_size)
        /\ Held(v_table') = Without(Held(v_table), f.key) \cup {<<f.key, f.value>>}
    <3>1. PICK i \in Entries(v_table), v \in Values : i = f.at /\ v = f.value
      BY <1>6, <2>2
    <3>2. PICK tb1 : tb1 = v_table'
      OBVIOUS
    <3>3. tb1 = Valued(v_table, i, v)
      BY <2>1, <3>1, <3>2
    <3>4. /\ Table(f_hash, tb1, rank, v_size)
          /\ Held(tb1) = Without(Held(v_table), v_table[i].v_key) \cup {<<v_table[i].v_key, v>>}
      <4>1. Table(f_hash, v_table, rank, v_size) /\ rank \in DOMAIN Capacities
        BY <1>3
      <4>2. PICK h, tb, n : h = f_hash /\ tb = v_table /\ n = v_size
        OBVIOUS
      <4>3. PICK r \in DOMAIN Capacities : r = rank
        BY <4>1
      <4>4. Table(h, tb, r, n) /\ i \in Entries(tb) /\ tb1 = Valued(tb, i, v)
        BY <3>3, <4>1, <4>2, <4>3
      <4>5. /\ Table(h, tb1, r, n)
            /\ Held(tb1) = Without(Held(tb), tb[i].v_key) \cup {<<tb[i].v_key, v>>}
        BY <4>4, Replaces
      <4> QED BY <4>2, <4>3, <4>5
    <3> QED BY <2>2, <3>1, <3>2, <3>4
  <2>4. RankInv(rank', v_size') /\ Table(f_hash, v_table', rank', v_size')
    BY <1>3, <1>7, <2>1, <2>3 DEF RankInv
  <2>5. MapInv' /\ Pairs' = Held(v_table')
    BY <1>3, <2>1, <2>4, Finished, Returns
  <2>6. f.key \in KeysOf(Pairs)
    BY <1>3, <1>5, <2>2, TableHeld
  <2>7. call' = Called("put", f.key, f.value, f.value)
    BY <1>1, <1>2, <2>1 DEF Finish
  <2>8. Puts(f.key, f.value)
    BY <1>5, <1>6, <2>3, <2>5, <2>6, <2>7 DEF Puts
  <2> QED BY <2>5, <2>8 DEF Effect
<1>9. CASE v_table[f.at].v_gap # f.e.v_gap
  <2>1. UNCHANGED mapVars /\ v_table' = v_table /\ rank' = rank /\ v_size' = v_size
    BY <1>1, <1>9 DEF f_put, mapVars
  <2>2. Absent(v_table, f.key)
    BY <1>3, <1>4, <1>9, PutFound
  <2>3. /\ f.key \notin KeysOf(Held(v_table)) /\ Functional(Held(v_table))
        /\ Cardinality(KeysOf(Held(v_table))) = v_size
    BY <1>3, <2>2, TableHeld
  <2>4. RankInv(rank', v_size')
    BY <1>3, <1>7, <2>1 DEF RankInv
  <2>5. CASE ~Full
    <3>1. PICK g : g = [f EXCEPT !.step = "place"]
      OBVIOUS
    <3>2. found' = [found EXCEPT ![t] = g] /\ UNCHANGED <<sharableVars, f_hash, call>>
      BY <1>1, <1>9, <2>5, <3>1 DEF f_put, Proceed
    <3>3. v_size < v_upper(rank)
      BY <1>3, <1>7, <2>5 DEF Full
    <3>4. /\ Placing(f_hash, v_table, rank, v_size, g) /\ Absent(v_table, g.key)
          /\ Pair(g.e) = <<g.key, g.value>>
      BY <1>3, <1>4, <1>9, <3>1, <3>3, PlaceStarts
    <3>5. DOMAIN g = Fields /\ g.step = "place" /\ g.op = f.op /\ g.key = f.key /\ g.value = f.value
      BY <1>3, <3>1 DEF Fields
    <3>6. StepIs(f_hash, v_table', rank', v_size', g)
      BY <2>1, <3>4, <3>5 DEF StepIs
    <3>7. MapInv' /\ Pairs' = Shown(v_table', g)
      BY <1>1, <1>2, <1>3, <2>1, <2>4, <3>2, <3>5, <3>6, GoesOn
    <3>8. Shown(v_table, g) = Held(v_table)
      BY <1>6, <2>3, <3>4, <3>5, OneMore DEF Shown, With
    <3> QED BY <1>5, <2>1, <3>2, <3>7, <3>8 DEF Effect, Keeps
  <2>6. CASE Full /\ rank = Len(Capacities)
    <3>1. Finish(t, Error)
      BY <1>1, <1>9, <2>6 DEF f_put
    <3>2. MapInv' /\ Pairs' = Held(v_table')
      BY <1>3, <2>1, <2>4, <3>1, Finished, Returns
    <3>3. call' = Called("put", f.key, f.value, Error)
      BY <1>1, <1>2, <3>1 DEF Finish
    <3>4. v_size = Most
      <4>1. ~(rank < Len(Capacities))
        BY <1>3, <2>6, RankIs
      <4>2. Load(rank) = v_upper(rank)
        BY <4>1 DEF Load
      <4> QED BY <1>3, <1>7, <2>6, <4>2 DEF Full, Most
    <3>5. Throws(f.key)
      BY <1>5, <1>6, <2>1, <2>3, <3>2, <3>3, <3>4 DEF Throws
    <3> QED BY <3>2, <3>5 DEF Effect
  <2>7. CASE Full /\ rank # Len(Capacities)
    <3>1. PICK g : g = Rehash(f, rank + 1)
      OBVIOUS
    <3>2. found' = [found EXCEPT ![t] = g] /\ UNCHANGED <<sharableVars, f_hash, call>>
      BY <1>1, <1>9, <2>7, <3>1 DEF f_put, Proceed
    <3>3. Target(rank, f) = rank + 1
      BY <1>2 DEF Target
    <3>4. rank + 1 \in DOMAIN Capacities /\ v_size < v_upper(rank + 1) /\ v_size <= Load(rank + 1)
      <4>1. rank + 1 \in DOMAIN Capacities /\ Load(rank) < v_upper(rank + 1)
        BY <1>3, <2>7, RankUp
      <4>2. v_upper(rank + 1) \in Nat /\ Load(rank + 1) \in Nat /\ v_upper(rank + 1) <= Load(rank + 1)
        BY <4>1, RankIs
      <4> QED BY <1>3, <1>7, <4>1, <4>2
    <3>5. /\ Rehashing(f_hash, v_table, rank, v_size, g) /\ Copied(v_table, g)
          /\ DOMAIN g = Fields /\ g.step = "rehash"
          /\ g.op = f.op /\ g.key = f.key /\ g.value = f.value
      <4>1. /\ Target(rank, f) \in DOMAIN Capacities /\ g = Rehash(f, Target(rank, f))
            /\ v_size <= Load(Target(rank, f)) /\ v_size < v_upper(Target(rank, f))
        BY <3>1, <3>3, <3>4
      <4>2. f.op \in {"put", "remove"}
        BY <1>2
      <4> QED BY <1>3, <1>6, <2>2, <4>1, <4>2, RehashStarts
    <3>6. StepIs(f_hash, v_table', rank', v_size', g)
      BY <2>1, <3>5 DEF StepIs
    <3>7. MapInv' /\ Pairs' = Shown(v_table', g)
      BY <1>1, <1>2, <1>3, <2>1, <2>4, <3>2, <3>5, <3>6, GoesOn
    <3>8. Shown(v_table, g) = Held(v_table)
      BY <1>2, <3>5 DEF Shown
    <3> QED BY <1>5, <2>1, <3>2, <3>7, <3>8 DEF Effect, Keeps
  <2> QED BY <2>5, <2>6, <2>7
<1> QED BY <1>8, <1>9

\* A round of t_table::f_put; the put takes effect at the last one.
LEMMA DoesPlace ==
  ASSUME MapInv, IInv', NEW t \in Threads, f_put_place(t)
  PROVE  MapInv' /\ Effect
<1>1. PICK f : f = found[t]
  OBVIOUS
<1>2. f.step = "place" /\ f # Nothing
  BY <1>1, NothingIs DEF f_put_place
<1>3. StepIs(f_hash, v_table, rank, v_size, f)
  BY <1>1 DEF MapInv, StepInv
<1>4. Placing(f_hash, v_table, rank, v_size, f) /\ f.op = "put"
  BY <1>2, <1>3 DEF StepIs, Placing
<1>5. /\ Working(t) /\ mode[t] = "write"
      /\ DOMAIN f = Fields /\ DOMAIN found = Threads
      /\ Table(f_hash, v_table, rank, v_size)
      /\ rank \in DOMAIN Capacities /\ v_size \in Nat /\ v_size <= Load(rank)
      /\ Pairs = Shown(v_table, f)
  BY <1>1, <1>2, <1>4, Writing
<1>6. Pairs = Without(With(v_table, f.e), f.key)
  BY <1>2, <1>5 DEF Shown
<1>7. v_table' = Written(v_table, f.at, f.e) /\ rank' = rank
  BY <1>1 DEF f_put_place, Written
<1>8. PICK tb1 : tb1 = v_table'
  OBVIOUS
<1>9. tb1 = Written(v_table, f.at, f.e)
  BY <1>7, <1>8
<1>10. v_upper(rank) \in Nat /\ Load(rank) \in Nat /\ v_upper(rank) <= Load(rank)
  BY <1>5, RankIs
<1>11. CASE v_table[f.at].v_gap = 0
  <2>1. v_size' = v_size + 1 /\ Finish(t, f.value)
    BY <1>1, <1>11 DEF f_put_place
  <2>2. /\ Table(f_hash, tb1, rank, v_size + 1) /\ v_size + 1 <= Load(rank)
        /\ Held(tb1) = With(v_table, f.e)
        /\ <<f.key, f.value>> \in Held(tb1)
    BY <1>4, <1>5, <1>9, <1>11, PlaceEnds
  <2>3. RankInv(rank', v_size') /\ Table(f_hash, v_table', rank', v_size')
    BY <1>5, <1>7, <1>8, <1>10, <2>1, <2>2 DEF RankInv
  <2>4. MapInv' /\ Pairs' = Held(tb1)
    BY <1>5, <1>8, <2>1, <2>3, Finished, Returns
  <2>5. call' = Called("put", f.key, f.value, f.value)
    BY <1>1, <1>4, <2>1 DEF Finish
  <2>6. /\ Functional(Held(tb1)) /\ IsFiniteSet(KeysOf(Held(tb1)))
        /\ Cardinality(KeysOf(Held(tb1))) = v_size + 1
    BY <1>5, <2>2, TableHeld
  <2>7. Pairs = Without(Held(tb1), f.key)
    BY <1>6, <2>2
  <2>8. /\ Held(tb1) = Without(Pairs, f.key) \cup {<<f.key, f.value>>}
        /\ f.key \in Keys /\ f.value \in Values
        /\ Cardinality(KeysOf(Pairs)) = v_size
    <3>1. PICK P, k, v : P = Held(tb1) /\ k = f.key /\ v = f.value
      OBVIOUS
    <3>2. <<k, v>> \in P /\ Functional(P) /\ IsFiniteSet(KeysOf(P))
      BY <2>2, <2>6, <3>1
    <3>3. /\ P = Without(Without(P, k), k) \cup {<<k, v>>}
          /\ k \in Keys /\ v \in Values
          /\ Cardinality(KeysOf(Without(P, k))) = Cardinality(KeysOf(P)) - 1
      BY <3>2, OnePut
    <3>4. Pairs = Without(P, k)
      BY <2>7, <3>1
    <3>5. Held(tb1) = Without(Pairs, k) \cup {<<k, v>>}
      BY <3>1, <3>3, <3>4
    <3>6. Cardinality(KeysOf(Pairs)) = v_size
      <4>1. Cardinality(KeysOf(P)) = v_size + 1
        BY <2>6, <3>1
      <4>2. Cardinality(KeysOf(Pairs)) = Cardinality(KeysOf(P)) - 1
        BY <3>3, <3>4
      <4> QED BY <1>5, <4>1, <4>2
    <3> QED BY <3>1, <3>3, <3>5, <3>6
  <2>9. Cardinality(KeysOf(Pairs)) < Most
    <3>1. Most \in Nat /\ v_upper(rank) <= Most
      BY <1>5, MostIs
    <3>2. v_size < v_upper(rank)
      BY <1>4, <1>5 DEF Placing
    <3> QED BY <1>5, <1>10, <2>8, <3>1, <3>2
  <2>10. Puts(f.key, f.value)
    BY <2>4, <2>5, <2>8, <2>9 DEF Puts
  <2> QED BY <2>4, <2>10 DEF Effect
<1>12. CASE v_table[f.at].v_gap # 0
  <2>1. PICK g : g = Carry(v_table, f)
    OBVIOUS
  <2>2. /\ v_size' = v_size /\ found' = [found EXCEPT ![t] = g]
        /\ UNCHANGED <<sharableVars, f_hash, call>>
    BY <1>1, <1>12, <2>1 DEF f_put_place, Proceed
  <2>3. /\ Table(f_hash, tb1, rank, v_size) /\ Placing(f_hash, tb1, rank, v_size, g)
        /\ DOMAIN g = Fields
        /\ g.step = f.step /\ g.op = f.op /\ g.key = f.key
        /\ With(tb1, g.e) = With(v_table, f.e)
    BY <1>4, <1>5, <1>9, <1>12, <2>1, PlaceGoesOn
  <2>4. StepIs(f_hash, v_table', rank', v_size', g)
    BY <1>2, <1>7, <1>8, <2>2, <2>3 DEF StepIs
  <2>5. RankInv(rank', v_size') /\ Table(f_hash, v_table', rank', v_size')
    BY <1>5, <1>7, <1>8, <1>10, <2>2, <2>3 DEF RankInv
  <2>6. MapInv' /\ Pairs' = Shown(v_table', g)
    BY <1>1, <1>2, <1>4, <2>2, <2>3, <2>4, <2>5, GoesOn
  <2>7. Shown(tb1, g) = Without(With(tb1, g.e), g.key)
    BY <1>2, <2>3 DEF Shown
  <2>8. Pairs' = Pairs
    BY <1>6, <1>8, <2>3, <2>6, <2>7
  <2> QED BY <2>2, <2>6, <2>8 DEF Effect, Keeps
<1> QED BY <1>11, <1>12

\* Steps of f_rehash are those of an operation that changes the map.
LEMMA InRehash ==
  ASSUME MapInv, NEW t \in Threads, found[t].step \in {"rehash", "move"}
  PROVE  /\ found[t].op \in {"put", "remove"} /\ found[t] # Nothing
         /\ Working(t) /\ mode[t] = "write"
         /\ DOMAIN found[t] = Fields /\ DOMAIN found = Threads
         /\ Rehashing(f_hash, v_table, rank, v_size, found[t])
         /\ found[t].step = "rehash" => Copied(v_table, found[t])
         /\ found[t].step = "move" => Copying(f_hash, v_table, rank, found[t])
         /\ Table(f_hash, v_table, rank, v_size)
         /\ f_hash \in [Keys -> Hashes]
         /\ rank \in DOMAIN Capacities /\ v_size \in Nat /\ v_size <= Load(rank)
         /\ RankInv(rank, v_size)
         /\ Pairs = Shown(v_table, found[t])
<1>1. StepIs(f_hash, v_table, rank, v_size, found[t])
  BY DEF MapInv, StepInv
<1>2. /\ Rehashing(f_hash, v_table, rank, v_size, found[t])
      /\ found[t].step = "rehash" => Copied(v_table, found[t])
      /\ found[t].step = "move" => Copying(f_hash, v_table, rank, found[t])
  BY <1>1, NothingIs DEF StepIs
<1>3. found[t].op \in {"put", "remove"}
  BY <1>2 DEF Rehashing
<1> QED BY <1>2, <1>3, Writing DEF MapInv

\* A step of f_rehash that goes on, and changes the new table at most.
LEMMA RehashGoesOn ==
  ASSUME MapInv, IInv', NEW t \in Threads, found[t].step \in {"rehash", "move"},
         NEW g, DOMAIN g = Fields, g.step \in {"rehash", "move"},
         g.op = found[t].op, g.key = found[t].key, g.value = found[t].value,
         UNCHANGED mapVars, Proceed(t, g),
         Rehashing(f_hash, v_table, rank, v_size, g),
         g.step = "rehash" => Copied(v_table, g),
         g.step = "move" => Copying(f_hash, v_table, rank, g)
  PROVE  MapInv' /\ Effect
<1>1. /\ found[t].op \in {"put", "remove"} /\ found[t] # Nothing
      /\ Table(f_hash, v_table, rank, v_size) /\ RankInv(rank, v_size)
      /\ Pairs = Shown(v_table, found[t])
  BY InRehash
<1>2. v_table' = v_table /\ rank' = rank /\ v_size' = v_size
  BY DEF mapVars
<1>3. StepIs(f_hash, v_table', rank', v_size', g)
  BY <1>2 DEF StepIs
<1>4. found' = [found EXCEPT ![t] = g] /\ UNCHANGED <<sharableVars, f_hash, call>>
  BY DEF Proceed
<1>5. MapInv' /\ Pairs' = Shown(v_table', g)
  BY <1>1, <1>2, <1>3, <1>4, GoesOn
<1>6. Shown(v_table, g) = Shown(v_table, found[t])
  BY DEF Shown
<1> QED BY <1>1, <1>2, <1>4, <1>5, <1>6 DEF Effect, Keeps

\* f_rehash takes the next entry,
LEMMA DoesRehash ==
  ASSUME MapInv, IInv', NEW t \in Threads, f_rehash(t)
  PROVE  MapInv' /\ Effect
<1>1. PICK f : f = found[t]
  OBVIOUS
<1>2. f.step = "rehash" /\ Left(f) # {} /\ UNCHANGED mapVars
  BY <1>1 DEF f_rehash
<1>3. /\ DOMAIN f = Fields /\ Table(f_hash, v_table, rank, v_size)
      /\ rank \in DOMAIN Capacities
      /\ Rehashing(f_hash, v_table, rank, v_size, f) /\ Copied(v_table, f)
  BY <1>1, <1>2, InRehash
<1>4. PICK i : i = Min(Left(f))
  OBVIOUS
<1>5. PICK e : e = Regapped(v_table[i], Free(f.table, v_table[i].v_hash))
  OBVIOUS
<1>6. PICK g : g = [f EXCEPT !.step = "move", !.next = i + 1, !.at = PlaceOf(f.table, e), !.e = e]
  OBVIOUS
<1>7. Proceed(t, g)
  BY <1>1, <1>4, <1>5, <1>6 DEF f_rehash, Regapped
<1>8. /\ g.op = f.op /\ g.key = f.key /\ g.value = f.value /\ g.step = "move"
      /\ g.table = f.table /\ g.next = i + 1 /\ DOMAIN g = Fields
      /\ g.e = e /\ g.at = PlaceOf(f.table, e)
  BY <1>3, <1>6 DEF Fields
<1>9. i \in Entries(v_table) /\ i >= f.next /\ \A j \in Entries(v_table) : j >= f.next => i <= j
  <2>1. Left(f) = {j \in Entries(v_table) : j >= f.next}
    BY DEF Left, Entries
  <2>2. Entries(v_table) \subseteq Nat
    <3>1. Capacities[rank] \in Nat \ {0} /\ Fits(v_table, Capacities[rank])
      BY <1>3, RankIs DEF Table, Sound
    <3> QED BY <3>1, EntriesAre
  <2>3. Left(f) \in SUBSET Nat
    BY <2>1, <2>2
  <2>4. i \in Left(f) /\ \A j \in Left(f) : i <= j
    BY <1>2, <1>4, <2>3, MinIs
  <2> QED BY <2>1, <2>4
<1>10. Rehashing(f_hash, v_table, rank, v_size, g) /\ Copying(f_hash, v_table, rank, g)
  BY <1>3, <1>5, <1>8, <1>9, RehashTakes
<1> QED BY <1>1, <1>2, <1>7, <1>8, <1>10, RehashGoesOn

\* puts it into the new table,
LEMMA DoesMove ==
  ASSUME MapInv, IInv', NEW t \in Threads, f_rehash_move(t)
  PROVE  MapInv' /\ Effect
<1>1. PICK f : f = found[t]
  OBVIOUS
<1>2. f.step = "move" /\ UNCHANGED mapVars
  BY <1>1 DEF f_rehash_move
<1>3. /\ DOMAIN f = Fields /\ Table(f_hash, v_table, rank, v_size)
      /\ rank \in DOMAIN Capacities
      /\ Rehashing(f_hash, v_table, rank, v_size, f) /\ Copying(f_hash, v_table, rank, f)
  BY <1>1, <1>2, InRehash
<1>4. PICK tb1 : tb1 = Written(f.table, f.at, f.e)
  OBVIOUS
<1>5. CASE f.table[f.at].v_gap = 0
  <2>1. PICK g : g = [[f EXCEPT !.step = "rehash"] EXCEPT !.table = tb1]
    OBVIOUS
  <2>2. Proceed(t, g)
    BY <1>1, <1>4, <1>5, <2>1 DEF f_rehash_move, Written
  <2>3. /\ Rehashing(f_hash, v_table, rank, v_size, g) /\ Copied(v_table, g)
        /\ DOMAIN g = Fields /\ g.step = "rehash"
        /\ g.op = f.op /\ g.key = f.key /\ g.value = f.value
    <3>1. /\ g.op = f.op /\ g.key = f.key /\ g.value = f.value /\ g.step = "rehash"
          /\ g.table = tb1 /\ g.next = f.next /\ DOMAIN g = Fields
      BY <1>3, <2>1 DEF Fields
    <3>2. Rehashing(f_hash, v_table, rank, v_size, g) /\ Copied(v_table, g)
      BY <1>3, <1>4, <1>5, <3>1, MoveStores
    <3> QED BY <3>1, <3>2
  <2> QED BY <1>1, <1>2, <2>2, <2>3, RehashGoesOn
<1>6. CASE f.table[f.at].v_gap # 0
  <2>0. PICK k : k = Carry(f.table, f)
    OBVIOUS
  <2>1. PICK g : g = [k EXCEPT !.table = tb1]
    OBVIOUS
  <2>2. Proceed(t, g)
    BY <1>1, <1>4, <1>6, <2>0, <2>1 DEF f_rehash_move, Written
  <2>3. /\ Rehashing(f_hash, v_table, rank, v_size, g) /\ Copying(f_hash, v_table, rank, g)
        /\ DOMAIN g = Fields /\ g.step = f.step
        /\ g.op = f.op /\ g.key = f.key /\ g.value = f.value
    <3>1. DOMAIN k = Fields /\ k.step = f.step
      BY <1>3, <2>0, CarryFields
    <3>2. /\ g.op = k.op /\ g.key = k.key /\ g.value = k.value /\ g.step = k.step
          /\ g.table = tb1 /\ g.next = k.next /\ g.at = k.at /\ g.e = k.e /\ DOMAIN g = Fields
      BY <2>1, <3>1 DEF Fields
    <3>3. /\ Rehashing(f_hash, v_table, rank, v_size, g) /\ Copying(f_hash, v_table, rank, g)
          /\ g.op = f.op /\ g.key = f.key /\ g.value = f.value
      BY <1>3, <1>4, <1>6, <2>0, <3>2, MoveGoesOn
    <3> QED BY <3>1, <3>2, <3>3
  <2> QED BY <1>1, <1>2, <2>2, <2>3, RehashGoesOn
<1> QED BY <1>5, <1>6

\* An operation that has taken the entry of its key out returns its value.
LEMMA Removed ==
  ASSUME NEW P, Functional(P), NEW k \in Keys, k \notin KeysOf(P), NEW v \in Values,
         Pairs = P \cup {<<k, v>>}, Pairs' = P, call' = Called("remove", k, Null, v)
  PROVE  Effect
<1>1. Without(Pairs, k) = P
  BY OneMore
<1>2. Removes(k, v)
  BY <1>1 DEF Removes
<1> QED BY <1>2 DEF Effect

\* and replaces the table; a removal takes effect there.
LEMMA DoesRehashEnd ==
  ASSUME MapInv, IInv', NEW t \in Threads, f_rehash_end(t)
  PROVE  MapInv' /\ Effect
<1>1. PICK f : f = found[t]
  OBVIOUS
<1>2. f.step = "rehash" /\ Left(f) = {} /\ v_table' = f.table /\ v_size' = v_size
  BY <1>1 DEF f_rehash_end
<1>3. /\ f.op \in {"put", "remove"} /\ f # Nothing /\ Working(t) /\ mode[t] = "write"
      /\ DOMAIN f = Fields /\ Table(f_hash, v_table, rank, v_size)
      /\ f_hash \in [Keys -> Hashes]
      /\ rank \in DOMAIN Capacities /\ v_size \in Nat
      /\ Rehashing(f_hash, v_table, rank, v_size, f) /\ Copied(v_table, f)
      /\ Pairs = Shown(v_table, f)
  BY <1>1, <1>2, InRehash
<1>4. \A i \in Entries(v_table) : ~(i >= f.next)
  BY <1>2 DEF Left, Entries
<1>5. PICK tb1 : tb1 = f.table
  OBVIOUS
<1>6. PICK s \in DOMAIN Capacities : s = Target(rank, f)
  BY <1>3 DEF Rehashing
<1>7. /\ Table(f_hash, tb1, s, v_size) /\ Held(tb1) = Held(v_table)
      /\ Absent(tb1, f.key)
  BY <1>3, <1>4, <1>5, <1>6, RehashEnds
<1>8. /\ f.key \in Keys /\ f.value \in Values /\ v_size <= Load(s)
      /\ f.op = "put" => v_size < v_upper(s)
  BY <1>3, <1>6 DEF Rehashing
<1>9. /\ f.key \notin KeysOf(Held(tb1)) /\ Functional(Held(tb1))
  BY <1>7, TableHeld
<1>10. RankInv(s, v_size)
  BY <1>3, <1>8, RankIs DEF RankInv
<1>11. CASE f.op = "put"
  <2>1. PICK e : e = NewEntry(tb1, f.key, f.value)
    OBVIOUS
  <2>2. PICK g : g = [f EXCEPT !.step = "place", !.at = PlaceOf(tb1, e), !.e = e, !.table = <<>>]
    OBVIOUS
  <2>3. rank' = rank + 1 /\ Proceed(t, g)
    BY <1>1, <1>5, <1>11, <2>1, <2>2 DEF f_rehash_end
  <2>4. /\ g.op = f.op /\ g.step = "place" /\ g.key = f.key /\ g.value = f.value
        /\ g.at = PlaceOf(tb1, e) /\ g.e = e /\ DOMAIN g = Fields
    BY <1>3, <2>2 DEF Fields
  <2>5. FoundPut(f_hash, tb1, g)
    BY <1>8, <1>11, <2>1, <2>4 DEF FoundPut, NewEntry
  <2>6. rank' = s
    BY <1>6, <1>11, <2>3 DEF Target
  <2>7. v_size < v_upper(s) /\ Absent(tb1, g.key)
    BY <1>7, <1>8, <1>11, <2>4
  <2>8. Placing(f_hash, tb1, s, v_size, g) /\ Pair(g.e) = <<g.key, g.value>>
    BY <1>3, <1>7, <2>5, <2>7, PlaceAnew
  <2>9. v_table' = tb1 /\ rank' = s /\ v_size' = v_size
    BY <1>2, <1>5, <2>6
  <2>10. StepIs(f_hash, v_table', rank', v_size', g)
    BY <2>4, <2>8, <2>9 DEF StepIs
  <2>11. found' = [found EXCEPT ![t] = g] /\ UNCHANGED <<sharableVars, f_hash, call>>
    BY <2>3 DEF Proceed
  <2>12. RankInv(rank', v_size') /\ Table(f_hash, v_table', rank', v_size')
    BY <1>7, <1>10, <2>9
  <2>13. MapInv' /\ Pairs' = Shown(v_table', g)
    BY <1>1, <1>3, <2>4, <2>10, <2>11, <2>12, GoesOn
  <2>14. Shown(tb1, g) = Held(tb1)
    BY <1>8, <1>9, <2>4, <2>8, OneMore DEF Shown, With
  <2>15. Pairs = Held(v_table)
    BY <1>2, <1>3, <1>11 DEF Shown
  <2> QED BY <1>7, <2>9, <2>11, <2>13, <2>14, <2>15 DEF Effect, Keeps
<1>12. CASE f.op = "remove"
  <2>1. rank' = rank - 1 /\ Finish(t, f.value)
    BY <1>1, <1>12 DEF f_rehash_end
  <2>2. v_table' = tb1 /\ rank' = s /\ v_size' = v_size
    BY <1>2, <1>5, <1>6, <1>12, <2>1 DEF Target
  <2>3. RankInv(rank', v_size') /\ Table(f_hash, v_table', rank', v_size')
    BY <1>7, <1>10, <2>2
  <2>4. MapInv' /\ Pairs' = Held(v_table')
    BY <1>3, <2>1, <2>3, Finished, Returns
  <2>5. call' = Called("remove", f.key, Null, f.value)
    BY <1>1, <1>12, <2>1 DEF Finish
  <2>6. Pairs = Held(tb1) \cup {<<f.key, f.value>>}
    BY <1>2, <1>3, <1>7, <1>12 DEF Shown
  <2>7. Pairs' = Held(tb1)
    BY <2>2, <2>4
  <2> QED BY <1>8, <1>9, <2>4, <2>5, <2>6, <2>7, Removed
<1> QED BY <1>3, <1>11, <1>12

\* f_remove takes the entry out, or throws.
LEMMA DoesRemove ==
  ASSUME MapInv, IInv', NEW t \in Threads, f_remove(t)
  PROVE  MapInv' /\ Effect
<1>1. PICK f : f = found[t]
  OBVIOUS
<1>2. f.op = "remove" /\ f.step = "found" /\ rank' = rank /\ v_size' = v_size
  BY <1>1 DEF f_remove
<1>3. /\ f # Nothing /\ Working(t) /\ mode[t] = "write"
      /\ DOMAIN f = Fields /\ StepIs(f_hash, v_table, rank, v_size, f)
      /\ Table(f_hash, v_table, rank, v_size)
      /\ f_hash \in [Keys -> Hashes]
      /\ rank \in DOMAIN Capacities /\ v_size \in Nat /\ v_size <= Load(rank)
      /\ Pairs = Shown(v_table, f)
  BY <1>1, <1>2, Writing
<1>4. FoundFind(f_hash, v_table, f) /\ f.key \in Keys
  BY <1>2, <1>3 DEF StepIs, FoundPut, FoundFind
<1>5. Pairs = Held(v_table)
  BY <1>2, <1>3 DEF Shown
<1>6. RankInv(rank', v_size')
  BY <1>2 DEF MapInv
<1>7. \/ f.at = Null /\ Absent(v_table, f.key)
      \/ f.at # Null /\ f.at \in Entries(v_table) /\ v_table[f.at].v_key = f.key
  BY <1>3, <1>4, FindFound
<1>8. CASE f.at = Null
  <2>1. v_table' = v_table /\ Finish(t, Error)
    BY <1>1, <1>8 DEF f_remove
  <2>2. Table(f_hash, v_table', rank', v_size')
    BY <1>2, <1>3, <2>1
  <2>3. MapInv' /\ Pairs' = Held(v_table')
    BY <1>3, <1>6, <2>1, <2>2, Finished, Returns
  <2>4. call' = Called("remove", f.key, Null, Error)
    BY <1>1, <1>2, <2>1 DEF Finish
  <2>5. f.key \notin KeysOf(Pairs)
    BY <1>3, <1>5, <1>7, <1>8, TableHeld
  <2>6. Throws(f.key)
    BY <1>4, <1>5, <2>1, <2>3, <2>4, <2>5 DEF Throws
  <2> QED BY <2>3, <2>6 DEF Effect
<1>9. CASE f.at # Null
  <2>1. PICK g : g = [f EXCEPT !.step = "fill", !.value = v_table[f.at].v_value]
    OBVIOUS
  <2>2. v_table' = Written(v_table, f.at, Vacant) /\ Proceed(t, g)
    BY <1>1, <1>9, <2>1 DEF f_remove, Written
  <2>3. /\ g.op = f.op /\ g.step = "fill" /\ g.key = f.key /\ g.at = f.at
        /\ g.value = v_table[f.at].v_value /\ DOMAIN g = Fields
    BY <1>3, <2>1 DEF Fields
  <2>4. PICK tb1 : tb1 = v_table'
    OBVIOUS
  <2>5. /\ Filling(f_hash, tb1, rank, v_size, g)
        /\ Held(tb1) \cup {<<g.key, g.value>>} = Held(v_table)
    <3>1. tb1 = Written(v_table, f.at, Vacant)
      BY <2>2, <2>4
    <3> QED BY <1>2, <1>3, <1>7, <1>9, <2>3, <3>1, RemoveTakes
  <2>6. StepIs(f_hash, v_table', rank', v_size', g)
    BY <1>2, <2>3, <2>4, <2>5 DEF StepIs
  <2>7. found' = [found EXCEPT ![t] = g] /\ UNCHANGED <<sharableVars, f_hash, call>>
    BY <2>2 DEF Proceed
  <2>8. MapInv' /\ Pairs' = Shown(v_table', g)
    BY <1>1, <1>2, <1>3, <1>6, <2>3, <2>6, <2>7, GoesOn
  <2>9. Shown(tb1, g) = Held(tb1) \cup {<<g.key, g.value>>}
    BY <1>2, <2>3 DEF Shown
  <2> QED BY <1>5, <2>4, <2>5, <2>7, <2>8, <2>9 DEF Effect, Keeps
<1> QED BY <1>8, <1>9

\* A round of f_remove; the removal takes effect at the last one, unless the
\* table shrinks.
LEMMA DoesFill ==
  ASSUME MapInv, IInv', NEW t \in Threads, f_remove_fill(t)
  PROVE  MapInv' /\ Effect
<1>1. PICK f : f = found[t]
  OBVIOUS
<1>2. f.step = "fill" /\ f # Nothing
  BY <1>1, NothingIs DEF f_remove_fill
<1>3. StepIs(f_hash, v_table, rank, v_size, f)
  BY <1>1 DEF MapInv, StepInv
<1>4. Filling(f_hash, v_table, rank, v_size, f) /\ f.op = "remove"
  BY <1>2, <1>3 DEF StepIs, Filling
<1>5. /\ Working(t) /\ mode[t] = "write" /\ DOMAIN f = Fields
      /\ rank \in DOMAIN Capacities /\ v_size \in Nat /\ v_size <= Load(rank)
      /\ Pairs = Shown(v_table, f)
  BY <1>1, <1>4, Writing
<1>6. Pairs = Held(v_table) \cup {<<f.key, f.value>>}
  BY <1>2, <1>4, <1>5 DEF Shown
<1>7. /\ f.key \in Keys /\ f.value \in Values /\ Absent(v_table, f.key)
      /\ f.at \in 0 .. Capacities[rank] - 1 /\ v_table[f.at].v_gap = 0
      /\ Sound(f_hash, v_table, Capacities[rank], f.at)
  BY <1>4 DEF Filling
<1>8. PICK q : q = After(v_table, f.at, 1)
  OBVIOUS
<1>9. PICK gap : gap = v_table[q].v_gap
  OBVIOUS
<1>10. PICK end : end = After(v_table, q, Run(v_table, q, gap) - 1)
  OBVIOUS
<1>11. Load(rank) \in Nat /\ Capacities[rank] \in Nat \ {0}
  BY <1>5, RankIs
<1>12. gap \in Nat
  <2>1. PICK c \in Nat \ {0} : c = Capacities[rank]
    BY <1>11
  <2>2. Fits(v_table, c) /\ Capacity(v_table) = c /\ f.at \in 0 .. c - 1
    BY <1>7, <2>1, CapacityOf DEF Sound
  <2>3. q \in 0 .. c - 1
    BY <1>8, <2>2 DEF After
  <2> QED BY <1>9, <2>2, <2>3, EntriesAre
<1>13. CASE Settled(gap)
  <2>1. v_size' = v_size - 1 /\ v_table' = v_table /\ rank' = rank
    BY <1>1, <1>8, <1>9, <1>13 DEF f_remove_fill
  <2>2. PICK n : n = v_size - 1
    OBVIOUS
  <2>3. n \in Nat /\ Table(f_hash, v_table, rank, n)
    <3>1. v_table[After(v_table, f.at, 1)].v_gap <= 1
      BY <1>8, <1>9, <1>13 DEF Settled
    <3> QED BY <1>4, <1>5, <2>2, <3>1, FillEnds
  <2>4. RankInv(rank', v_size') /\ Table(f_hash, v_table', rank', v_size')
    BY <1>5, <1>11, <2>1, <2>2, <2>3 DEF RankInv
  <2>5. CASE v_size - 1 < v_lower(rank)
    <3>1. PICK g : g = Rehash(f, rank - 1)
      OBVIOUS
    <3>2. Proceed(t, g)
      BY <1>1, <1>8, <1>9, <1>13, <2>5, <3>1 DEF f_remove_fill
    <3>3. Target(rank, f) = rank - 1
      BY <1>4 DEF Target
    <3>4. rank - 1 \in DOMAIN Capacities /\ n <= Load(rank - 1)
      BY <1>5, <2>2, <2>3, <2>5, RankDown
    <3>5. /\ Rehashing(f_hash, v_table, rank, n, g) /\ Copied(v_table, g)
          /\ DOMAIN g = Fields /\ g.step = "rehash"
          /\ g.op = f.op /\ g.key = f.key /\ g.value = f.value
      <4>1. /\ Target(rank, f) \in DOMAIN Capacities /\ g = Rehash(f, Target(rank, f))
            /\ n <= Load(Target(rank, f))
        BY <3>1, <3>3, <3>4
      <4>2. f.op \in {"put", "remove"} /\ f.op # "put"
        BY <1>4
      <4> QED BY <1>5, <1>7, <2>3, <4>1, <4>2, RehashStarts
    <3>6. StepIs(f_hash, v_table', rank', v_size', g)
      BY <2>1, <2>2, <3>5 DEF StepIs
    <3>7. found' = [found EXCEPT ![t] = g] /\ UNCHANGED <<sharableVars, f_hash, call>>
      BY <3>2 DEF Proceed
    <3>8. MapInv' /\ Pairs' = Shown(v_table', g)
      BY <1>1, <1>2, <1>4, <2>4, <3>5, <3>6, <3>7, GoesOn
    <3>9. Shown(v_table, g) = Held(v_table) \cup {<<f.key, f.value>>}
      BY <1>4, <3>5 DEF Shown
    <3> QED BY <1>6, <2>1, <3>7, <3>8, <3>9 DEF Effect, Keeps
  <2>6. CASE ~(v_size - 1 < v_lower(rank))
    <3>1. Finish(t, f.value)
      BY <1>1, <1>8, <1>9, <1>13, <2>6 DEF f_remove_fill
    <3>2. MapInv' /\ Pairs' = Held(v_table')
      BY <1>5, <2>4, <3>1, Finished, Returns
    <3>3. call' = Called("remove", f.key, Null, f.value)
      BY <1>1, <1>4, <3>1 DEF Finish
    <3>4. f.key \notin KeysOf(Held(v_table)) /\ Functional(Held(v_table))
      BY <1>5, <1>7, <2>3, TableHeld
    <3>5. Pairs' = Held(v_table)
      BY <2>1, <3>2
    <3> QED BY <1>6, <1>7, <3>2, <3>3, <3>4, <3>5, Removed
  <2> QED BY <2>5, <2>6
<1>14. CASE ~Settled(gap)
  <2>1. gap > 1
    BY <1>12, <1>14 DEF Settled
  <2>2. PICK g : g = [f EXCEPT !.at = end]
    OBVIOUS
  <2>3. PICK e : e = Regapped(v_table[end], gap - 1)
    OBVIOUS
  <2>4. /\ v_table' = [v_table EXCEPT ![f.at] = e, ![end] = Vacant]
        /\ rank' = rank /\ v_size' = v_size /\ Proceed(t, g)
    BY <1>1, <1>8, <1>9, <1>10, <1>14, <2>2, <2>3 DEF f_remove_fill, Regapped
  <2>5. PICK tb1 : tb1 = v_table'
    OBVIOUS
  <2>6. tb1 = Written(Written(v_table, f.at, e), end, Vacant)
    BY <2>4, <2>5 DEF Written
  <2>7. /\ g.op = f.op /\ g.step = f.step /\ g.key = f.key /\ g.at = end
        /\ g.value = f.value /\ DOMAIN g = Fields
    BY <1>5, <2>2 DEF Fields
  <2>8. /\ end \in Entries(v_table) /\ end # f.at /\ gap <= v_table[end].v_gap
        /\ At(Capacities[rank], v_table[end].v_hash, gap - 1) = f.at
    BY <1>7, <1>8, <1>9, <1>10, <1>11, <2>1, FillLast
  <2>9. /\ Filling(f_hash, tb1, rank, v_size, g)
        /\ Held(tb1) = Held(v_table)
    <3>1. gap = v_table[After(v_table, f.at, 1)].v_gap
      BY <1>8, <1>9
    <3> QED BY <1>4, <1>5, <1>12, <2>1, <2>3, <2>6, <2>7, <2>8, <3>1, FillGoesOn
  <2>10. StepIs(f_hash, v_table', rank', v_size', g)
    BY <1>2, <2>4, <2>5, <2>7, <2>9 DEF StepIs
  <2>11. found' = [found EXCEPT ![t] = g] /\ UNCHANGED <<sharableVars, f_hash, call>>
    BY <2>4 DEF Proceed
  <2>12. RankInv(rank', v_size')
    BY <2>4 DEF MapInv
  <2>13. MapInv' /\ Pairs' = Shown(v_table', g)
    BY <1>1, <1>2, <1>4, <2>7, <2>10, <2>11, <2>12, GoesOn
  <2>14. Shown(tb1, g) = Held(tb1) \cup {<<f.key, f.value>>}
    BY <1>2, <1>4, <2>7 DEF Shown
  <2> QED BY <1>6, <2>5, <2>9, <2>11, <2>13, <2>14 DEF Effect, Keeps
<1> QED BY <1>13, <1>14

\* While a thread works that is not changing the table, nobody is.
LEMMA Quiet ==
  ASSUME MapInv, NEW t \in Threads, Working(t), found[t] = Nothing \/ found[t].step = "found"
  PROVE  /\ \A u \in Threads : found[u] = Nothing \/ found[u].step = "found"
         /\ Table(f_hash, v_table, rank, v_size)
         /\ Pairs = Held(v_table)
<1>1. ASSUME NEW u \in Threads, found[u] # Nothing, found[u].step # "found" PROVE FALSE
  <2>1. u # t
    BY <1>1
  <2>2. Working(u) /\ StepIs(f_hash, v_table, rank, v_size, found[u])
        /\ (found[u].op \in {"put", "remove"} => mode[u] = "write")
    BY <1>1, InOperation
  <2>3. found[u].op \in {"put", "remove"}
    BY <1>1, <2>2 DEF StepIs, Placing, Rehashing, Filling
  <2> QED BY <2>1, <2>2, <2>3, Alone
<1>2. \A u \in Threads : found[u] = Nothing \/ found[u].step = "found"
  BY <1>1
<1>3. \A u \in Threads : found[u].step # "fill"
  BY <1>2, NothingIs
<1>4. Table(f_hash, v_table, rank, v_size)
  BY <1>3 DEF MapInv, TableInv
<1>5. Pairs = Held(v_table)
  BY <1>2, PairsQuiet, PairsAre
<1> QED BY <1>2, <1>4, <1>5

\* A step that starts or ends an operation that reads keeps the pairs.
LEMMA StillQuiet ==
  ASSUME NEW t \in Threads, \A u \in Threads : found[u] = Nothing \/ found[u].step = "found",
         found'[t] = Nothing \/ found'[t].step = "found",
         \A u \in Threads : u # t => found'[u] = found[u], v_table' = v_table
  PROVE  Pairs' = Held(v_table)
<1>1. PICK fd : fd = found'
  OBVIOUS
<1>2. \A u \in Threads : fd[u] = Nothing \/ fd[u].step = "found"
  BY <1>1
<1>3. PairsIn(v_table, fd) = Held(v_table)
  BY <1>2, PairsQuiet
<1> QED BY <1>1, <1>3, PairsAre

\* Finding the place of a key changes nothing.
LEMMA DoesFind ==
  ASSUME MapInv, IInv', NEW t \in Threads, f_put_find(t) \/ f_remove_find(t) \/ f_get_find(t)
  PROVE  MapInv' /\ Effect
<1>1. MapInv'
  BY InvFind
<1>2. PICK m, op, k, v, i, e : Start(t, m, op, k, v, i, e)
  BY DEF f_put_find, f_remove_find, f_get_find
<1>3. PICK g : g = Begun(op, k, v, i, e)
  OBVIOUS
<1>4. /\ Working(t) /\ found[t] = Nothing /\ found' = [found EXCEPT ![t] = g]
      /\ v_table' = v_table /\ UNCHANGED call
  BY <1>2, <1>3 DEF Start, Begun, mapVars
<1>5. g.step = "found"
  BY <1>3 DEF Begun, Nothing
<1>6. DOMAIN found = Threads
  BY DEF MapInv, FoundType
<1>7. found'[t].step = "found" /\ \A u \in Threads : u # t => found'[u] = found[u]
  BY <1>4, <1>5, <1>6
<1>8. /\ \A u \in Threads : found[u] = Nothing \/ found[u].step = "found"
      /\ Pairs = Held(v_table)
  BY <1>4, Quiet
<1>9. Pairs' = Held(v_table)
  BY <1>4, <1>7, <1>8, StillQuiet
<1> QED BY <1>1, <1>4, <1>8, <1>9 DEF Effect, Keeps

\* A thread that reads has found the place of its key in the table as it is.
LEMMA Reads ==
  ASSUME MapInv, NEW t \in Threads, found[t].op \in {"get", "has"}
  PROVE  /\ found[t].step = "found" /\ Working(t)
         /\ \A u \in Threads : found[u] = Nothing \/ found[u].step = "found"
         /\ Table(f_hash, v_table, rank, v_size) /\ Pairs = Held(v_table)
         /\ found[t].key \in Keys
         /\ \/ found[t].at = Null /\ found[t].key \notin KeysOf(Pairs)
            \/ /\ found[t].at # Null /\ found[t].key \in KeysOf(Pairs)
               /\ <<found[t].key, v_table[found[t].at].v_value>> \in Pairs
<1>1. PICK f : f = found[t]
  OBVIOUS
<1>2. f # Nothing
  BY <1>1, NothingIs
<1>3. Working(t) /\ StepIs(f_hash, v_table, rank, v_size, f)
  BY <1>1, <1>2, InOperation
<1>4. f.step = "found" /\ FoundFind(f_hash, v_table, f)
  BY <1>1, <1>2, <1>3 DEF StepIs, FoundPut, Placing, Rehashing, Filling
<1>5. /\ \A u \in Threads : found[u] = Nothing \/ found[u].step = "found"
      /\ Table(f_hash, v_table, rank, v_size) /\ Pairs = Held(v_table)
  BY <1>1, <1>3, <1>4, Quiet
<1>6. /\ f_hash \in [Keys -> Hashes] /\ rank \in DOMAIN Capacities /\ v_size <= Load(rank)
  <2>1. rank \in DOMAIN Capacities /\ v_size \in 0 .. Load(rank) /\ f_hash \in [Keys -> Hashes]
    BY DEF MapInv, RankInv
  <2>2. v_upper(rank) \in Nat /\ Load(rank) \in Nat /\ v_upper(rank) <= Load(rank)
    BY <2>1, RankIs
  <2> QED BY <2>1, <2>2
<1>7. \/ f.at = Null /\ Absent(v_table, f.key)
      \/ f.at # Null /\ f.at \in Entries(v_table) /\ v_table[f.at].v_key = f.key
  BY <1>4, <1>5, <1>6, FindFound
<1>8. /\ \A i \in Entries(v_table) : v_table[i].v_key \in KeysOf(Pairs)
      /\ \A k : Absent(v_table, k) => k \notin KeysOf(Pairs)
  BY <1>5, <1>6, TableHeld
<1>9. \A i \in Entries(v_table) : <<v_table[i].v_key, v_table[i].v_value>> \in Pairs
  BY <1>5 DEF Held, PairsOf, Pair
<1>10. f.key \in Keys
  BY <1>4 DEF FoundFind
<1> QED BY <1>1, <1>3, <1>4, <1>5, <1>7, <1>8, <1>9, <1>10

\* f_get and f_has answer for the map as it is when they return.
LEMMA DoesGet ==
  ASSUME MapInv, IInv', NEW t \in Threads, f_get(t) \/ f_has(t)
  PROVE  MapInv' /\ Effect
<1>1. PICK f : f = found[t]
  OBVIOUS
<1>2. f.op \in {"get", "has"} /\ UNCHANGED mapVars /\ v_table' = v_table
  BY <1>1 DEF f_get, f_has, mapVars
<1>3. /\ f.step = "found" /\ f.key \in Keys
      /\ \A u \in Threads : found[u] = Nothing \/ found[u].step = "found"
      /\ Pairs = Held(v_table)
      /\ \/ f.at = Null /\ f.key \notin KeysOf(Pairs)
         \/ /\ f.at # Null /\ f.key \in KeysOf(Pairs)
            /\ <<f.key, v_table[f.at].v_value>> \in Pairs
  BY <1>1, <1>2, Reads
<1>4. PICK x : Finish(t, x)
  BY DEF f_get, f_has
<1>5. /\ f_leave(t) /\ UNCHANGED f_hash
      /\ DOMAIN found' = Threads /\ found'[t] = Nothing
      /\ \A u \in Threads : u # t => found'[u] = found[u]
  BY <1>4, Finished
<1>6. MapInv'
  BY <1>1, <1>2, <1>3, <1>5, Ends
<1>7. Pairs' = Pairs
  BY <1>2, <1>3, <1>5, StillQuiet
<1>8. CASE f_get(t)
  <2>1. f.op = "get" /\ Finish(t, IF f.at = Null THEN Error ELSE v_table[f.at].v_value)
    BY <1>1, <1>8 DEF f_get
  <2>2. call' = Called("get", f.key, Null, IF f.at = Null THEN Error ELSE v_table[f.at].v_value)
    BY <1>1, <2>1 DEF Finish
  <2>3. CASE f.at = Null
    <3>1. Throws(f.key)
      BY <1>3, <1>7, <2>2, <2>3 DEF Throws
    <3> QED BY <1>6, <3>1 DEF Effect
  <2>4. CASE f.at # Null
    <3>1. Gets(f.key, v_table[f.at].v_value)
      BY <1>3, <1>7, <2>2, <2>4 DEF Gets
    <3> QED BY <1>6, <3>1 DEF Effect
  <2> QED BY <2>3, <2>4
<1>9. CASE f_has(t)
  <2>1. f.op = "has" /\ Finish(t, f.at # Null)
    BY <1>1, <1>9 DEF f_has
  <2>2. call' = Called("has", f.key, Null, f.at # Null)
    BY <1>1, <2>1 DEF Finish
  <2>3. (f.at # Null) = (f.key \in KeysOf(Pairs))
    BY <1>3
  <2>4. call' = Called("has", f.key, Null, f.key \in KeysOf(Pairs))
    BY <2>2, <2>3
  <2>5. Tells(f.key)
    BY <1>3, <1>7, <2>4 DEF Tells
  <2> QED BY <1>6, <2>5 DEF Effect
<1> QED BY <1>8, <1>9

\* v_size is the number of keys.
LEMMA DoesSize ==
  ASSUME MapInv, IInv', NEW t \in Threads, f_size(t)
  PROVE  MapInv' /\ Effect
<1>1. /\ Working(t) /\ found[t] = Nothing /\ f_leave(t)
      /\ call' = Called("size", Null, Null, v_size)
      /\ UNCHANGED <<f_hash, mapVars, found>> /\ v_table' = v_table
  BY DEF f_size, mapVars
<1>2. /\ \A u \in Threads : found[u] = Nothing \/ found[u].step = "found"
      /\ Table(f_hash, v_table, rank, v_size) /\ Pairs = Held(v_table)
  BY <1>1, Quiet
<1>3. Pairs' = Pairs
  BY <1>1, <1>2, StillQuiet
<1>4. DOMAIN found = Threads /\ rank \in DOMAIN Capacities
  BY DEF MapInv, FoundType, RankInv
<1>5. MapInv'
  BY <1>1, <1>4, NothingIs, Ends
<1>6. Cardinality(KeysOf(Pairs)) = v_size
  BY <1>2, <1>4, TableHeld
<1> QED BY <1>1, <1>3, <1>5, <1>6 DEF Effect, Counts

\* A new table is as it has to be.
LEMMA NewTableIs ==
  ASSUME NEW h
  PROVE  Table(h, NewTable(1), 1, 0) /\ RankInv(1, 0) /\ Held(NewTable(1)) = {}
<1>1. 1 \in DOMAIN Capacities
  BY CapacitiesAssumption DEF Growing
<1>2. Sound(h, NewTable(1), Capacities[1], NoHole) /\ Entries(NewTable(1)) = {}
  BY <1>1, NewTableSound
<1>3. Table(h, NewTable(1), 1, 0)
  BY <1>2, FS_EmptySet DEF Table
<1>4. RankInv(1, 0)
  BY <1>1, RankIs DEF RankInv
<1> QED BY <1>2, <1>3, <1>4 DEF Held, PairsOf

\* f_clear leaves no key.
LEMMA DoesClear ==
  ASSUME MapInv, IInv', NEW t \in Threads, f_clear(t)
  PROVE  MapInv' /\ Effect
<1>1. /\ Working(t) /\ mode[t] = "write" /\ found[t] = Nothing /\ f_leave(t)
      /\ v_table' = NewTable(1) /\ rank' = 1 /\ v_size' = 0
      /\ call' = Called("clear", Null, Null, Null) /\ UNCHANGED <<f_hash, found>>
  BY DEF f_clear
<1>2. DOMAIN found = Threads
  BY DEF MapInv, FoundType
<1>3. RankInv(rank', v_size') /\ Table(f_hash, v_table', rank', v_size') /\ Held(v_table') = {}
  BY <1>1, NewTableIs
<1>4. MapInv' /\ Pairs' = Held(v_table')
  BY <1>1, <1>2, <1>3, Returns
<1> QED BY <1>1, <1>3, <1>4 DEF Effect, Clears

\* To own, to share and to wait for the lock changes nothing.
LEMMA DoesSwitch ==
  ASSUME MapInv, IInv', NEW t \in Threads, Switch(t), UNCHANGED <<f_hash, mapVars, found, call>>
  PROVE  MapInv' /\ Effect
<1>1. ~Working(t)
  BY DEF Switch, Working, f_own, f_share, f_lock, f_owned_or_shared
<1>2. found[t] = Nothing /\ DOMAIN found = Threads
  BY <1>1 DEF MapInv, AtWork, FoundType
<1>3. doing \in [Threads -> {"idle", "waiting", "owned", "locked"}] /\ mode \in [Threads -> Modes]
  BY DEF MapInv, IInv, SharableTypeOK
<1>4. \A u \in Threads : u # t => doing'[u] = doing[u] /\ mode'[u] = mode[u]
  BY <1>3 DEF Switch, f_own, f_share, f_lock, f_owned_or_shared
<1>5. StepIs(f_hash, v_table, rank, v_size, Nothing)
  BY DEF StepIs
<1>6. MapInv'
  BY <1>2, <1>4, <1>5, NothingIs, Others
<1>7. v_table' = v_table
  BY DEF mapVars
<1>8. Pairs' = Pairs
  BY <1>7, PairsAre
<1> QED BY <1>6, <1>8 DEF Effect, Keeps

\* MapInv is inductive.
LEMMA MapStep ==
  ASSUME MapInv, [Next]_vars
  PROVE  MapInv' /\ Effect
<1>1. IInv'
  BY MapShares, Inductive DEF MapInv
<1>2. CASE UNCHANGED vars
  <2>1. /\ v_table' = v_table /\ rank' = rank /\ v_size' = v_size /\ f_hash' = f_hash
        /\ found' = found /\ call' = call /\ doing' = doing /\ mode' = mode
    BY <1>2 DEF vars, mapVars, sharableVars
  <2>2. MapInv'
    BY <1>1, <2>1 DEF MapInv, FoundType, AtWork, Working, StepInv, TableInv
  <2>3. Pairs' = Pairs
    BY <2>1, PairsAre
  <2> QED BY <2>1, <2>2, <2>3 DEF Effect, Keeps
<1>3. CASE Next
  <2>1. PICK t \in Threads :
          \/ Switch(t) /\ UNCHANGED <<f_hash, mapVars, found, call>>
          \/ f_put_find(t) \/ f_put(t) \/ f_put_place(t)
          \/ f_rehash(t) \/ f_rehash_move(t) \/ f_rehash_end(t)
          \/ f_remove_find(t) \/ f_remove(t) \/ f_remove_fill(t)
          \/ f_get_find(t) \/ f_get(t) \/ f_has(t)
          \/ f_clear(t) \/ f_size(t)
    BY <1>3 DEF Next
  <2>2. CASE Switch(t) /\ UNCHANGED <<f_hash, mapVars, found, call>>
    BY <1>1, <2>2, DoesSwitch
  <2>3. CASE f_put_find(t) \/ f_remove_find(t) \/ f_get_find(t)
    BY <1>1, <2>3, DoesFind
  <2>4. CASE f_put(t)
    BY <1>1, <2>4, DoesPut
  <2>5. CASE f_put_place(t)
    BY <1>1, <2>5, DoesPlace
  <2>6. CASE f_rehash(t)
    BY <1>1, <2>6, DoesRehash
  <2>7. CASE f_rehash_move(t)
    BY <1>1, <2>7, DoesMove
  <2>8. CASE f_rehash_end(t)
    BY <1>1, <2>8, DoesRehashEnd
  <2>9. CASE f_remove(t)
    BY <1>1, <2>9, DoesRemove
  <2>10. CASE f_remove_fill(t)
    BY <1>1, <2>10, DoesFill
  <2>11. CASE f_get(t) \/ f_has(t)
    BY <1>1, <2>11, DoesGet
  <2>12. CASE f_clear(t)
    BY <1>1, <2>12, DoesClear
  <2>13. CASE f_size(t)
    BY <1>1, <2>13, DoesSize
  <2> QED BY <2>1, <2>2, <2>3, <2>4, <2>5, <2>6, <2>7, <2>8, <2>9, <2>10, <2>11, <2>12, <2>13
<1> QED BY <1>2, <1>3

\* A map starts empty.
LEMMA MapStarts == Init => MapInv /\ Pairs = {}
<1> SUFFICES ASSUME Init PROVE MapInv /\ Pairs = {}
  OBVIOUS
<1>1. IInv
  BY Initially DEF Init
<1>2. /\ f_hash \in [Keys -> Hashes] /\ v_table = NewTable(1) /\ rank = 1 /\ v_size = 0
      /\ found = [t \in Threads |-> Nothing]
  BY DEF Init
<1>3. DOMAIN found = Threads /\ \A t \in Threads : found[t] = Nothing
  BY <1>2
<1>4. RankInv(rank, v_size) /\ Table(f_hash, v_table, rank, v_size) /\ Held(v_table) = {}
  BY <1>2, NewTableIs
<1>5. FoundType /\ AtWork /\ TableInv
  BY <1>3, <1>4, NothingIs DEF FoundType, AtWork, TableInv
<1>6. StepInv
  BY <1>3 DEF StepInv, StepIs
<1>7. Pairs = {}
  BY <1>3, <1>4, PairsQuiet, PairsAre
<1> QED BY <1>1, <1>2, <1>4, <1>5, <1>6, <1>7 DEF MapInv
-----------------------------------------------------------------------------
(***************************************************************************)
(* Theorems.                                                               *)
(***************************************************************************)
\* The table is sound, except for the hole that f_remove fills.
LEMMA MapSound ==
  ASSUME MapInv
  PROVE  /\ \E hole : Sound(f_hash, v_table, Capacities[rank], hole)
         /\ (\A t \in Threads : found[t].step # "fill") =>
              Table(f_hash, v_table, rank, v_size)
<1>1. CASE \A t \in Threads : found[t].step # "fill"
  BY <1>1 DEF MapInv, TableInv, Table
<1>2. ASSUME NEW t \in Threads, found[t].step = "fill"
      PROVE  Sound(f_hash, v_table, Capacities[rank], found[t].at)
  <2>1. StepIs(f_hash, v_table, rank, v_size, found[t])
    BY DEF MapInv, StepInv
  <2>2. Filling(f_hash, v_table, rank, v_size, found[t])
    BY <1>2, <2>1, NothingIs DEF StepIs
  <2> QED BY <2>2 DEF Filling
<1> QED BY <1>1, <1>2

(***************************************************************************)
(* The invariant of the steps of f_put, f_remove and f_rehash holds: the   *)
(* entry in hand has its true gap, the ways to all entries are taken, and  *)
(* what f_rehash has copied is what was before next.                       *)
(***************************************************************************)
THEOREM MapInvariance == Spec => []MapInv
<1>1. Init => MapInv
  BY MapStarts
<1>2. MapInv /\ [Next]_vars => MapInv'
  BY MapStep
<1> QED BY <1>1, <1>2, PTL DEF Spec

(***************************************************************************)
(* The map stays well formed: the table has the capacity of its rank, and  *)
(* entries within its load, so that a place is vacant and probing ends.    *)
(***************************************************************************)
THEOREM MapTypeCorrect == Spec => []TypeOK
<1>1. MapInv => TypeOK
  <2> SUFFICES ASSUME MapInv PROVE TypeOK
    OBVIOUS
  <2>1. /\ SharableTypeOK /\ f_hash \in [Keys -> Hashes]
        /\ rank \in DOMAIN Capacities /\ v_size \in 0 .. Load(rank)
    BY DEF MapInv, IInv, RankInv
  <2>2. PICK c \in Nat \ {0} : c = Capacities[rank]
    BY <2>1, RankIs
  <2>3. PICK hole : Sound(f_hash, v_table, c, hole)
    BY <2>2, MapSound
  <2>4. Fits(v_table, c)
    BY <2>3 DEF Sound
  <2>5. DOMAIN v_table = 0 .. c - 1
    BY <2>4, EntriesAre
  <2>6. ASSUME NEW i \in 0 .. c - 1
        PROVE  /\ v_table[i].v_gap \in 0 .. c
               /\ v_table[i].v_key \in Keys \cup {Null}
               /\ v_table[i].v_value \in Values \cup {Null}
    <3>1. v_table[i] \in EntryType
      BY <2>4 DEF Fits
    <3>2. i \in Entries(v_table) => v_table[i].v_gap \in 1 .. c
      BY <2>3, EntryIs
    <3>3. i \notin Entries(v_table) => v_table[i].v_gap = 0
      BY <2>4, EntriesAre
    <3>4. v_table[i].v_gap \in 0 .. c
      BY <3>2, <3>3
    <3> QED BY <3>1, <3>4 DEF EntryType
  <2> QED BY <2>1, <2>2, <2>5, <2>6 DEF TypeOK
<1> QED BY <1>1, MapInvariance, PTL

(***************************************************************************)
(* What f_find relies on: t_table::f_put, f_rehash and the filling loop of *)
(* f_remove keep the gaps true, around the end of the table too, and       *)
(* v_size counts the entries.                                              *)
(***************************************************************************)
THEOREM GapsAreTrue == Spec => []GapsTrue
<1>1. MapInv => GapsTrue
  <2> SUFFICES ASSUME MapInv PROVE GapsTrue
    OBVIOUS
  <2>1. rank \in DOMAIN Capacities
    BY DEF MapInv, RankInv
  <2>2. PICK c \in Nat \ {0} : c = Capacities[rank]
    BY <2>1, RankIs
  <2>3. PICK hole : Sound(f_hash, v_table, c, hole)
    BY <2>2, MapSound
  <2>4. Fits(v_table, c)
    BY <2>3 DEF Sound
  <2>5. ASSUME NEW i \in Entries(v_table)
        PROVE  /\ v_table[i].v_hash = f_hash[v_table[i].v_key]
               /\ PlaceOf(v_table, v_table[i]) = i
    <3>1. /\ Homed(f_hash, c, v_table[i], i)
          /\ v_table[i].v_hash \in Nat /\ v_table[i].v_gap \in 1 .. c
          /\ At(c, v_table[i].v_hash, v_table[i].v_gap) = i
      BY <2>3, EntryIs
    <3>2. Place(v_table, v_table[i].v_hash, v_table[i].v_gap) = i
      BY <2>4, <3>1, PlaceIs
    <3> QED BY <3>1, <3>2 DEF Homed, PlaceOf
  <2>6. ASSUME \A t \in Threads : found[t].step # "fill"
        PROVE  /\ v_size = Cardinality(Entries(v_table))
               /\ \A i \in DOMAIN v_table :
                    v_table[After(v_table, i, 1)].v_gap <= v_table[i].v_gap + 1
    <3>1. Sound(f_hash, v_table, c, NoHole) /\ v_size = Cardinality(Entries(v_table))
      BY <2>2, <2>6, MapSound DEF Table
    <3>2. DOMAIN v_table = 0 .. c - 1
      BY <2>4, EntriesAre
    <3> QED BY <3>1, <3>2, StepsOne
  <2> QED BY <2>5, <2>6 DEF GapsTrue
<1> QED BY <1>1, MapInvariance, PTL

(***************************************************************************)
(* A map is a sharable object: operations that change it exclude all       *)
(* others, also between the steps of their loops,                          *)
(***************************************************************************)
THEOREM MapExclusion == Spec => []Exclusive
<1>1. Init => IInv
  BY Initially DEF Init
<1>2. IInv /\ [Next]_vars => IInv'
  BY MapShares, Inductive
<1> QED BY <1>1, <1>2, Excluding, PTL DEF Spec

(***************************************************************************)
(* and it keeps its owner while some thread works on it.                   *)
(***************************************************************************)
THEOREM MapStability == Spec => OwnerStable
<1>1. Init => SharableInit
  BY DEF Init
<1>2. [Next]_vars => [SharableNext]_sharableVars
  BY MapShares
<1>3. Spec => SharableSpec
  BY <1>1, <1>2, PTL DEF Spec, SharableSpec
<1> QED BY <1>3, Stability, PTL
-----------------------------------------------------------------------------
(***************************************************************************)
(* The map as a function.                                                  *)
(***************************************************************************)
ContentsOf(P) == [k \in {p[1] : p \in P} |-> CHOOSE v \in Values : <<k, v>> \in P]

\* The function before and after a step.
LEMMA ContentsAre == Contents = ContentsOf(Pairs) /\ Contents' = ContentsOf(Pairs')
BY DEF Contents, ContentsOf

\* It maps every key to the value it is paired with.
LEMMA ContentsIs ==
  ASSUME NEW P, Functional(P)
  PROVE  /\ ContentsOf(P) \in [KeysOf(P) -> Values]
         /\ DOMAIN ContentsOf(P) = KeysOf(P)
         /\ \A k, v : <<k, v>> \in P => k \in KeysOf(P) /\ ContentsOf(P)[k] = v
         /\ \A k \in KeysOf(P) : <<k, ContentsOf(P)[k]>> \in P
<1>1. DOMAIN ContentsOf(P) = KeysOf(P)
  BY DEF ContentsOf, KeysOf
<1>2. ASSUME NEW k \in KeysOf(P) PROVE <<k, ContentsOf(P)[k]>> \in P
  <2>1. PICK p \in P : k = p[1]
    BY DEF KeysOf
  <2>2. p = <<k, p[2]>> /\ p[2] \in Values
    BY <2>1 DEF Functional
  <2>3. \E v \in Values : <<k, v>> \in P
    BY <2>2
  <2>4. ContentsOf(P)[k] = CHOOSE v \in Values : <<k, v>> \in P
    BY DEF ContentsOf, KeysOf
  <2> QED BY <2>3, <2>4
<1>3. ASSUME NEW k, NEW v, <<k, v>> \in P PROVE k \in KeysOf(P) /\ ContentsOf(P)[k] = v
  <2>1. k \in KeysOf(P)
    BY <1>3 DEF KeysOf
  <2>2. <<k, ContentsOf(P)[k]>> \in P
    BY <1>2, <2>1
  <2>3. <<k, ContentsOf(P)[k]>> = <<k, v>>
    BY <1>3, <2>2 DEF Functional
  <2> QED BY <2>1, <2>3
<1>4. \A k \in KeysOf(P) : ContentsOf(P)[k] \in Values
  BY <1>2 DEF Functional
<1>5. ContentsOf(P) \in [KeysOf(P) -> Values]
  <2>1. PICK F : F = [k \in KeysOf(P) |-> CHOOSE v \in Values : <<k, v>> \in P]
    OBVIOUS
  <2>2. ContentsOf(P) = F
    BY <2>1 DEF ContentsOf, KeysOf
  <2>3. \A k \in KeysOf(P) : F[k] \in Values
    BY <1>4, <2>2
  <2> QED BY <2>1, <2>2, <2>3
<1> QED BY <1>1, <1>2, <1>3, <1>5

\* Replacing the pair of a key updates it,
LEMMA ContentsPut ==
  ASSUME NEW P, Functional(P), NEW k \in Keys, NEW v \in Values, NEW f, f = ContentsOf(P)
  PROVE  ContentsOf(Without(P, k) \cup {<<k, v>>})
           = [x \in DOMAIN f \cup {k} |-> IF x = k THEN v ELSE f[x]]
<1>1. PICK Q : Q = Without(P, k) \cup {<<k, v>>}
  OBVIOUS
<1>2. Functional(Q)
  BY <1>1 DEF Functional, Without
<1>3. DOMAIN f = KeysOf(P) /\ \A x \in KeysOf(P) : <<x, f[x]>> \in P
  BY ContentsIs
<1>4. KeysOf(Q) = DOMAIN f \cup {k}
  <2>1. KeysOf(Q) = KeysOf(P) \cup {k}
    <3>1. ASSUME NEW p \in P PROVE p[1] \in KeysOf(Q) \cup {k}
      BY <1>1 DEF KeysOf, Without
    <3>2. k \in KeysOf(Q)
      <4>1. <<k, v>> \in Q /\ <<k, v>>[1] = k
        BY <1>1
      <4> QED BY <4>1 DEF KeysOf
    <3>3. ASSUME NEW p \in Q PROVE p[1] \in KeysOf(P) \cup {k}
      BY <1>1 DEF KeysOf, Without
    <3> QED BY <3>1, <3>2, <3>3 DEF KeysOf
  <2> QED BY <1>3, <2>1
<1>5. /\ <<k, v>> \in Q
      /\ \A x \in DOMAIN f \cup {k} : x # k => <<x, f[x]>> \in Q
  BY <1>1, <1>3 DEF Without
<1>6. PICK g \in [KeysOf(Q) -> Values] : g = ContentsOf(Q)
  BY <1>2, ContentsIs
<1>7. \A x, y : <<x, y>> \in Q => g[x] = y
  BY <1>2, <1>6, ContentsIs
<1>8. g[k] = v /\ \A x \in DOMAIN f \cup {k} : x # k => g[x] = f[x]
  BY <1>5, <1>7
<1>9. g = [x \in DOMAIN f \cup {k} |-> IF x = k THEN v ELSE f[x]]
  BY <1>4, <1>8
<1> QED BY <1>1, <1>6, <1>9

\* and dropping the pair restricts it.
LEMMA ContentsRemove ==
  ASSUME NEW P, Functional(P), NEW k, NEW f, f = ContentsOf(P)
  PROVE  ContentsOf(Without(P, k)) = [x \in DOMAIN f \ {k} |-> f[x]]
<1>1. PICK Q : Q = Without(P, k)
  OBVIOUS
<1>2. Functional(Q)
  BY <1>1 DEF Functional, Without
<1>3. DOMAIN f = KeysOf(P) /\ \A x \in KeysOf(P) : <<x, f[x]>> \in P
  BY ContentsIs
<1>4. KeysOf(Q) = DOMAIN f \ {k}
  BY <1>1, <1>3 DEF KeysOf, Without
<1>5. \A x \in DOMAIN f \ {k} : <<x, f[x]>> \in Q
  BY <1>1, <1>3 DEF Without
<1>6. PICK g \in [KeysOf(Q) -> Values] : g = ContentsOf(Q)
  BY <1>2, ContentsIs
<1>7. \A x, y : <<x, y>> \in Q => g[x] = y
  BY <1>2, <1>6, ContentsIs
<1>8. \A x \in DOMAIN f \ {k} : g[x] = f[x]
  BY <1>5, <1>7
<1>9. g = [x \in DOMAIN f \ {k} |-> f[x]]
  BY <1>4, <1>8
<1> QED BY <1>1, <1>6, <1>9

\* What the map shows is a function.
LEMMA ShownIs ==
  ASSUME NEW h, NEW tb, NEW r \in DOMAIN Capacities, NEW n, NEW f,
         StepIs(h, tb, r, n, f), f # Nothing, f.step # "fill" => Table(h, tb, r, n)
  PROVE  Functional(Shown(tb, f))
<1>1. PICK c \in Nat \ {0} : c = Capacities[r]
  BY RankIs
<1>2. PICK hole : Sound(h, tb, c, hole)
  <2>1. CASE f.step = "fill"
    BY <1>1, <2>1 DEF StepIs, Filling
  <2>2. CASE f.step # "fill"
    BY <1>1, <2>2 DEF Table
  <2> QED BY <2>1, <2>2
<1>3. Functional(Held(tb)) /\ \A k : Absent(tb, k) => k \notin KeysOf(Held(tb))
  BY <1>2, HeldIs
<1>4. CASE f.step = "place"
  <2>1. Hand(h, tb, c, f.e, f.at)
    BY <1>1, <1>4 DEF StepIs, Placing
  <2>2. Absent(tb, f.e.v_key) /\ f.e.v_key \in Keys /\ f.e.v_value \in Values
    BY <2>1 DEF Hand, Homed
  <2>3. Functional(With(tb, f.e))
    BY <1>3, <2>2, OneMore DEF With, Pair
  <2>4. Functional(Without(With(tb, f.e), f.key))
    BY <2>3 DEF Functional, Without
  <2> QED BY <1>4, <2>4 DEF Shown
<1>5. CASE f.step # "place" /\ f.op = "remove" /\ f.step # "found"
  <2>1. Absent(tb, f.key) /\ f.key \in Keys /\ f.value \in Values
    BY <1>5 DEF StepIs, Rehashing, Filling
  <2>2. Functional(Held(tb) \cup {<<f.key, f.value>>})
    BY <1>3, <2>1, OneMore
  <2> QED BY <1>5, <2>2 DEF Shown
<1>6. CASE f.step # "place" /\ ~(f.op = "remove" /\ f.step # "found")
  BY <1>3, <1>6 DEF Shown
<1> QED BY <1>4, <1>5, <1>6

\* The pairs of the map make up a function at every step.
LEMMA PairsFunctional ==
  ASSUME MapInv
  PROVE  Functional(Pairs)
<1>1. ASSUME NEW t \in Threads, found[t].op \in {"put", "remove"} PROVE Functional(Pairs)
  <2>1. /\ found[t] # Nothing /\ StepIs(f_hash, v_table, rank, v_size, found[t])
        /\ found[t].step # "fill" => Table(f_hash, v_table, rank, v_size)
        /\ rank \in DOMAIN Capacities /\ Pairs = Shown(v_table, found[t])
    BY <1>1, Writing
  <2> QED BY <2>1, ShownIs
<1>2. ASSUME \A t \in Threads : found[t].op \notin {"put", "remove"} PROVE Functional(Pairs)
  <2>1. ASSUME NEW t \in Threads PROVE found[t] = Nothing \/ found[t].step = "found"
    <3>1. StepIs(f_hash, v_table, rank, v_size, found[t])
      BY DEF MapInv, StepInv
    <3> QED BY <1>2, <3>1 DEF StepIs, Placing, Rehashing, Filling
  <2>2. \A t \in Threads : found[t].step # "fill"
    BY <2>1, NothingIs
  <2>3. Table(f_hash, v_table, rank, v_size) /\ rank \in DOMAIN Capacities
    BY <2>2 DEF MapInv, TableInv, RankInv
  <2>4. Pairs = Held(v_table)
    BY <2>1, PairsQuiet, PairsAre
  <2> QED BY <2>3, <2>4, TableHeld
<1> QED BY <1>1, <1>2

\* The instance counts as the map does.
LEMMA SameCount == \A S : Abstract!Cardinality(S) = Cardinality(S)
BY Zenon DEF Cardinality, Abstract!Cardinality

\* An effect on the pairs is an operation of the abstract map, or none.
LEMMA EffectIs ==
  ASSUME MapInv, Effect
  PROVE  [Abstract!Next]_(Abstract!vars)
<1>1. PICK P : P = Pairs /\ Functional(P)
  BY PairsFunctional
<1>2. PICK f : f = Contents /\ f = ContentsOf(P)
  BY <1>1, ContentsAre
<1>3. PICK g : g = Contents' /\ g = ContentsOf(Pairs')
  BY ContentsAre
<1>4. /\ DOMAIN f = KeysOf(P)
      /\ \A k, v : <<k, v>> \in P => k \in KeysOf(P) /\ f[k] = v
  BY <1>1, <1>2, ContentsIs
<1>5. \A k, v : <<k, v>> \in P => k \in Keys
  BY <1>1 DEF Functional
<1>6. Pairs' = P => g = f
  BY <1>2, <1>3
<1>7. CASE Keeps
  BY <1>1, <1>2, <1>3, <1>6, <1>7 DEF Keeps, Abstract!vars
<1>8. CASE Counts
  <2>1. Abstract!Size
    BY <1>1, <1>2, <1>3, <1>4, <1>6, <1>8, SameCount DEF Counts, Abstract!Size, Called, Abstract!Called
  <2> QED BY <2>1 DEF Abstract!Next
<1>9. CASE Clears
  <2>1. g = [k \in {} |-> Null]
    <3>1. g = ContentsOf({})
      BY <1>3, <1>9 DEF Clears
    <3> QED BY <3>1 DEF ContentsOf
  <2>2. Abstract!Clear
    BY <1>3, <1>9, <2>1 DEF Clears, Abstract!Clear, Abstract!Nothing, Called, Abstract!Called
  <2> QED BY <2>2 DEF Abstract!Next
<1>10. ASSUME NEW k, NEW v, Puts(k, v) PROVE Abstract!Next
  <2>1. k \in Keys /\ v \in Values
    BY <1>10 DEF Puts
  <2>2. g = [x \in DOMAIN f \cup {k} |-> IF x = k THEN v ELSE f[x]]
    <3>1. g = ContentsOf(Without(P, k) \cup {<<k, v>>})
      BY <1>1, <1>3, <1>10 DEF Puts
    <3> QED BY <1>1, <1>2, <2>1, <3>1, ContentsPut
  <2>3. k \in DOMAIN f \/ Cardinality(DOMAIN f) < v_upper(Len(Capacities))
    BY <1>1, <1>4, <1>10 DEF Puts, Most
  <2>4. call' = Abstract!Called("put", k, v, v)
    BY <1>10 DEF Puts, Called, Abstract!Called
  <2>5. Abstract!Put(k, v)
    BY <1>2, <1>3, <2>2, <2>3, <2>4, SameCount DEF Abstract!Put, Abstract!Has
  <2> QED BY <2>1, <2>5 DEF Abstract!Next
<1>11. ASSUME NEW k, NEW v, Removes(k, v) PROVE Abstract!Next
  <2>1. <<k, v>> \in P /\ k \in Keys /\ k \in DOMAIN f /\ f[k] = v
    BY <1>1, <1>4, <1>5, <1>11 DEF Removes
  <2>2. g = [x \in DOMAIN f \ {k} |-> f[x]]
    <3>1. g = ContentsOf(Without(P, k))
      BY <1>1, <1>3, <1>11 DEF Removes
    <3> QED BY <1>1, <1>2, <3>1, ContentsRemove
  <2>3. call' = Abstract!Called("remove", k, Null, f[k])
    BY <1>11, <2>1 DEF Removes, Called, Abstract!Called
  <2>4. Abstract!Remove(k)
    BY <1>2, <1>3, <2>1, <2>2, <2>3 DEF Abstract!Remove, Abstract!Has, Abstract!Restrict
  <2> QED BY <2>1, <2>4 DEF Abstract!Next
<1>12. ASSUME NEW k, NEW v, Gets(k, v) PROVE Abstract!Next
  <2>1. <<k, v>> \in P /\ k \in Keys /\ k \in DOMAIN f /\ f[k] = v
    BY <1>1, <1>4, <1>5, <1>12 DEF Gets
  <2>2. call' = Abstract!Called("get", k, Null, f[k]) /\ g = f
    BY <1>1, <1>6, <1>12, <2>1 DEF Gets, Called, Abstract!Called
  <2>3. Abstract!Get(k)
    BY <1>2, <1>3, <2>1, <2>2 DEF Abstract!Get, Abstract!Has
  <2> QED BY <2>1, <2>3 DEF Abstract!Next
<1>13. ASSUME NEW k, Tells(k) PROVE Abstract!Next
  <2>1. call' = Abstract!Called("has", k, Null, k \in DOMAIN f) /\ g = f /\ k \in Keys
    BY <1>1, <1>4, <1>6, <1>13 DEF Tells, Called, Abstract!Called
  <2>2. Abstract!Find(k)
    BY <1>2, <1>3, <2>1 DEF Abstract!Find, Abstract!Has
  <2> QED BY <2>1, <2>2 DEF Abstract!Next
<1>14. ASSUME NEW k, Throws(k) PROVE Abstract!Next
  <2>1. k \in Keys /\ k \notin DOMAIN f /\ g = f
    BY <1>1, <1>4, <1>6, <1>14 DEF Throws
  <2>2. \/ \E op \in {"get", "remove"} : call' = Abstract!Called(op, k, Null, Error)
        \/ /\ Cardinality(DOMAIN f) = v_upper(Len(Capacities))
           /\ \E v \in Values : call' = Abstract!Called("put", k, v, Error)
    BY <1>1, <1>4, <1>14 DEF Throws, Most, Called, Abstract!Called
  <2>3. Abstract!Throw(k)
    BY <1>2, <1>3, <2>1, <2>2, SameCount DEF Abstract!Throw, Abstract!Has
  <2> QED BY <2>1, <2>3 DEF Abstract!Next
<1> QED BY <1>7, <1>8, <1>9, <1>10, <1>11, <1>12, <1>13, <1>14 DEF Effect

(***************************************************************************)
(* A map implements the function its entries make up, for every number of  *)
(* keys, hashes and capacities: wherever hashes collide and the table      *)
(* wraps around, whichever entries f_put and f_remove move and however the *)
(* table grows and shrinks in between, what an operation returns or throws *)
(* is what it would on that function, and takes effect at one step.        *)
(***************************************************************************)
THEOREM MapRefinement == Spec => AbstractSpec
<1>1. Init => Abstract!Init
  <2> SUFFICES ASSUME Init PROVE Abstract!Init
    OBVIOUS
  <2>1. Contents = ContentsOf({})
    BY MapStarts, ContentsAre
  <2>2. Contents = [k \in {} |-> Null]
    BY <2>1 DEF ContentsOf
  <2>3. call = Called("new", Null, Null, Null)
    BY DEF Init
  <2> QED BY <2>2, <2>3 DEF Abstract!Init, Abstract!Nothing, Called, Abstract!Called
<1>2. MapInv /\ [Next]_vars => [Abstract!Next]_(Abstract!vars)
  BY MapStep, EffectIs
<1> QED BY MapInvariance, <1>1, <1>2, PTL DEF Spec, AbstractSpec, Abstract!Spec
=============================================================================
