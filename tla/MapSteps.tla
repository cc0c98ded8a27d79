------------------------------- MODULE MapSteps -------------------------------
(***************************************************************************)
(* Steps of one operation of the Map type that is alone with the table:    *)
(* for each place in an operation what the table and the entry in hand     *)
(* are, and that a step leads from one to the next.  h is the hash of      *)
(* keys, tb the table, r its rank, n the size and f the operation.         *)
(***************************************************************************)
EXTENDS TableProofs

\* The entries before the place n.
Before(tb, n) == {i \in Entries(tb) : i < n}

\* An operation that is not changing the table finds it like this.
Table(h, tb, r, n) ==
  /\ Sound(h, tb, Capacities[r], NoHole)
  /\ n = Cardinality(Entries(tb))

FoundFind(h, tb, f) ==
  /\ f.op \in {"remove", "get", "has"}
  /\ f.key \in Keys
  /\ f.at = f_find(tb, h[f.key], f.key)

FoundPut(h, tb, f) ==
  /\ f.op = "put"
  /\ f.key \in Keys /\ f.value \in Values
  /\ f.e = [v_gap |-> f_find_for_put(tb, h[f.key], f.key), v_hash |-> h[f.key],
            v_key |-> f.key, v_value |-> f.value]
  /\ f.at = PlaceOf(tb, f.e)

Placing(h, tb, r, n, f) ==
  /\ f.op = "put"
  /\ f.key \in Keys /\ f.value \in Values
  /\ n < v_upper(r)
  /\ Hand(h, tb, Capacities[r], f.e, f.at)
  /\ <<f.key, f.value>> \in Held(tb) \cup {Pair(f.e)}

\* The rank of the table that f_rehash makes.
Target(r, f) == IF f.op = "put" THEN r + 1 ELSE r - 1

Rehashing(h, tb, r, n, f) ==
  /\ f.op \in {"put", "remove"}
  /\ f.key \in Keys /\ f.value \in Values
  /\ Absent(tb, f.key)
  /\ Target(r, f) \in DOMAIN Capacities
  /\ n <= Load(Target(r, f))
  /\ f.op = "put" => n < v_upper(Target(r, f))
  /\ Sound(h, f.table, Capacities[Target(r, f)], NoHole)
  /\ f.next \in Nat

\* The new table has what was before next in the old one,
Copied(tb, f) ==
  /\ Held(f.table) = PairsOf(tb, Before(tb, f.next))
  /\ Cardinality(Entries(f.table)) = Cardinality(Before(tb, f.next))

\* or will have it with the entry in hand.
Copying(h, tb, r, f) ==
  /\ Hand(h, f.table, Capacities[Target(r, f)], f.e, f.at)
  /\ Held(f.table) \cup {Pair(f.e)} = PairsOf(tb, Before(tb, f.next))
  /\ Cardinality(Entries(f.table)) + 1 = Cardinality(Before(tb, f.next))

Filling(h, tb, r, n, f) ==
  /\ f.op = "remove"
  /\ f.key \in Keys /\ f.value \in Values
  /\ f.at \in 0 .. Capacities[r] - 1
  /\ tb[f.at].v_gap = 0
  /\ Absent(tb, f.key)
  /\ Sound(h, tb, Capacities[r], f.at)
  /\ n = Cardinality(Entries(tb)) + 1

StepIs(h, tb, r, n, f) ==
  \/ f = Nothing
  \/ f.step = "found" /\ (FoundFind(h, tb, f) \/ FoundPut(h, tb, f))
  \/ f.step = "place" /\ Placing(h, tb, r, n, f)
  \/ f.step = "rehash" /\ Rehashing(h, tb, r, n, f) /\ Copied(tb, f)
  \/ f.step = "move" /\ Rehashing(h, tb, r, n, f) /\ Copying(h, tb, r, f)
  \/ f.step = "fill" /\ Filling(h, tb, r, n, f)

\* With the entry in hand, and without the pair of a key.
With(tb, e) == Held(tb) \cup {Pair(e)}
Without(P, k) == {p \in P : p[1] # k}

\* What the map shows while the operation f is under way.
Shown(tb, f) ==
  IF f.step = "place" THEN Without(With(tb, f.e), f.key)
  ELSE IF f.op = "remove" /\ f.step # "found" THEN Held(tb) \cup {<<f.key, f.value>>}
  ELSE Held(tb)

KeysOf(P) == {p[1] : p \in P}

\* Pairs that make up a function.
Functional(P) ==
  /\ P \subseteq Keys \X Values
  /\ \A p, q \in P : p[1] = q[1] => p = q

Fields == {"op", "step", "key", "value", "at", "e", "table", "next"}

\* The rank and the size.
RankInv(r, n) == r \in DOMAIN Capacities /\ n \in 0 .. Load(r)

-----------------------------------------------------------------------------
(***************************************************************************)
(* Steps of one operation.                                                 *)
(***************************************************************************)
LEMMA RankIs ==
  ASSUME NEW r \in DOMAIN Capacities
  PROVE  /\ Capacities[r] \in Nat \ {0} /\ r \in 1 .. Len(Capacities)
         /\ v_upper(r) \in Nat
         /\ Load(r) \in Nat /\ v_upper(r) <= Load(r) /\ Load(r) < Capacities[r]
<1>1. /\ DOMAIN Capacities = 1 .. Len(Capacities) /\ Len(Capacities) \in Nat
      /\ \A s \in DOMAIN Capacities : Capacities[s] \in Nat \ {0}
  BY CapacitiesAssumption DEF Growing
<1>2. PICK c \in Nat \ {0} : c = Capacities[r]
  BY <1>1
<1>3. v_upper(r) \in Nat /\ v_upper(r) < c
  BY <1>2 DEF v_upper
<1>4. CASE r < Len(Capacities) /\ v_upper(r) < v_lower(r + 1)
  <2>1. r + 1 \in DOMAIN Capacities \ {1} /\ (r + 1) - 1 = r
    BY <1>1, <1>4
  <2>2. PICK d \in Nat \ {0} : d = Capacities[r + 1]
    BY <1>1, <2>1
  <2>3. d \div 4 <= c
    BY <1>2, <2>1, <2>2, CapacitiesAssumption DEF Growing
  <2>4. v_lower(r + 1) = d \div 4
    BY <2>1, <2>2 DEF v_lower
  <2>5. Load(r) = v_lower(r + 1) - 1
    BY <1>4 DEF Load
  <2>6. d \div 4 \in Nat
    BY <2>2
  <2>7. PICK l \in Nat : l = v_lower(r + 1)
    BY <2>4, <2>6
  <2>8. Load(r) = l - 1 /\ v_upper(r) < l /\ l <= c
    BY <1>4, <2>3, <2>4, <2>5, <2>7
  <2> QED BY <1>1, <1>2, <1>3, <2>8
<1>5. CASE ~(r < Len(Capacities) /\ v_upper(r) < v_lower(r + 1))
  <2>1. Load(r) = v_upper(r)
    BY <1>5 DEF Load
  <2> QED BY <1>1, <1>2, <1>3, <2>1
<1> QED BY <1>4, <1>5

\* A hash is a number.
LEMMA HashIs ==
  ASSUME NEW h \in [Keys -> Hashes], NEW k \in Keys
  PROVE  h[k] \in Nat
BY HashesAssumption

\* A table of the map has a vacant place, where probing ends.
LEMMA RoomIn ==
  ASSUME NEW h, NEW tb, NEW r \in DOMAIN Capacities, NEW n, n <= Load(r), Table(h, tb, r, n)
  PROVE  Room(tb, Capacities[r])
<1>1. Capacities[r] \in Nat \ {0} /\ Load(r) \in Nat /\ Load(r) < Capacities[r]
  BY RankIs
<1>2. Fits(tb, Capacities[r]) /\ n = Cardinality(Entries(tb))
  BY DEF Table, Sound
<1>3. Cardinality(Entries(tb)) \in Nat
  BY <1>1, <1>2, EntriesAre, FS_CardinalityType
<1> QED BY <1>1, <1>2, <1>3, RoomLeft

\* The place that f_put has found is that of the key, or one where the key
\* may be put.
LEMMA PutFound ==
  ASSUME NEW h \in [Keys -> Hashes], NEW tb, NEW r \in DOMAIN Capacities, NEW n,
         n <= Load(r), Table(h, tb, r, n), NEW f, FoundPut(h, tb, f)
  PROVE  /\ tb[f.at].v_gap = f.e.v_gap => f.at \in Entries(tb) /\ tb[f.at].v_key = f.key
         /\ tb[f.at].v_gap # f.e.v_gap => /\ Absent(tb, f.key)
                                          /\ Hand(h, tb, Capacities[r], f.e, f.at)
<1>1. PICK c \in Nat \ {0} : c = Capacities[r]
  BY RankIs
<1>2. Sound(h, tb, c, NoHole) /\ Room(tb, c) /\ Fits(tb, c)
  BY <1>1, RoomIn DEF Table, Sound
<1>3. f.key \in Keys /\ f.value \in Values /\ h[f.key] \in Nat
  BY HashIs DEF FoundPut
<1>4. PICK gap : gap = f_find_for_put(tb, h[f.key], f.key)
  OBVIOUS
<1>5. /\ gap \in 1 .. c
      /\ Absent(tb, f.key) => /\ tb[At(c, h[f.key], gap)].v_gap < gap
                              /\ Chain(tb, c, h[f.key], gap, NoHole)
      /\ \A i \in Entries(tb) :
           tb[i].v_key = f.key => i = At(c, h[f.key], gap) /\ tb[i].v_gap = gap
  BY <1>2, <1>3, <1>4, FindForPut
<1>6. f.e.v_gap = gap /\ f.e.v_hash = h[f.key] /\ f.e.v_key = f.key /\ f.e.v_value = f.value
      /\ f.e \in EntryType
  BY <1>3, <1>4, <1>5 DEF FoundPut, EntryType
<1>7. f.at = At(c, h[f.key], gap)
  BY <1>2, <1>3, <1>5, <1>6, PlaceIs DEF FoundPut, PlaceOf
<1>8. f.at \in 0 .. c - 1 /\ tb[f.at].v_gap \in Nat
  <2>1. f.at \in 0 .. c - 1
    BY <1>3, <1>5, <1>7, AtType
  <2> QED BY <1>2, <2>1, EntriesAre
<1>9. ASSUME Absent(tb, f.key)
      PROVE  tb[f.at].v_gap # f.e.v_gap /\ Hand(h, tb, c, f.e, f.at)
  <2>1. tb[f.at].v_gap < gap /\ Chain(tb, c, h[f.key], gap, NoHole)
    BY <1>5, <1>7, <1>9
  <2>2. Homed(h, c, f.e, f.at)
    BY <1>3, <1>5, <1>6, <1>7 DEF Homed
  <2> QED BY <1>5, <1>6, <1>8, <1>9, <2>1, <2>2 DEF Hand
<1>10. ASSUME ~Absent(tb, f.key)
       PROVE  f.at \in Entries(tb) /\ tb[f.at].v_key = f.key /\ tb[f.at].v_gap = f.e.v_gap
  BY <1>5, <1>6, <1>7, <1>10 DEF Absent
<1> QED BY <1>1, <1>9, <1>10

\* The place that f_find has found is that of the key.
LEMMA FindFound ==
  ASSUME NEW h \in [Keys -> Hashes], NEW tb, NEW r \in DOMAIN Capacities, NEW n,
         n <= Load(r), Table(h, tb, r, n), NEW f, FoundFind(h, tb, f)
  PROVE  \/ f.at = Null /\ Absent(tb, f.key)
         \/ f.at # Null /\ f.at \in Entries(tb) /\ tb[f.at].v_key = f.key
<1>1. PICK c \in Nat \ {0} : c = Capacities[r]
  BY RankIs
<1>2. Sound(h, tb, c, NoHole) /\ Room(tb, c) /\ Fits(tb, c)
  BY <1>1, RoomIn DEF Table, Sound
<1>3. f.key \in Keys /\ h[f.key] \in Nat
  BY HashIs DEF FoundFind
<1>4. \/ f.at = Null /\ Absent(tb, f.key)
      \/ f.at \in Entries(tb) /\ tb[f.at].v_key = f.key
  BY <1>2, <1>3, FindIs DEF FoundFind
<1>5. f.at \in Entries(tb) => f.at \in Nat
  BY <1>2, EntriesAre
<1> QED BY <1>4, <1>5, NullAssumption

\* Once round the loop of t_table::f_put, when the place is vacant,
LEMMA Stored ==
  ASSUME NEW c \in Nat \ {0}, NEW h, NEW tb, Sound(h, tb, c, NoHole),
         NEW e, NEW i, Hand(h, tb, c, e, i), tb[i].v_gap = 0
  PROVE  /\ Sound(h, Written(tb, i, e), c, NoHole)
         /\ Held(Written(tb, i, e))
              = Held(tb) \cup {Pair(e)}
         /\ Cardinality(Entries(Written(tb, i, e))) = Cardinality(Entries(tb)) + 1
<1> DEFINE tb1 == Written(tb, i, e)
<1>1. /\ i \in 0 .. c - 1
      /\ Sound(h, tb1, c, NoHole)
      /\ Entries(tb1) = Entries(tb) \cup {i}
      /\ tb1[i] = e
      /\ \A j \in 0 .. c - 1 : j # i => tb1[j] = tb[j]
  BY PutSound
<1> HIDE DEF tb1
<1>2. Fits(tb, c)
  BY DEF Sound
<1>3. i \notin Entries(tb) /\ IsFiniteSet(Entries(tb)) /\ Entries(tb) \subseteq 0 .. c - 1
  BY <1>2, EntriesAre
<1>4. \A j \in Entries(tb) : tb1[j] = tb[j]
  BY <1>1, <1>3
<1>5. Cardinality(Entries(tb1)) = Cardinality(Entries(tb)) + 1
  BY <1>1, <1>3, FS_AddElement
<1>6. Held(tb1) = Held(tb) \cup {Pair(e)}
  BY <1>1, <1>4 DEF Held, PairsOf
<1> QED BY <1>1, <1>5, <1>6 DEF tb1

\* Carry changes the place and the entry only.
LEMMA CarryFields ==
  ASSUME NEW tb, NEW f, DOMAIN f = Fields, NEW g, g = Carry(tb, f)
  PROVE  DOMAIN g = Fields /\ g.step = f.step
BY DEF Carry, Fields

\* and when it is not.
LEMMA Carried ==
  ASSUME NEW c \in Nat \ {0}, NEW h, NEW tb, Sound(h, tb, c, NoHole), Room(tb, c),
         NEW f, DOMAIN f = Fields, Hand(h, tb, c, f.e, f.at), tb[f.at].v_gap > 0,
         NEW g, g = Carry(tb, f)
  PROVE  /\ Sound(h, Written(tb, f.at, f.e), c, NoHole)
         /\ Hand(h, Written(tb, f.at, f.e), c, g.e, g.at)
         /\ Held(Written(tb, f.at, f.e)) \cup {Pair(g.e)}
              = Held(tb) \cup {Pair(f.e)}
         /\ Entries(Written(tb, f.at, f.e)) = Entries(tb)
         /\ DOMAIN g = Fields
         /\ g.op = f.op /\ g.step = f.step /\ g.key = f.key /\ g.value = f.value
         /\ g.table = f.table /\ g.next = f.next
<1>1. PICK n : n = Run(tb, f.at, tb[f.at].v_gap)
  OBVIOUS
<1>2. g = [f EXCEPT !.at = After(tb, f.at, n), !.e = [tb[f.at] EXCEPT !.v_gap = @ + n]]
  BY <1>1 DEF Carry
<1>3. /\ g.at = After(tb, f.at, n)
      /\ g.e = [tb[f.at] EXCEPT !.v_gap = @ + n]
      /\ DOMAIN g = Fields
      /\ g.op = f.op /\ g.step = f.step /\ g.key = f.key /\ g.value = f.value
      /\ g.table = f.table /\ g.next = f.next
  BY <1>2 DEF Fields
<1> DEFINE tb1 == Written(tb, f.at, f.e)
<1>4. Hand(h, tb1, c, g.e, g.at)
  BY <1>1, <1>3, CarryHand
<1>5. /\ f.at \in 0 .. c - 1
      /\ Sound(h, tb1, c, NoHole)
      /\ Entries(tb1) = Entries(tb) \cup {f.at}
      /\ tb1[f.at] = f.e
      /\ \A j \in 0 .. c - 1 : j # f.at => tb1[j] = tb[j]
  BY PutSound
<1> HIDE DEF tb1
<1>6. tb[f.at] \in EntryType
  BY <1>5 DEF Sound, Fits
<1>7. Pair(g.e) = Pair(tb[f.at])
  BY <1>3, <1>6 DEF Pair, EntryType
<1>8. /\ Held(tb1) \cup {Pair(g.e)} = Held(tb) \cup {Pair(f.e)}
      /\ Entries(tb1) = Entries(tb)
  BY <1>5, <1>7, CarryHolds
<1> QED BY <1>3, <1>4, <1>5, <1>8 DEF tb1

\* f_put starts to put the entry.
LEMMA PlaceStarts ==
  ASSUME NEW h \in [Keys -> Hashes], NEW tb, NEW r \in DOMAIN Capacities, NEW n \in Nat,
         n < v_upper(r), Table(h, tb, r, n), NEW f, DOMAIN f = Fields, FoundPut(h, tb, f),
         tb[f.at].v_gap # f.e.v_gap, NEW g, g = [f EXCEPT !.step = "place"]
  PROVE  Placing(h, tb, r, n, g) /\ Absent(tb, g.key) /\ Pair(g.e) = <<g.key, g.value>>
<1>1. g.op = f.op /\ g.key = f.key /\ g.value = f.value /\ g.e = f.e /\ g.at = f.at
  BY DEF Fields
<1>2. v_upper(r) \in Nat /\ Load(r) \in Nat /\ v_upper(r) <= Load(r)
  BY RankIs
<1>3. Absent(tb, f.key) /\ Hand(h, tb, Capacities[r], f.e, f.at)
  BY <1>2, PutFound
<1>4. Pair(f.e) = <<f.key, f.value>>
  BY DEF FoundPut, Pair
<1> QED BY <1>1, <1>3, <1>4 DEF Placing, FoundPut

\* The entry that f_put had in hand last is put: the table is as it has to
\* be, with the new entry.
LEMMA PlaceEnds ==
  ASSUME NEW h, NEW tb, NEW r \in DOMAIN Capacities, NEW n \in Nat,
         Table(h, tb, r, n), NEW f, Placing(h, tb, r, n, f), tb[f.at].v_gap = 0,
         NEW tb1, tb1 = Written(tb, f.at, f.e)
  PROVE  /\ Table(h, tb1, r, n + 1) /\ n + 1 <= Load(r)
         /\ Held(tb1) = With(tb, f.e)
         /\ <<f.key, f.value>> \in Held(tb1)
<1>1. PICK c \in Nat \ {0} : c = Capacities[r]
  BY RankIs
<1>2. v_upper(r) \in Nat /\ Load(r) \in Nat /\ v_upper(r) <= Load(r)
  BY RankIs
<1>3. Sound(h, tb, c, NoHole) /\ Hand(h, tb, c, f.e, f.at)
  BY <1>1 DEF Table, Placing
<1>4. /\ Sound(h, tb1, c, NoHole)
      /\ Held(tb1) = Held(tb) \cup {Pair(f.e)}
      /\ Cardinality(Entries(tb1)) = Cardinality(Entries(tb)) + 1
  BY <1>3, Stored
<1> QED BY <1>1, <1>2, <1>4 DEF Table, Placing, With

\* t_table::f_put has taken the place of an entry: it goes on with that one.
LEMMA PlaceGoesOn ==
  ASSUME NEW h, NEW tb, NEW r \in DOMAIN Capacities, NEW n \in Nat,
         Table(h, tb, r, n), NEW f, DOMAIN f = Fields, Placing(h, tb, r, n, f),
         tb[f.at].v_gap # 0,
         NEW tb1, tb1 = Written(tb, f.at, f.e), NEW g, g = Carry(tb, f)
  PROVE  /\ Table(h, tb1, r, n) /\ Placing(h, tb1, r, n, g) /\ DOMAIN g = Fields
         /\ g.step = f.step /\ g.op = f.op /\ g.key = f.key
         /\ With(tb1, g.e) = With(tb, f.e)
<1>1. PICK c \in Nat \ {0} : c = Capacities[r]
  BY RankIs
<1>2. n <= Load(r)
  BY RankIs DEF Placing
<1>3. Sound(h, tb, c, NoHole) /\ Hand(h, tb, c, f.e, f.at) /\ Room(tb, c) /\ Fits(tb, c)
  BY <1>1, <1>2, RoomIn DEF Table, Placing, Sound
<1>4. f.at \in 0 .. c - 1
  BY <1>3, PutSound
<1>5. tb[f.at].v_gap > 0
  BY <1>3, <1>4, EntriesAre
<1>6. /\ Sound(h, tb1, c, NoHole)
      /\ Hand(h, tb1, c, g.e, g.at)
      /\ Held(tb1) \cup {Pair(g.e)} = Held(tb) \cup {Pair(f.e)}
      /\ Entries(tb1) = Entries(tb)
      /\ DOMAIN g = Fields
      /\ g.op = f.op /\ g.step = f.step /\ g.key = f.key /\ g.value = f.value
  BY <1>3, <1>5, Carried
<1> QED BY <1>1, <1>6 DEF Table, Placing, With

\* f_rehash starts: nothing is in the new table.
LEMMA RehashStarts ==
  ASSUME NEW h, NEW tb, NEW r \in DOMAIN Capacities, NEW n,
         Table(h, tb, r, n), NEW f, DOMAIN f = Fields,
         f.op \in {"put", "remove"}, f.key \in Keys, f.value \in Values, Absent(tb, f.key),
         Target(r, f) \in DOMAIN Capacities,
         n <= Load(Target(r, f)), f.op = "put" => n < v_upper(Target(r, f)),
         NEW g, g = Rehash(f, Target(r, f))
  PROVE  /\ Rehashing(h, tb, r, n, g) /\ Copied(tb, g)
         /\ DOMAIN g = Fields /\ g.step = "rehash"
         /\ g.op = f.op /\ g.key = f.key /\ g.value = f.value
<1>1. PICK s \in DOMAIN Capacities : s = Target(r, f)
  OBVIOUS
<1>2. PICK new : new = NewTable(s)
  OBVIOUS
<1>3. /\ g.op = f.op /\ g.key = f.key /\ g.value = f.value /\ g.step = "rehash"
      /\ g.table = new /\ g.next = 0 /\ DOMAIN g = Fields
  BY <1>1, <1>2 DEF Rehash, Fields
<1>4. Target(r, g) = s
  BY <1>1, <1>3 DEF Target
<1>5. Sound(h, new, Capacities[s], NoHole) /\ Entries(new) = {}
  BY <1>2, NewTableSound
<1>6. Before(tb, 0) = {}
  <2>1. Fits(tb, Capacities[r]) /\ Capacities[r] \in Nat \ {0}
    BY RankIs DEF Table, Sound
  <2>2. Entries(tb) \subseteq Nat
    BY <2>1, EntriesAre
  <2> QED BY <2>2 DEF Before
<1>7. Copied(tb, g)
  BY <1>3, <1>5, <1>6 DEF Copied, Held, PairsOf
<1> QED BY <1>1, <1>3, <1>4, <1>5, <1>7 DEF Rehashing

\* Entries f_rehash has taken are fewer than all as long as some are left.
LEMMA BeforeIs ==
  ASSUME NEW c \in Nat \ {0}, NEW tb, Fits(tb, c), NEW n \in Nat
  PROVE  /\ IsFiniteSet(Before(tb, n)) /\ Cardinality(Before(tb, n)) \in Nat
         /\ Cardinality(Before(tb, n)) <= Cardinality(Entries(tb))
         /\ Cardinality(Entries(tb)) \in Nat
<1>1. IsFiniteSet(Entries(tb)) /\ Before(tb, n) \subseteq Entries(tb)
  BY EntriesAre DEF Before
<1> QED BY <1>1, FS_Subset, FS_CardinalityType

\* f_rehash goes on to the next entry: those before it are one more.
LEMMA NextIs ==
  ASSUME NEW c \in Nat \ {0}, NEW tb, Fits(tb, c), NEW n \in Nat,
         NEW i \in Entries(tb), i >= n, \A j \in Entries(tb) : j >= n => i <= j
  PROVE  /\ i \in Nat
         /\ Before(tb, i + 1) = Before(tb, n) \cup {i}
         /\ Cardinality(Before(tb, i + 1)) = Cardinality(Before(tb, n)) + 1
         /\ Cardinality(Before(tb, i + 1)) <= Cardinality(Entries(tb))
<1>1. Entries(tb) \subseteq Nat
  BY EntriesAre
<1>2. Before(tb, i + 1) = Before(tb, n) \cup {i}
  <2>1. ASSUME NEW j \in Entries(tb), j < i + 1, j # i PROVE j < n
    BY <1>1, <2>1
  <2>2. ASSUME NEW j \in Entries(tb), j < n PROVE j < i + 1
    BY <1>1, <2>2
  <2>3. i < i + 1
    BY <1>1
  <2> QED BY <2>1, <2>2, <2>3 DEF Before
<1>3. i \notin Before(tb, n) /\ IsFiniteSet(Before(tb, n))
  <2>1. ~(i < n)
    BY <1>1
  <2> QED BY <2>1, BeforeIs DEF Before
<1>4. Cardinality(Before(tb, i + 1)) = Cardinality(Before(tb, n)) + 1
  BY <1>2, <1>3, FS_AddElement
<1>5. Cardinality(Before(tb, i + 1)) <= Cardinality(Entries(tb))
  <2>1. i + 1 \in Nat
    BY <1>1
  <2> QED BY <2>1, BeforeIs
<1> QED BY <1>1, <1>2, <1>4, <1>5

\* An entry with another gap.
LEMMA GapChanged ==
  ASSUME NEW x \in EntryType, NEW gap \in Nat, NEW e, e = Regapped(x, gap)
  PROVE  /\ e \in EntryType
         /\ e.v_gap = gap /\ e.v_hash = x.v_hash /\ e.v_key = x.v_key /\ e.v_value = x.v_value
BY DEF EntryType, Regapped

\* f_rehash takes the next entry.
LEMMA RehashTakes ==
  ASSUME NEW h, NEW tb, NEW r \in DOMAIN Capacities, NEW n,
         Table(h, tb, r, n), NEW f, Rehashing(h, tb, r, n, f), Copied(tb, f),
         NEW i \in Entries(tb), i >= f.next, \A j \in Entries(tb) : j >= f.next => i <= j,
         NEW e, e = Regapped(tb[i], Free(f.table, tb[i].v_hash)),
         NEW g, g.op = f.op, g.key = f.key, g.value = f.value, g.table = f.table,
         g.next = i + 1, g.at = PlaceOf(f.table, e), g.e = e
  PROVE  Rehashing(h, tb, r, n, g) /\ Copying(h, tb, r, g)
<1>1. PICK c \in Nat \ {0} : c = Capacities[r]
  BY RankIs
<1>2. PICK s \in DOMAIN Capacities : s = Target(r, f)
  BY DEF Rehashing
<1>3. PICK c1 \in Nat \ {0} : c1 = Capacities[s]
  BY RankIs
<1>4. Sound(h, tb, c, NoHole) /\ Fits(tb, c) /\ Single(tb) /\ n = Cardinality(Entries(tb))
  BY <1>1 DEF Table, Sound
<1>5. Sound(h, f.table, c1, NoHole) /\ Fits(f.table, c1) /\ f.next \in Nat /\ n <= Load(s)
  BY <1>2, <1>3 DEF Rehashing, Sound
<1>6. /\ i \in Nat
      /\ Before(tb, i + 1) = Before(tb, f.next) \cup {i}
      /\ Cardinality(Before(tb, i + 1)) = Cardinality(Before(tb, f.next)) + 1
      /\ Cardinality(Before(tb, i + 1)) <= Cardinality(Entries(tb))
  BY <1>4, <1>5, NextIs
<1>7. Room(f.table, c1)
  <2>1. Cardinality(Before(tb, f.next)) \in Nat /\ Cardinality(Entries(tb)) \in Nat
    BY <1>4, <1>5, BeforeIs
  <2>2. Load(s) \in Nat /\ Load(s) < c1
    BY <1>3, RankIs
  <2>3. Cardinality(Entries(f.table)) < c1
    BY <1>4, <1>5, <1>6, <2>1, <2>2 DEF Copied
  <2> QED BY <1>5, <2>3, RoomLeft
<1>8. Homed(h, c, tb[i], i) /\ tb[i].v_hash \in Nat
  BY <1>4, <1>6, EntryIs
<1>9. PICK gap : gap = Free(f.table, tb[i].v_hash)
  OBVIOUS
<1>10. /\ gap \in 1 .. c1
       /\ f.table[At(c1, tb[i].v_hash, gap)].v_gap < gap
       /\ Chain(f.table, c1, tb[i].v_hash, gap, NoHole)
  BY <1>5, <1>7, <1>8, <1>9, FreeIs
<1>11. /\ e.v_gap = gap /\ e.v_hash = tb[i].v_hash /\ e.v_key = tb[i].v_key
       /\ e.v_value = tb[i].v_value /\ e \in EntryType
  <2>1. tb[i] \in EntryType /\ gap \in Nat
    BY <1>8, <1>10 DEF Homed
  <2> QED BY <1>9, <2>1, GapChanged
<1>12. PlaceOf(f.table, e) = At(c1, tb[i].v_hash, gap)
  <2>1. gap \in Int
    BY <1>10
  <2> QED BY <1>5, <1>8, <1>11, <2>1, PlaceIs DEF PlaceOf
<1>13. Absent(f.table, e.v_key)
  <2> SUFFICES ASSUME NEW j \in Entries(f.table), f.table[j].v_key = tb[i].v_key PROVE FALSE
    BY <1>11 DEF Absent
  <2>1. Pair(f.table[j]) \in PairsOf(tb, Before(tb, f.next))
    BY DEF Copied, Held, PairsOf
  <2>2. PICK k \in Before(tb, f.next) : Pair(f.table[j]) = Pair(tb[k])
    BY <2>1 DEF Held, PairsOf
  <2>3. tb[k].v_key = tb[i].v_key
    BY <2>2 DEF Pair
  <2>4. k \in Entries(tb) /\ k < f.next
    BY DEF Before
  <2>5. k = i
    BY <1>4, <1>6, <2>3, <2>4 DEF Single
  <2> QED BY <1>5, <1>6, <2>4, <2>5
<1>14. Hand(h, f.table, c1, e, PlaceOf(f.table, e))
  <2>1. Homed(h, c1, e, PlaceOf(f.table, e))
    BY <1>8, <1>10, <1>11, <1>12 DEF Homed
  <2> QED BY <1>10, <1>11, <1>12, <1>13, <2>1 DEF Hand
<1>15. Target(r, g) = s
  BY <1>2 DEF Target
<1>16. Held(f.table) \cup {Pair(e)} = PairsOf(tb, Before(tb, i + 1))
  <2>1. Pair(e) = Pair(tb[i])
    BY <1>11 DEF Pair
  <2>2. PairsOf(tb, Before(tb, i + 1)) = PairsOf(tb, Before(tb, f.next)) \cup {Pair(tb[i])}
    BY <1>6 DEF Held, PairsOf
  <2> QED BY <2>1, <2>2 DEF Copied
<1>17. Copying(h, tb, r, g)
  <2>1. Cardinality(Entries(f.table)) + 1 = Cardinality(Before(tb, i + 1))
    BY <1>6 DEF Copied
  <2> QED BY <1>3, <1>14, <1>15, <1>16, <2>1 DEF Copying
<1>18. Rehashing(h, tb, r, n, g)
  <2>1. i + 1 \in Nat
    BY <1>6
  <2> QED BY <1>2, <1>15, <2>1 DEF Rehashing
<1> QED BY <1>17, <1>18

\* Once round the loop of t_table::f_put on the new table, when the place is
\* vacant,
LEMMA MoveStores ==
  ASSUME NEW h, NEW tb, NEW r \in DOMAIN Capacities, NEW n,
         NEW f, Rehashing(h, tb, r, n, f), Copying(h, tb, r, f),
         f.table[f.at].v_gap = 0, NEW tb1, tb1 = Written(f.table, f.at, f.e),
         NEW g, g.op = f.op, g.key = f.key, g.value = f.value, g.table = tb1, g.next = f.next
  PROVE  Rehashing(h, tb, r, n, g) /\ Copied(tb, g)
<1>1. PICK s \in DOMAIN Capacities : s = Target(r, f)
  BY DEF Rehashing
<1>2. PICK c1 \in Nat \ {0} : c1 = Capacities[s]
  BY RankIs
<1>3. Sound(h, f.table, c1, NoHole) /\ Hand(h, f.table, c1, f.e, f.at)
  BY <1>1, <1>2 DEF Rehashing, Copying
<1>4. /\ Sound(h, tb1, c1, NoHole)
      /\ Held(tb1) = Held(f.table) \cup {Pair(f.e)}
      /\ Cardinality(Entries(tb1)) = Cardinality(Entries(f.table)) + 1
  BY <1>3, Stored
<1>5. Target(r, g) = s
  BY <1>1 DEF Target
<1>6. Copied(tb, g)
  BY <1>4 DEF Copied, Copying
<1> QED BY <1>1, <1>2, <1>4, <1>5, <1>6 DEF Rehashing

\* and when it is not.
LEMMA MoveGoesOn ==
  ASSUME NEW h, NEW tb, NEW r \in DOMAIN Capacities, NEW n, Table(h, tb, r, n),
         NEW f, DOMAIN f = Fields, Rehashing(h, tb, r, n, f), Copying(h, tb, r, f),
         f.table[f.at].v_gap # 0, NEW tb1, tb1 = Written(f.table, f.at, f.e),
         NEW k, k = Carry(f.table, f),
         NEW g, g.op = k.op, g.key = k.key, g.value = k.value, g.table = tb1, g.next = k.next,
         g.at = k.at, g.e = k.e
  PROVE  /\ Rehashing(h, tb, r, n, g) /\ Copying(h, tb, r, g)
         /\ g.op = f.op /\ g.key = f.key /\ g.value = f.value
<1>1. PICK s \in DOMAIN Capacities : s = Target(r, f)
  BY DEF Rehashing
<1>2. PICK c1 \in Nat \ {0} : c1 = Capacities[s]
  BY RankIs
<1>3. Sound(h, f.table, c1, NoHole) /\ Hand(h, f.table, c1, f.e, f.at) /\ Fits(f.table, c1)
  BY <1>1, <1>2 DEF Rehashing, Copying, Sound
<1>4. Room(f.table, c1)
  <2>1. PICK c \in Nat \ {0} : c = Capacities[r]
    BY RankIs
  <2>2. Fits(tb, c) /\ n = Cardinality(Entries(tb)) /\ f.next \in Nat /\ n <= Load(s)
    BY <1>1, <2>1 DEF Table, Sound, Rehashing
  <2>3. /\ Cardinality(Before(tb, f.next)) \in Nat /\ Cardinality(Entries(tb)) \in Nat
        /\ Cardinality(Before(tb, f.next)) <= Cardinality(Entries(tb))
    BY <2>2, BeforeIs
  <2>4. Load(s) \in Nat /\ Load(s) < c1
    BY <1>2, RankIs
  <2>5. Cardinality(Entries(f.table)) \in Nat
    BY <1>3, EntriesAre, FS_CardinalityType
  <2>6. Cardinality(Entries(f.table)) < c1
    BY <2>2, <2>3, <2>4, <2>5 DEF Copying
  <2> QED BY <1>3, <2>6, RoomLeft
<1>5. f.table[f.at].v_gap > 0
  <2>1. f.at \in 0 .. c1 - 1
    BY <1>3, PutSound
  <2> QED BY <1>3, <2>1, EntriesAre
<1>6. /\ Sound(h, tb1, c1, NoHole)
      /\ Hand(h, tb1, c1, k.e, k.at)
      /\ Held(tb1) \cup {Pair(k.e)}
           = Held(f.table) \cup {Pair(f.e)}
      /\ Entries(tb1) = Entries(f.table)
      /\ DOMAIN k = Fields
      /\ k.op = f.op /\ k.step = f.step /\ k.key = f.key /\ k.value = f.value
      /\ k.next = f.next
  BY <1>3, <1>4, <1>5, Carried
<1>7. g.op = f.op /\ g.key = f.key /\ g.value = f.value /\ g.next = f.next
  BY <1>6
<1>8. Target(r, g) = s
  BY <1>1, <1>7 DEF Target
<1>9. Copying(h, tb, r, g)
  BY <1>2, <1>6, <1>7, <1>8 DEF Copying
<1> QED BY <1>1, <1>2, <1>6, <1>7, <1>8, <1>9 DEF Rehashing

\* f_rehash has put all entries into the new table.
LEMMA RehashEnds ==
  ASSUME NEW h, NEW tb, NEW r \in DOMAIN Capacities, NEW n, Table(h, tb, r, n),
         NEW f, Rehashing(h, tb, r, n, f), Copied(tb, f),
         \A i \in Entries(tb) : ~(i >= f.next)
  PROVE  /\ Table(h, f.table, Target(r, f), n)
         /\ Held(f.table) = Held(tb)
         /\ Absent(f.table, f.key)
<1>1. PICK c \in Nat \ {0} : c = Capacities[r]
  BY RankIs
<1>2. Fits(tb, c) /\ n = Cardinality(Entries(tb)) /\ f.next \in Nat
  BY <1>1 DEF Table, Sound, Rehashing
<1>3. Before(tb, f.next) = Entries(tb)
  <2>1. Entries(tb) \subseteq Nat
    BY <1>2, EntriesAre
  <2>2. \A i \in Entries(tb) : i < f.next
    BY <1>2, <2>1
  <2> QED BY <2>2 DEF Before
<1>4. Held(f.table) = Held(tb)
  BY <1>3 DEF Copied, Held
<1>5. Absent(f.table, f.key)
  <2> SUFFICES ASSUME NEW j \in Entries(f.table) PROVE f.table[j].v_key # f.key
    BY DEF Absent
  <2>1. PICK i \in Entries(tb) : Pair(f.table[j]) = Pair(tb[i])
    BY <1>4 DEF Held, PairsOf
  <2> QED BY <2>1 DEF Pair, Absent, Rehashing
<1> QED BY <1>2, <1>3, <1>4, <1>5 DEF Table, Rehashing, Copied

\* f_put finds the place in the new table.
LEMMA PlaceAnew ==
  ASSUME NEW h \in [Keys -> Hashes], NEW tb, NEW r \in DOMAIN Capacities, NEW n \in Nat,
         n < v_upper(r), Table(h, tb, r, n), NEW g, FoundPut(h, tb, g), Absent(tb, g.key)
  PROVE  Placing(h, tb, r, n, g) /\ Pair(g.e) = <<g.key, g.value>>
<1>1. v_upper(r) \in Nat /\ Load(r) \in Nat /\ v_upper(r) <= Load(r)
  BY RankIs
<1>2. tb[g.at].v_gap # g.e.v_gap
  BY <1>1, PutFound DEF Absent
<1>3. Hand(h, tb, Capacities[r], g.e, g.at)
  BY <1>1, <1>2, PutFound
<1>4. Pair(g.e) = <<g.key, g.value>>
  BY DEF FoundPut, Pair
<1> QED BY <1>3, <1>4 DEF Placing, FoundPut

\* f_put replaces the value of the key.
LEMMA Replaces ==
  ASSUME NEW h, NEW tb, NEW r \in DOMAIN Capacities, NEW n, Table(h, tb, r, n),
         NEW i \in Entries(tb), NEW v \in Values, NEW tb1, tb1 = Valued(tb, i, v)
  PROVE  /\ Table(h, tb1, r, n)
         /\ Held(tb1)
              = Without(Held(tb), tb[i].v_key) \cup {<<tb[i].v_key, v>>}
         /\ tb[i].v_key \in Keys
<1>1. PICK c \in Nat \ {0} : c = Capacities[r]
  BY RankIs
<1>2. Sound(h, tb, c, NoHole) /\ Single(tb)
  BY <1>1 DEF Table, Sound
<1>3. /\ Sound(h, tb1, c, NoHole)
      /\ Entries(tb1) = Entries(tb)
      /\ tb1[i].v_key = tb[i].v_key /\ tb1[i].v_value = v
      /\ \A j \in Entries(tb) : j # i => tb1[j] = tb[j]
  BY <1>2, ReplaceSound
<1>4. Table(h, tb1, r, n)
  BY <1>1, <1>3 DEF Table
<1>5. tb[i].v_key \in Keys
  BY <1>2, EntryIs DEF Homed
<1>6. ASSUME NEW p
      PROVE  p \in Held(tb1) <=>
               \/ p \in Held(tb) /\ p[1] # tb[i].v_key
               \/ p = <<tb[i].v_key, v>>
  <2>1. ASSUME NEW j \in Entries(tb), p = Pair(tb1[j]), j # i
        PROVE  p \in Held(tb) /\ p[1] # tb[i].v_key
    BY <1>2, <1>3, <2>1 DEF Held, PairsOf, Pair, Single
  <2>2. Pair(tb1[i]) = <<tb[i].v_key, v>>
    BY <1>3 DEF Pair
  <2>3. ASSUME NEW j \in Entries(tb), p = Pair(tb[j]), p[1] # tb[i].v_key
        PROVE  p \in Held(tb1)
    <3>1. j # i
      BY <2>3 DEF Pair
    <3> QED BY <1>3, <2>3, <3>1 DEF Held, PairsOf
  <2> QED BY <1>3, <2>1, <2>2, <2>3 DEF Held, PairsOf
<1> QED BY <1>4, <1>5, <1>6 DEF Without

\* f_remove takes an entry out.
LEMMA RemoveTakes ==
  ASSUME NEW h, NEW tb, NEW r \in DOMAIN Capacities, NEW n \in Nat, Table(h, tb, r, n),
         NEW f, f.op = "remove", f.at \in Entries(tb), tb[f.at].v_key = f.key,
         NEW tb1, tb1 = Written(tb, f.at, Vacant),
         NEW g, g.op = f.op, g.key = f.key, g.at = f.at, g.value = tb[f.at].v_value
  PROVE  /\ Filling(h, tb1, r, n, g)
         /\ Held(tb1) \cup {<<g.key, g.value>>} = Held(tb)
<1>1. PICK c \in Nat \ {0} : c = Capacities[r]
  BY RankIs
<1>2. Sound(h, tb, c, NoHole) /\ Fits(tb, c) /\ Single(tb) /\ n = Cardinality(Entries(tb))
  BY <1>1 DEF Table, Sound
<1>3. PICK i \in Entries(tb) : i = f.at
  OBVIOUS
<1>4. i \in 0 .. c - 1 /\ Homed(h, c, tb[i], i)
  BY <1>2, EntryIs
<1>5. /\ Fits(tb1, c) /\ tb1[i] = Vacant
      /\ \A j \in 0 .. c - 1 : j # i => tb1[j] = tb[j]
  <2>1. Vacant \in EntryType
    BY DEF Vacant, EntryType
  <2> QED BY <1>2, <1>3, <1>4, <2>1 DEF Fits, Written
<1>6. tb1[i].v_gap = 0
  BY <1>5 DEF Vacant
<1>7. /\ Sound(h, tb1, c, i)
      /\ Entries(tb1) = Entries(tb) \ {i}
      /\ \A j \in Entries(tb) \ {i} : tb1[j] = tb[j]
  BY <1>2, <1>5, <1>6, RemoveSound
<1>8. Held(tb1) \cup {<<g.key, g.value>>} = Held(tb)
  <2>1. Pair(tb[i]) = <<g.key, g.value>>
    BY <1>3 DEF Pair
  <2> QED BY <1>7, <2>1 DEF Held, PairsOf
<1>9. n = Cardinality(Entries(tb1)) + 1
  <2>1. IsFiniteSet(Entries(tb))
    BY <1>2, EntriesAre
  <2>2. Cardinality(Entries(tb1)) = Cardinality(Entries(tb)) - 1 /\ Cardinality(Entries(tb)) \in Nat
    BY <1>7, <2>1, FS_RemoveElement, FS_CardinalityType
  <2> QED BY <1>2, <2>2
<1>10. Absent(tb1, g.key)
  BY <1>2, <1>3, <1>7 DEF Absent, Single
<1>11. g.key \in Keys /\ g.value \in Values
  BY <1>3, <1>4 DEF Homed
<1> QED BY <1>1, <1>3, <1>4, <1>6, <1>7, <1>8, <1>9, <1>10, <1>11 DEF Filling

\* Once round the loop of f_remove,
LEMMA FillGoesOn ==
  ASSUME NEW h, NEW tb, NEW r \in DOMAIN Capacities, NEW n,
         NEW f, Filling(h, tb, r, n, f),
         NEW gap \in Nat, gap = tb[After(tb, f.at, 1)].v_gap, gap > 1,
         NEW end \in Entries(tb), end # f.at, gap <= tb[end].v_gap,
         At(Capacities[r], tb[end].v_hash, gap - 1) = f.at,
         NEW e, e = Regapped(tb[end], gap - 1),
         NEW tb1, tb1 = Written(Written(tb, f.at, e), end, Vacant),
         NEW g, g.op = f.op, g.key = f.key, g.value = f.value, g.at = end
  PROVE  /\ Filling(h, tb1, r, n, g)
         /\ Held(tb1) = Held(tb)
<1>1. PICK c \in Nat \ {0} : c = Capacities[r]
  BY RankIs
<1>2. PICK hole \in 0 .. c - 1 : hole = f.at
  BY <1>1 DEF Filling
<1>3. /\ Sound(h, tb, c, hole) /\ Fits(tb, c) /\ tb[hole].v_gap = 0
      /\ Absent(tb, f.key) /\ n = Cardinality(Entries(tb)) + 1
  BY <1>1, <1>2 DEF Filling, Sound
<1>4. end # hole /\ At(c, tb[end].v_hash, gap - 1) = hole
  BY <1>1, <1>2
<1>5. end \in 0 .. c - 1 /\ tb[end] \in EntryType
  BY <1>3, <1>4, EntryIs DEF Homed
<1>6. /\ e \in EntryType /\ e.v_gap = gap - 1
      /\ e.v_hash = tb[end].v_hash /\ e.v_key = tb[end].v_key /\ e.v_value = tb[end].v_value
  <2>1. PICK x \in Nat : x = gap - 1
    OBVIOUS
  <2>2. PICK y \in EntryType : y = tb[end]
    BY <1>5
  <2>3. e = Regapped(y, x)
    BY <2>1, <2>2
  <2>4. /\ e \in EntryType /\ e.v_gap = x
        /\ e.v_hash = y.v_hash /\ e.v_key = y.v_key /\ e.v_value = y.v_value
    BY <2>3 DEF Regapped, EntryType
  <2> QED BY <2>1, <2>2, <2>4
<1>7. /\ Fits(tb1, c) /\ tb1[end] = Vacant /\ tb1[hole] = e
      /\ \A j \in 0 .. c - 1 : j # hole /\ j # end => tb1[j] = tb[j]
  <2>1. Vacant \in EntryType
    BY DEF Vacant, EntryType
  <2> QED BY <1>2, <1>3, <1>4, <1>5, <1>6, <2>1 DEF Fits, Written
<1>8. tb1[end].v_gap = 0
  BY <1>7 DEF Vacant
<1>9. gap = tb[After(tb, hole, 1)].v_gap
  BY <1>2
<1>10. /\ Sound(h, tb1, c, end)
       /\ Entries(tb1) = (Entries(tb) \ {end}) \cup {hole}
       /\ \A j \in Entries(tb) \ {end} : tb1[j] = tb[j]
  BY <1>3, <1>4, <1>6, <1>7, <1>8, <1>9, FillSound
<1>11. hole \notin Entries(tb) /\ IsFiniteSet(Entries(tb))
  BY <1>3, EntriesAre
<1>12. Pair(tb1[hole]) = Pair(tb[end])
  BY <1>6, <1>7 DEF Pair
<1>13. Held(tb1) = Held(tb)
  BY <1>4, <1>10, <1>12 DEF Held, PairsOf
<1>14. Cardinality(Entries(tb1)) = Cardinality(Entries(tb))
  <2>1. IsFiniteSet(Entries(tb) \ {end}) /\ hole \notin Entries(tb) \ {end}
    BY <1>11, FS_RemoveElement
  <2>2. /\ Cardinality(Entries(tb) \ {end}) = Cardinality(Entries(tb)) - 1
        /\ Cardinality(Entries(tb)) \in Nat
    BY <1>4, <1>11, FS_RemoveElement, FS_CardinalityType
  <2>3. Cardinality((Entries(tb) \ {end}) \cup {hole}) = Cardinality(Entries(tb) \ {end}) + 1
    <3>1. PICK S : S = Entries(tb) \ {end}
      OBVIOUS
    <3> QED BY <2>1, <3>1, FS_AddElement
  <2> QED BY <1>10, <2>2, <2>3
<1>15. Absent(tb1, g.key)
  <2> SUFFICES ASSUME NEW j \in Entries(tb1) PROVE tb1[j].v_key # f.key
    BY DEF Absent
  <2>1. CASE j = hole
    <3>1. tb[end].v_key # f.key
      BY <1>3 DEF Absent
    <3>2. tb1[j].v_key = tb[end].v_key
      BY <1>6, <1>7, <2>1
    <3> QED BY <3>1, <3>2
  <2>2. CASE j # hole
    BY <1>3, <1>10, <2>2 DEF Absent
  <2> QED BY <2>1, <2>2
<1> QED BY <1>1, <1>3, <1>5, <1>8, <1>10, <1>13, <1>14, <1>15 DEF Filling

\* and when it ends.
LEMMA FillEnds ==
  ASSUME NEW h, NEW tb, NEW r \in DOMAIN Capacities, NEW n,
         NEW f, Filling(h, tb, r, n, f), tb[After(tb, f.at, 1)].v_gap <= 1
  PROVE  Table(h, tb, r, n - 1) /\ n - 1 \in Nat
<1>1. PICK c \in Nat \ {0} : c = Capacities[r]
  BY RankIs
<1>2. f.at \in 0 .. c - 1 /\ Sound(h, tb, c, f.at) /\ n = Cardinality(Entries(tb)) + 1
  BY <1>1 DEF Filling
<1>3. Sound(h, tb, c, NoHole)
  BY <1>2, FillDone
<1>4. Cardinality(Entries(tb)) \in Nat
  BY <1>2, EntriesAre, FS_CardinalityType DEF Sound
<1> QED BY <1>1, <1>2, <1>3, <1>4 DEF Table
-----------------------------------------------------------------------------
(***************************************************************************)
(* What the map shows.                                                     *)
(***************************************************************************)
\* No two entries of a table have the same key.
LEMMA HeldIs ==
  ASSUME NEW c \in Nat \ {0}, NEW h, NEW tb, NEW hole, Sound(h, tb, c, hole)
  PROVE  /\ Functional(Held(tb))
         /\ IsFiniteSet(KeysOf(Held(tb)))
         /\ Cardinality(KeysOf(Held(tb))) = Cardinality(Entries(tb))
         /\ \A i \in Entries(tb) : tb[i].v_key \in KeysOf(Held(tb))
         /\ \A k : Absent(tb, k) => k \notin KeysOf(Held(tb))
<1>1. \A i \in Entries(tb) : tb[i].v_key \in Keys /\ tb[i].v_value \in Values
  BY EntryIs DEF Homed
<1>2. Single(tb)
  BY DEF Sound
<1>3. Functional(Held(tb))
  BY <1>1, <1>2 DEF Functional, Held, PairsOf, Pair, Single
<1>4. KeysOf(Held(tb)) = {tb[i].v_key : i \in Entries(tb)}
  <2>1. \A i : Pair(tb[i])[1] = tb[i].v_key
    BY DEF Pair
  <2>2. KeysOf(Held(tb)) = {Pair(tb[i])[1] : i \in Entries(tb)}
    BY DEF KeysOf, Held, PairsOf
  <2> QED BY <2>1, <2>2
<1> QED BY <1>3, <1>4, KeyCount DEF Absent

\* One more pair.
LEMMA OneMore ==
  ASSUME NEW P, Functional(P), NEW k \in Keys, k \notin KeysOf(P), NEW v \in Values
  PROVE  /\ Functional(P \cup {<<k, v>>})
         /\ Without(P \cup {<<k, v>>}, k) = P
         /\ Without(P, k) = P
<1>1. \A p \in P : p[1] # k
  BY DEF KeysOf
<1> QED BY <1>1 DEF Functional, Without

\* A pair put into the place of another one of its key, if any.
LEMMA OnePut ==
  ASSUME NEW P, Functional(P), NEW k, NEW v, <<k, v>> \in P, IsFiniteSet(KeysOf(P))
  PROVE  /\ P = Without(Without(P, k), k) \cup {<<k, v>>}
         /\ Functional(Without(P, k))
         /\ k \in Keys /\ v \in Values
         /\ Cardinality(KeysOf(Without(P, k))) = Cardinality(KeysOf(P)) - 1
<1>1. \A p \in P : p[1] = k => p = <<k, v>>
  BY DEF Functional
<1>2. P = Without(Without(P, k), k) \cup {<<k, v>>}
  BY <1>1 DEF Without
<1>3. Functional(Without(P, k)) /\ k \in Keys /\ v \in Values
  BY DEF Functional, Without
<1>4. KeysOf(Without(P, k)) = KeysOf(P) \ {k} /\ k \in KeysOf(P)
  BY DEF KeysOf, Without
<1> QED BY <1>2, <1>3, <1>4, FS_RemoveElement
=============================================================================
