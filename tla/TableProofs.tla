----------------------------- MODULE TableProofs -----------------------------
(***************************************************************************)
(* What the searches of t_table find and what its loops keep, for tables   *)
(* of any capacity and any hashes.                                         *)
(*                                                                         *)
(* GapsTrue speaks of neighbours, and a search needs more: that all places *)
(* from the slot of an entry to the entry are taken by entries that are at *)
(* least as far from home there.  Chain says so for one entry and Sound    *)
(* for a table.  It is kept by every step, so that nothing here needs an   *)
(* induction along the table.                                              *)
(***************************************************************************)
EXTENDS Map, FiniteSetTheorems, WellFoundedInduction, TLAPS

EntryType ==
  [v_gap : Nat, v_hash : Nat, v_key : Keys \cup {Null}, v_value : Values \cup {Null}]

Fits(tb, c) == tb \in [0 .. c - 1 -> EntryType]

\* The slot of a hash, and the place k - 1 behind it, in a table of capacity c.
Home(c, hash) == hash % c
Ring(c, slot, k) == IF slot + (k - 1) < c THEN slot + (k - 1) ELSE slot + (k - 1) - c
At(c, hash, k) == Ring(c, Home(c, hash), k)

\* A search for an entry of this hash and gap gets there.  The place hole may
\* be vacant.
Chain(tb, c, hash, gap, hole) ==
  \A k \in 1 .. gap - 1 :
    At(c, hash, k) # hole => tb[At(c, hash, k)].v_gap >= k

\* e is what an entry at the place i may be.
Homed(h, c, e, i) ==
  /\ e \in EntryType
  /\ e.v_key \in Keys /\ e.v_value \in Values
  /\ e.v_hash = h[e.v_key]
  /\ e.v_gap \in 1 .. c
  /\ At(c, e.v_hash, e.v_gap) = i

Single(tb) == \A i, j \in Entries(tb) : tb[i].v_key = tb[j].v_key => i = j

Sound(h, tb, c, hole) ==
  /\ Fits(tb, c)
  /\ \A i \in Entries(tb) :
       /\ Homed(h, c, tb[i], i)
       /\ Chain(tb, c, tb[i].v_hash, tb[i].v_gap, hole)
  /\ Single(tb)

NoHole == -1

Absent(tb, k) == \A i \in Entries(tb) : tb[i].v_key # k

Room(tb, c) == \E i \in 0 .. c - 1 : tb[i].v_gap = 0

\* t_table::f_put may put e at the place i.
Hand(h, tb, c, e, i) ==
  /\ Homed(h, c, e, i)
  /\ tb[i].v_gap < e.v_gap
  /\ Chain(tb, c, e.v_hash, e.v_gap, NoHole)
  /\ Absent(tb, e.v_key)

\* What a table holds in some places, and what it holds.
PairsOf(tb, S) == {Pair(tb[i]) : i \in S}
Held(tb) == PairsOf(tb, Entries(tb))

\* The table with e at the place i.
Written(tb, i, e) == [tb EXCEPT ![i] = e]

\* The table with v as the value of the entry at the place i.
Valued(tb, i, v) == [tb EXCEPT ![i].v_value = v]

\* The entry with another gap.
Regapped(e, gap) == [e EXCEPT !.v_gap = gap]
-----------------------------------------------------------------------------
\* A search that finds something finds the first.
LEMMA MinIs ==
  ASSUME NEW S \in SUBSET Nat, S # {}
  PROVE  Min(S) \in S /\ \A y \in S : Min(S) <= y
<1> DEFINE less == {p \in Nat \X Nat : p[1] < p[2]}
<1>1. IsWellFoundedOn(less, Nat)
  BY NatLessThanWellFounded DEF OpToRel
<1> HIDE DEF less
<1>2. PICK x \in S : \A y \in S : ~(<<y, x>> \in less)
  BY <1>1, WFMin
<1>3. ASSUME NEW y \in S PROVE x <= y
  <2>1. x \in Nat /\ y \in Nat
    OBVIOUS
  <2>2. y < x => <<y, x>> \in less
    BY <2>1 DEF less
  <2> QED BY <1>2, <2>1, <2>2
<1> QED BY <1>3 DEF Min

\* The number of places is v_capacity.
LEMMA CapacityOf ==
  ASSUME NEW c \in Nat \ {0}, NEW tb, Fits(tb, c)
  PROVE  Capacity(tb) = c
<1>1. DOMAIN tb = 0 .. c - 1
  BY DEF Fits
<1>2. Cardinality(0 .. c - 1) = c
  BY FS_Interval
<1> QED BY <1>1, <1>2 DEF Capacity

\* A slot is a place of the table.
LEMMA HomeType ==
  ASSUME NEW c \in Nat \ {0}, NEW hash \in Nat
  PROVE  Home(c, hash) \in 0 .. c - 1
BY DEF Home

\* After and Place are steps round a ring.
LEMMA PlaceIs ==
  ASSUME NEW c \in Nat \ {0}, NEW tb, Fits(tb, c), NEW hash \in Nat, NEW k \in Int
  PROVE  Place(tb, hash, k) = At(c, hash, k)
BY CapacityOf DEF Place, After, At, Ring, Home

\* Going on by n places is going n places round the ring.
LEMMA AfterIs ==
  ASSUME NEW c \in Nat \ {0}, NEW tb, Fits(tb, c), NEW i \in 0 .. c - 1, NEW n \in Int
  PROVE  After(tb, i, n) = Ring(c, i, n + 1)
<1>1. Capacity(tb) = c
  BY CapacityOf
<1> QED BY <1>1 DEF After, Ring

\* Going round stays inside the table,
LEMMA RingType ==
  ASSUME NEW c \in Nat \ {0}, NEW slot \in 0 .. c - 1, NEW k \in 1 .. c
  PROVE  Ring(c, slot, k) \in 0 .. c - 1
BY DEF Ring

\* meets no place twice in v_capacity places,
LEMMA RingOnce ==
  ASSUME NEW c \in Nat \ {0}, NEW slot \in 0 .. c - 1, NEW k \in 1 .. c, NEW l \in 1 .. c,
         Ring(c, slot, k) = Ring(c, slot, l)
  PROVE  k = l
BY DEF Ring

\* and meets every place.
LEMMA RingAll ==
  ASSUME NEW c \in Nat \ {0}, NEW slot \in 0 .. c - 1, NEW i \in 0 .. c - 1
  PROVE  \E k \in 1 .. c : Ring(c, slot, k) = i
<1>1. CASE i >= slot
  <2>1. i - slot + 1 \in 1 .. c /\ Ring(c, slot, i - slot + 1) = i
    BY <1>1 DEF Ring
  <2> QED BY <2>1
<1>2. CASE i < slot
  <2>1. i - slot + 1 + c \in 1 .. c /\ Ring(c, slot, i - slot + 1 + c) = i
    BY <1>2 DEF Ring
  <2> QED BY <2>1
<1> QED BY <1>1, <1>2

\* Two ways to a place are the same some places before it.
LEMMA RingBack ==
  ASSUME NEW c \in Nat \ {0}, NEW slot \in 0 .. c - 1, NEW home \in 0 .. c - 1,
         NEW k \in 1 .. c, NEW l \in 1 .. c,
         Ring(c, slot, k) = Ring(c, home, l),
         NEW n \in Nat, n < k, n < l
  PROVE  Ring(c, slot, k - n) = Ring(c, home, l - n)
BY DEF Ring

\* Two walks that meet have met all along, as far back as the shorter goes.
LEMMA RingStart ==
  ASSUME NEW c \in Nat \ {0}, NEW slot \in 0 .. c - 1, NEW i \in 0 .. c - 1,
         NEW k \in 1 .. c, NEW n \in 1 .. c, n <= k,
         Ring(c, slot, k) = Ring(c, i, n)
  PROVE  Ring(c, slot, k - (n - 1)) = i
BY DEF Ring

\* The way on from a place on the way.
LEMMA RingOn ==
  ASSUME NEW c \in Nat \ {0}, NEW slot \in 0 .. c - 1, NEW k \in 1 .. c,
         NEW n \in Nat, n <= c
  PROVE  k + n <= c => Ring(c, Ring(c, slot, k), n + 1) = Ring(c, slot, k + n)
BY DEF Ring
-----------------------------------------------------------------------------
(***************************************************************************)
(* Tables.                                                                 *)
(***************************************************************************)
LEMMA AtType ==
  ASSUME NEW c \in Nat \ {0}, NEW hash \in Nat, NEW k \in 1 .. c
  PROVE  At(c, hash, k) \in 0 .. c - 1
BY HomeType, RingType DEF At

\* Entries of the same hash with different gaps have different places.
LEMMA AtOnce ==
  ASSUME NEW c \in Nat \ {0}, NEW hash \in Nat, NEW k \in 1 .. c, NEW l \in 1 .. c,
         At(c, hash, k) = At(c, hash, l)
  PROVE  k = l
BY HomeType, RingOnce DEF At

\* The entries of a table are finitely many places of it.
LEMMA EntriesAre ==
  ASSUME NEW c \in Nat \ {0}, NEW tb, Fits(tb, c)
  PROVE  /\ DOMAIN tb = 0 .. c - 1
         /\ \A i \in 0 .. c - 1 : tb[i].v_gap \in Nat
         /\ Entries(tb) = {i \in 0 .. c - 1 : tb[i].v_gap > 0}
         /\ IsFiniteSet(Entries(tb))
<1>1. DOMAIN tb = 0 .. c - 1 /\ \A i \in 0 .. c - 1 : tb[i].v_gap \in Nat
  BY DEF Fits, EntryType
<1>2. Entries(tb) = {i \in 0 .. c - 1 : tb[i].v_gap > 0}
  BY <1>1 DEF Entries
<1>3. IsFiniteSet(0 .. c - 1)
  BY FS_Interval
<1>4. Entries(tb) \in SUBSET (0 .. c - 1)
  BY <1>2
<1> QED BY <1>1, <1>2, <1>3, <1>4, FS_Subset

\* What is said of the entries of a table.
LEMMA EntryIs ==
  ASSUME NEW c \in Nat \ {0}, NEW h, NEW tb, NEW hole, Sound(h, tb, c, hole),
         NEW i \in Entries(tb)
  PROVE  /\ i \in 0 .. c - 1
         /\ Homed(h, c, tb[i], i)
         /\ tb[i].v_hash \in Nat /\ tb[i].v_gap \in 1 .. c
         /\ At(c, tb[i].v_hash, tb[i].v_gap) = i
         /\ Chain(tb, c, tb[i].v_hash, tb[i].v_gap, hole)
<1>1. Fits(tb, c)
  BY DEF Sound
<1>2. i \in 0 .. c - 1
  BY <1>1, EntriesAre
<1>3. Homed(h, c, tb[i], i) /\ Chain(tb, c, tb[i].v_hash, tb[i].v_gap, hole)
  BY DEF Sound
<1> QED BY <1>2, <1>3 DEF Homed, EntryType

\* A way stays where gaps do not get less.
LEMMA ChainUp ==
  ASSUME NEW c \in Nat \ {0}, NEW tb, NEW tb1, Fits(tb, c), Fits(tb1, c),
         NEW hash \in Nat, NEW gap \in Nat, gap <= c, NEW hole, NEW hole1,
         Chain(tb, c, hash, gap, hole),
         \A k \in 1 .. gap - 1 : At(c, hash, k) # hole1 =>
           /\ At(c, hash, k) # hole
           /\ tb1[At(c, hash, k)].v_gap >= tb[At(c, hash, k)].v_gap
  PROVE  Chain(tb1, c, hash, gap, hole1)
<1> SUFFICES ASSUME NEW k \in 1 .. gap - 1, At(c, hash, k) # hole1
             PROVE  tb1[At(c, hash, k)].v_gap >= k
  BY DEF Chain
<1>1. k \in 1 .. c
  OBVIOUS
<1>2. PICK i \in 0 .. c - 1 : i = At(c, hash, k)
  BY <1>1, AtType
<1>3. tb[i].v_gap \in Nat /\ tb1[i].v_gap \in Nat
  BY EntriesAre
<1>4. tb[i].v_gap >= k
  BY <1>2 DEF Chain
<1>5. tb1[i].v_gap >= tb[i].v_gap
  BY <1>2
<1> QED BY <1>2, <1>3, <1>4, <1>5

\* A new table is sound, and has no entry.
LEMMA NewTableSound ==
  ASSUME NEW h, NEW r \in DOMAIN Capacities
  PROVE  /\ Sound(h, NewTable(r), Capacities[r], NoHole)
         /\ Entries(NewTable(r)) = {}
<1>1. Capacities[r] \in Nat \ {0}
  BY CapacitiesAssumption DEF Growing
<1>2. Fits(NewTable(r), Capacities[r])
  BY <1>1 DEF NewTable, Fits, EntryType, Vacant
<1>3. Entries(NewTable(r)) = {}
  BY <1>1 DEF NewTable, Entries, Vacant
<1> QED BY <1>2, <1>3 DEF Sound, Single

\* A table with fewer entries than places has a vacant place.
LEMMA RoomLeft ==
  ASSUME NEW c \in Nat \ {0}, NEW tb, Fits(tb, c), Cardinality(Entries(tb)) < c
  PROVE  Room(tb, c)
<1>1. Cardinality(0 .. c - 1) = c
  BY FS_Interval
<1>2. Entries(tb) # 0 .. c - 1
  BY <1>1
<1>3. PICK i \in 0 .. c - 1 : i \notin Entries(tb)
  BY <1>2, EntriesAre
<1>4. tb[i].v_gap = 0
  BY <1>3, EntriesAre
<1> QED BY <1>4 DEF Room

\* What t_table::f_put puts keeps the table sound, whether the place was
\* vacant or not.
LEMMA PutSound ==
  ASSUME NEW c \in Nat \ {0}, NEW h, NEW tb, Sound(h, tb, c, NoHole),
         NEW e, NEW i, Hand(h, tb, c, e, i)
  PROVE  /\ i \in 0 .. c - 1
         /\ Sound(h, Written(tb, i, e), c, NoHole)
         /\ Entries(Written(tb, i, e)) = Entries(tb) \cup {i}
         /\ Written(tb, i, e)[i] = e
         /\ \A j \in 0 .. c - 1 : j # i => Written(tb, i, e)[j] = tb[j]
<1> DEFINE tb1 == Written(tb, i, e)
<1>1. e \in EntryType /\ e.v_gap \in 1 .. c /\ e.v_hash \in Nat
  BY DEF Hand, Homed, EntryType
<1>2. i \in 0 .. c - 1
  BY <1>1, AtType DEF Hand, Homed
<1>3. Fits(tb, c) /\ Fits(tb1, c)
  BY <1>1, <1>2 DEF Sound, Fits, Written
<1>4. tb1[i] = e /\ \A j \in 0 .. c - 1 : j # i => tb1[j] = tb[j]
  BY <1>2, <1>3 DEF Fits, Written
<1> HIDE DEF tb1
<1>5. Entries(tb1) = Entries(tb) \cup {i}
  BY <1>1, <1>2, <1>3, <1>4, EntriesAre
<1>6. \A j \in 0 .. c - 1 : tb1[j].v_gap >= tb[j].v_gap
  <2> SUFFICES ASSUME NEW j \in 0 .. c - 1 PROVE tb1[j].v_gap >= tb[j].v_gap
    OBVIOUS
  <2>1. tb[j].v_gap \in Nat /\ tb1[j].v_gap \in Nat
    BY <1>3, EntriesAre
  <2>2. CASE j = i
    BY <1>1, <1>4, <2>1, <2>2 DEF Hand
  <2>3. CASE j # i
    BY <1>4, <2>1, <2>3
  <2> QED BY <2>2, <2>3
<1>7. ASSUME NEW hash \in Nat, NEW gap \in 1 .. c, Chain(tb, c, hash, gap, NoHole)
      PROVE  Chain(tb1, c, hash, gap, NoHole)
  <2>1. \A k \in 1 .. gap - 1 : At(c, hash, k) # NoHole =>
           /\ At(c, hash, k) # NoHole
           /\ tb1[At(c, hash, k)].v_gap >= tb[At(c, hash, k)].v_gap
    BY <1>6, AtType
  <2>2. gap \in Nat /\ gap <= c
    OBVIOUS
  <2> QED BY <1>3, <1>7, <2>1, <2>2, ChainUp
<1>8. ASSUME NEW j \in Entries(tb1)
      PROVE  Homed(h, c, tb1[j], j) /\ Chain(tb1, c, tb1[j].v_hash, tb1[j].v_gap, NoHole)
  <2>1. CASE j = i
    BY <1>1, <1>4, <1>7, <2>1 DEF Hand
  <2>2. CASE j # i
    <3>1. j \in Entries(tb) /\ tb1[j] = tb[j]
      BY <1>3, <1>4, <1>5, <2>2, EntriesAre
    <3> QED BY <1>7, <3>1, EntryIs
  <2> QED BY <2>1, <2>2
<1>9. Single(tb1)
  <2> SUFFICES ASSUME NEW j \in Entries(tb1), NEW k \in Entries(tb1),
                      tb1[j].v_key = tb1[k].v_key
               PROVE  j = k
    BY DEF Single
  <2>1. \A l \in Entries(tb1) : l # i => l \in Entries(tb) /\ tb1[l] = tb[l]
    BY <1>3, <1>4, <1>5, EntriesAre
  <2> QED BY <1>4, <2>1 DEF Sound, Single, Hand, Absent
<1>10. Sound(h, tb1, c, NoHole)
  BY <1>3, <1>8, <1>9 DEF Sound
<1> QED BY <1>2, <1>4, <1>5, <1>10 DEF tb1

\* The places behind an entry are those its hash has with greater gaps.
LEMMA WayOn ==
  ASSUME NEW c \in Nat \ {0}, NEW hash \in Nat, NEW gap \in 1 .. c, NEW n \in Nat,
         gap + n <= c
  PROVE  Ring(c, At(c, hash, gap), n + 1) = At(c, hash, gap + n)
<1>1. Home(c, hash) \in 0 .. c - 1
  BY HomeType
<1> QED BY <1>1, RingOn DEF At

\* The walk of t_table::f_put and f_remove past entries that are as far from
\* home ends before it comes round.
LEMMA RunIs ==
  ASSUME NEW c \in Nat \ {0}, NEW tb, Fits(tb, c), NEW i \in 0 .. c - 1, NEW gap \in Nat,
         NEW v \in 0 .. c - 1, v # i, tb[v].v_gap < gap + 1
  PROVE  /\ Run(tb, i, gap) \in 1 .. c - 1
         /\ tb[Ring(c, i, Run(tb, i, gap) + 1)].v_gap < gap + Run(tb, i, gap)
         /\ \A j \in 1 .. Run(tb, i, gap) - 1 : tb[Ring(c, i, j + 1)].v_gap >= gap + j
<1> DEFINE S == {k \in 1 .. Capacity(tb) : tb[After(tb, i, k)].v_gap < gap + k}
<1>1. Capacity(tb) = c /\ \A k \in 1 .. c : After(tb, i, k) = Ring(c, i, k + 1)
  BY CapacityOf, AfterIs
<1>2. PICK m \in 1 .. c : Ring(c, i, m) = v
  BY RingAll
<1>3. m # 1
  BY <1>2 DEF Ring
<1>4. tb[v].v_gap \in Nat
  BY EntriesAre
<1>5. m - 1 \in S
  BY <1>1, <1>2, <1>3, <1>4
<1>6. S \in SUBSET Nat /\ S # {}
  BY <1>1, <1>5
<1>7. Run(tb, i, gap) = Min(S)
  BY DEF Run
<1>8. Run(tb, i, gap) \in S /\ \A y \in S : Run(tb, i, gap) <= y
  BY <1>6, <1>7, MinIs
<1> DEFINE n == Run(tb, i, gap)
<1>9. n \in 1 .. c /\ n <= m - 1 /\ tb[Ring(c, i, n + 1)].v_gap < gap + n
  BY <1>1, <1>5, <1>8
<1>10. ASSUME NEW j \in 1 .. n - 1 PROVE tb[Ring(c, i, j + 1)].v_gap >= gap + j
  <2>1. j \in 1 .. c /\ j + 1 \in 1 .. c /\ j \notin S
    BY <1>8, <1>9
  <2>2. Ring(c, i, j + 1) \in 0 .. c - 1
    BY <2>1, RingType
  <2>3. tb[Ring(c, i, j + 1)].v_gap \in Nat
    BY <2>2, EntriesAre
  <2> QED BY <1>1, <2>1, <2>3
<1> QED BY <1>9, <1>10

\* What t_table::f_put takes out it may put where it stops next.
LEMMA CarryHand ==
  ASSUME NEW c \in Nat \ {0}, NEW h, NEW tb, Sound(h, tb, c, NoHole), Room(tb, c),
         NEW e, NEW i, Hand(h, tb, c, e, i), tb[i].v_gap > 0,
         NEW n, n = Run(tb, i, tb[i].v_gap),
         NEW e2, e2 = [tb[i] EXCEPT !.v_gap = @ + n]
  PROVE  Hand(h, Written(tb, i, e), c, e2, After(tb, i, n))
<1> DEFINE tb1 == Written(tb, i, e)
           gap == tb[i].v_gap
           hash == tb[i].v_hash
<1>1. i \in 0 .. c - 1 /\ Fits(tb, c) /\ Fits(tb1, c)
  BY PutSound DEF Sound
<1>2. tb1[i] = e /\ \A j \in 0 .. c - 1 : j # i => tb1[j] = tb[j]
  BY <1>1 DEF Fits, Written
<1> HIDE DEF tb1
<1>3. i \in Entries(tb)
  BY <1>1, EntriesAre
<1>4. Homed(h, c, tb[i], i) /\ hash \in Nat /\ gap \in 1 .. c /\ At(c, hash, gap) = i
      /\ Chain(tb, c, hash, gap, NoHole)
  BY <1>3, EntryIs
<1>5. PICK v \in 0 .. c - 1 : tb[v].v_gap = 0
  BY DEF Room
<1>6. v # i
  BY <1>4, <1>5
<1>7. /\ n \in 1 .. c - 1
      /\ tb[Ring(c, i, n + 1)].v_gap < gap + n
      /\ \A j \in 1 .. n - 1 : tb[Ring(c, i, j + 1)].v_gap >= gap + j
  <2>1. tb[v].v_gap < gap + 1 /\ gap \in Nat
    BY <1>4, <1>5
  <2> QED BY <1>1, <1>6, <2>1, RunIs
<1>8. After(tb, i, n) = Ring(c, i, n + 1)
  BY <1>1, <1>7, AfterIs
<1> HIDE DEF gap, hash
\* Nothing on the way was vacant.
<1>9. ASSUME NEW k \in 1 .. c, k < gap + n
      PROVE  tb[At(c, hash, k)].v_gap >= k
  <2>1. CASE k < gap
    <3>1. At(c, hash, k) \in 0 .. c - 1 /\ At(c, hash, k) # NoHole
      BY <1>4, AtType DEF NoHole
    <3>2. k \in 1 .. gap - 1
      BY <1>4, <2>1
    <3> QED BY <1>4, <3>1, <3>2 DEF Chain
  <2>2. CASE k = gap
    BY <1>4, <2>2 DEF gap
  <2>3. CASE k > gap
    <3>1. PICK j \in 1 .. n - 1 : k = gap + j
      <4>1. k - gap \in 1 .. n - 1
        BY <1>4, <1>7, <1>9, <2>3
      <4> QED BY <1>4, <4>1
    <3>2. Ring(c, i, j + 1) = At(c, hash, k)
      BY <1>4, <3>1, WayOn
    <3> QED BY <1>7, <3>1, <3>2
  <2> QED BY <1>4, <2>1, <2>2, <2>3
<1>10. gap + n <= c
  <2>1. PICK k \in 1 .. c : At(c, hash, k) = v
    BY <1>4, HomeType, RingAll DEF At
  <2> QED BY <1>4, <1>5, <1>7, <1>9, <2>1
<1>11. At(c, hash, gap + n) = After(tb, i, n)
  BY <1>4, <1>7, <1>8, <1>10, WayOn
<1>12. e2 \in EntryType /\ e2.v_gap = gap + n /\ e2.v_hash = hash
       /\ e2.v_key = tb[i].v_key /\ e2.v_value = tb[i].v_value
  BY <1>4, <1>7 DEF Homed, EntryType, gap, hash
<1>13. Homed(h, c, e2, After(tb, i, n))
  BY <1>4, <1>7, <1>10, <1>11, <1>12 DEF Homed, hash
<1>14. tb1[After(tb, i, n)].v_gap < e2.v_gap
  <2>1. gap + n \in 1 .. c
    BY <1>4, <1>7, <1>10
  <2>2. After(tb, i, n) \in 0 .. c - 1 /\ After(tb, i, n) # i
    BY <1>4, <1>7, <1>11, <2>1, AtType, AtOnce
  <2> QED BY <1>2, <1>7, <1>8, <1>12, <2>2
<1>15. Chain(tb1, c, hash, gap + n, NoHole)
  <2> SUFFICES ASSUME NEW k \in 1 .. gap + n - 1
               PROVE  tb1[At(c, hash, k)].v_gap >= k
    BY <1>4, <1>7 DEF Chain
  <2>1. k \in 1 .. c /\ k < gap + n
    BY <1>4, <1>7, <1>10
  <2>2. CASE k = gap
    <3>1. tb1[At(c, hash, k)] = e
      BY <1>2, <1>4, <2>2
    <3>2. gap < e.v_gap /\ e.v_gap \in Nat
      BY DEF Hand, Homed, gap
    <3> QED BY <1>4, <2>2, <3>1, <3>2
  <2>3. CASE k # gap
    <3>1. At(c, hash, k) \in 0 .. c - 1 /\ At(c, hash, k) # i
      BY <1>4, <2>1, <2>3, AtType, AtOnce
    <3> QED BY <1>2, <1>9, <2>1, <3>1
  <2> QED BY <2>2, <2>3
<1>16. Absent(tb1, e2.v_key)
  <2> SUFFICES ASSUME NEW j \in Entries(tb1), tb1[j].v_key = tb[i].v_key
               PROVE  FALSE
    BY <1>12 DEF Absent
  <2>1. e.v_key # tb[i].v_key
    BY <1>3 DEF Hand, Absent
  <2>2. j # i /\ j \in 0 .. c - 1
    BY <1>1, <1>2, <2>1, EntriesAre
  <2>3. j \in Entries(tb) /\ tb[j].v_key = tb[i].v_key
    BY <1>1, <1>2, <2>2, EntriesAre
  <2> QED BY <1>3, <2>2, <2>3 DEF Sound, Single
<1> QED BY <1>12, <1>13, <1>14, <1>15, <1>16 DEF Hand, tb1
-----------------------------------------------------------------------------
(***************************************************************************)
(* Searches.                                                               *)
(***************************************************************************)

\* Each hash can reach a vacant place.
LEMMA Reachable ==
  ASSUME NEW c \in Nat \ {0}, NEW tb, Room(tb, c), NEW hash \in Nat
  PROVE  \E k \in 1 .. c : tb[At(c, hash, k)].v_gap = 0
<1>1. PICK v \in 0 .. c - 1 : tb[v].v_gap = 0
  BY DEF Room
<1>2. PICK k \in 1 .. c : At(c, hash, k) = v
  BY HomeType, RingAll DEF At
<1> QED BY <1>1, <1>2

\* The first loop of f_find ends.
LEMMA SkippedIs ==
  ASSUME NEW c \in Nat \ {0}, NEW tb, Fits(tb, c), Room(tb, c), NEW hash \in Nat
  PROVE  /\ Skipped(tb, hash) \in 1 .. c
         /\ tb[At(c, hash, Skipped(tb, hash))].v_gap <= Skipped(tb, hash)
         /\ \A k \in 1 .. c : tb[At(c, hash, k)].v_gap <= k => Skipped(tb, hash) <= k
<1> DEFINE S == {g \in 1 .. Capacity(tb) : tb[Place(tb, hash, g)].v_gap <= g}
<1>1. Capacity(tb) = c /\ \A g \in 1 .. c : Place(tb, hash, g) = At(c, hash, g)
  BY CapacityOf, PlaceIs
<1>2. S = {g \in 1 .. c : tb[At(c, hash, g)].v_gap <= g}
  BY <1>1
<1>3. S \in SUBSET Nat /\ S # {}
  BY <1>2, Reachable
<1>4. Skipped(tb, hash) = Min(S)
  BY DEF Skipped
<1> HIDE DEF S
<1>5. Min(S) \in S /\ \A y \in S : Min(S) <= y
  BY <1>3, MinIs
<1> QED BY <1>2, <1>4, <1>5

\* f_rehash stops where it may put the entry.
LEMMA FreeIs ==
  ASSUME NEW c \in Nat \ {0}, NEW tb, Fits(tb, c), Room(tb, c), NEW hash \in Nat,
         NEW gap, gap = Free(tb, hash)
  PROVE  /\ gap \in 1 .. c
         /\ tb[At(c, hash, gap)].v_gap < gap
         /\ Chain(tb, c, hash, gap, NoHole)
<1> DEFINE S == {g \in 1 .. Capacity(tb) : tb[Place(tb, hash, g)].v_gap < g}
<1>1. Capacity(tb) = c /\ \A g \in 1 .. c : Place(tb, hash, g) = At(c, hash, g)
  BY CapacityOf, PlaceIs
<1>2. S = {g \in 1 .. c : tb[At(c, hash, g)].v_gap < g}
  BY <1>1
<1>3. S \in SUBSET Nat /\ S # {}
  BY <1>2, Reachable
<1>4. gap = Min(S)
  BY DEF Free
<1> HIDE DEF S
<1>5. gap \in S /\ \A y \in S : gap <= y
  BY <1>3, <1>4, MinIs
<1>6. gap \in 1 .. c /\ tb[At(c, hash, gap)].v_gap < gap
  BY <1>2, <1>5
<1>7. ASSUME NEW k \in 1 .. gap - 1 PROVE tb[At(c, hash, k)].v_gap >= k
  <2>1. k \in 1 .. c /\ k \notin S
    BY <1>5, <1>6
  <2>2. tb[At(c, hash, k)].v_gap \in Nat
    BY <2>1, AtType, EntriesAre
  <2> QED BY <1>2, <2>1, <2>2
<1> QED BY <1>6, <1>7 DEF Chain

\* An entry of a table that has its key is found on the way there.
LEMMA KeyFound ==
  ASSUME NEW c \in Nat \ {0}, NEW h, NEW tb, Sound(h, tb, c, NoHole),
         NEW i \in Entries(tb), NEW key, tb[i].v_key = key,
         NEW g \in 1 .. tb[i].v_gap, f_equals(tb[At(c, h[key], g)], h[key], key)
  PROVE  g = tb[i].v_gap
<1>0. Homed(h, c, tb[i], i) /\ tb[i].v_gap \in 1 .. c /\ tb[i].v_hash \in Nat
      /\ At(c, tb[i].v_hash, tb[i].v_gap) = i
      /\ Chain(tb, c, tb[i].v_hash, tb[i].v_gap, NoHole)
  BY EntryIs
<1>1. Fits(tb, c) /\ h[key] = tb[i].v_hash /\ tb[i].v_gap \in 1 .. c /\ h[key] \in Nat
      /\ At(c, h[key], tb[i].v_gap) = i
      /\ Chain(tb, c, h[key], tb[i].v_gap, NoHole)
  <2>1. Fits(tb, c)
    BY DEF Sound
  <2>2. h[key] = tb[i].v_hash
    BY <1>0 DEF Homed
  <2> QED BY <1>0, <2>1, <2>2
<1>2. g \in 1 .. c
  BY <1>1
<1>3. At(c, h[key], g) \in 0 .. c - 1 /\ At(c, h[key], g) # NoHole
  BY <1>1, <1>2, AtType DEF NoHole
<1>4. tb[At(c, h[key], g)].v_gap \in Nat
  BY <1>1, <1>3, EntriesAre
<1>5. ASSUME g < tb[i].v_gap PROVE FALSE
  <2>1. tb[At(c, h[key], g)].v_gap >= g
    BY <1>1, <1>3, <1>5 DEF Chain
  <2>2. At(c, h[key], g) \in Entries(tb)
    BY <1>1, <1>2, <1>3, <1>4, <2>1, EntriesAre
  <2>3. At(c, h[key], g) = i
    BY <2>2 DEF Sound, Single, f_equals
  <2> QED BY <1>1, <1>2, <1>5, <2>3, AtOnce
<1> QED BY <1>1, <1>2, <1>5

\* f_find(a_hash, a_key) returns the place of the key, with the gap of the
\* entry there, or one where the key may be put, with a greater gap.
LEMMA FindForPut ==
  ASSUME NEW c \in Nat \ {0}, NEW h, NEW tb, Sound(h, tb, c, NoHole), Room(tb, c),
         NEW key, h[key] \in Nat,
         NEW gap, gap = f_find_for_put(tb, h[key], key)
  PROVE  /\ gap \in 1 .. c
         /\ Absent(tb, key) => /\ tb[At(c, h[key], gap)].v_gap < gap
                               /\ Chain(tb, c, h[key], gap, NoHole)
         /\ \A i \in Entries(tb) :
              tb[i].v_key = key => i = At(c, h[key], gap) /\ tb[i].v_gap = gap
<1> DEFINE hash == h[key]
           s == Skipped(tb, hash)
           S == {g \in s .. Capacity(tb) :
                   LET e == tb[Place(tb, hash, g)]
                   IN e.v_gap < g \/ f_equals(e, hash, key)}
<1>0. Fits(tb, c) /\ hash \in Nat
  BY DEF Sound
<1>1. Capacity(tb) = c /\ \A g \in 1 .. c : Place(tb, hash, g) = At(c, hash, g)
  BY <1>0, CapacityOf, PlaceIs
<1> HIDE DEF hash
<1>2. /\ s \in 1 .. c
      /\ tb[At(c, hash, s)].v_gap <= s
      /\ \A k \in 1 .. c : tb[At(c, hash, k)].v_gap <= k => s <= k
  BY <1>0, SkippedIs
<1>3. gap = Min(S)
  BY DEF f_find_for_put, hash
<1> HIDE DEF s
<1>4. S = {g \in s .. c : tb[At(c, hash, g)].v_gap < g \/ f_equals(tb[At(c, hash, g)], hash, key)}
  BY <1>1, <1>2
<1> HIDE DEF S
<1>5. PICK m \in 1 .. c : tb[At(c, hash, m)].v_gap = 0
  BY <1>0, Reachable
<1>6. m \in S
  BY <1>2, <1>4, <1>5
<1>7. S \in SUBSET Nat
  BY <1>2, <1>4
<1>8. gap \in S /\ \A y \in S : gap <= y
  BY <1>3, <1>6, <1>7, MinIs
<1>9. gap \in 1 .. c /\ s <= gap
      /\ (tb[At(c, hash, gap)].v_gap < gap \/ f_equals(tb[At(c, hash, gap)], hash, key))
  BY <1>2, <1>4, <1>8
<1>10. ASSUME NEW k \in 1 .. c PROVE tb[At(c, hash, k)].v_gap \in Nat /\ At(c, hash, k) \in 0 .. c - 1
  BY <1>0, AtType, EntriesAre
<1>11. Chain(tb, c, hash, gap, NoHole)
  <2> SUFFICES ASSUME NEW k \in 1 .. gap - 1 PROVE tb[At(c, hash, k)].v_gap >= k
    BY <1>9 DEF Chain
  <2>1. k \in 1 .. c /\ k < gap
    BY <1>9
  <2>2. tb[At(c, hash, k)].v_gap \in Nat
    BY <2>1, <1>10
  <2>3. CASE k < s
    BY <1>2, <2>1, <2>2, <2>3
  <2>4. CASE k >= s
    <3>1. k \notin S
      BY <1>8, <2>1, <1>9
    <3> QED BY <1>2, <1>4, <2>1, <2>2, <2>4, <3>1
  <2> QED BY <1>2, <2>1, <2>3, <2>4
<1>12. ASSUME Absent(tb, key) PROVE tb[At(c, hash, gap)].v_gap < gap
  <2>1. At(c, hash, gap) \in 0 .. c - 1 /\ tb[At(c, hash, gap)].v_gap \in Nat
    BY <1>9, <1>10
  <2>2. tb[At(c, hash, gap)].v_gap > 0 => At(c, hash, gap) \in Entries(tb)
    BY <1>0, <2>1, EntriesAre
  <2> QED BY <1>9, <1>12, <2>1, <2>2 DEF Absent, f_equals
<1>13. ASSUME NEW i \in Entries(tb), tb[i].v_key = key
       PROVE  i = At(c, hash, gap) /\ tb[i].v_gap = gap
  <2>1. hash = tb[i].v_hash /\ tb[i].v_gap \in 1 .. c
        /\ At(c, hash, tb[i].v_gap) = i
        /\ Chain(tb, c, hash, tb[i].v_gap, NoHole)
    BY <1>13, EntryIs DEF Homed, hash
  <2>2. s <= tb[i].v_gap
    BY <1>2, <2>1
  <2>3. tb[i].v_gap \in S
    BY <1>2, <1>4, <1>13, <2>1, <2>2 DEF f_equals
  <2>4. gap <= tb[i].v_gap
    BY <1>8, <2>3
  <2>5. CASE f_equals(tb[At(c, hash, gap)], hash, key)
    <3>1. gap \in 1 .. tb[i].v_gap
      BY <1>9, <2>1, <2>4
    <3>2. gap = tb[i].v_gap
      BY <1>13, <2>5, <3>1, KeyFound DEF hash
    <3> QED BY <2>1, <3>2
  <2>6. CASE tb[At(c, hash, gap)].v_gap < gap
    <3>1. gap < tb[i].v_gap => tb[At(c, hash, gap)].v_gap >= gap
      BY <1>9, <1>10, <2>1 DEF Chain, NoHole
    <3>2. gap = tb[i].v_gap
      BY <1>9, <1>10, <2>1, <2>4, <2>6, <3>1
    <3> QED BY <2>1, <3>2
  <2> QED BY <1>9, <2>5, <2>6
<1> QED BY <1>9, <1>11, <1>12, <1>13 DEF hash

\* f_find(a_key) returns the place of the key, or null if there is none.
LEMMA FindIs ==
  ASSUME NEW c \in Nat \ {0}, NEW h, NEW tb, Sound(h, tb, c, NoHole), Room(tb, c),
         NEW key, h[key] \in Nat,
         NEW at, at = f_find(tb, h[key], key)
  PROVE  \/ at = Null /\ Absent(tb, key)
         \/ at \in Entries(tb) /\ tb[at].v_key = key
<1> DEFINE hash == h[key]
           s == Skipped(tb, hash)
           S == {g \in s .. Capacity(tb) :
                   LET e == tb[Place(tb, hash, g)]
                   IN e.v_gap # g \/ f_equals(e, hash, key)}
<1>0. Fits(tb, c) /\ hash \in Nat
  BY DEF Sound
<1>1. Capacity(tb) = c /\ \A g \in 1 .. c : Place(tb, hash, g) = At(c, hash, g)
  BY <1>0, CapacityOf, PlaceIs
<1>2. PICK gap : gap = Min(S)
  OBVIOUS
<1>3. at = IF tb[Place(tb, hash, gap)].v_gap = gap THEN Place(tb, hash, gap) ELSE Null
  BY <1>2 DEF f_find
<1> HIDE DEF hash
<1>4. /\ s \in 1 .. c
      /\ tb[At(c, hash, s)].v_gap <= s
      /\ \A k \in 1 .. c : tb[At(c, hash, k)].v_gap <= k => s <= k
  BY <1>0, SkippedIs
<1> HIDE DEF s
<1>5. S = {g \in s .. c : tb[At(c, hash, g)].v_gap # g \/ f_equals(tb[At(c, hash, g)], hash, key)}
  BY <1>1, <1>4
<1> HIDE DEF S
<1>6. PICK m \in 1 .. c : tb[At(c, hash, m)].v_gap = 0
  BY <1>0, Reachable
<1>7. m \in S
  BY <1>4, <1>5, <1>6
<1>8. S \in SUBSET Nat
  BY <1>4, <1>5
<1>9. gap \in S /\ \A y \in S : gap <= y
  BY <1>2, <1>7, <1>8, MinIs
<1>10. gap \in 1 .. c /\ s <= gap
       /\ (tb[At(c, hash, gap)].v_gap # gap \/ f_equals(tb[At(c, hash, gap)], hash, key))
  BY <1>4, <1>5, <1>9
<1>11. PICK p : p = At(c, hash, gap)
  OBVIOUS
<1>12. p \in 0 .. c - 1 /\ tb[p].v_gap \in Nat /\ (tb[p].v_gap > 0 => p \in Entries(tb))
  BY <1>0, <1>10, <1>11, AtType, EntriesAre
<1>13. at = IF tb[p].v_gap = gap THEN p ELSE Null
  BY <1>1, <1>3, <1>10, <1>11
<1>14. CASE tb[p].v_gap = gap
  <2>1. f_equals(tb[p], hash, key) /\ p \in Entries(tb)
    BY <1>10, <1>11, <1>12, <1>14
  <2> QED BY <1>13, <1>14, <2>1 DEF f_equals
<1>15. CASE tb[p].v_gap # gap
  <2> SUFFICES ASSUME NEW i \in Entries(tb), tb[i].v_key = key PROVE FALSE
    BY <1>13, <1>15 DEF Absent
  <2>1. hash = tb[i].v_hash /\ tb[i].v_gap \in 1 .. c
        /\ At(c, hash, tb[i].v_gap) = i
        /\ Chain(tb, c, hash, tb[i].v_gap, NoHole)
    BY EntryIs DEF Homed, hash
  <2>2. s <= tb[i].v_gap
    BY <1>4, <2>1
  <2>3. tb[i].v_gap \in S
    BY <1>4, <1>5, <2>1, <2>2 DEF f_equals
  <2>4. gap <= tb[i].v_gap
    BY <1>9, <2>3
  <2>5. gap # tb[i].v_gap
    BY <1>11, <1>15, <2>1
  <2>6. tb[p].v_gap >= gap
    BY <1>10, <1>11, <1>12, <2>1, <2>4, <2>5 DEF Chain, NoHole
  <2>7. tb[p].v_gap > gap /\ p \in Entries(tb)
    BY <1>10, <1>12, <1>15, <2>6
  <2>8. tb[p].v_hash \in Nat /\ tb[p].v_gap \in 1 .. c
        /\ At(c, tb[p].v_hash, tb[p].v_gap) = p
        /\ Chain(tb, c, tb[p].v_hash, tb[p].v_gap, NoHole)
    BY <2>7, EntryIs
  <2>9. s # gap
    BY <1>4, <1>11, <1>12, <2>7
  \* The entry at p is on a way that comes by the place where s stopped.
  <2>10. PICK n \in Nat \ {0} : s = gap - n
    <3>1. gap - s \in Nat \ {0} /\ s = gap - (gap - s)
      BY <1>4, <1>10, <2>9
    <3> QED BY <3>1
  <2>11. Ring(c, Home(c, tb[p].v_hash), tb[p].v_gap - n) = Ring(c, Home(c, hash), gap - n)
    <3>1. Ring(c, Home(c, tb[p].v_hash), tb[p].v_gap) = Ring(c, Home(c, hash), gap)
      BY <1>11, <2>8 DEF At
    <3>2. Home(c, tb[p].v_hash) \in 0 .. c - 1 /\ Home(c, hash) \in 0 .. c - 1
      BY <1>0, <2>8, HomeType
    <3>3. n < gap /\ n < tb[p].v_gap
      BY <1>4, <1>10, <2>7, <2>8, <2>10
    <3> QED BY <1>10, <2>8, <2>10, <3>1, <3>2, <3>3, RingBack
  <2>12. At(c, tb[p].v_hash, tb[p].v_gap - n) = At(c, hash, s)
    BY <2>10, <2>11 DEF At
  <2>13. At(c, hash, s) \in 0 .. c - 1 /\ tb[At(c, hash, s)].v_gap \in Nat
    BY <1>0, <1>4, AtType, EntriesAre
  <2>14. tb[p].v_gap - n \in 1 .. tb[p].v_gap - 1 /\ tb[p].v_gap - n > s
    BY <1>4, <1>10, <2>7, <2>8, <2>10
  <2>15. tb[At(c, hash, s)].v_gap >= tb[p].v_gap - n
    BY <2>8, <2>12, <2>13, <2>14 DEF Chain, NoHole
  <2> QED BY <1>4, <2>8, <2>10, <2>13, <2>14, <2>15
<1> QED BY <1>14, <1>15
-----------------------------------------------------------------------------
(***************************************************************************)
(* Replacing and removing.                                                 *)
(***************************************************************************)
LEMMA ReplaceSound ==
  ASSUME NEW c \in Nat \ {0}, NEW h, NEW tb, Sound(h, tb, c, NoHole),
         NEW i \in Entries(tb), NEW v \in Values, NEW tb1,
         tb1 = Valued(tb, i, v)
  PROVE  /\ Sound(h, tb1, c, NoHole)
         /\ Entries(tb1) = Entries(tb)
         /\ tb1[i].v_key = tb[i].v_key /\ tb1[i].v_value = v
         /\ \A j \in Entries(tb) : j # i => tb1[j] = tb[j]
<1>1. Fits(tb, c)
  BY DEF Sound
<1>2. i \in 0 .. c - 1 /\ Homed(h, c, tb[i], i)
  BY EntryIs
<1>3. /\ \A j \in 0 .. c - 1 : j # i => tb1[j] = tb[j]
      /\ tb1[i] = [tb[i] EXCEPT !.v_value = v]
      /\ DOMAIN tb1 = 0 .. c - 1
  BY <1>1, <1>2 DEF Fits, Valued
<1>4. tb1[i] \in EntryType /\ tb1[i].v_gap = tb[i].v_gap /\ tb1[i].v_hash = tb[i].v_hash
      /\ tb1[i].v_key = tb[i].v_key /\ tb1[i].v_value = v
  BY <1>2, <1>3 DEF Homed, EntryType
<1>5. Fits(tb1, c)
  <2>1. \A j \in 0 .. c - 1 : tb1[j] \in EntryType
    BY <1>1, <1>3, <1>4 DEF Fits
  <2> QED BY <1>1, <1>3, <2>1 DEF Fits, Valued
<1>6. \A j \in 0 .. c - 1 : tb1[j].v_gap = tb[j].v_gap /\ tb1[j].v_hash = tb[j].v_hash
                            /\ tb1[j].v_key = tb[j].v_key
  BY <1>3, <1>4
<1>7. Entries(tb1) = Entries(tb)
  <2>1. Entries(tb) = {j \in 0 .. c - 1 : tb[j].v_gap > 0}
    BY <1>1, EntriesAre
  <2>2. Entries(tb1) = {j \in 0 .. c - 1 : tb1[j].v_gap > 0}
    BY <1>5, EntriesAre
  <2> QED BY <1>6, <2>1, <2>2
<1>8. ASSUME NEW j \in Entries(tb1)
      PROVE  Homed(h, c, tb1[j], j) /\ Chain(tb1, c, tb1[j].v_hash, tb1[j].v_gap, NoHole)
  <2>1. j \in 0 .. c - 1 /\ Homed(h, c, tb[j], j) /\ tb[j].v_hash \in Nat /\ tb[j].v_gap \in 1 .. c
        /\ Chain(tb, c, tb[j].v_hash, tb[j].v_gap, NoHole)
    BY <1>7, EntryIs
  <2>2. \A k \in 1 .. tb[j].v_gap - 1 : At(c, tb[j].v_hash, k) \in 0 .. c - 1
    BY <2>1, AtType
  <2>3. Chain(tb1, c, tb[j].v_hash, tb[j].v_gap, NoHole)
    BY <1>6, <2>1, <2>2 DEF Chain
  <2>4. Homed(h, c, tb1[j], j)
    BY <1>3, <1>4, <2>1 DEF Homed
  <2> QED BY <1>6, <2>1, <2>3, <2>4
<1>9. Single(tb1)
  BY <1>1, <1>6, <1>7, EntriesAre DEF Sound, Single
<1>10. \A j \in Entries(tb) : j # i => tb1[j] = tb[j]
  BY <1>1, <1>3, EntriesAre
<1>11. Sound(h, tb1, c, NoHole)
  BY <1>5, <1>8, <1>9 DEF Sound
<1> QED BY <1>4, <1>7, <1>10, <1>11

\* f_remove leaves a hole.
LEMMA RemoveSound ==
  ASSUME NEW c \in Nat \ {0}, NEW h, NEW tb, Sound(h, tb, c, NoHole),
         NEW i \in Entries(tb), NEW tb1, Fits(tb1, c), tb1[i].v_gap = 0,
         \A j \in 0 .. c - 1 : j # i => tb1[j] = tb[j]
  PROVE  /\ i \in 0 .. c - 1
         /\ Sound(h, tb1, c, i)
         /\ Entries(tb1) = Entries(tb) \ {i}
         /\ tb1[i].v_gap = 0
         /\ \A j \in Entries(tb) \ {i} : tb1[j] = tb[j]
<1>1. Fits(tb, c) /\ i \in 0 .. c - 1
  BY EntryIs DEF Sound
<1>5. Entries(tb1) = Entries(tb) \ {i}
  <2>1. Entries(tb) = {j \in 0 .. c - 1 : tb[j].v_gap > 0}
    BY <1>1, EntriesAre
  <2>2. Entries(tb1) = {j \in 0 .. c - 1 : tb1[j].v_gap > 0}
    BY EntriesAre
  <2> QED BY <2>1, <2>2
<1>6. \A j \in Entries(tb) \ {i} : tb1[j] = tb[j]
  BY <1>1, EntriesAre
<1>7. ASSUME NEW j \in Entries(tb1)
      PROVE  Homed(h, c, tb1[j], j) /\ Chain(tb1, c, tb1[j].v_hash, tb1[j].v_gap, i)
  <2>1. tb1[j] = tb[j] /\ j \in Entries(tb)
    BY <1>5, <1>6
  <2>2. Homed(h, c, tb[j], j) /\ tb[j].v_hash \in Nat /\ tb[j].v_gap \in 1 .. c
        /\ Chain(tb, c, tb[j].v_hash, tb[j].v_gap, NoHole)
    BY <2>1, EntryIs
  <2>3. ASSUME NEW k \in 1 .. tb[j].v_gap - 1 PROVE At(c, tb[j].v_hash, k) \in 0 .. c - 1
    <3>1. k \in 1 .. c
      BY <2>2
    <3> QED BY <2>2, <3>1, AtType
  <2>4. Chain(tb1, c, tb[j].v_hash, tb[j].v_gap, i)
    BY <2>2, <2>3 DEF Chain, NoHole
  <2> QED BY <2>1, <2>2, <2>4
<1>8. Single(tb1)
  BY <1>5, <1>6 DEF Sound, Single
<1> QED BY <1>1, <1>5, <1>6, <1>7, <1>8 DEF Sound

\* What the entry behind a hole has to do with ways that lead there.
LEMMA Behind ==
  ASSUME NEW c \in Nat \ {0}, NEW h, NEW tb, NEW hole \in 0 .. c - 1, Sound(h, tb, c, hole),
         NEW j \in Entries(tb), NEW k \in 1 .. tb[j].v_gap - 1,
         At(c, tb[j].v_hash, k) = hole
  PROVE  tb[After(tb, hole, 1)].v_gap >= k + 1
<1>1. Fits(tb, c)
  BY DEF Sound
<1>2. tb[j].v_hash \in Nat /\ tb[j].v_gap \in 1 .. c
      /\ At(c, tb[j].v_hash, tb[j].v_gap) = j
      /\ Chain(tb, c, tb[j].v_hash, tb[j].v_gap, hole)
  BY EntryIs
<1>3. k \in 1 .. c /\ k + 1 \in 1 .. c
  BY <1>2
<1>4. After(tb, hole, 1) = At(c, tb[j].v_hash, k + 1)
  <2>1. After(tb, hole, 1) = Ring(c, hole, 1 + 1)
    BY <1>1, AfterIs
  <2>2. Ring(c, At(c, tb[j].v_hash, k), 1 + 1) = At(c, tb[j].v_hash, k + 1)
    BY <1>2, <1>3, WayOn
  <2> QED BY <2>1, <2>2
<1>5. CASE k + 1 = tb[j].v_gap
  BY <1>2, <1>4, <1>5
<1>6. CASE k + 1 < tb[j].v_gap
  <2>1. At(c, tb[j].v_hash, k + 1) # hole
    BY <1>2, <1>3, AtOnce
  <2>2. k + 1 \in 1 .. tb[j].v_gap - 1
    BY <1>2, <1>3, <1>6
  <2> QED BY <1>2, <1>4, <2>1, <2>2 DEF Chain
<1> QED BY <1>2, <1>3, <1>5, <1>6

\* f_remove stops where no way leads through the hole.
LEMMA FillDone ==
  ASSUME NEW c \in Nat \ {0}, NEW h, NEW tb, NEW hole \in 0 .. c - 1, Sound(h, tb, c, hole),
         tb[After(tb, hole, 1)].v_gap <= 1
  PROVE  Sound(h, tb, c, NoHole)
<1> SUFFICES ASSUME NEW j \in Entries(tb)
             PROVE  Chain(tb, c, tb[j].v_hash, tb[j].v_gap, NoHole)
  BY DEF Sound
<1> SUFFICES ASSUME NEW k \in 1 .. tb[j].v_gap - 1
             PROVE  tb[At(c, tb[j].v_hash, k)].v_gap >= k
  BY DEF Chain
<1>1. Fits(tb, c) /\ Capacity(tb) = c
  BY CapacityOf DEF Sound
<1>2. tb[After(tb, hole, 1)].v_gap \in Nat
  BY <1>1, EntriesAre DEF After
<1>3. At(c, tb[j].v_hash, k) # hole
  <2> SUFFICES ASSUME At(c, tb[j].v_hash, k) = hole PROVE FALSE
    OBVIOUS
  <2>1. tb[After(tb, hole, 1)].v_gap >= k + 1
    BY Behind
  <2> QED BY <1>2, <2>1
<1> QED BY <1>3, EntryIs DEF Chain

\* The last entry behind the hole that has the same slot as the next one may
\* move there: its gap is as much greater as it is farther away.
LEMMA FillLast ==
  ASSUME NEW c \in Nat \ {0}, NEW h, NEW tb, NEW hole \in 0 .. c - 1, Sound(h, tb, c, hole),
         tb[hole].v_gap = 0,
         NEW q, q = After(tb, hole, 1), NEW gap, gap = tb[q].v_gap, gap > 1,
         NEW end, end = After(tb, q, Run(tb, q, gap) - 1)
  PROVE  /\ end \in Entries(tb) /\ end # hole
         /\ gap \in Nat /\ gap <= tb[end].v_gap
         /\ At(c, tb[end].v_hash, gap - 1) = hole
<1>1. Fits(tb, c) /\ Capacity(tb) = c
  BY CapacityOf DEF Sound
<1>2. q \in 0 .. c - 1 /\ q = Ring(c, hole, 2)
  BY <1>1 DEF After, Ring
<1>3. gap \in Nat /\ q \in Entries(tb) /\ q # hole
  BY <1>1, <1>2, EntriesAre
<1>4. PICK n : n = Run(tb, q, gap)
  OBVIOUS
<1>5. n \in 1 .. c - 1 /\ \A j \in 1 .. n - 1 : tb[Ring(c, q, j + 1)].v_gap >= gap + j
  <2>1. tb[hole].v_gap < gap + 1
    BY <1>3
  <2> QED BY <1>1, <1>2, <1>3, <1>4, <2>1, RunIs
<1>6. end = Ring(c, q, n) /\ end \in 0 .. c - 1
  <2>1. n - 1 \in Int /\ n \in 1 .. c /\ (n - 1) + 1 = n
    BY <1>5
  <2>2. After(tb, q, n - 1) = Ring(c, q, (n - 1) + 1)
    BY <1>1, <1>2, <2>1, AfterIs
  <2> QED BY <1>2, <1>4, <2>1, <2>2, RingType
<1>7. tb[end].v_gap \in Nat
  BY <1>1, <1>6, EntriesAre
<1>8. tb[end].v_gap >= gap + (n - 1)
  <2>1. CASE n = 1
    <3>1. end = q
      BY <1>2, <1>6, <2>1 DEF Ring
    <3> QED BY <1>3, <2>1, <3>1
  <2>2. CASE n # 1
    <3>1. PICK j \in 1 .. n - 1 : j = n - 1
      BY <1>5, <2>2
    <3>2. j + 1 = n
      BY <1>5, <3>1
    <3> QED BY <1>5, <1>6, <3>1, <3>2
  <2> QED BY <2>1, <2>2
<1>9. end \in Entries(tb) /\ end # hole
  BY <1>1, <1>3, <1>5, <1>6, <1>7, <1>8, EntriesAre
<1>10. tb[end].v_hash \in Nat /\ tb[end].v_gap \in 1 .. c
       /\ At(c, tb[end].v_hash, tb[end].v_gap) = end
       /\ Chain(tb, c, tb[end].v_hash, tb[end].v_gap, hole)
  <2>1. PICK i \in Entries(tb) : i = end
    BY <1>9
  <2>2. /\ tb[i].v_hash \in Nat /\ tb[i].v_gap \in 1 .. c
        /\ At(c, tb[i].v_hash, tb[i].v_gap) = i
        /\ Chain(tb, c, tb[i].v_hash, tb[i].v_gap, hole)
    BY EntryIs
  <2> QED BY Zenon, <2>1, <2>2
<1>11. PICK far \in 1 .. c : far = tb[end].v_gap
  BY <1>10
<1>12. PICK home \in 0 .. c - 1 : home = Home(c, tb[end].v_hash)
  BY <1>10, HomeType
<1>13. Ring(c, home, far - (n - 1)) = q
  <2>1. Ring(c, home, far) = Ring(c, q, n)
    BY <1>6, <1>10, <1>11, <1>12 DEF At
  <2>2. n \in 1 .. c /\ n <= far
    BY <1>3, <1>5, <1>8, <1>11
  <2> QED BY <1>2, <2>1, <2>2, RingStart
<1>14. far = gap + (n - 1)
  <2> SUFFICES ASSUME far > gap + (n - 1) PROVE FALSE
    BY <1>3, <1>5, <1>8, <1>11
  <2>1. CASE n = 1
    <3>1. end = q
      BY <1>2, <1>6, <2>1 DEF Ring
    <3> QED BY <1>3, <1>11, <2>1, <3>1
  <2>2. CASE n # 1
    <3>1. far - (n - 1) \in 1 .. tb[end].v_gap - 1
      BY <1>3, <1>5, <1>11, <2>2
    <3>2. At(c, tb[end].v_hash, far - (n - 1)) = q
      BY <1>12, <1>13 DEF At
    <3>3. tb[q].v_gap >= far - (n - 1)
      BY <1>3, <1>10, <3>1, <3>2 DEF Chain
    <3> QED BY <1>3, <1>5, <3>3
  <2> QED BY <2>1, <2>2
<1>15. Ring(c, home, gap - 1) = hole
  <2>1. Ring(c, home, gap) = Ring(c, hole, 2)
    BY <1>2, <1>3, <1>5, <1>13, <1>14
  <2>2. gap \in 1 .. c /\ 2 \in 1 .. c
    BY <1>3, <1>5, <1>11, <1>14
  <2>3. PICK n2 \in 1 .. c : n2 = 2
    BY <2>2
  <2>4. Ring(c, home, gap - (n2 - 1)) = hole
    BY <2>1, <2>2, <2>3, RingStart
  <2>5. gap - (n2 - 1) = gap - 1
    BY <2>2, <2>3
  <2> QED BY <2>4, <2>5
<1> QED BY <1>3, <1>5, <1>9, <1>11, <1>12, <1>14, <1>15 DEF At

\* Once round the loop of f_remove the hole is elsewhere.
LEMMA FillSound ==
  ASSUME NEW c \in Nat \ {0}, NEW h, NEW tb, NEW hole \in 0 .. c - 1, Sound(h, tb, c, hole),
         tb[hole].v_gap = 0,
         NEW gap \in Nat, gap = tb[After(tb, hole, 1)].v_gap, gap > 1,
         NEW end \in Entries(tb), gap <= tb[end].v_gap,
         At(c, tb[end].v_hash, gap - 1) = hole,
         NEW tb1, Fits(tb1, c), tb1[end].v_gap = 0,
         tb1[hole].v_gap = gap - 1, tb1[hole].v_hash = tb[end].v_hash,
         tb1[hole].v_key = tb[end].v_key, tb1[hole].v_value = tb[end].v_value,
         \A j \in 0 .. c - 1 : j # hole /\ j # end => tb1[j] = tb[j]
  PROVE  /\ Sound(h, tb1, c, end)
         /\ Entries(tb1) = (Entries(tb) \ {end}) \cup {hole}
         /\ \A j \in Entries(tb) \ {end} : tb1[j] = tb[j]
<1>1. Fits(tb, c)
  BY DEF Sound
<1>2. hole \notin Entries(tb) /\ end # hole
  BY <1>1, EntriesAre
<1>3. end \in 0 .. c - 1 /\ Homed(h, c, tb[end], end) /\ tb[end].v_hash \in Nat
      /\ tb[end].v_gap \in 1 .. c /\ Chain(tb, c, tb[end].v_hash, tb[end].v_gap, hole)
  BY EntryIs
<1>4. gap - 1 \in 1 .. c
  BY <1>3
<1>5. Entries(tb1) = (Entries(tb) \ {end}) \cup {hole}
  <2>1. Entries(tb) = {j \in 0 .. c - 1 : tb[j].v_gap > 0}
    BY <1>1, EntriesAre
  <2>2. Entries(tb1) = {j \in 0 .. c - 1 : tb1[j].v_gap > 0}
    BY EntriesAre
  <2>3. end \notin Entries(tb1) /\ hole \in Entries(tb1)
    BY <2>2
  <2>4. \A j \in 0 .. c - 1 : j # hole /\ j # end => (j \in Entries(tb1) <=> j \in Entries(tb))
    BY <2>1, <2>2
  <2>5. Entries(tb) \subseteq 0 .. c - 1 /\ Entries(tb1) \subseteq 0 .. c - 1
    BY <2>1, <2>2
  <2> QED BY <1>2, <2>3, <2>4, <2>5
<1>6. \A j \in Entries(tb) \ {end} : tb1[j] = tb[j] /\ j # hole
  BY <1>1, <1>2, EntriesAre
<1>7. Homed(h, c, tb1[hole], hole)
  <2>1. tb1[hole] \in EntryType
    BY DEF Fits
  <2>2. tb[end].v_key \in Keys /\ tb[end].v_value \in Values /\ tb[end].v_hash = h[tb[end].v_key]
    BY <1>3 DEF Homed
  <2> QED BY <1>4, <2>1, <2>2 DEF Homed
<1>8. Chain(tb1, c, tb[end].v_hash, gap - 1, end)
  <2> SUFFICES ASSUME NEW k \in 1 .. (gap - 1) - 1, At(c, tb[end].v_hash, k) # end
               PROVE  tb1[At(c, tb[end].v_hash, k)].v_gap >= k
    BY DEF Chain
  <2>1. k \in 1 .. c /\ k # gap - 1 /\ k \in 1 .. tb[end].v_gap - 1
    BY <1>3
  <2>2. At(c, tb[end].v_hash, k) \in 0 .. c - 1
    BY <1>3, <2>1, AtType
  <2>3. At(c, tb[end].v_hash, k) # hole
    BY <1>3, <1>4, <2>1, AtOnce
  <2>4. tb[At(c, tb[end].v_hash, k)].v_gap >= k
    BY <1>3, <2>1, <2>3 DEF Chain
  <2> QED BY <2>2, <2>3, <2>4
<1>9. ASSUME NEW j \in Entries(tb) \ {end}
      PROVE  Homed(h, c, tb1[j], j) /\ Chain(tb1, c, tb1[j].v_hash, tb1[j].v_gap, end)
  <2>1. tb1[j] = tb[j]
    BY <1>6
  <2>2. Homed(h, c, tb[j], j) /\ tb[j].v_hash \in Nat /\ tb[j].v_gap \in 1 .. c
        /\ Chain(tb, c, tb[j].v_hash, tb[j].v_gap, hole)
    BY EntryIs
  <2>3. ASSUME NEW k \in 1 .. tb[j].v_gap - 1, At(c, tb[j].v_hash, k) # end
        PROVE  tb1[At(c, tb[j].v_hash, k)].v_gap >= k
    <3>0. k \in 1 .. c
      BY <2>2
    <3>1. At(c, tb[j].v_hash, k) \in 0 .. c - 1
      BY <2>2, <3>0, AtType
    <3>2. CASE At(c, tb[j].v_hash, k) = hole
      <4>1. gap >= k + 1
        BY <3>2, Behind
      <4> QED BY <3>2, <4>1
    <3>3. CASE At(c, tb[j].v_hash, k) # hole
      BY <2>2, <2>3, <3>1, <3>3 DEF Chain
    <3> QED BY <3>2, <3>3
  <2>4. Chain(tb1, c, tb[j].v_hash, tb[j].v_gap, end)
    BY <2>3 DEF Chain
  <2> QED BY <2>1, <2>2, <2>4
<1>10. Single(tb1)
  <2> SUFFICES ASSUME NEW j \in Entries(tb1), NEW k \in Entries(tb1),
                      tb1[j].v_key = tb1[k].v_key
               PROVE  j = k
    BY DEF Single
  <2>1. \A l \in Entries(tb1) : l # hole => l \in Entries(tb) \ {end} /\ tb1[l] = tb[l]
    BY <1>5, <1>6
  <2>2. \A l \in Entries(tb) \ {end} : tb[l].v_key # tb[end].v_key
    BY DEF Sound, Single
  <2>3. CASE j = hole
    BY <2>1, <2>2, <2>3
  <2>4. CASE k = hole
    BY <2>1, <2>2, <2>4
  <2>5. CASE j # hole /\ k # hole
    BY <2>1, <2>5 DEF Sound, Single
  <2> QED BY <2>3, <2>4, <2>5
<1>11. ASSUME NEW j \in Entries(tb1)
       PROVE  Homed(h, c, tb1[j], j) /\ Chain(tb1, c, tb1[j].v_hash, tb1[j].v_gap, end)
  <2>1. CASE j = hole
    BY <1>7, <1>8, <2>1
  <2>2. CASE j # hole
    BY <1>5, <1>9, <2>2
  <2> QED BY <2>1, <2>2
<1> QED BY <1>5, <1>6, <1>10, <1>11 DEF Sound
-----------------------------------------------------------------------------
(***************************************************************************)
(* What tables hold.                                                       *)
(***************************************************************************)

\* Gaps grow by one at most from a place to the next.
LEMMA StepsOne ==
  ASSUME NEW c \in Nat \ {0}, NEW h, NEW tb, Sound(h, tb, c, NoHole), NEW i \in 0 .. c - 1
  PROVE  tb[After(tb, i, 1)].v_gap <= tb[i].v_gap + 1
<1>1. Fits(tb, c) /\ Capacity(tb) = c
  BY CapacityOf DEF Sound
<1>2. PICK q \in 0 .. c - 1 : q = After(tb, i, 1) /\ q = Ring(c, i, 2)
  BY <1>1 DEF After, Ring
<1>3. PICK gap \in Nat : gap = tb[q].v_gap
  BY <1>1, EntriesAre
<1>4. tb[i].v_gap \in Nat
  BY <1>1, EntriesAre
<1>5. CASE gap <= 1
  BY <1>2, <1>3, <1>4, <1>5
<1>6. CASE gap > 1
  <2>1. q \in Entries(tb)
    BY <1>1, <1>3, <1>6, EntriesAre
  <2>2. tb[q].v_hash \in Nat /\ gap \in 1 .. c /\ At(c, tb[q].v_hash, gap) = q
        /\ Chain(tb, c, tb[q].v_hash, gap, NoHole)
    BY <1>3, <2>1, EntryIs
  <2>3. PICK n \in 1 .. c : n = 2
    BY <1>6, <2>2
  <2>4. Ring(c, Home(c, tb[q].v_hash), gap - (n - 1)) = i
    <3>1. Home(c, tb[q].v_hash) \in 0 .. c - 1
      BY <2>2, HomeType
    <3>2. Ring(c, Home(c, tb[q].v_hash), gap) = Ring(c, i, n)
      BY <1>2, <2>2, <2>3 DEF At
    <3>3. n <= gap
      BY <1>6, <2>3
    <3> QED BY <2>2, <3>1, <3>2, <3>3, RingStart
  <2>5. PICK k \in 1 .. gap - 1 : k = gap - 1
    BY <1>6, <2>2
  <2>6. At(c, tb[q].v_hash, k) = i
    BY <2>2, <2>3, <2>4, <2>5 DEF At
  <2>7. tb[i].v_gap >= k
    BY <2>2, <2>6 DEF Chain, NoHole
  <2> QED BY <1>2, <1>3, <1>4, <2>2, <2>5, <2>7
<1> QED BY <1>3, <1>5, <1>6

\* A table has as many keys as entries.
LEMMA KeyCount ==
  ASSUME NEW c \in Nat \ {0}, NEW h, NEW tb, NEW hole, Sound(h, tb, c, hole)
  PROVE  /\ IsFiniteSet({tb[i].v_key : i \in Entries(tb)})
         /\ Cardinality({tb[i].v_key : i \in Entries(tb)}) = Cardinality(Entries(tb))
<1>1. Fits(tb, c) /\ Single(tb)
  BY DEF Sound
<1>2. IsFiniteSet(Entries(tb))
  BY <1>1, EntriesAre
<1> DEFINE S == Entries(tb)
           T == {tb[i].v_key : i \in S}
           f == [i \in S |-> tb[i].v_key]
<1>3. f \in [S -> T] /\ \A a, b \in S : f[a] = f[b] => a = b
  BY <1>1 DEF Single
<1>4. \A y \in T : \E x \in S : f[x] = y
  OBVIOUS
<1> HIDE DEF f
<1>5. f \in Bijection(S, T)
  BY <1>3, <1>4 DEF Bijection, Injection, Surjection, IsInjective
<1>6. ExistsBijection(S, T)
  BY <1>5 DEF ExistsBijection
<1> QED BY <1>2, <1>6, FS_Bijection

\* What it puts in the place of another entry is in the table, and the other
\* one is what it has to put next.
LEMMA CarryHolds ==
  ASSUME NEW c \in Nat \ {0}, NEW h, NEW tb, Sound(h, tb, c, NoHole),
         NEW e, NEW i, Hand(h, tb, c, e, i), NEW tb1, i \in 0 .. c - 1, Entries(tb1) = Entries(tb) \cup {i}, tb1[i] = e,
         \A j \in 0 .. c - 1 : j # i => tb1[j] = tb[j],
         tb[i].v_gap > 0, NEW e2, Pair(e2) = Pair(tb[i])
  PROVE  /\ Held(tb1) \cup {Pair(e2)} = Held(tb) \cup {Pair(e)}
         /\ Entries(tb1) = Entries(tb)
<1>1. Fits(tb, c)
  BY DEF Sound
<1>2. i \in Entries(tb) /\ Entries(tb) \subseteq 0 .. c - 1
  BY <1>1, EntriesAre
<1>3. \A j \in Entries(tb) : j # i => tb1[j] = tb[j]
  BY <1>2
<1>4. Entries(tb1) = Entries(tb)
  BY <1>2
<1> QED BY <1>2, <1>3, <1>4 DEF PairsOf, Held
=============================================================================
