----------------------------- MODULE ListProofs -----------------------------
(***************************************************************************)
(* Proofs about List, for every unit of capacity and every list.           *)
(*                                                                         *)
(* The invariant is that of TypeOK, stated of a list l rather than of the  *)
(* variables so that it covers the list that sort has taken away as well,  *)
(* and one fact more: between two operations a list without elements has   *)
(* no ring (Settled), without which sort might take an empty ring away.    *)
(*                                                                         *)
(* f_insert and f_remove have eleven ways to move slots between them.      *)
(* Each is proved on its own to insert or to remove one element of the     *)
(* ring (SlotsInserted, SlotsRemoved); a lemma then turns those into       *)
(* InsertAt and RemoveAt on the sequence of the elements, from which both  *)
(* the invariant and the refinement follow.                                *)
(***************************************************************************)
EXTENDS List, SequenceTheorems, TLAPS

\* Slot i holds an element of the list l: the elements lie between the head
\* and head + size, and what is past the end of the ring is at its start.
Within(l, i) ==
  \/ l.head <= i /\ i < l.head + l.size
  \/ i < l.head + l.size - l.grow

\* t is a tuple of m slots.
IsTuple(t, m) == t = [i \in 0 .. m - 1 |-> t[i]]

\* The words of the ring agree with each other.
Words(l) ==
  /\ DOMAIN l = {"tuple", "head", "size", "grow", "shrink"}
  /\ l.head \in Nat /\ l.size \in Nat /\ l.grow \in Nat /\ l.shrink \in Nat
  /\ IsTuple(l.tuple, l.grow)
  /\ l.size <= l.grow
  /\ l.grow > 0 => l.head < l.grow
  /\ l.grow = 0 => l.head = 0

\* Slots outside the list are null.
Vacant(l) == \A i \in 0 .. l.grow - 1 : ~Within(l, i) => l.tuple[i] = Null

\* Between two operations a list without elements has no ring.
Settled(l) == Words(l) /\ Vacant(l) /\ (l.size = 0 => l.grow = 0)

\* The inductive invariant.
IInv ==
  /\ Settled(Now)
  /\ Settled(sorted)
  /\ sorted = Nothing \/ sorted.size > 0

\* The element k of the list l, from 0.
Element(l, k) == l.tuple[Slot(l.head, k, l.grow)]
-----------------------------------------------------------------------------
(***************************************************************************)
(* Sequences as functions: no type of the elements is needed.              *)
(***************************************************************************)
LEMMA IsSequence ==
  ASSUME NEW c \in Nat, NEW s, s = [i \in 1 .. c |-> s[i]]
  PROVE  /\ s \in Seq({s[i] : i \in 1 .. c})
         /\ Len(s) = c
         /\ DOMAIN s = 1 .. c
<1>1. s \in [1 .. c -> {s[i] : i \in 1 .. c}]
  OBVIOUS
<1>2. s \in Seq({s[i] : i \in 1 .. c})
  BY <1>1, SeqDef
<1>3. DOMAIN s = 1 .. c
  OBVIOUS
<1>4. Len(s) \in Nat /\ 1 .. Len(s) = 1 .. c
  BY <1>2, <1>3, LenProperties
<1>5. Len(s) = c
  BY <1>4
<1> QED BY <1>2, <1>3, <1>5

\* Two sequences that agree at every index are one.
LEMMA Equal ==
  ASSUME NEW c \in Nat, NEW s, NEW t,
         s = [i \in 1 .. c |-> s[i]], t = [i \in 1 .. c |-> t[i]],
         \A i \in 1 .. c : s[i] = t[i]
  PROVE  s = t
OBVIOUS

\* SubSeq, element by element.
LEMMA Part ==
  ASSUME NEW S, NEW s \in Seq(S), NEW a \in Int, NEW b \in Int,
         1 <= a, a <= b + 1, b <= Len(s)
  PROVE  /\ SubSeq(s, a, b) \in Seq(S)
         /\ Len(SubSeq(s, a, b)) = b - a + 1
         /\ \A i \in 1 .. b - a + 1 : SubSeq(s, a, b)[i] = s[a + i - 1]
OBVIOUS

\* InsertAt and RemoveAt, element by element.
IsInserted(z, s, k, e) ==
  z = [i \in 1 .. Len(s) + 1 |-> IF i < k THEN s[i] ELSE IF i = k THEN e ELSE s[i - 1]]

\* InsertAt, where no type of the elements is known but their set.
LEMMA Inserts ==
  ASSUME NEW S, NEW s \in Seq(S), NEW k \in 1 .. Len(s) + 1, NEW e \in S
  PROVE  IsInserted(InsertAt(s, k, e), s, k, e)
<1>0. Len(s) \in Nat
  OBVIOUS
<1>1. PICK a : a = SubSeq(s, 1, k - 1)
  OBVIOUS
<1>2. PICK b : b = SubSeq(s, k, Len(s))
  OBVIOUS
<1>3. PICK x : x = <<e>>
  OBVIOUS
<1>4. a \in Seq(S) /\ Len(a) = k - 1 /\ \A i \in 1 .. k - 1 : a[i] = s[i]
  BY <1>0, <1>1, Part
<1>5. b \in Seq(S) /\ Len(b) = Len(s) - k + 1 /\ \A i \in 1 .. Len(s) - k + 1 : b[i] = s[k + i - 1]
  BY <1>0, <1>2, Part
<1>6. x \in Seq(S) /\ Len(x) = 1 /\ x[1] = e
  BY <1>3
<1>7. PICK y : y = a \o x
  OBVIOUS
<1>8. y \in Seq(S) /\ Len(y) = k /\ \A i \in 1 .. k : y[i] = IF i < k THEN s[i] ELSE e
  <2>1. /\ y \in Seq(S) /\ Len(y) = Len(a) + Len(x)
        /\ \A i \in 1 .. Len(a) + Len(x) : y[i] = IF i <= Len(a) THEN a[i] ELSE x[i - Len(a)]
    BY <1>4, <1>6, <1>7, ConcatProperties
  <2>2. Len(y) = k
    BY <1>4, <1>6, <2>1
  <2>3. ASSUME NEW i \in 1 .. k PROVE y[i] = IF i < k THEN s[i] ELSE e
    BY <1>4, <1>6, <2>1
  <2> QED BY <2>1, <2>2, <2>3
<1>9. PICK z : z = y \o b
  OBVIOUS
<1>10. /\ z \in Seq(S) /\ Len(z) = Len(s) + 1
       /\ \A i \in 1 .. Len(s) + 1 : z[i] = IF i < k THEN s[i] ELSE IF i = k THEN e ELSE s[i - 1]
  <2>1. /\ z \in Seq(S) /\ Len(z) = Len(y) + Len(b)
        /\ \A i \in 1 .. Len(y) + Len(b) : z[i] = IF i <= Len(y) THEN y[i] ELSE b[i - Len(y)]
    BY <1>5, <1>8, <1>9, ConcatProperties
  <2>2. Len(z) = Len(s) + 1
    BY <1>0, <1>5, <1>8, <2>1
  <2>3. ASSUME NEW i \in 1 .. Len(s) + 1
        PROVE  z[i] = IF i < k THEN s[i] ELSE IF i = k THEN e ELSE s[i - 1]
    <3>1. CASE i <= k
      BY <1>0, <1>5, <1>8, <2>1, <3>1
    <3>2. CASE i > k
      <4>1. i - k \in 1 .. Len(s) - k + 1 /\ k + (i - k) - 1 = i - 1
        BY <1>0, <3>2
      <4>2. z[i] = b[i - k]
        BY <1>0, <1>5, <1>8, <2>1, <3>2
      <4> QED BY <1>5, <3>2, <4>1, <4>2
    <3> QED BY <1>0, <3>1, <3>2
  <2> QED BY <2>1, <2>2, <2>3
<1>11. z = [i \in 1 .. Len(s) + 1 |-> IF i < k THEN s[i] ELSE IF i = k THEN e ELSE s[i - 1]]
  <2>1. DOMAIN z = 1 .. Len(s) + 1 /\ z = [i \in 1 .. Len(s) + 1 |-> z[i]]
    BY <1>10, LenProperties
  <2> QED BY <1>10, <2>1
<1> QED BY <1>1, <1>2, <1>3, <1>7, <1>9, <1>11 DEF InsertAt, IsInserted

\* RemoveAt, element by element.
LEMMA Removes ==
  ASSUME NEW S, NEW s \in Seq(S), NEW k \in 1 .. Len(s)
  PROVE  RemoveAt(s, k) =
           [i \in 1 .. Len(s) - 1 |-> IF i < k THEN s[i] ELSE s[i + 1]]
<1>0. Len(s) \in Nat
  OBVIOUS
<1>1. PICK a : a = SubSeq(s, 1, k - 1)
  OBVIOUS
<1>2. PICK b : b = SubSeq(s, k + 1, Len(s))
  OBVIOUS
<1>4. a \in Seq(S) /\ Len(a) = k - 1 /\ \A i \in 1 .. k - 1 : a[i] = s[i]
  BY <1>0, <1>1, Part
<1>5. b \in Seq(S) /\ Len(b) = Len(s) - k /\ \A i \in 1 .. Len(s) - k : b[i] = s[k + i]
  BY <1>0, <1>2, Part
<1>9. PICK z : z = a \o b
  OBVIOUS
<1>10. /\ z \in Seq(S) /\ Len(z) = Len(s) - 1
       /\ \A i \in 1 .. Len(s) - 1 : z[i] = IF i < k THEN s[i] ELSE s[i + 1]
  <2>1. /\ z \in Seq(S) /\ Len(z) = Len(a) + Len(b)
        /\ \A i \in 1 .. Len(a) + Len(b) : z[i] = IF i <= Len(a) THEN a[i] ELSE b[i - Len(a)]
    BY <1>4, <1>5, <1>9, ConcatProperties
  <2>2. Len(z) = Len(s) - 1
    BY <1>0, <1>4, <1>5, <2>1
  <2>3. ASSUME NEW i \in 1 .. Len(s) - 1
        PROVE  z[i] = IF i < k THEN s[i] ELSE s[i + 1]
    <3>0. i \in 1 .. Len(a) + Len(b) /\ (i <= Len(a) <=> i < k) /\ Len(a) = k - 1
      BY <1>0, <1>4, <1>5
    <3>1. CASE i < k
      BY <1>4, <2>1, <3>0, <3>1
    <3>2. CASE i >= k
      <4>1. i - (k - 1) \in 1 .. Len(s) - k /\ k + (i - (k - 1)) = i + 1
        BY <1>0, <3>2
      <4>2. z[i] = b[i - (k - 1)]
        BY <2>1, <3>0, <3>2
      <4> QED BY <1>5, <3>2, <4>1, <4>2
    <3> QED BY <1>0, <3>1, <3>2
  <2> QED BY <2>1, <2>2, <2>3
<1>11. z = [i \in 1 .. Len(s) - 1 |-> IF i < k THEN s[i] ELSE s[i + 1]]
  <2>1. DOMAIN z = 1 .. Len(s) - 1 /\ z = [i \in 1 .. Len(s) - 1 |-> z[i]]
    BY <1>10, LenProperties
  <2> QED BY <1>10, <2>1
<1> QED BY <1>1, <1>2, <1>9, <1>11 DEF RemoveAt
-----------------------------------------------------------------------------
(***************************************************************************)
(* Capacity: the new ring has room for the elements and for one more.      *)
(***************************************************************************)
LEMMA RoundsUp ==
  ASSUME NEW u \in Nat, u > 0, NEW a \in Nat
  PROVE  (a + u - 1) \div u \in Nat /\ ((a + u - 1) \div u) * u >= a
<1>1. PICK q : q = (a + u - 1) \div u
  OBVIOUS
<1>2. PICK r : r = (a + u - 1) % u
  OBVIOUS
<1>3. q \in Int /\ r \in 0 .. u - 1 /\ a + u - 1 = q * u + r
  BY <1>1, <1>2
<1>4. q * u \in Int /\ q * u >= a
  BY <1>3
<1>5. q >= 0
  BY <1>3, <1>4
<1> QED BY <1>1, <1>3, <1>4, <1>5

\* f_resize: twice the rounded size holds more than the elements, and the
\* threshold of f_shrink is not negative.
LEMMA Capacity ==
  ASSUME NEW c \in Nat, c > 0
  PROVE  LET size == f_capacity_to_size(c) IN
           /\ size \in Nat
           /\ f_size_to_capacity(size * 2) \in Nat
           /\ f_size_to_capacity(size * 2) > c
           /\ size >= 2 => ((size * Unit) \div 2) - Header \in Nat
<1> DEFINE size == f_capacity_to_size(c)
<1>1. size \in Nat /\ size * Unit >= Header + c
  <2>1. Header + c \in Nat /\ Unit \in Nat /\ Unit > 0
    BY UnitAssumption
  <2> QED BY <2>1, RoundsUp DEF f_capacity_to_size
<1> HIDE DEF size
<1>2. PICK p : p = size * Unit
  OBVIOUS
<1>3. p \in Nat /\ p >= Header + c /\ (size * 2) * Unit = 2 * p
  BY <1>1, <1>2, UnitAssumption
<1>4. size >= 2 => p >= 2 * Unit
  BY <1>1, <1>2, UnitAssumption
<1>5. size >= 2 => (p \div 2) - Header \in Nat
  BY <1>3, <1>4, UnitAssumption
<1> QED BY <1>1, <1>2, <1>3, <1>5, UnitAssumption DEF size, f_size_to_capacity

\* f_grow: the first ring has a slot.
LEMMA SmallestCapacity ==
  f_size_to_capacity(1) \in Nat /\ f_size_to_capacity(1) > 0
BY UnitAssumption DEF f_size_to_capacity

\* The moves, slot by slot.
MovedForward(u, t, m, a, b, v) ==
  /\ DOMAIN u = 0 .. m - 1 /\ IsTuple(u, m)
  /\ \A i \in 0 .. m - 1 :
       u[i] = IF i = a THEN v ELSE IF a < i /\ i <= b THEN t[i - 1] ELSE t[i]

MovedBackward(u, t, m, a, b, v) ==
  /\ DOMAIN u = 0 .. m - 1 /\ IsTuple(u, m)
  /\ \A i \in 0 .. m - 1 :
       u[i] = IF i = b THEN v ELSE IF a <= i /\ i < b THEN t[i + 1] ELSE t[i]

\* f_move_forward is that move wherever a is not past b.
LEMMA Forward ==
  ASSUME NEW m \in Nat, NEW t, DOMAIN t = 0 .. m - 1,
         NEW a \in 0 .. m - 1, NEW b \in 0 .. m - 1, a <= b, NEW v
  PROVE  MovedForward(f_move_forward(t, a, b, v), t, m, a, b, v)
<1>1. (IF a < b THEN a ELSE b) = a
  OBVIOUS
<1> QED BY <1>1 DEF f_move_forward, MovedForward, IsTuple

\* f_move_backward is that move wherever a is not past b.
LEMMA Backward ==
  ASSUME NEW m \in Nat, NEW t, DOMAIN t = 0 .. m - 1,
         NEW a \in 0 .. m - 1, NEW b \in 0 .. m - 1, a <= b, NEW v
  PROVE  MovedBackward(f_move_backward(t, a, b, v), t, m, a, b, v)
<1>1. (IF a < b THEN b ELSE a) = b
  OBVIOUS
<1> QED BY <1>1 DEF f_move_backward, MovedBackward, IsTuple

\* l and r hold the same elements.
Same(l, r) == r.size = l.size /\ \A k \in 0 .. l.size - 1 : Element(r, k) = Element(l, k)

\* f_resize keeps the elements and leaves room for one more.
LEMMA Resizes ==
  ASSUME NEW l, Words(l), l.size > 0
  PROVE  LET r == f_resize(l) IN
           Words(r) /\ Vacant(r) /\ Same(l, r) /\ r.grow > r.size
<1>1. PICK size : size = f_capacity_to_size(l.size)
  OBVIOUS
<1>2. PICK grow : grow = f_size_to_capacity(size * 2)
  OBVIOUS
<1>3. /\ size \in Nat /\ grow \in Nat /\ grow > l.size
      /\ size >= 2 => ((size * Unit) \div 2) - Header \in Nat
  BY <1>1, <1>2, Capacity DEF Words
<1>4. PICK shrink : shrink = IF size < 2 THEN 0 ELSE ((size * Unit) \div 2) - Header
  OBVIOUS
<1>5. shrink \in Nat
  BY <1>3, <1>4
<1>6. PICK tuple : tuple = [i \in 0 .. grow - 1 |->
                              IF i < l.size THEN l.tuple[Slot(l.head, i, l.grow)] ELSE Null]
  OBVIOUS
<1>7. PICK r : r = f_resize(l)
  OBVIOUS
<1>8. /\ DOMAIN r = {"tuple", "head", "size", "grow", "shrink"}
      /\ r.tuple = tuple /\ r.head = 0 /\ r.size = l.size /\ r.grow = grow /\ r.shrink = shrink
  BY <1>1, <1>2, <1>4, <1>6, <1>7 DEF f_resize, Words
<1>9. Words(r)
  <2>1. IsTuple(r.tuple, r.grow)
    BY <1>6, <1>8 DEF IsTuple
  <2> QED BY <1>3, <1>5, <1>8, <2>1 DEF Words
<1>10. Vacant(r)
  BY <1>3, <1>6, <1>8 DEF Vacant, Within, Words
<1>11. Same(l, r)
  BY <1>3, <1>6, <1>8 DEF Same, Element, Slot, Words
<1> QED BY <1>3, <1>7, <1>8, <1>9, <1>10, <1>11

\* After f_grow there is room for one more.
LEMMA Grows ==
  ASSUME NEW l, Settled(l)
  PROVE  LET r == f_grow(l) IN
           Words(r) /\ Vacant(r) /\ Same(l, r) /\ r.grow > r.size
<1>1. CASE l.size < l.grow
  BY <1>1 DEF f_grow, Settled, Words, Same
<1>2. CASE ~(l.size < l.grow) /\ l.size > 0
  BY <1>2, Resizes DEF f_grow, Settled
<1>3. CASE ~(l.size < l.grow) /\ ~(l.size > 0)
  <2>1. PICK grow : grow = f_size_to_capacity(1)
    OBVIOUS
  <2>2. PICK r : r = f_grow(l)
    OBVIOUS
  <2>3. /\ DOMAIN r = {"tuple", "head", "size", "grow", "shrink"}
        /\ r.head = 0 /\ r.size = 0 /\ l.size = 0 /\ r.grow = grow /\ r.shrink \in Nat
    BY <1>3, <2>1, <2>2 DEF f_grow, Settled, Words
  <2>t. r.tuple = [i \in 0 .. grow - 1 |-> Null]
    BY <1>3, <2>1, <2>2 DEF f_grow, Settled, Words
  <2>4. grow \in Nat /\ grow > 0
    BY <2>1, SmallestCapacity
  <2>5. IsTuple(r.tuple, r.grow)
    BY <2>3, <2>t DEF IsTuple
  <2>6. Words(r)
    BY <2>3, <2>4, <2>5 DEF Words
  <2>7. Vacant(r)
    BY <2>3, <2>t, <2>4 DEF Vacant
  <2>8. Same(l, r) /\ r.grow > r.size
    BY <2>3, <2>4 DEF Same
  <2> QED BY <2>2, <2>6, <2>7, <2>8
<1> QED BY <1>1, <1>2, <1>3

\* f_shrink keeps the elements, and drops the ring of an empty list.
LEMMA Shrinks ==
  ASSUME NEW l, Words(l), Vacant(l)
  PROVE  LET r == f_shrink(l) IN Settled(r) /\ Same(l, r)
<1>1. CASE l.size > l.shrink
  BY <1>1 DEF f_shrink, Settled, Words, Same
<1>2. CASE ~(l.size > l.shrink) /\ l.size > 0
  BY <1>2, Resizes DEF f_shrink, Settled, Same
<1>3. CASE ~(l.size > l.shrink) /\ ~(l.size > 0)
  <2>2. PICK r : r = f_shrink(l)
    OBVIOUS
  <2>3. /\ DOMAIN r = {"tuple", "head", "size", "grow", "shrink"}
        /\ r.tuple = None /\ r.head = 0 /\ r.size = 0 /\ l.size = 0
        /\ r.grow = 0 /\ r.shrink = l.shrink /\ r.shrink \in Nat
    BY <1>3, <2>2 DEF f_shrink, Settled, Words
  <2>4. IsTuple(r.tuple, r.grow)
    BY <2>3 DEF None, IsTuple
  <2> QED BY <2>2, <2>3, <2>4 DEF Settled, Words, Vacant, Same
<1> QED BY <1>1, <1>2, <1>3
-----------------------------------------------------------------------------
(***************************************************************************)
(* The middle.  A ring of m slots t that holds c elements from h on        *)
(* becomes the ring w that holds them from g on, with one more or less.    *)
(***************************************************************************)
Free(t, h, c, m) ==
  \A i \in 0 .. m - 1 : ~(h <= i /\ i < h + c) /\ ~(i < h + c - m) => t[i] = Null

SlotsInserted(t, h, c, m, k, v, w, g) ==
  /\ g \in 0 .. m - 1
  /\ Free(w, g, c + 1, m)
  /\ \A j \in 0 .. c : w[Slot(g, j, m)] =
       IF j < k THEN t[Slot(h, j, m)] ELSE IF j = k THEN v ELSE t[Slot(h, j - 1, m)]

SlotsRemoved(t, h, c, m, k, w, g) ==
  /\ g \in 0 .. m - 1
  /\ Free(w, g, c - 1, m)
  /\ \A j \in 0 .. c - 2 : w[Slot(g, j, m)] =
       IF j < k THEN t[Slot(h, j, m)] ELSE t[Slot(h, j + 1, m)]

\* The front moves backward; the place is past the end of the ring.
LEMMA InsertsBehindEnd ==
  ASSUME NEW m \in Nat, NEW h \in 0 .. m - 1, NEW c \in 0 .. m,
         NEW t, DOMAIN t = 0 .. m - 1, Free(t, h, c, m),
         c < m, NEW k \in 0 .. c - 1, NEW v,
         k < c - k, h + k > m,
         NEW u, MovedBackward(u, t, m, h - 1, m - 1, t[0]),
         NEW w, MovedBackward(w, u, m, 0, h + k - 1 - m, v)
  PROVE  IsTuple(w, m) /\ SlotsInserted(t, h, c, m, k, v, w, h - 1)
<1>1. \A i \in 0 .. m - 1 : u[i] =
        IF i = m - 1 THEN t[0] ELSE IF h - 1 <= i /\ i < m - 1 THEN t[i + 1] ELSE t[i]
  BY DEF MovedBackward
<1>2. \A i \in 0 .. m - 1 : w[i] =
        IF i = h + k - 1 - m THEN v ELSE IF 0 <= i /\ i < h + k - 1 - m THEN u[i + 1] ELSE u[i]
  BY DEF MovedBackward
<1>3. Free(w, h - 1, c + 1, m)
  BY <1>1, <1>2 DEF Free
<1>4. ASSUME NEW j \in 0 .. c
      PROVE  w[Slot(h - 1, j, m)] =
               IF j < k THEN t[Slot(h, j, m)] ELSE IF j = k THEN v ELSE t[Slot(h, j - 1, m)]
  BY <1>1, <1>2 DEF Slot
<1>5. IsTuple(w, m) /\ h - 1 \in 0 .. m - 1
  BY DEF MovedBackward
<1> QED BY <1>3, <1>4, <1>5 DEF SlotsInserted

\* The front moves backward within the ring.
LEMMA InsertsFront ==
  ASSUME NEW m \in Nat, NEW h \in 0 .. m - 1, NEW c \in 0 .. m,
         NEW t, DOMAIN t = 0 .. m - 1, Free(t, h, c, m),
         c < m, NEW k \in 0 .. c - 1, NEW v,
         k < c - k, h + k <= m, h > 0,
         NEW w, MovedBackward(w, t, m, h - 1, h + k - 1, v)
  PROVE  IsTuple(w, m) /\ SlotsInserted(t, h, c, m, k, v, w, h - 1)
<1>1. \A i \in 0 .. m - 1 : w[i] =
        IF i = h + k - 1 THEN v ELSE IF h - 1 <= i /\ i < h + k - 1 THEN t[i + 1] ELSE t[i]
  BY DEF MovedBackward
<1>2. Free(w, h - 1, c + 1, m)
  BY <1>1 DEF Free
<1>3. ASSUME NEW j \in 0 .. c
      PROVE  w[Slot(h - 1, j, m)] =
               IF j < k THEN t[Slot(h, j, m)] ELSE IF j = k THEN v ELSE t[Slot(h, j - 1, m)]
  BY <1>1 DEF Slot
<1>4. IsTuple(w, m) /\ h - 1 \in 0 .. m - 1
  BY DEF MovedBackward
<1> QED BY <1>2, <1>3, <1>4 DEF SlotsInserted

\* The front moves backward across the start of the ring.
LEMMA InsertsAcrossStart ==
  ASSUME NEW m \in Nat, NEW h \in 0 .. m - 1, NEW c \in 0 .. m,
         NEW t, DOMAIN t = 0 .. m - 1, Free(t, h, c, m),
         c < m, NEW k \in 0 .. c - 1, NEW v,
         k < c - k, h + k <= m, h = 0, k > 0,
         NEW u, MovedForward(u, t, m, m - 1, m - 1, t[0]),
         NEW w, MovedBackward(w, u, m, 0, h + k - 1, v)
  PROVE  IsTuple(w, m) /\ SlotsInserted(t, h, c, m, k, v, w, m - 1)
<1>1. \A i \in 0 .. m - 1 : u[i] =
        IF i = m - 1 THEN t[0] ELSE IF m - 1 < i /\ i <= m - 1 THEN t[i - 1] ELSE t[i]
  BY DEF MovedForward
<1>2. \A i \in 0 .. m - 1 : w[i] =
        IF i = h + k - 1 THEN v ELSE IF 0 <= i /\ i < h + k - 1 THEN u[i + 1] ELSE u[i]
  BY DEF MovedBackward
<1>3. Free(w, m - 1, c + 1, m)
  BY <1>1, <1>2 DEF Free
<1>4. ASSUME NEW j \in 0 .. c
      PROVE  w[Slot(m - 1, j, m)] =
               IF j < k THEN t[Slot(h, j, m)] ELSE IF j = k THEN v ELSE t[Slot(h, j - 1, m)]
  BY <1>1, <1>2 DEF Slot
<1>5. IsTuple(w, m) /\ m - 1 \in 0 .. m - 1
  BY DEF MovedBackward
<1> QED BY <1>3, <1>4, <1>5 DEF SlotsInserted

\* The back moves forward, all of it past the end of the ring.
LEMMA InsertsWrapped ==
  ASSUME NEW m \in Nat, NEW h \in 0 .. m - 1, NEW c \in 0 .. m,
         NEW t, DOMAIN t = 0 .. m - 1, Free(t, h, c, m),
         c < m, NEW k \in 0 .. c - 1, NEW v,
         ~(k < c - k), h + k >= m,
         NEW w, MovedForward(w, t, m, h + k - m, h + c - m, v)
  PROVE  IsTuple(w, m) /\ SlotsInserted(t, h, c, m, k, v, w, h)
<1>1. \A i \in 0 .. m - 1 : w[i] =
        IF i = h + k - m THEN v ELSE IF h + k - m < i /\ i <= h + c - m THEN t[i - 1] ELSE t[i]
  BY DEF MovedForward
<1>2. Free(w, h, c + 1, m)
  BY <1>1 DEF Free
<1>3. ASSUME NEW j \in 0 .. c
      PROVE  w[Slot(h, j, m)] =
               IF j < k THEN t[Slot(h, j, m)] ELSE IF j = k THEN v ELSE t[Slot(h, j - 1, m)]
  BY <1>1 DEF Slot
<1>4. IsTuple(w, m) /\ h \in 0 .. m - 1
  BY DEF MovedForward
<1> QED BY <1>2, <1>3, <1>4 DEF SlotsInserted

\* The back moves forward across the end of the ring.
LEMMA InsertsAcrossEnd ==
  ASSUME NEW m \in Nat, NEW h \in 0 .. m - 1, NEW c \in 0 .. m,
         NEW t, DOMAIN t = 0 .. m - 1, Free(t, h, c, m),
         c < m, NEW k \in 0 .. c - 1, NEW v,
         ~(k < c - k), h + k < m, h + c >= m,
         NEW u, MovedForward(u, t, m, 0, h + c - m, t[m - 1]),
         NEW w, MovedForward(w, u, m, h + k, m - 1, v)
  PROVE  IsTuple(w, m) /\ SlotsInserted(t, h, c, m, k, v, w, h)
<1>1. \A i \in 0 .. m - 1 : u[i] =
        IF i = 0 THEN t[m - 1] ELSE IF 0 < i /\ i <= h + c - m THEN t[i - 1] ELSE t[i]
  BY DEF MovedForward
<1>2. \A i \in 0 .. m - 1 : w[i] =
        IF i = h + k THEN v ELSE IF h + k < i /\ i <= m - 1 THEN u[i - 1] ELSE u[i]
  BY DEF MovedForward
<1>3. Free(w, h, c + 1, m)
  BY <1>1, <1>2 DEF Free
<1>4. ASSUME NEW j \in 0 .. c
      PROVE  w[Slot(h, j, m)] =
               IF j < k THEN t[Slot(h, j, m)] ELSE IF j = k THEN v ELSE t[Slot(h, j - 1, m)]
  BY <1>1, <1>2 DEF Slot
<1>5. IsTuple(w, m) /\ h \in 0 .. m - 1
  BY DEF MovedForward
<1> QED BY <1>3, <1>4, <1>5 DEF SlotsInserted

\* The back moves forward within the ring.
LEMMA InsertsBack ==
  ASSUME NEW m \in Nat, NEW h \in 0 .. m - 1, NEW c \in 0 .. m,
         NEW t, DOMAIN t = 0 .. m - 1, Free(t, h, c, m),
         c < m, NEW k \in 0 .. c - 1, NEW v,
         ~(k < c - k), h + k < m, h + c < m,
         NEW w, MovedForward(w, t, m, h + k, h + c, v)
  PROVE  IsTuple(w, m) /\ SlotsInserted(t, h, c, m, k, v, w, h)
<1>1. \A i \in 0 .. m - 1 : w[i] =
        IF i = h + k THEN v ELSE IF h + k < i /\ i <= h + c THEN t[i - 1] ELSE t[i]
  BY DEF MovedForward
<1>2. Free(w, h, c + 1, m)
  BY <1>1 DEF Free
<1>3. ASSUME NEW j \in 0 .. c
      PROVE  w[Slot(h, j, m)] =
               IF j < k THEN t[Slot(h, j, m)] ELSE IF j = k THEN v ELSE t[Slot(h, j - 1, m)]
  BY <1>1 DEF Slot
<1>4. IsTuple(w, m) /\ h \in 0 .. m - 1
  BY DEF MovedForward
<1> QED BY <1>2, <1>3, <1>4 DEF SlotsInserted

\* The front moves forward across the end of the ring.
LEMMA RemovesBehindEnd ==
  ASSUME NEW m \in Nat, NEW h \in 0 .. m - 1, NEW c \in 0 .. m,
         NEW t, DOMAIN t = 0 .. m - 1, Free(t, h, c, m),
         NEW k \in 0 .. c - 1,
         k < c - k, h + k >= m,
         NEW u, MovedForward(u, t, m, 0, h + k - m, t[m - 1]),
         NEW w, MovedForward(w, u, m, h, m - 1, Null)
  PROVE  IsTuple(w, m) /\ SlotsRemoved(t, h, c, m, k, w, (IF h + 1 >= m THEN 0 ELSE h + 1))
<1>1. \A i \in 0 .. m - 1 : u[i] =
        IF i = 0 THEN t[m - 1] ELSE IF 0 < i /\ i <= h + k - m THEN t[i - 1] ELSE t[i]
  BY DEF MovedForward
<1>2. \A i \in 0 .. m - 1 : w[i] =
        IF i = h THEN Null ELSE IF h < i /\ i <= m - 1 THEN u[i - 1] ELSE u[i]
  BY DEF MovedForward
<1>3. Free(w, (IF h + 1 >= m THEN 0 ELSE h + 1), c - 1, m)
  BY <1>1, <1>2 DEF Free
<1>4. ASSUME NEW j \in 0 .. c - 2
      PROVE  w[Slot((IF h + 1 >= m THEN 0 ELSE h + 1), j, m)] =
               IF j < k THEN t[Slot(h, j, m)] ELSE t[Slot(h, j + 1, m)]
  BY <1>1, <1>2 DEF Slot
<1>5. IsTuple(w, m) /\ (IF h + 1 >= m THEN 0 ELSE h + 1) \in 0 .. m - 1
  BY DEF MovedForward
<1> QED BY <1>3, <1>4, <1>5 DEF SlotsRemoved

\* The front moves forward within the ring.
LEMMA RemovesFront ==
  ASSUME NEW m \in Nat, NEW h \in 0 .. m - 1, NEW c \in 0 .. m,
         NEW t, DOMAIN t = 0 .. m - 1, Free(t, h, c, m),
         NEW k \in 0 .. c - 1,
         k < c - k, h + k < m,
         NEW w, MovedForward(w, t, m, h, h + k, Null)
  PROVE  IsTuple(w, m) /\ SlotsRemoved(t, h, c, m, k, w, (IF h + 1 >= m THEN 0 ELSE h + 1))
<1>1. \A i \in 0 .. m - 1 : w[i] =
        IF i = h THEN Null ELSE IF h < i /\ i <= h + k THEN t[i - 1] ELSE t[i]
  BY DEF MovedForward
<1>2. Free(w, (IF h + 1 >= m THEN 0 ELSE h + 1), c - 1, m)
  BY <1>1 DEF Free
<1>3. ASSUME NEW j \in 0 .. c - 2
      PROVE  w[Slot((IF h + 1 >= m THEN 0 ELSE h + 1), j, m)] =
               IF j < k THEN t[Slot(h, j, m)] ELSE t[Slot(h, j + 1, m)]
  BY <1>1 DEF Slot
<1>4. IsTuple(w, m) /\ (IF h + 1 >= m THEN 0 ELSE h + 1) \in 0 .. m - 1
  BY DEF MovedForward
<1> QED BY <1>2, <1>3, <1>4 DEF SlotsRemoved

\* The back moves backward, all of it past the end of the ring.
LEMMA RemovesWrapped ==
  ASSUME NEW m \in Nat, NEW h \in 0 .. m - 1, NEW c \in 0 .. m,
         NEW t, DOMAIN t = 0 .. m - 1, Free(t, h, c, m),
         NEW k \in 0 .. c - 1,
         ~(k < c - k), h + k >= m,
         NEW w, MovedBackward(w, t, m, h + k - m, h + c - 1 - m, Null)
  PROVE  IsTuple(w, m) /\ SlotsRemoved(t, h, c, m, k, w, h)
<1>1. \A i \in 0 .. m - 1 : w[i] =
        IF i = h + c - 1 - m THEN Null ELSE IF h + k - m <= i /\ i < h + c - 1 - m THEN t[i + 1] ELSE t[i]
  BY DEF MovedBackward
<1>2. Free(w, h, c - 1, m)
  BY <1>1 DEF Free
<1>3. ASSUME NEW j \in 0 .. c - 2
      PROVE  w[Slot(h, j, m)] =
               IF j < k THEN t[Slot(h, j, m)] ELSE t[Slot(h, j + 1, m)]
  BY <1>1 DEF Slot
<1>4. IsTuple(w, m) /\ h \in 0 .. m - 1
  BY DEF MovedBackward
<1> QED BY <1>2, <1>3, <1>4 DEF SlotsRemoved

\* The back moves backward across the end of the ring.
LEMMA RemovesAcrossEnd ==
  ASSUME NEW m \in Nat, NEW h \in 0 .. m - 1, NEW c \in 0 .. m,
         NEW t, DOMAIN t = 0 .. m - 1, Free(t, h, c, m),
         NEW k \in 0 .. c - 1,
         ~(k < c - k), h + k < m, h + c > m,
         NEW u, MovedBackward(u, t, m, h + k, m - 1, t[0]),
         NEW w, MovedBackward(w, u, m, 0, h + c - 1 - m, Null)
  PROVE  IsTuple(w, m) /\ SlotsRemoved(t, h, c, m, k, w, h)
<1>1. \A i \in 0 .. m - 1 : u[i] =
        IF i = m - 1 THEN t[0] ELSE IF h + k <= i /\ i < m - 1 THEN t[i + 1] ELSE t[i]
  BY DEF MovedBackward
<1>2. \A i \in 0 .. m - 1 : w[i] =
        IF i = h + c - 1 - m THEN Null ELSE IF 0 <= i /\ i < h + c - 1 - m THEN u[i + 1] ELSE u[i]
  BY DEF MovedBackward
<1>3. Free(w, h, c - 1, m)
  BY <1>1, <1>2 DEF Free
<1>4. ASSUME NEW j \in 0 .. c - 2
      PROVE  w[Slot(h, j, m)] =
               IF j < k THEN t[Slot(h, j, m)] ELSE t[Slot(h, j + 1, m)]
  BY <1>1, <1>2 DEF Slot
<1>5. IsTuple(w, m) /\ h \in 0 .. m - 1
  BY DEF MovedBackward
<1> QED BY <1>3, <1>4, <1>5 DEF SlotsRemoved

\* The back moves backward within the ring.
LEMMA RemovesBack ==
  ASSUME NEW m \in Nat, NEW h \in 0 .. m - 1, NEW c \in 0 .. m,
         NEW t, DOMAIN t = 0 .. m - 1, Free(t, h, c, m),
         NEW k \in 0 .. c - 1,
         ~(k < c - k), h + k < m, h + c <= m,
         NEW w, MovedBackward(w, t, m, h + k, h + c - 1, Null)
  PROVE  IsTuple(w, m) /\ SlotsRemoved(t, h, c, m, k, w, h)
<1>1. \A i \in 0 .. m - 1 : w[i] =
        IF i = h + c - 1 THEN Null ELSE IF h + k <= i /\ i < h + c - 1 THEN t[i + 1] ELSE t[i]
  BY DEF MovedBackward
<1>2. Free(w, h, c - 1, m)
  BY <1>1 DEF Free
<1>3. ASSUME NEW j \in 0 .. c - 2
      PROVE  w[Slot(h, j, m)] =
               IF j < k THEN t[Slot(h, j, m)] ELSE t[Slot(h, j + 1, m)]
  BY <1>1 DEF Slot
<1>4. IsTuple(w, m) /\ h \in 0 .. m - 1
  BY DEF MovedBackward
<1> QED BY <1>2, <1>3, <1>4 DEF SlotsRemoved

-----------------------------------------------------------------------------
(***************************************************************************)
(* What an operation does to a list.                                       *)
(***************************************************************************)
Inserted(l, r, k, v) ==
  /\ r.size = l.size + 1
  /\ \A j \in 0 .. l.size :
       Element(r, j) = IF j < k THEN Element(l, j) ELSE IF j = k THEN v ELSE Element(l, j - 1)

Removed(l, r, k) ==
  /\ r.size = l.size - 1
  /\ \A j \in 0 .. l.size - 2 :
       Element(r, j) = IF j < k THEN Element(l, j) ELSE Element(l, j + 1)

\* r is l with c elements from g on in the slots w.
Rewritten(l, r, w, g, c) ==
  /\ DOMAIN r = DOMAIN l
  /\ r.tuple = w /\ r.head = g /\ r.size = c
  /\ r.grow = l.grow /\ r.shrink = l.shrink

\* An insertion into the slots is one into the list.
LEMMA InsertsSlots ==
  ASSUME NEW l, Words(l), l.size < l.grow, NEW k, NEW v, NEW w, NEW g, NEW r,
         IsTuple(w, l.grow),
         SlotsInserted(l.tuple, l.head, l.size, l.grow, k, v, w, g),
         Rewritten(l, r, w, g, l.size + 1)
  PROVE  Words(r) /\ Vacant(r) /\ Inserted(l, r, k, v)
<1>1. /\ DOMAIN r = {"tuple", "head", "size", "grow", "shrink"}
      /\ r.tuple = w /\ r.head = g /\ r.size = l.size + 1
      /\ r.grow = l.grow /\ r.shrink = l.shrink
  BY DEF Rewritten, Words
<1>2. /\ l.grow \in Nat /\ l.size \in Nat /\ l.shrink \in Nat /\ l.head \in Nat
      /\ g \in 0 .. l.grow - 1
  BY DEF Words, SlotsInserted
<1>3. Words(r)
  <2>1. IsTuple(r.tuple, r.grow)
    BY <1>1
  <2> QED BY <1>1, <1>2, <2>1 DEF Words
<1>4. Vacant(r)
  <2>1. Free(w, g, l.size + 1, l.grow)
    BY DEF SlotsInserted
  <2> QED BY <1>1, <1>2, <2>1 DEF Vacant, Within, Free
<1>5. Inserted(l, r, k, v)
  BY <1>1, <1>2 DEF Inserted, SlotsInserted, Element
<1> QED BY <1>3, <1>4, <1>5

\* A removal from the slots is one from the list.
LEMMA RemovesSlots ==
  ASSUME NEW l, Words(l), l.size > 0, NEW k, NEW w, NEW g, NEW r,
         IsTuple(w, l.grow),
         SlotsRemoved(l.tuple, l.head, l.size, l.grow, k, w, g),
         Rewritten(l, r, w, g, l.size - 1)
  PROVE  Words(r) /\ Vacant(r) /\ Removed(l, r, k)
<1>1. /\ DOMAIN r = {"tuple", "head", "size", "grow", "shrink"}
      /\ r.tuple = w /\ r.head = g /\ r.size = l.size - 1
      /\ r.grow = l.grow /\ r.shrink = l.shrink
  BY DEF Rewritten, Words
<1>2. /\ l.grow \in Nat /\ l.size \in Nat /\ l.shrink \in Nat /\ l.head \in Nat
      /\ l.size <= l.grow /\ g \in 0 .. l.grow - 1
  BY DEF Words, SlotsRemoved
<1>3. Words(r)
  <2>1. IsTuple(r.tuple, r.grow)
    BY <1>1
  <2> QED BY <1>1, <1>2, <2>1 DEF Words
<1>4. Vacant(r)
  <2>1. Free(w, g, l.size - 1, l.grow)
    BY DEF SlotsRemoved
  <2> QED BY <1>1, <1>2, <2>1 DEF Vacant, Within, Free
<1>5. Removed(l, r, k)
  BY <1>1, <1>2 DEF Removed, SlotsRemoved, Element
<1> QED BY <1>3, <1>4, <1>5

\* A list as the lemmas about its slots take it.
LEMMA Shape ==
  ASSUME NEW l, Words(l), Vacant(l)
  PROVE  /\ l.grow \in Nat /\ l.size \in 0 .. l.grow
         /\ l.grow > 0 => l.head \in 0 .. l.grow - 1
         /\ DOMAIN l.tuple = 0 .. l.grow - 1
         /\ Free(l.tuple, l.head, l.size, l.grow)
<1>1. DOMAIN l.tuple = 0 .. l.grow - 1
  BY DEF Words, IsTuple
<1>2. /\ l.grow \in Nat /\ l.size \in 0 .. l.grow
      /\ l.grow > 0 => l.head \in 0 .. l.grow - 1
  BY DEF Words
<1>3. Free(l.tuple, l.head, l.size, l.grow)
  BY DEF Vacant, Within, Free
<1> QED BY <1>1, <1>2, <1>3

\* Each of the six cases of f_insert, by the shape of the ring that selects it.
LEMMA InsertsMiddle ==
  ASSUME NEW l, Words(l), Vacant(l), l.size < l.grow,
         NEW k \in 0 .. l.size - 1, k = 0 => l.head > 0, NEW v
  PROVE  LET r == InsertMiddle(l, k, v) IN
           Words(r) /\ Vacant(r) /\ Inserted(l, r, k, v)
<1>1. PICK h : h = l.head
  OBVIOUS
<1>2. PICK c : c = l.size
  OBVIOUS
<1>3. PICK m : m = l.grow
  OBVIOUS
<1>4. PICK t : t = l.tuple
  OBVIOUS
<1>5. PICK r : r = InsertMiddle(l, k, v)
  OBVIOUS
<1>6. /\ m \in Nat /\ h \in 0 .. m - 1 /\ c \in 0 .. m /\ c < m
      /\ DOMAIN t = 0 .. m - 1 /\ Free(t, h, c, m)
      /\ k \in 0 .. c - 1 /\ (k = 0 => h > 0)
      /\ DOMAIN l = {"tuple", "head", "size", "grow", "shrink"}
  BY <1>1, <1>2, <1>3, <1>4, Shape DEF Words
<1>7. ASSUME NEW w, NEW g, IsTuple(w, m),
             SlotsInserted(t, h, c, m, k, v, w, g), Rewritten(l, r, w, g, c + 1)
      PROVE  Words(r) /\ Vacant(r) /\ Inserted(l, r, k, v)
  <2>1. /\ IsTuple(w, l.grow)
        /\ SlotsInserted(l.tuple, l.head, l.size, l.grow, k, v, w, g) /\ Rewritten(l, r, w, g, l.size + 1)
    BY <1>1, <1>2, <1>3, <1>4, <1>6, <1>7
  <2> QED BY <2>1, InsertsSlots
<1>8. CASE k < c - k /\ h + k > m
  <2>1. PICK u : u = f_move_backward(t, h - 1, m - 1, t[0])
    OBVIOUS
  <2>2. MovedBackward(u, t, m, h - 1, m - 1, t[0])
    <3>1. h - 1 \in 0 .. m - 1 /\ m - 1 \in 0 .. m - 1 /\ h - 1 <= m - 1
      BY <1>6, <1>8
    <3> QED BY <1>6, <2>1, <3>1, Backward
  <2>3. PICK w : w = f_move_backward(u, 0, h + k - 1 - m, v)
    OBVIOUS
  <2>4. MovedBackward(w, u, m, 0, h + k - 1 - m, v)
    <3>1. 0 \in 0 .. m - 1 /\ h + k - 1 - m \in 0 .. m - 1 /\ 0 <= h + k - 1 - m
      BY <1>6, <1>8
    <3>2. DOMAIN u = 0 .. m - 1
      BY <2>2 DEF MovedBackward
    <3> QED BY <1>6, <2>3, <3>1, <3>2, Backward
  <2>5. IsTuple(w, m) /\ SlotsInserted(t, h, c, m, k, v, w, h - 1)
    BY <1>6, <1>8, <2>2, <2>4, InsertsBehindEnd
  <2>6. Rewritten(l, r, w, h - 1, c + 1)
    BY <1>1, <1>2, <1>3, <1>4, <1>5, <1>6, <1>8, <2>1, <2>3 DEF InsertMiddle, Rewritten
  <2> QED BY <1>5, <1>7, <2>5, <2>6
<1>9. CASE k < c - k /\ h + k <= m /\ h > 0
  <2>1. PICK w : w = f_move_backward(t, h - 1, h + k - 1, v)
    OBVIOUS
  <2>2. MovedBackward(w, t, m, h - 1, h + k - 1, v)
    <3>1. h - 1 \in 0 .. m - 1 /\ h + k - 1 \in 0 .. m - 1 /\ h - 1 <= h + k - 1
      BY <1>6, <1>9
    <3> QED BY <1>6, <2>1, <3>1, Backward
  <2>3. IsTuple(w, m) /\ SlotsInserted(t, h, c, m, k, v, w, h - 1)
    BY <1>6, <1>9, <2>2, InsertsFront
  <2>4. Rewritten(l, r, w, h - 1, c + 1)
    BY <1>1, <1>2, <1>3, <1>4, <1>5, <1>6, <1>9, <2>1 DEF InsertMiddle, Rewritten
  <2> QED BY <1>5, <1>7, <2>3, <2>4
<1>10. CASE k < c - k /\ h + k <= m /\ h = 0 /\ k > 0
  <2>1. PICK u : u = [t EXCEPT ![m - 1] = t[0]]
    OBVIOUS
  <2>2. MovedForward(u, t, m, m - 1, m - 1, t[0])
    <3>1. IsTuple(u, m) /\ DOMAIN u = 0 .. m - 1
      BY <1>6, <2>1 DEF IsTuple
    <3>2. \A i \in 0 .. m - 1 : u[i] = IF i = m - 1 THEN t[0] ELSE t[i]
      BY <1>6, <2>1
    <3> QED BY <1>6, <3>1, <3>2 DEF MovedForward
  <2>3. PICK w : w = f_move_backward(u, 0, h + k - 1, v)
    OBVIOUS
  <2>4. MovedBackward(w, u, m, 0, h + k - 1, v)
    <3>1. 0 \in 0 .. m - 1 /\ h + k - 1 \in 0 .. m - 1 /\ 0 <= h + k - 1
      BY <1>6, <1>10
    <3>2. DOMAIN u = 0 .. m - 1
      BY <2>2 DEF MovedForward
    <3> QED BY <1>6, <2>3, <3>1, <3>2, Backward
  <2>5. IsTuple(w, m) /\ SlotsInserted(t, h, c, m, k, v, w, m - 1)
    BY <1>6, <1>10, <2>2, <2>4, InsertsAcrossStart
  <2>6. Rewritten(l, r, w, m - 1, c + 1)
    BY <1>1, <1>2, <1>3, <1>4, <1>5, <1>6, <1>10, <2>1, <2>3 DEF InsertMiddle, Rewritten
  <2> QED BY <1>5, <1>7, <2>5, <2>6
<1>11. CASE ~(k < c - k) /\ h + k >= m
  <2>1. PICK w : w = f_move_forward(t, h + k - m, h + c - m, v)
    OBVIOUS
  <2>2. MovedForward(w, t, m, h + k - m, h + c - m, v)
    <3>1. h + k - m \in 0 .. m - 1 /\ h + c - m \in 0 .. m - 1 /\ h + k - m <= h + c - m
      BY <1>6, <1>11
    <3> QED BY <1>6, <2>1, <3>1, Forward
  <2>3. IsTuple(w, m) /\ SlotsInserted(t, h, c, m, k, v, w, h)
    BY <1>6, <1>11, <2>2, InsertsWrapped
  <2>4. Rewritten(l, r, w, h, c + 1)
    BY <1>1, <1>2, <1>3, <1>4, <1>5, <1>6, <1>11, <2>1 DEF InsertMiddle, Rewritten
  <2> QED BY <1>5, <1>7, <2>3, <2>4
<1>12. CASE ~(k < c - k) /\ h + k < m /\ h + c >= m
  <2>1. PICK u : u = f_move_forward(t, 0, h + c - m, t[m - 1])
    OBVIOUS
  <2>2. MovedForward(u, t, m, 0, h + c - m, t[m - 1])
    <3>1. 0 \in 0 .. m - 1 /\ h + c - m \in 0 .. m - 1 /\ 0 <= h + c - m
      BY <1>6, <1>12
    <3> QED BY <1>6, <2>1, <3>1, Forward
  <2>3. PICK w : w = f_move_forward(u, h + k, m - 1, v)
    OBVIOUS
  <2>4. MovedForward(w, u, m, h + k, m - 1, v)
    <3>1. h + k \in 0 .. m - 1 /\ m - 1 \in 0 .. m - 1 /\ h + k <= m - 1
      BY <1>6, <1>12
    <3>2. DOMAIN u = 0 .. m - 1
      BY <2>2 DEF MovedForward
    <3> QED BY <1>6, <2>3, <3>1, <3>2, Forward
  <2>5. IsTuple(w, m) /\ SlotsInserted(t, h, c, m, k, v, w, h)
    BY <1>6, <1>12, <2>2, <2>4, InsertsAcrossEnd
  <2>6. Rewritten(l, r, w, h, c + 1)
    BY <1>1, <1>2, <1>3, <1>4, <1>5, <1>6, <1>12, <2>1, <2>3 DEF InsertMiddle, Rewritten
  <2> QED BY <1>5, <1>7, <2>5, <2>6
<1>13. CASE ~(k < c - k) /\ h + k < m /\ h + c < m
  <2>1. PICK w : w = f_move_forward(t, h + k, h + c, v)
    OBVIOUS
  <2>2. MovedForward(w, t, m, h + k, h + c, v)
    <3>1. h + k \in 0 .. m - 1 /\ h + c \in 0 .. m - 1 /\ h + k <= h + c
      BY <1>6, <1>13
    <3> QED BY <1>6, <2>1, <3>1, Forward
  <2>3. IsTuple(w, m) /\ SlotsInserted(t, h, c, m, k, v, w, h)
    BY <1>6, <1>13, <2>2, InsertsBack
  <2>4. Rewritten(l, r, w, h, c + 1)
    BY <1>1, <1>2, <1>3, <1>4, <1>5, <1>6, <1>13, <2>1 DEF InsertMiddle, Rewritten
  <2> QED BY <1>5, <1>7, <2>3, <2>4
<1> QED BY <1>5, <1>6, <1>8, <1>9, <1>10, <1>11, <1>12, <1>13

\* Each of the five cases of f_remove.
LEMMA RemovesMiddle ==
  ASSUME NEW l, Words(l), Vacant(l),
         NEW k \in 0 .. l.size - 1
  PROVE  LET r == RemoveMiddle(l, k) IN
           Words(r) /\ Vacant(r) /\ Removed(l, r, k)
<1>1. PICK h : h = l.head
  OBVIOUS
<1>2. PICK c : c = l.size
  OBVIOUS
<1>3. PICK m : m = l.grow
  OBVIOUS
<1>4. PICK t : t = l.tuple
  OBVIOUS
<1>5. PICK r : r = RemoveMiddle(l, k)
  OBVIOUS
<1>6. /\ m \in Nat /\ h \in 0 .. m - 1 /\ c \in 0 .. m
      /\ DOMAIN t = 0 .. m - 1 /\ Free(t, h, c, m)
      /\ k \in 0 .. c - 1
      /\ DOMAIN l = {"tuple", "head", "size", "grow", "shrink"}
  BY <1>1, <1>2, <1>3, <1>4, Shape DEF Words
<1>7. ASSUME NEW w, NEW g, IsTuple(w, m),
             SlotsRemoved(t, h, c, m, k, w, g), Rewritten(l, r, w, g, c - 1)
      PROVE  Words(r) /\ Vacant(r) /\ Removed(l, r, k)
  <2>1. /\ IsTuple(w, l.grow)
        /\ SlotsRemoved(l.tuple, l.head, l.size, l.grow, k, w, g) /\ Rewritten(l, r, w, g, l.size - 1) /\ l.size > 0
    BY <1>1, <1>2, <1>3, <1>4, <1>6, <1>7
  <2> QED BY <2>1, RemovesSlots
<1>8. CASE k < c - k /\ h + k >= m
  <2>1. PICK u : u = f_move_forward(t, 0, h + k - m, t[m - 1])
    OBVIOUS
  <2>2. MovedForward(u, t, m, 0, h + k - m, t[m - 1])
    <3>1. 0 \in 0 .. m - 1 /\ h + k - m \in 0 .. m - 1 /\ 0 <= h + k - m
      BY <1>6, <1>8
    <3> QED BY <1>6, <2>1, <3>1, Forward
  <2>3. PICK w : w = f_move_forward(u, h, m - 1, Null)
    OBVIOUS
  <2>4. MovedForward(w, u, m, h, m - 1, Null)
    <3>1. h \in 0 .. m - 1 /\ m - 1 \in 0 .. m - 1 /\ h <= m - 1
      BY <1>6, <1>8
    <3>2. DOMAIN u = 0 .. m - 1
      BY <2>2 DEF MovedForward
    <3> QED BY <1>6, <2>3, <3>1, <3>2, Forward
  <2>5. IsTuple(w, m) /\ SlotsRemoved(t, h, c, m, k, w, (IF h + 1 >= m THEN 0 ELSE h + 1))
    BY <1>6, <1>8, <2>2, <2>4, RemovesBehindEnd
  <2>6. Rewritten(l, r, w, (IF h + 1 >= m THEN 0 ELSE h + 1), c - 1)
    BY <1>1, <1>2, <1>3, <1>4, <1>5, <1>6, <1>8, <2>1, <2>3 DEF RemoveMiddle, Rewritten
  <2> QED BY <1>5, <1>7, <2>5, <2>6
<1>9. CASE k < c - k /\ h + k < m
  <2>1. PICK w : w = f_move_forward(t, h, h + k, Null)
    OBVIOUS
  <2>2. MovedForward(w, t, m, h, h + k, Null)
    <3>1. h \in 0 .. m - 1 /\ h + k \in 0 .. m - 1 /\ h <= h + k
      BY <1>6, <1>9
    <3> QED BY <1>6, <2>1, <3>1, Forward
  <2>3. IsTuple(w, m) /\ SlotsRemoved(t, h, c, m, k, w, (IF h + 1 >= m THEN 0 ELSE h + 1))
    BY <1>6, <1>9, <2>2, RemovesFront
  <2>4. Rewritten(l, r, w, (IF h + 1 >= m THEN 0 ELSE h + 1), c - 1)
    BY <1>1, <1>2, <1>3, <1>4, <1>5, <1>6, <1>9, <2>1 DEF RemoveMiddle, Rewritten
  <2> QED BY <1>5, <1>7, <2>3, <2>4
<1>10. CASE ~(k < c - k) /\ h + k >= m
  <2>1. PICK w : w = f_move_backward(t, h + k - m, h + c - 1 - m, Null)
    OBVIOUS
  <2>2. MovedBackward(w, t, m, h + k - m, h + c - 1 - m, Null)
    <3>1. h + k - m \in 0 .. m - 1 /\ h + c - 1 - m \in 0 .. m - 1 /\ h + k - m <= h + c - 1 - m
      BY <1>6, <1>10
    <3> QED BY <1>6, <2>1, <3>1, Backward
  <2>3. IsTuple(w, m) /\ SlotsRemoved(t, h, c, m, k, w, h)
    BY <1>6, <1>10, <2>2, RemovesWrapped
  <2>4. Rewritten(l, r, w, h, c - 1)
    BY <1>1, <1>2, <1>3, <1>4, <1>5, <1>6, <1>10, <2>1 DEF RemoveMiddle, Rewritten
  <2> QED BY <1>5, <1>7, <2>3, <2>4
<1>11. CASE ~(k < c - k) /\ h + k < m /\ h + c > m
  <2>1. PICK u : u = f_move_backward(t, h + k, m - 1, t[0])
    OBVIOUS
  <2>2. MovedBackward(u, t, m, h + k, m - 1, t[0])
    <3>1. h + k \in 0 .. m - 1 /\ m - 1 \in 0 .. m - 1 /\ h + k <= m - 1
      BY <1>6, <1>11
    <3> QED BY <1>6, <2>1, <3>1, Backward
  <2>3. PICK w : w = f_move_backward(u, 0, h + c - 1 - m, Null)
    OBVIOUS
  <2>4. MovedBackward(w, u, m, 0, h + c - 1 - m, Null)
    <3>1. 0 \in 0 .. m - 1 /\ h + c - 1 - m \in 0 .. m - 1 /\ 0 <= h + c - 1 - m
      BY <1>6, <1>11
    <3>2. DOMAIN u = 0 .. m - 1
      BY <2>2 DEF MovedBackward
    <3> QED BY <1>6, <2>3, <3>1, <3>2, Backward
  <2>5. IsTuple(w, m) /\ SlotsRemoved(t, h, c, m, k, w, h)
    BY <1>6, <1>11, <2>2, <2>4, RemovesAcrossEnd
  <2>6. Rewritten(l, r, w, h, c - 1)
    BY <1>1, <1>2, <1>3, <1>4, <1>5, <1>6, <1>11, <2>1, <2>3 DEF RemoveMiddle, Rewritten
  <2> QED BY <1>5, <1>7, <2>5, <2>6
<1>12. CASE ~(k < c - k) /\ h + k < m /\ h + c <= m
  <2>1. PICK w : w = f_move_backward(t, h + k, h + c - 1, Null)
    OBVIOUS
  <2>2. MovedBackward(w, t, m, h + k, h + c - 1, Null)
    <3>1. h + k \in 0 .. m - 1 /\ h + c - 1 \in 0 .. m - 1 /\ h + k <= h + c - 1
      BY <1>6, <1>12
    <3> QED BY <1>6, <2>1, <3>1, Backward
  <2>3. IsTuple(w, m) /\ SlotsRemoved(t, h, c, m, k, w, h)
    BY <1>6, <1>12, <2>2, RemovesBack
  <2>4. Rewritten(l, r, w, h, c - 1)
    BY <1>1, <1>2, <1>3, <1>4, <1>5, <1>6, <1>12, <2>1 DEF RemoveMiddle, Rewritten
  <2> QED BY <1>5, <1>7, <2>3, <2>4
<1> QED BY <1>5, <1>6, <1>8, <1>9, <1>10, <1>11, <1>12

-----------------------------------------------------------------------------
(***************************************************************************)
(* Both ends, and one element.                                             *)
(***************************************************************************)
LEMMA Sets ==
  ASSUME NEW m \in Nat, NEW t, DOMAIN t = 0 .. m - 1, NEW a \in 0 .. m - 1, NEW v
  PROVE  MovedForward([t EXCEPT ![a] = v], t, m, a, a, v)
<1>1. PICK u : u = [t EXCEPT ![a] = v]
  OBVIOUS
<1>2. IsTuple(u, m) /\ DOMAIN u = 0 .. m - 1
  BY <1>1 DEF IsTuple
<1>3. \A i \in 0 .. m - 1 : u[i] = IF i = a THEN v ELSE t[i]
  BY <1>1
<1>4. MovedForward(u, t, m, a, a, v)
  BY <1>2, <1>3 DEF MovedForward
<1> QED BY <1>1, <1>4

\* f_push writes the slot behind the last element.
LEMMA PushesSlot ==
  ASSUME NEW m \in Nat, NEW h \in 0 .. m - 1, NEW c \in 0 .. m,
         NEW t, DOMAIN t = 0 .. m - 1, Free(t, h, c, m), c < m, NEW v,
         NEW w, MovedForward(w, t, m, Slot(h, c, m), Slot(h, c, m), v)
  PROVE  SlotsInserted(t, h, c, m, c, v, w, h)
<1>1. PICK a : a = Slot(h, c, m)
  OBVIOUS
<1>a. a \in 0 .. m - 1
  BY <1>1 DEF Slot
<1>2. \A i \in 0 .. m - 1 : w[i] = IF i = a THEN v ELSE t[i]
  BY <1>1, <1>a DEF MovedForward
<1>3. Free(w, h, c + 1, m)
  BY <1>1, <1>2 DEF Free, Slot
<1>4. ASSUME NEW j \in 0 .. c
      PROVE  w[Slot(h, j, m)] =
               IF j < c THEN t[Slot(h, j, m)] ELSE IF j = c THEN v ELSE t[Slot(h, j - 1, m)]
  BY <1>1, <1>2 DEF Slot
<1> QED BY <1>3, <1>4 DEF SlotsInserted

\* f_unshift writes the slot before the first element.
LEMMA UnshiftsSlot ==
  ASSUME NEW m \in Nat, NEW h \in 0 .. m - 1, NEW c \in 0 .. m,
         NEW t, DOMAIN t = 0 .. m - 1, Free(t, h, c, m), c < m, NEW v,
         NEW g, g = (IF h > 0 THEN h ELSE m) - 1,
         NEW w, MovedForward(w, t, m, g, g, v)
  PROVE  SlotsInserted(t, h, c, m, 0, v, w, g)
<1>1. g \in 0 .. m - 1
  OBVIOUS
<1>2. \A i \in 0 .. m - 1 : w[i] = IF i = g THEN v ELSE t[i]
  BY <1>1 DEF MovedForward
<1>3. Free(w, g, c + 1, m)
  BY <1>1, <1>2 DEF Free
<1>4. ASSUME NEW j \in 0 .. c
      PROVE  w[Slot(g, j, m)] =
               IF j < 0 THEN t[Slot(h, j, m)] ELSE IF j = 0 THEN v ELSE t[Slot(h, j - 1, m)]
  BY <1>1, <1>2 DEF Slot
<1> QED BY <1>1, <1>3, <1>4 DEF SlotsInserted

\* f_pop clears the slot of the last element.
LEMMA PopsSlot ==
  ASSUME NEW m \in Nat, NEW h \in 0 .. m - 1, NEW c \in 1 .. m,
         NEW t, DOMAIN t = 0 .. m - 1, Free(t, h, c, m),
         NEW w, MovedForward(w, t, m, Slot(h, c - 1, m), Slot(h, c - 1, m), Null)
  PROVE  SlotsRemoved(t, h, c, m, c - 1, w, h)
<1>1. PICK a : a = Slot(h, c - 1, m)
  OBVIOUS
<1>a. a \in 0 .. m - 1
  BY <1>1 DEF Slot
<1>2. \A i \in 0 .. m - 1 : w[i] = IF i = a THEN Null ELSE t[i]
  BY <1>1, <1>a DEF MovedForward
<1>3. Free(w, h, c - 1, m)
  BY <1>1, <1>2 DEF Free, Slot
<1>4. ASSUME NEW j \in 0 .. c - 2
      PROVE  w[Slot(h, j, m)] =
               IF j < c - 1 THEN t[Slot(h, j, m)] ELSE t[Slot(h, j + 1, m)]
  BY <1>1, <1>2 DEF Slot
<1> QED BY <1>3, <1>4 DEF SlotsRemoved

\* f_shift clears the slot of the first element.
LEMMA ShiftsSlot ==
  ASSUME NEW m \in Nat, NEW h \in 0 .. m - 1, NEW c \in 1 .. m,
         NEW t, DOMAIN t = 0 .. m - 1, Free(t, h, c, m),
         NEW g, g = (IF h + 1 >= m THEN 0 ELSE h + 1),
         NEW w, MovedForward(w, t, m, h, h, Null)
  PROVE  SlotsRemoved(t, h, c, m, 0, w, g)
<1>1. g \in 0 .. m - 1
  OBVIOUS
<1>2. \A i \in 0 .. m - 1 : w[i] = IF i = h THEN Null ELSE t[i]
  BY <1>1 DEF MovedForward
<1>3. Free(w, g, c - 1, m)
  BY <1>1, <1>2 DEF Free
<1>4. ASSUME NEW j \in 0 .. c - 2
      PROVE  w[Slot(g, j, m)] =
               IF j < 0 THEN t[Slot(h, j, m)] ELSE t[Slot(h, j + 1, m)]
  BY <1>1, <1>2 DEF Slot
<1> QED BY <1>1, <1>3, <1>4 DEF SlotsRemoved

\* The index -size with v_head = 0: the value becomes the second element.
LEMMA InsertsSecond ==
  ASSUME NEW m \in Nat, NEW h \in 0 .. m - 1, NEW c \in 1 .. m,
         NEW t, DOMAIN t = 0 .. m - 1, Free(t, h, c, m), c < m, NEW v, h = 0,
         NEW u, MovedForward(u, t, m, m - 1, m - 1, t[0]),
         NEW w, MovedForward(w, u, m, 0, 0, v)
  PROVE  SlotsInserted(t, h, c, m, 1, v, w, m - 1)
<1>1. \A i \in 0 .. m - 1 : u[i] = IF i = m - 1 THEN t[0] ELSE t[i]
  BY DEF MovedForward
<1>2. \A i \in 0 .. m - 1 : w[i] = IF i = 0 THEN v ELSE u[i]
  BY DEF MovedForward
<1>3. Free(w, m - 1, c + 1, m)
  BY <1>1, <1>2 DEF Free
<1>4. ASSUME NEW j \in 0 .. c
      PROVE  w[Slot(m - 1, j, m)] =
               IF j < 1 THEN t[Slot(h, j, m)] ELSE IF j = 1 THEN v ELSE t[Slot(h, j - 1, m)]
  BY <1>1, <1>2 DEF Slot
<1> QED BY <1>3, <1>4 DEF SlotsInserted
-----------------------------------------------------------------------------
(***************************************************************************)
(* The elements as a sequence.                                             *)
(***************************************************************************)
LEMMA ContentsSequence ==
  ASSUME NEW l, Words(l)
  PROVE  /\ Contents(l) = [i \in 1 .. l.size |-> Contents(l)[i]]
         /\ \A i \in 1 .. l.size : Contents(l)[i] = Element(l, i - 1)
         /\ \E S : Contents(l) \in Seq(S)
         /\ Len(Contents(l)) = l.size
<1>1. /\ Contents(l) = [i \in 1 .. l.size |-> Contents(l)[i]]
      /\ \A i \in 1 .. l.size : Contents(l)[i] = Element(l, i - 1)
  BY DEF Contents, Element
<1>2. PICK s : s = Contents(l)
  OBVIOUS
<1>3. PICK c : c = l.size
  OBVIOUS
<1>4. c \in Nat
  BY <1>3 DEF Words
<1>5. s = [i \in 1 .. c |-> s[i]]
  BY <1>1, <1>2, <1>3
<1>6. s \in Seq({s[i] : i \in 1 .. c}) /\ Len(s) = c
  BY <1>4, <1>5, IsSequence
<1> QED BY <1>1, <1>2, <1>3, <1>6

\* The elements of two lists are equal if they agree one by one.
LEMMA ContentsEqual ==
  ASSUME NEW l, Words(l), NEW s, s = [i \in 1 .. l.size |-> s[i]],
         \A i \in 1 .. l.size : s[i] = Element(l, i - 1)
  PROVE  Contents(l) = s
<1>1. l.size \in Nat
  BY DEF Words
<1>2. \A i \in 1 .. l.size : Contents(l)[i] = s[i]
  BY ContentsSequence
<1> QED BY <1>1, <1>2, ContentsSequence, Equal

\* f_resize, f_grow and f_shrink do not change the sequence.
LEMMA SameContents ==
  ASSUME NEW l, NEW r, Words(l), Words(r), Same(l, r)
  PROVE  Contents(r) = Contents(l)
<1>1. r.size = l.size /\ l.size \in Nat
  BY DEF Same, Words
<1>2. \A i \in 1 .. l.size : Element(r, i - 1) = Element(l, i - 1)
  BY <1>1 DEF Same
<1>3. PICK s : s = Contents(l)
  OBVIOUS
<1>4. s = [i \in 1 .. r.size |-> s[i]] /\ \A i \in 1 .. r.size : s[i] = Element(r, i - 1)
  BY <1>1, <1>2, <1>3, ContentsSequence
<1> QED BY <1>3, <1>4, ContentsEqual

\* An insertion into the list is InsertAt on the sequence.
LEMMA InsertedContents ==
  ASSUME NEW l, NEW r, Words(l), Words(r), NEW k \in 0 .. l.size, NEW v, Inserted(l, r, k, v)
  PROVE  Contents(r) = InsertAt(Contents(l), k + 1, v)
<1>1. PICK s : s = Contents(l)
  OBVIOUS
<1>2. PICK c : c = l.size
  OBVIOUS
<1>3. PICK z : z = InsertAt(s, k + 1, v)
  OBVIOUS
<1>4. /\ c \in Nat /\ Len(s) = c /\ \E S : s \in Seq(S)
      /\ \A i \in 1 .. c : s[i] = Element(l, i - 1)
  BY <1>1, <1>2, ContentsSequence DEF Words
<1>6. z = [i \in 1 .. c + 1 |-> IF i < k + 1 THEN s[i] ELSE IF i = k + 1 THEN v ELSE s[i - 1]]
  <2>1. PICK T : s \in Seq(T)
    BY <1>4
  <2>a. PICK S : S = T \cup {v}
    OBVIOUS
  <2>2. s \in Seq(S) /\ v \in S /\ k + 1 \in 1 .. Len(s) + 1
    BY <1>2, <1>4, <2>1, <2>a, SeqMonotonic
  <2>3. PICK p : p = k + 1
    OBVIOUS
  <2>4. IsInserted(InsertAt(s, p, v), s, p, v)
    BY <2>2, <2>3, Inserts
  <2> QED BY <1>3, <1>4, <2>3, <2>4 DEF IsInserted
<1>7. r.size = c + 1
  BY <1>2 DEF Inserted
<1>8. z = [i \in 1 .. r.size |-> z[i]]
  BY <1>6, <1>7
<1>9. ASSUME NEW i \in 1 .. r.size PROVE z[i] = Element(r, i - 1)
  <2>1. i - 1 \in 0 .. c /\ i \in 1 .. c + 1
    BY <1>4, <1>7
  <2>2. Element(r, i - 1) = IF i - 1 < k THEN Element(l, i - 1)
                            ELSE IF i - 1 = k THEN v ELSE Element(l, (i - 1) - 1)
    BY <1>2, <2>1 DEF Inserted
  <2>3. CASE i < k + 1
    <3>1. i \in 1 .. c /\ i - 1 < k
      BY <1>2, <1>4, <2>1, <2>3
    <3> QED BY <1>4, <1>6, <2>1, <2>2, <2>3, <3>1
  <2>4. CASE i = k + 1
    <3>1. i - 1 = k
      BY <2>4
    <3> QED BY <1>6, <2>1, <2>2, <2>4, <3>1
  <2>5. CASE i > k + 1
    <3>1. i - 1 \in 1 .. c /\ ~(i - 1 < k) /\ i - 1 # k
      BY <1>4, <2>1, <2>5
    <3> QED BY <1>4, <1>6, <2>1, <2>2, <2>5, <3>1
  <2> QED BY <2>1, <2>3, <2>4, <2>5
<1> QED BY <1>1, <1>3, <1>8, <1>9, ContentsEqual

\* A removal from the list is RemoveAt on the sequence.
LEMMA RemovedContents ==
  ASSUME NEW l, NEW r, Words(l), Words(r), NEW k \in 0 .. l.size - 1, Removed(l, r, k)
  PROVE  Contents(r) = RemoveAt(Contents(l), k + 1)
<1>1. PICK s : s = Contents(l)
  OBVIOUS
<1>2. PICK c : c = l.size
  OBVIOUS
<1>3. PICK z : z = RemoveAt(s, k + 1)
  OBVIOUS
<1>4. /\ c \in Nat /\ Len(s) = c /\ \E S : s \in Seq(S)
      /\ \A i \in 1 .. c : s[i] = Element(l, i - 1)
  BY <1>1, <1>2, ContentsSequence DEF Words
<1>6. z = [i \in 1 .. c - 1 |-> IF i < k + 1 THEN s[i] ELSE s[i + 1]]
  <2>1. PICK S : s \in Seq(S)
    BY <1>4
  <2>2. s \in Seq(S) /\ k + 1 \in 1 .. Len(s)
    BY <1>2, <1>4, <2>1
  <2>3. PICK p : p = k + 1
    OBVIOUS
  <2>4. RemoveAt(s, p) = [i \in 1 .. Len(s) - 1 |-> IF i < p THEN s[i] ELSE s[i + 1]]
    BY <2>2, <2>3, Removes
  <2> QED BY <1>3, <1>4, <2>3, <2>4
<1>7. r.size = c - 1
  BY <1>2 DEF Removed
<1>8. z = [i \in 1 .. r.size |-> z[i]]
  BY <1>6, <1>7
<1>9. ASSUME NEW i \in 1 .. r.size PROVE z[i] = Element(r, i - 1)
  <2>1. i - 1 \in 0 .. c - 2 /\ i \in 1 .. c - 1 /\ i \in 1 .. c /\ i + 1 \in 1 .. c
    BY <1>4, <1>7
  <2>2. Element(r, i - 1) = IF i - 1 < k THEN Element(l, i - 1) ELSE Element(l, (i - 1) + 1)
    BY <1>2, <2>1 DEF Removed
  <2>3. CASE i < k + 1
    <3>1. i - 1 < k
      BY <2>1, <2>3
    <3> QED BY <1>4, <1>6, <2>1, <2>2, <2>3, <3>1
  <2>4. CASE ~(i < k + 1)
    <3>1. ~(i - 1 < k) /\ (i - 1) + 1 = (i + 1) - 1
      BY <2>1, <2>4
    <3> QED BY <1>4, <1>6, <2>1, <2>2, <2>4, <3>1
  <2> QED BY <2>3, <2>4
<1> QED BY <1>1, <1>3, <1>8, <1>9, ContentsEqual

\* Both ends of a sequence as places of it.
LEMMA Ends ==
  ASSUME NEW S, NEW s \in Seq(S), NEW v
  PROVE  /\ Append(s, v) = InsertAt(s, Len(s) + 1, v)
         /\ <<v>> \o s = InsertAt(s, 1, v)
         /\ s # <<>> => Front(s) = RemoveAt(s, Len(s)) /\ Tail(s) = RemoveAt(s, 1)
<1>0. Len(s) \in Nat
  OBVIOUS
<1>1. PICK T : T = S \cup {v}
  OBVIOUS
<1>2. s \in Seq(T) /\ v \in T /\ <<v>> \in Seq(T)
  BY <1>1, SeqMonotonic
<1>3. SubSeq(s, 1, Len(s)) = s
  BY SubSeqFull
<1>4. SubSeq(s, 1, 0) = <<>> /\ SubSeq(s, Len(s) + 1, Len(s)) = <<>>
  BY <1>0, SubSeqEmpty
<1>5. Append(s, v) = InsertAt(s, Len(s) + 1, v)
  <2>1. InsertAt(s, Len(s) + 1, v) = (s \o <<v>>) \o <<>>
    <3>1. (Len(s) + 1) - 1 = Len(s)
      BY <1>0
    <3> QED BY <1>3, <1>4, <3>1 DEF InsertAt
  <2>2. Append(s, v) = s \o <<v>>
    BY <1>2, AppendIsConcat
  <2>3. s \o <<v>> \in Seq(T)
    BY <1>2, ConcatProperties
  <2> QED BY <2>1, <2>2, <2>3, ConcatEmptySeq
<1>6. <<v>> \o s = InsertAt(s, 1, v)
  <2>1. InsertAt(s, 1, v) = (<<>> \o <<v>>) \o s
    BY <1>3, <1>4 DEF InsertAt
  <2>2. <<>> \o <<v>> = <<v>>
    BY <1>2, ConcatEmptySeq
  <2> QED BY <2>1, <2>2
<1>7. ASSUME s # <<>> PROVE Front(s) = RemoveAt(s, Len(s)) /\ Tail(s) = RemoveAt(s, 1)
  <2>1. Len(s) > 0
    BY <1>7, <1>0, EmptySeq
  <2>2. RemoveAt(s, Len(s)) = SubSeq(s, 1, Len(s) - 1) \o <<>>
    BY <1>4 DEF RemoveAt
  <2>3. SubSeq(s, 1, Len(s) - 1) \in Seq(S)
    BY <1>0, <2>1, Part
  <2>4. Front(s) = RemoveAt(s, Len(s))
    BY <2>2, <2>3, ConcatEmptySeq DEF Front
  <2>5. RemoveAt(s, 1) = <<>> \o SubSeq(s, 2, Len(s))
    BY <1>4 DEF RemoveAt
  <2>6. SubSeq(s, 2, Len(s)) \in Seq(S)
    BY <1>0, <2>1, Part
  <2>7. Tail(s) = SubSeq(s, 2, Len(s))
    BY <1>7, TailIsSubSeq
  <2>8. Tail(s) = RemoveAt(s, 1)
    BY <2>5, <2>6, <2>7, ConcatEmptySeq
  <2> QED BY <2>4, <2>8
<1> QED BY <1>5, <1>6, <1>7
-----------------------------------------------------------------------------
(***************************************************************************)
(* The operations.                                                         *)
(***************************************************************************)
LEMMA Insertion ==
  ASSUME NEW p, Settled(p), NEW k \in 0 .. p.size, NEW v, NEW r, Words(r), Vacant(r),
         Inserted(f_grow(p), r, k, v)
  PROVE  Settled(r) /\ Contents(r) = InsertAt(Contents(p), k + 1, v)
<1>1. PICK l : l = f_grow(p)
  OBVIOUS
<1>2. Words(l) /\ Same(p, l) /\ Words(p)
  BY <1>1, Grows DEF Settled
<1>3. l.size = p.size /\ l.size \in Nat
  BY <1>2 DEF Same, Words
<1>4. Contents(l) = Contents(p)
  BY <1>2, SameContents
<1>5. Contents(r) = InsertAt(Contents(l), k + 1, v)
  BY <1>1, <1>2, <1>3, InsertedContents
<1>6. r.size = l.size + 1
  BY <1>1 DEF Inserted
<1> QED BY <1>3, <1>4, <1>5, <1>6 DEF Settled

\* A removal that then shrinks.
LEMMA Removal ==
  ASSUME NEW p, Words(p), NEW k \in 0 .. p.size - 1, NEW r, Words(r), Vacant(r), Removed(p, r, k)
  PROVE  Settled(f_shrink(r)) /\ Contents(f_shrink(r)) = RemoveAt(Contents(p), k + 1)
<1>1. PICK z : z = f_shrink(r)
  OBVIOUS
<1>2. Settled(z) /\ Same(r, z)
  BY <1>1, Shrinks
<1>3. Contents(z) = Contents(r)
  BY <1>2, SameContents DEF Settled
<1>4. Contents(r) = RemoveAt(Contents(p), k + 1)
  BY RemovedContents
<1> QED BY <1>1, <1>2, <1>3, <1>4

\* f_push
LEMMA Pushing ==
  ASSUME Settled(Now), NEW v
  PROVE  Settled(Pushed(v)) /\ Contents(Pushed(v)) = InsertAt(Contents(Now), Now.size + 1, v)
<1>1. PICK l : l = f_grow(Now)
  OBVIOUS
<1>2. Words(l) /\ Vacant(l) /\ l.size < l.grow /\ l.size = Now.size
  BY <1>1, Grows DEF Same, Words
<1>3. /\ l.grow \in Nat /\ l.size \in 0 .. l.grow /\ l.head \in 0 .. l.grow - 1
      /\ DOMAIN l.tuple = 0 .. l.grow - 1 /\ Free(l.tuple, l.head, l.size, l.grow)
      /\ DOMAIN l = {"tuple", "head", "size", "grow", "shrink"}
  BY <1>2, Shape DEF Words
<1>4. PICK a : a = Slot(l.head, l.size, l.grow)
  OBVIOUS
<1>5. a \in 0 .. l.grow - 1
  BY <1>2, <1>3, <1>4 DEF Slot
<1>6. PICK w : w = [l.tuple EXCEPT ![a] = v]
  OBVIOUS
<1>7. MovedForward(w, l.tuple, l.grow, a, a, v) /\ IsTuple(w, l.grow)
  BY <1>3, <1>5, <1>6, Sets DEF MovedForward
<1>8. SlotsInserted(l.tuple, l.head, l.size, l.grow, l.size, v, w, l.head)
  BY <1>2, <1>3, <1>4, <1>7, PushesSlot
<1>9. PICK r : r = Pushed(v)
  OBVIOUS
<1>10. Rewritten(l, r, w, l.head, l.size + 1)
  BY <1>1, <1>3, <1>4, <1>6, <1>9 DEF Pushed, Rewritten
<1>11. Words(r) /\ Vacant(r) /\ Inserted(l, r, l.size, v)
  BY <1>2, <1>7, <1>8, <1>10, InsertsSlots
<1>12. Now.size \in 0 .. Now.size
  BY <1>2, <1>3
<1> QED BY <1>1, <1>2, <1>9, <1>11, <1>12, Insertion

\* f_unshift
LEMMA Unshifting ==
  ASSUME Settled(Now), NEW v
  PROVE  Settled(Unshifted(v)) /\ Contents(Unshifted(v)) = InsertAt(Contents(Now), 1, v)
<1>1. PICK l : l = f_grow(Now)
  OBVIOUS
<1>2. Words(l) /\ Vacant(l) /\ l.size < l.grow /\ l.size = Now.size
  BY <1>1, Grows DEF Same, Words
<1>3. /\ l.grow \in Nat /\ l.size \in 0 .. l.grow /\ l.head \in 0 .. l.grow - 1
      /\ DOMAIN l.tuple = 0 .. l.grow - 1 /\ Free(l.tuple, l.head, l.size, l.grow)
      /\ DOMAIN l = {"tuple", "head", "size", "grow", "shrink"}
  BY <1>2, Shape DEF Words
<1>4. PICK g : g = (IF l.head > 0 THEN l.head ELSE l.grow) - 1
  OBVIOUS
<1>5. g \in 0 .. l.grow - 1
  BY <1>2, <1>3, <1>4
<1>6. PICK w : w = [l.tuple EXCEPT ![g] = v]
  OBVIOUS
<1>7. MovedForward(w, l.tuple, l.grow, g, g, v) /\ IsTuple(w, l.grow)
  BY <1>3, <1>5, <1>6, Sets DEF MovedForward
<1>8. SlotsInserted(l.tuple, l.head, l.size, l.grow, 0, v, w, g)
  BY <1>2, <1>3, <1>4, <1>7, UnshiftsSlot
<1>9. PICK r : r = Unshifted(v)
  OBVIOUS
<1>10. Rewritten(l, r, w, g, l.size + 1)
  BY <1>1, <1>3, <1>4, <1>6, <1>9 DEF Unshifted, Rewritten
<1>11. Words(r) /\ Vacant(r) /\ Inserted(l, r, 0, v)
  BY <1>2, <1>7, <1>8, <1>10, InsertsSlots
<1>12. 0 \in 0 .. Now.size /\ 0 + 1 = 1
  BY <1>2, <1>3
<1>13. Settled(r) /\ Contents(r) = InsertAt(Contents(Now), 0 + 1, v)
  BY <1>1, <1>11, <1>12, Insertion
<1> QED BY <1>9, <1>12, <1>13

\* f_insert in the middle, except where it decrements i = 0.
LEMMA Inserting ==
  ASSUME Settled(Now), NEW v, NEW k \in 0 .. Now.size - 1,
         k = 0 => f_grow(Now).head # 0
  PROVE  LET r == InsertMiddle(f_grow(Now), k, v) IN
           Settled(r) /\ Contents(r) = InsertAt(Contents(Now), k + 1, v)
<1>1. PICK l : l = f_grow(Now)
  OBVIOUS
<1>2. Words(l) /\ Vacant(l) /\ l.size < l.grow /\ l.size = Now.size
  BY <1>1, Grows DEF Same, Words
<1>3. k \in 0 .. l.size - 1 /\ (k = 0 => l.head > 0) /\ k \in 0 .. Now.size
  BY <1>1, <1>2 DEF Words
<1>4. PICK r : r = InsertMiddle(l, k, v)
  OBVIOUS
<1>5. Words(r) /\ Vacant(r) /\ Inserted(l, r, k, v)
  BY <1>2, <1>3, <1>4, InsertsMiddle
<1> QED BY <1>1, <1>3, <1>4, <1>5, Insertion

\* Where f_insert decrements i = 0 the ring stays sound all the same.
LEMMA InsertingFirst ==
  ASSUME Settled(Now), NEW v, Now.size > 0, f_grow(Now).head = 0
  PROVE  Settled(InsertMiddle(f_grow(Now), 0, v))
<1>1. PICK l : l = f_grow(Now)
  OBVIOUS
<1>2. Words(l) /\ Vacant(l) /\ l.size < l.grow /\ l.size = Now.size /\ l.head = 0
  BY <1>1, Grows DEF Same, Words
<1>3. /\ l.grow \in Nat /\ l.size \in 1 .. l.grow /\ l.head \in 0 .. l.grow - 1
      /\ DOMAIN l.tuple = 0 .. l.grow - 1 /\ Free(l.tuple, l.head, l.size, l.grow)
      /\ DOMAIN l = {"tuple", "head", "size", "grow", "shrink"}
  BY <1>2, Shape DEF Words
<1>4. PICK m : m = l.grow
  OBVIOUS
<1>5. PICK t : t = l.tuple
  OBVIOUS
<1>6. PICK u : u = [t EXCEPT ![m - 1] = t[0]]
  OBVIOUS
<1>7. MovedForward(u, t, m, m - 1, m - 1, t[0]) /\ DOMAIN u = 0 .. m - 1
  <2>1. m - 1 \in 0 .. m - 1
    BY <1>3, <1>4
  <2>2. MovedForward(u, t, m, m - 1, m - 1, t[0])
    BY <1>3, <1>4, <1>5, <1>6, <2>1, Sets
  <2> QED BY <2>2 DEF MovedForward
<1>8. PICK w : w = f_move_backward(u, 0, 0 - 1, v)
  OBVIOUS
<1>9. w = [u EXCEPT ![0] = v]
  <2>1. \A i \in DOMAIN u : ~(0 <= i /\ i < 0 - 1)
    BY <1>3, <1>4, <1>7
  <2>2. [i \in DOMAIN u |-> IF 0 <= i /\ i < 0 - 1 THEN u[i + 1] ELSE u[i]] = u
    BY <1>6, <2>1
  <2>3. (IF 0 < 0 - 1 THEN 0 - 1 ELSE 0) = 0
    OBVIOUS
  <2>4. w = [[i \in DOMAIN u |-> IF 0 <= i /\ i < 0 - 1 THEN u[i + 1] ELSE u[i]]
               EXCEPT ![IF 0 < 0 - 1 THEN 0 - 1 ELSE 0] = v]
    BY <1>8 DEF f_move_backward
  <2> QED BY <2>2, <2>3, <2>4
<1>10. MovedForward(w, u, m, 0, 0, v) /\ IsTuple(w, m)
  <2>1. 0 \in 0 .. m - 1
    BY <1>3, <1>4
  <2>2. MovedForward(w, u, m, 0, 0, v)
    BY <1>3, <1>4, <1>7, <1>9, <2>1, Sets
  <2> QED BY <2>2 DEF MovedForward
<1>11. SlotsInserted(l.tuple, l.head, l.size, l.grow, 1, v, w, m - 1)
  BY <1>2, <1>3, <1>4, <1>5, <1>7, <1>10, InsertsSecond
<1>12. PICK r : r = InsertMiddle(l, 0, v)
  OBVIOUS
<1>13. Rewritten(l, r, w, m - 1, l.size + 1)
  <2>1. 0 < l.size - 0 /\ ~(l.head + 0 > l.grow) /\ ~(l.head > 0) /\ (l.head + 0) - 1 = 0 - 1
    BY <1>2, <1>3
  <2> QED BY <1>3, <1>4, <1>5, <1>6, <1>8, <1>12, <2>1 DEF InsertMiddle, Rewritten
<1>14. Words(r) /\ Vacant(r) /\ Inserted(l, r, 1, v)
  BY <1>2, <1>4, <1>10, <1>11, <1>13, InsertsSlots
<1>15. 1 \in 0 .. Now.size
  BY <1>2, <1>3
<1> QED BY <1>1, <1>12, <1>14, <1>15, Insertion

\* The ring in use is the tuple.
LEMMA RingSize ==
  ASSUME Settled(Now)
  PROVE  /\ n = v_grow /\ (v_tuple = None <=> v_grow = 0) /\ (v_size = 0 <=> v_grow = 0)
         /\ v_grow \in Nat /\ v_size \in 0 .. v_grow /\ v_shrink \in Nat
         /\ v_grow > 0 => v_head \in 0 .. v_grow - 1
         /\ DOMAIN v_tuple = 0 .. v_grow - 1
         /\ Free(v_tuple, v_head, v_size, v_grow)
<1>1. Words(Now) /\ Vacant(Now) /\ (Now.size = 0 => Now.grow = 0)
  BY DEF Settled
<1>2. /\ Now.tuple = v_tuple /\ Now.head = v_head /\ Now.size = v_size
      /\ Now.grow = v_grow /\ Now.shrink = v_shrink
  BY DEF Now
<1>3. /\ v_grow \in Nat /\ v_size \in 0 .. v_grow
      /\ v_grow > 0 => v_head \in 0 .. v_grow - 1
      /\ DOMAIN v_tuple = 0 .. v_grow - 1
      /\ Free(v_tuple, v_head, v_size, v_grow)
  BY <1>1, <1>2, Shape
<1>4. v_shrink \in Nat /\ IsTuple(v_tuple, v_grow)
  BY <1>1, <1>2 DEF Words
<1>5. v_size = 0 <=> v_grow = 0
  BY <1>1, <1>2, <1>3
<1>6. v_grow = 0 => v_tuple = None
  <2>1. v_grow = 0 => 0 .. v_grow - 1 = {}
    OBVIOUS
  <2> QED BY <1>4, <2>1 DEF IsTuple, None
<1>7. v_tuple = None => v_grow = 0
  <2>1. v_tuple = None => DOMAIN v_tuple = {}
    BY DEF None
  <2>2. v_grow > 0 => 0 \in 0 .. v_grow - 1
    BY <1>3
  <2> QED BY <1>3, <2>1, <2>2
<1>8. n = v_grow
  BY <1>6, <1>7 DEF n
<1> QED BY <1>3, <1>4, <1>5, <1>6, <1>7, <1>8

\* The element k, where f_at finds it.
LEMMA Elements ==
  ASSUME Settled(Now), NEW k \in 0 .. v_size - 1
  PROVE  /\ Slot(v_head, k, n) \in 0 .. v_grow - 1
         /\ v_tuple[Slot(v_head, k, n)] = Contents(Now)[k + 1]
<1>1. Now.tuple = v_tuple /\ Now.head = v_head /\ Now.size = v_size /\ Now.grow = v_grow
  BY DEF Now
<1>2. /\ v_grow \in Nat /\ v_size \in 0 .. v_grow /\ n = v_grow
      /\ v_grow > 0 => v_head \in 0 .. v_grow - 1
  BY RingSize
<1>3. k + 1 \in 1 .. Now.size /\ (k + 1) - 1 = k
  BY <1>1, <1>2
<1>4. Contents(Now)[k + 1] = Element(Now, (k + 1) - 1)
  BY <1>3, ContentsSequence DEF Settled
<1>5. Slot(v_head, k, n) \in 0 .. v_grow - 1
  BY <1>2 DEF Slot
<1> QED BY <1>1, <1>2, <1>3, <1>4, <1>5 DEF Element

\* f_pop
LEMMA Popping ==
  ASSUME Settled(Now), v_size > 0
  PROVE  LET r == f_shrink([Now EXCEPT !.tuple[Slot(v_head, v_size - 1, n)] = Null, !.size = @ - 1])
         IN  Settled(r) /\ Contents(r) = RemoveAt(Contents(Now), v_size)
<1>1. PICK l : l = Now
  OBVIOUS
<1>2. /\ l.tuple = v_tuple /\ l.head = v_head /\ l.size = v_size /\ l.grow = v_grow
      /\ DOMAIN l = {"tuple", "head", "size", "grow", "shrink"}
  BY <1>1 DEF Now
<1>3. Words(l)
  BY <1>1 DEF Settled
<1>4. /\ v_grow \in Nat /\ v_size \in 1 .. v_grow /\ n = v_grow /\ v_head \in 0 .. v_grow - 1
      /\ DOMAIN v_tuple = 0 .. v_grow - 1 /\ Free(v_tuple, v_head, v_size, v_grow)
  BY RingSize
<1>5. PICK a : a = Slot(v_head, v_size - 1, v_grow)
  OBVIOUS
<1>6. a \in 0 .. v_grow - 1
  BY <1>4, <1>5 DEF Slot
<1>7. PICK w : w = [v_tuple EXCEPT ![a] = Null]
  OBVIOUS
<1>8. MovedForward(w, v_tuple, v_grow, a, a, Null)
  BY <1>4, <1>6, <1>7, Sets
<1>9. IsTuple(w, l.grow)
  BY <1>2, <1>8 DEF MovedForward
<1>10. SlotsRemoved(l.tuple, l.head, l.size, l.grow, l.size - 1, w, l.head)
  BY <1>2, <1>4, <1>5, <1>8, PopsSlot
<1>11. PICK r : r = [l EXCEPT !.tuple[a] = Null, !.size = @ - 1]
  OBVIOUS
<1>12. Rewritten(l, r, w, l.head, l.size - 1)
  BY <1>2, <1>7, <1>11 DEF Rewritten
<1>13. Words(r) /\ Vacant(r) /\ Removed(l, r, l.size - 1)
  BY <1>2, <1>3, <1>4, <1>9, <1>10, <1>12, RemovesSlots
<1>14. l.size - 1 \in 0 .. l.size - 1 /\ (l.size - 1) + 1 = v_size
  BY <1>2, <1>4
<1>15. Settled(f_shrink(r)) /\ Contents(f_shrink(r)) = RemoveAt(Contents(l), (l.size - 1) + 1)
  BY <1>3, <1>13, <1>14, Removal
<1> QED BY <1>1, <1>4, <1>5, <1>11, <1>14, <1>15

\* f_shift
LEMMA Shifting ==
  ASSUME Settled(Now), v_size > 0
  PROVE  LET r == f_shrink([Now EXCEPT !.tuple[v_head] = Null,
                                       !.head = IF v_head + 1 >= n THEN 0 ELSE v_head + 1,
                                       !.size = @ - 1])
         IN  Settled(r) /\ Contents(r) = RemoveAt(Contents(Now), 1)
<1>1. PICK l : l = Now
  OBVIOUS
<1>2. /\ l.tuple = v_tuple /\ l.head = v_head /\ l.size = v_size /\ l.grow = v_grow
      /\ DOMAIN l = {"tuple", "head", "size", "grow", "shrink"}
  BY <1>1 DEF Now
<1>3. Words(l)
  BY <1>1 DEF Settled
<1>4. /\ v_grow \in Nat /\ v_size \in 1 .. v_grow /\ n = v_grow /\ v_head \in 0 .. v_grow - 1
      /\ DOMAIN v_tuple = 0 .. v_grow - 1 /\ Free(v_tuple, v_head, v_size, v_grow)
  BY RingSize
<1>5. PICK g : g = IF v_head + 1 >= n THEN 0 ELSE v_head + 1
  OBVIOUS
<1>6. PICK w : w = [v_tuple EXCEPT ![v_head] = Null]
  OBVIOUS
<1>7. MovedForward(w, v_tuple, v_grow, v_head, v_head, Null)
  BY <1>4, <1>6, Sets
<1>8. IsTuple(w, l.grow)
  BY <1>2, <1>7 DEF MovedForward
<1>9. SlotsRemoved(v_tuple, v_head, v_size, v_grow, 0, w, g)
  BY <1>4, <1>5, <1>7, ShiftsSlot
<1>10. SlotsRemoved(l.tuple, l.head, l.size, l.grow, 0, w, g)
  BY <1>2, <1>9
<1>11. PICK r : r = [l EXCEPT !.tuple[v_head] = Null, !.head = g, !.size = @ - 1]
  OBVIOUS
<1>12. Rewritten(l, r, w, g, l.size - 1)
  BY <1>2, <1>6, <1>11 DEF Rewritten
<1>13. Words(r) /\ Vacant(r) /\ Removed(l, r, 0)
  BY <1>2, <1>3, <1>4, <1>8, <1>10, <1>12, RemovesSlots
<1>14. 0 \in 0 .. l.size - 1 /\ 0 + 1 = 1
  BY <1>2, <1>4
<1>15. Settled(f_shrink(r)) /\ Contents(f_shrink(r)) = RemoveAt(Contents(l), 0 + 1)
  BY <1>3, <1>13, <1>14, Removal
<1> QED BY <1>1, <1>5, <1>11, <1>14, <1>15

\* f_remove
LEMMA Removing ==
  ASSUME Settled(Now), NEW k \in 0 .. v_size - 1
  PROVE  LET r == f_shrink(RemoveMiddle(Now, k))
         IN  Settled(r) /\ Contents(r) = RemoveAt(Contents(Now), k + 1)
<1>1. PICK l : l = Now
  OBVIOUS
<1>2. Words(l) /\ Vacant(l) /\ k \in 0 .. l.size - 1
  BY <1>1 DEF Settled, Now
<1>3. PICK r : r = RemoveMiddle(l, k)
  OBVIOUS
<1>4. Words(r) /\ Vacant(r) /\ Removed(l, r, k)
  BY <1>2, <1>3, RemovesMiddle
<1> QED BY <1>1, <1>2, <1>3, <1>4, Removal

\* f_set_at
LEMMA Replacing ==
  ASSUME Settled(Now), NEW k \in 0 .. v_size - 1, NEW v
  PROVE  LET r == [Now EXCEPT !.tuple[Slot(v_head, k, n)] = v]
         IN  Settled(r) /\ Contents(r) = [Contents(Now) EXCEPT ![k + 1] = v]
<1>1. PICK l : l = Now
  OBVIOUS
<1>2. /\ l.tuple = v_tuple /\ l.head = v_head /\ l.size = v_size /\ l.grow = v_grow
      /\ l.shrink = v_shrink /\ DOMAIN l = {"tuple", "head", "size", "grow", "shrink"}
  BY <1>1 DEF Now
<1>3. Words(l)
  BY <1>1 DEF Settled
<1>4. /\ v_grow \in Nat /\ v_size \in 1 .. v_grow /\ n = v_grow /\ v_head \in 0 .. v_grow - 1
      /\ DOMAIN v_tuple = 0 .. v_grow - 1 /\ Free(v_tuple, v_head, v_size, v_grow)
      /\ v_shrink \in Nat
  BY RingSize
<1>5. PICK a : a = Slot(v_head, k, v_grow)
  OBVIOUS
<1>6. a \in 0 .. v_grow - 1
  BY <1>4, <1>5 DEF Slot
<1>7. PICK w : w = [v_tuple EXCEPT ![a] = v]
  OBVIOUS
<1>8. MovedForward(w, v_tuple, v_grow, a, a, v)
  BY <1>4, <1>6, <1>7, Sets
<1>9. IsTuple(w, v_grow) /\ \A i \in 0 .. v_grow - 1 : w[i] = IF i = a THEN v ELSE v_tuple[i]
  BY <1>6, <1>8 DEF MovedForward
<1>10. PICK r : r = [l EXCEPT !.tuple[a] = v]
  OBVIOUS
<1>11. /\ DOMAIN r = {"tuple", "head", "size", "grow", "shrink"}
       /\ r.tuple = w /\ r.head = v_head /\ r.size = v_size /\ r.grow = v_grow
       /\ r.shrink = v_shrink
  BY <1>2, <1>7, <1>10
<1>12. Words(r)
  BY <1>4, <1>9, <1>11 DEF Words
<1>13. Vacant(r)
  <2>1. ASSUME NEW i \in 0 .. v_grow - 1, ~(v_head <= i /\ i < v_head + v_size),
               ~(i < v_head + v_size - v_grow)
        PROVE  w[i] = Null
    <3>1. i # a
      BY <1>4, <1>5, <2>1 DEF Slot
    <3> QED BY <1>4, <1>9, <2>1, <3>1 DEF Free
  <2> QED BY <1>11, <2>1 DEF Vacant, Within
<1>14. Settled(r)
  BY <1>4, <1>11, <1>12, <1>13 DEF Settled
<1>15. PICK s : s = Contents(l)
  OBVIOUS
<1>16. /\ s = [i \in 1 .. v_size |-> s[i]]
       /\ \A i \in 1 .. v_size : s[i] = v_tuple[Slot(v_head, i - 1, v_grow)]
  BY <1>2, <1>3, <1>15, ContentsSequence DEF Element
<1>17. PICK z : z = [s EXCEPT ![k + 1] = v]
  OBVIOUS
<1>18. z = [i \in 1 .. r.size |-> z[i]]
  BY <1>11, <1>16, <1>17
<1>19. ASSUME NEW i \in 1 .. r.size PROVE z[i] = Element(r, i - 1)
  <2>1. i \in 1 .. v_size /\ i - 1 \in 0 .. v_size - 1 /\ DOMAIN s = 1 .. v_size
    BY <1>4, <1>11, <1>16
  <2>2. z[i] = IF i = k + 1 THEN v ELSE s[i]
    BY <1>17, <2>1
  <2>3. PICK x : x = Slot(v_head, i - 1, v_grow)
    OBVIOUS
  <2>4. x \in 0 .. v_grow - 1 /\ (x = a <=> i = k + 1)
    BY <1>4, <1>5, <2>1, <2>3 DEF Slot
  <2>5. Element(r, i - 1) = w[x]
    BY <1>11, <2>3 DEF Element
  <2>6. s[i] = v_tuple[x]
    BY <1>16, <2>1, <2>3
  <2> QED BY <1>9, <2>2, <2>4, <2>5, <2>6
<1>20. Contents(r) = z
  BY <1>12, <1>18, <1>19, ContentsEqual
<1> QED BY <1>1, <1>4, <1>5, <1>10, <1>14, <1>15, <1>17, <1>20

\* The sorted elements s are put back from g on, without wrapping around.
IsSeq(s, c) == s = [i \in 1 .. c |-> s[i]]

Placed(w, s, g, c, m) ==
  \A i \in 0 .. m - 1 : w[i] = IF g <= i /\ i < g + c THEN s[i - g + 1] ELSE Null

HoldsAll(r, s, c) == r.size = c /\ \A i \in 1 .. c : s[i] = Element(r, i - 1)

PutBack(l, r, s) ==
  LET g == IF l.head + l.size > l.grow THEN 0 ELSE l.head
  IN r = [l EXCEPT !.head = g,
                   !.tuple = [i \in DOMAIN l.tuple |->
                                IF g <= i /\ i < g + l.size THEN s[i - g + 1] ELSE Null]]

\* The tuple that sort puts back holds s from g on, and nothing else.
LEMMA SortedSlots ==
  ASSUME NEW l, Settled(l), l.size > 0, NEW s,
         NEW g \in 0 .. l.grow - 1, g + l.size <= l.grow,
         NEW w, IsTuple(w, l.grow),
         Placed(w, s, g, l.size, l.grow),
         NEW r, Rewritten(l, r, w, g, l.size)
  PROVE  Settled(r) /\ HoldsAll(r, s, l.size)
<1>1. Words(l) /\ Vacant(l)
  BY DEF Settled
<1>2. /\ l.grow \in Nat /\ l.size \in 0 .. l.grow /\ l.grow > 0 /\ l.head \in 0 .. l.grow - 1
      /\ l.shrink \in Nat /\ DOMAIN l = {"tuple", "head", "size", "grow", "shrink"}
  BY <1>1, Shape DEF Words
<1>3. g \in 0 .. l.grow - 1 /\ g + l.size <= l.grow
  OBVIOUS
<1>4. /\ DOMAIN r = {"tuple", "head", "size", "grow", "shrink"}
      /\ r.tuple = w /\ r.head = g /\ r.size = l.size /\ r.grow = l.grow /\ r.shrink = l.shrink
  BY <1>2 DEF Rewritten
<1>5. Words(r)
  BY <1>2, <1>3, <1>4 DEF Words
<1>6. Vacant(r)
  BY <1>2, <1>3, <1>4 DEF Vacant, Within, Placed
<1>7. Settled(r)
  BY <1>4, <1>5, <1>6 DEF Settled
<1>8. ASSUME NEW i \in 1 .. l.size PROVE s[i] = Element(r, i - 1)
  <2>1. PICK x : x = g + (i - 1)
    OBVIOUS
  <2>2. /\ x \in 0 .. l.grow - 1 /\ g <= x /\ x < g + l.size /\ x - g + 1 = i
        /\ Slot(g, i - 1, l.grow) = x
    BY <1>2, <1>3, <2>1 DEF Slot
  <2>3. Element(r, i - 1) = w[x]
    BY <1>4, <2>2 DEF Element
  <2> QED BY <2>2, <2>3 DEF Placed
<1> QED BY <1>4, <1>7, <1>8 DEF HoldsAll

\* sort puts back the elements that it took away, in the order s.
LEMMA Sorting ==
  ASSUME NEW l, Settled(l), l.size > 0, NEW s, IsSeq(s, l.size), NEW r, PutBack(l, r, s)
  PROVE  Settled(r) /\ Contents(r) = s
<1>0. PICK g : g = (IF l.head + l.size > l.grow THEN 0 ELSE l.head)
  OBVIOUS
<1>1. PICK w : w = [i \in DOMAIN l.tuple |->
                      IF g <= i /\ i < g + l.size THEN s[i - g + 1] ELSE Null]
  OBVIOUS
<1>2. DOMAIN l.tuple = 0 .. l.grow - 1 /\ DOMAIN l = {"tuple", "head", "size", "grow", "shrink"}
  BY Shape DEF Settled, Words
<1>3. IsTuple(w, l.grow) /\ Placed(w, s, g, l.size, l.grow)
  BY <1>1, <1>2 DEF IsTuple, Placed
<1>4. Rewritten(l, r, w, g, l.size)
  BY <1>0, <1>1, <1>2 DEF Rewritten, PutBack
<1>5. Settled(r) /\ HoldsAll(r, s, l.size)
  <2>1. g \in 0 .. l.grow - 1 /\ g + l.size <= l.grow
    BY <1>0, Shape DEF Settled, Words
  <2> QED BY <1>3, <1>4, <2>1, SortedSlots
<1>6. \A i \in 1 .. r.size : s[i] = Element(r, i - 1)
  BY <1>5 DEF HoldsAll
<1>7. Words(r) /\ s = [i \in 1 .. r.size |-> s[i]]
  BY <1>5 DEF Settled, IsSeq, HoldsAll
<1>8. Contents(r) = s
  BY <1>6, <1>7, ContentsEqual
<1> QED BY <1>5, <1>8

\* The list without a ring.
LEMMA NothingThere ==
  Settled(Nothing) /\ Contents(Nothing) = <<>> /\ Nothing.size = 0
<1>1. /\ DOMAIN Nothing = {"tuple", "head", "size", "grow", "shrink"}
      /\ Nothing.tuple = None /\ Nothing.head = 0 /\ Nothing.size = 0 /\ Nothing.grow = 0
      /\ Nothing.shrink = 0
  BY DEF Nothing
<1>2. IsTuple(None, 0)
  BY DEF IsTuple, None
<1>3. Settled(Nothing)
  BY <1>1, <1>2 DEF Settled, Words, Vacant
<1>4. Contents(Nothing) = <<>>
  BY <1>1 DEF Contents
<1> QED BY <1>1, <1>3, <1>4
-----------------------------------------------------------------------------
(***************************************************************************)
(* One step.                                                               *)
(***************************************************************************)

\* The list is replaced by l.
LEMMA Becoming ==
  ASSUME NEW l, Settled(l), Becomes(l)
  PROVE  Settled(Now)' /\ Contents(Now)' = Contents(l)
<1>1. PICK r : r = Now'
  OBVIOUS
<1>2. /\ DOMAIN r = {"tuple", "head", "size", "grow", "shrink"}
      /\ r.tuple = l.tuple /\ r.head = l.head /\ r.size = l.size
      /\ r.grow = l.grow /\ r.shrink = l.shrink
  BY <1>1 DEF Now, Becomes
<1>3. Words(r) /\ Vacant(r)
  BY <1>2 DEF Settled, Words, Vacant, Within
<1>4. Settled(r)
  BY <1>2, <1>3 DEF Settled
<1>5. Contents(r) = Contents(l)
  BY <1>2 DEF Contents
<1> QED BY <1>1, <1>4, <1>5

\* A step that leaves the words of the list alone.
LEMMA Keeping ==
  ASSUME UNCHANGED listVars
  PROVE  Now' = Now
BY DEF listVars, Now

\* An index that f_validate accepts.
LEMMA ValidIndex ==
  ASSUME Settled(Now), NEW i \in -v_size - 1 .. v_size + 1, Valid(i)
  PROVE  /\ f_validate(i) \in 0 .. v_size - 1
         /\ i \in -v_size .. v_size - 1
         /\ f_validate(i) = IF i < 0 THEN i + v_size ELSE i
<1>1. v_size \in Nat
  BY RingSize
<1> QED BY <1>1 DEF Valid, f_validate

\* The step of the list that an action takes.
ListStep(s) == Settled(Now)' /\ Contents(Now)' = s

\* f_push
LEMMA StepPush ==
  ASSUME Settled(Now), NEW v, f_push(v)
  PROVE  ListStep(InsertAt(Contents(Now), v_size + 1, v))
<1>1. Now.size = v_size
  BY DEF Now
<1>2. Becomes(Pushed(v))
  BY DEF f_push
<1> QED BY <1>1, <1>2, Pushing, Becoming DEF ListStep

\* f_unshift
LEMMA StepUnshift ==
  ASSUME Settled(Now), NEW v, f_unshift(v)
  PROVE  ListStep(InsertAt(Contents(Now), 1, v))
<1>2. Becomes(Unshifted(v))
  BY DEF f_unshift
<1> QED BY <1>2, Unshifting, Becoming DEF ListStep

\* f_pop, where it does not fail.
LEMMA StepPop ==
  ASSUME Settled(Now), v_size > 0, f_pop
  PROVE  /\ ListStep(RemoveAt(Contents(Now), v_size))
         /\ call' = Called("pop", 0, Null, Contents(Now)[v_size])
<1>1. v_size \in Nat /\ v_size - 1 \in 0 .. v_size - 1 /\ (v_size - 1) + 1 = v_size
  BY RingSize
<1>2. /\ Becomes(f_shrink([Now EXCEPT !.tuple[Slot(v_head, v_size - 1, n)] = Null, !.size = @ - 1]))
      /\ call' = Called("pop", 0, Null, v_tuple[Slot(v_head, v_size - 1, n)])
  BY <1>1 DEF f_pop, Returns
<1>3. v_tuple[Slot(v_head, v_size - 1, n)] = Contents(Now)[(v_size - 1) + 1]
  BY <1>1, Elements
<1>4. ListStep(RemoveAt(Contents(Now), v_size))
  BY <1>2, Popping, Becoming DEF ListStep
<1> QED BY <1>1, <1>2, <1>3, <1>4

\* f_shift, where it does not fail.
LEMMA StepShift ==
  ASSUME Settled(Now), v_size > 0, f_shift
  PROVE  /\ ListStep(RemoveAt(Contents(Now), 1))
         /\ call' = Called("shift", 0, Null, Contents(Now)[1])
<1>1. v_size \in Nat /\ 0 \in 0 .. v_size - 1 /\ 0 + 1 = 1
  BY RingSize
<1>2. /\ Becomes(f_shrink([Now EXCEPT !.tuple[v_head] = Null,
                                      !.head = IF v_head + 1 >= n THEN 0 ELSE v_head + 1,
                                      !.size = @ - 1]))
      /\ call' = Called("shift", 0, Null, v_tuple[v_head])
  BY <1>1 DEF f_shift, Returns
<1>3. Slot(v_head, 0, n) = v_head
  BY <1>1, RingSize DEF Slot
<1>4. v_tuple[Slot(v_head, 0, n)] = Contents(Now)[0 + 1]
  BY <1>1, Elements
<1>5. ListStep(RemoveAt(Contents(Now), 1))
  BY <1>2, Shifting, Becoming DEF ListStep
<1> QED BY <1>1, <1>2, <1>3, <1>4, <1>5

\* f_remove, where it does not fail.
LEMMA StepRemove ==
  ASSUME Settled(Now), NEW i \in -v_size - 1 .. v_size + 1, Valid(i), f_remove(i)
  PROVE  /\ ListStep(RemoveAt(Contents(Now), f_validate(i) + 1))
         /\ call' = Called("remove", i, Null, Contents(Now)[f_validate(i) + 1])
<1>1. PICK k : k = f_validate(i)
  OBVIOUS
<1>2. k \in 0 .. v_size - 1
  BY <1>1, ValidIndex
<1>3. /\ Becomes(f_shrink(RemoveMiddle(Now, k)))
      /\ call' = Called("remove", i, Null, v_tuple[Slot(v_head, k, n)])
  BY <1>1 DEF f_remove, Returns
<1>4. v_tuple[Slot(v_head, k, n)] = Contents(Now)[k + 1]
  BY <1>2, Elements
<1>5. ListStep(RemoveAt(Contents(Now), k + 1))
  BY <1>2, <1>3, Removing, Becoming DEF ListStep
<1> QED BY <1>1, <1>3, <1>4, <1>5

\* f_set_at, where it does not fail.
LEMMA StepSetAt ==
  ASSUME Settled(Now), NEW i \in -v_size - 1 .. v_size + 1, Valid(i), NEW v, f_set_at(i, v)
  PROVE  ListStep([Contents(Now) EXCEPT ![f_validate(i) + 1] = v])
<1>1. PICK k : k = f_validate(i)
  OBVIOUS
<1>2. k \in 0 .. v_size - 1
  BY <1>1, ValidIndex
<1>3. Becomes([Now EXCEPT !.tuple[Slot(v_head, k, n)] = v])
  BY <1>1 DEF f_set_at
<1>4. ListStep([Contents(Now) EXCEPT ![k + 1] = v])
  BY <1>2, <1>3, Replacing, Becoming DEF ListStep
<1> QED BY <1>1, <1>4

\* f_insert, where it does not fail.
LEMMA StepInsert ==
  ASSUME Settled(Now), NEW i \in -v_size - 1 .. v_size + 1, NEW v, f_insert(i, v),
         i = v_size \/ i = 0 \/ Valid(i)
  PROVE  /\ Settled(Now)'
         /\ i \in -v_size .. v_size
         /\ call' = Called("insert", i, v, Null)
         /\ ~Underflows(i) => ListStep(InsertAt(Contents(Now), f_validate(i) + 1, v))
<1>0. v_size \in Nat /\ Now.size = v_size
  BY RingSize DEF Now
<1>1. i \in -v_size .. v_size
  BY <1>0 DEF Valid, f_validate
<1>2. /\ Becomes(CASE i = v_size -> Pushed(v)
                   [] i # v_size /\ i = 0 -> Unshifted(v)
                   [] OTHER -> InsertMiddle(f_grow(Now), f_validate(i), v))
      /\ call' = Called("insert", i, v, Null)
  BY DEF f_insert, Returns
<1>3. CASE i = v_size
  <2>1. Becomes(Pushed(v)) /\ f_validate(i) = v_size
    BY <1>0, <1>2, <1>3 DEF f_validate
  <2>2. ListStep(InsertAt(Contents(Now), v_size + 1, v))
    BY <1>0, <2>1, Pushing, Becoming DEF ListStep
  <2> QED BY <1>1, <1>2, <2>1, <2>2 DEF ListStep
<1>4. CASE i # v_size /\ i = 0
  <2>1. Becomes(Unshifted(v)) /\ f_validate(i) = 0 /\ 0 + 1 = 1
    BY <1>0, <1>2, <1>4 DEF f_validate
  <2>2. ListStep(InsertAt(Contents(Now), 1, v))
    BY <2>1, Unshifting, Becoming DEF ListStep
  <2> QED BY <1>1, <1>2, <2>1, <2>2 DEF ListStep
<1>5. CASE i # v_size /\ i # 0
  <2>1. PICK k : k = f_validate(i)
    OBVIOUS
  <2>2. Valid(i) /\ k \in 0 .. v_size - 1 /\ (k = 0 => i = -v_size) /\ v_size > 0
    BY <1>0, <1>5, <2>1, ValidIndex
  <2>3. Becomes(InsertMiddle(f_grow(Now), k, v))
    BY <1>2, <1>5, <2>1
  <2>4. CASE Underflows(i)
    <3>1. f_grow(Now).head = 0 /\ k = 0
      BY <1>0, <2>1, <2>4 DEF Underflows, f_validate
    <3>2. Settled(InsertMiddle(f_grow(Now), 0, v))
      BY <1>0, <2>2, <3>1, InsertingFirst
    <3>3. Settled(Now)'
      BY <2>3, <3>1, <3>2, Becoming
    <3> QED BY <1>1, <1>2, <2>4, <3>3
  <2>5. CASE ~Underflows(i)
    <3>1. k = 0 => f_grow(Now).head # 0
      BY <2>2, <2>5 DEF Underflows
    <3>2. ListStep(InsertAt(Contents(Now), k + 1, v))
      BY <1>0, <2>2, <2>3, <3>1, Inserting, Becoming DEF ListStep
    <3> QED BY <1>1, <1>2, <2>1, <3>2 DEF ListStep
  <2> QED BY <2>4, <2>5
<1> QED BY <1>3, <1>4, <1>5

\* sort puts the elements back.
LEMMA StepSort ==
  ASSUME Settled(sorted), sorted.size > 0, f_sort_put
  PROVE  ListStep(Sorted(Contents(sorted)))
<1>1. PICK s : s = Sorted(Contents(sorted))
  OBVIOUS
<1>2. IsSeq(s, sorted.size)
  <2>1. Len(Contents(sorted)) = sorted.size
    BY ContentsSequence DEF Settled
  <2> QED BY <1>1, <2>1 DEF Sorted, IsSeq
<1>3. PICK r : PutBack(sorted, r, s)
  BY DEF PutBack
<1>4. Becomes(r)
  BY <1>1, <1>3 DEF f_sort_put, PutBack
<1>5. Settled(r) /\ Contents(r) = s
  BY <1>2, <1>3, Sorting
<1> QED BY <1>1, <1>4, <1>5, Becoming DEF ListStep
-----------------------------------------------------------------------------
(***************************************************************************)
(* The invariant.                                                          *)
(***************************************************************************)
LEMMA Initially == Init => IInv
<1> SUFFICES ASSUME Init PROVE IInv
  OBVIOUS
<1>1. Now = Nothing /\ sorted = Nothing
  BY DEF Init, Now, Nothing
<1> QED BY <1>1, NothingThere DEF IInv

\* What sort has taken away is left alone.
LEMMA Others ==
  ASSUME IInv, Settled(Now)', UNCHANGED sorted
  PROVE  IInv'
BY DEF IInv

\* A call that throws changes nothing.
LEMMA Failing ==
  ASSUME IInv, NEW op, NEW i, NEW v, Fail(op, i, v)
  PROVE  IInv' /\ Now' = Now /\ sorted' = sorted /\ call' = Called(op, i, v, Error)
<1>1. UNCHANGED sorted /\ Now' = Now /\ call' = Called(op, i, v, Error)
  BY Keeping DEF Fail, Returns
<1>2. Settled(Now)'
  BY <1>1 DEF IInv
<1> QED BY <1>1, <1>2, Others

\* Every step preserves the invariant.
LEMMA Inductive == IInv /\ [Next]_vars => IInv'
<1> SUFFICES ASSUME IInv, [Next]_vars PROVE IInv'
  OBVIOUS
<1>0. Settled(Now) /\ Settled(sorted) /\ v_size \in Nat
  BY RingSize DEF IInv
<1>1. ASSUME NEW v \in Values, f_push(v) PROVE IInv'
  BY <1>0, <1>1, StepPush, Others DEF ListStep, f_push, Returns
<1>2. ASSUME NEW v \in Values, f_unshift(v) PROVE IInv'
  BY <1>0, <1>2, StepUnshift, Others DEF ListStep, f_unshift, Returns
<1>3. ASSUME NEW v \in Values, NEW i \in -v_size - 1 .. v_size + 1, f_insert(i, v) PROVE IInv'
  <2>1. CASE i = v_size \/ i = 0 \/ Valid(i)
    <3>1. UNCHANGED sorted
      BY <1>3, <2>1 DEF f_insert, Returns
    <3>2. Settled(Now)'
      BY <1>0, <1>3, <2>1, StepInsert
    <3> QED BY <3>1, <3>2, Others
  <2>2. CASE i # v_size /\ i # 0 /\ ~Valid(i)
    BY <1>3, <2>2, Failing DEF f_insert
  <2> QED BY <2>1, <2>2
<1>4. ASSUME NEW v \in Values, NEW i \in -v_size - 1 .. v_size + 1, f_set_at(i, v) PROVE IInv'
  <2>1. CASE Valid(i)
    <3>1. UNCHANGED sorted
      BY <1>4, <2>1 DEF f_set_at, Returns
    <3>2. Settled(Now)'
      BY <1>0, <1>4, <2>1, StepSetAt DEF ListStep
    <3> QED BY <3>1, <3>2, Others
  <2>2. CASE ~Valid(i)
    BY <1>4, <2>2, Failing DEF f_set_at
  <2> QED BY <2>1, <2>2
<1>5. ASSUME NEW i \in -v_size - 1 .. v_size, f_remove(i) PROVE IInv'
  <2>1. CASE Valid(i)
    <3>1. UNCHANGED sorted
      BY <1>5, <2>1 DEF f_remove, Returns
    <3>2. i \in -v_size - 1 .. v_size + 1
      BY <1>0
    <3>3. Settled(Now)'
      BY <1>0, <1>5, <2>1, <3>2, StepRemove DEF ListStep
    <3> QED BY <3>1, <3>3, Others
  <2>2. CASE ~Valid(i)
    BY <1>5, <2>2, Failing DEF f_remove
  <2> QED BY <2>1, <2>2
<1>6. ASSUME NEW i \in -v_size - 1 .. v_size, f_get_at(i) PROVE IInv'
  <2>1. CASE Valid(i)
    <3>1. UNCHANGED sorted /\ Now' = Now
      BY <1>6, <2>1, Keeping DEF f_get_at, Returns
    <3>2. Settled(Now)'
      BY <1>0, <3>1
    <3> QED BY <3>1, <3>2, Others
  <2>2. CASE ~Valid(i)
    BY <1>6, <2>2, Failing DEF f_get_at
  <2> QED BY <2>1, <2>2
<1>7. CASE f_pop
  <2>1. CASE v_size = 0
    BY <1>7, <2>1, Failing DEF f_pop
  <2>2. CASE v_size # 0
    <3>1. UNCHANGED sorted /\ v_size > 0
      BY <1>0, <1>7, <2>2 DEF f_pop, Returns
    <3>2. Settled(Now)'
      BY <1>0, <1>7, <3>1, StepPop DEF ListStep
    <3> QED BY <3>1, <3>2, Others
  <2> QED BY <2>1, <2>2
<1>8. CASE f_shift
  <2>1. CASE v_size = 0
    BY <1>8, <2>1, Failing DEF f_shift
  <2>2. CASE v_size # 0
    <3>1. UNCHANGED sorted /\ v_size > 0
      BY <1>0, <1>8, <2>2 DEF f_shift, Returns
    <3>2. Settled(Now)'
      BY <1>0, <1>8, <3>1, StepShift DEF ListStep
    <3> QED BY <3>1, <3>2, Others
  <2> QED BY <2>1, <2>2
<1>9. CASE f_clear
  <2>1. UNCHANGED sorted /\ Becomes(Nothing)
    BY <1>9 DEF f_clear, Returns
  <2>2. Settled(Now)'
    BY <2>1, NothingThere, Becoming
  <2> QED BY <2>1, <2>2, Others
<1>10. CASE f_sort_take
  <2>1. Becomes(Nothing) /\ sorted' = Now /\ v_tuple # None
    BY <1>10 DEF f_sort_take
  <2>2. Settled(Now)'
    BY <2>1, NothingThere, Becoming
  <2>3. Now.size > 0
    BY <1>0, <2>1, RingSize DEF Now
  <2> QED BY <1>0, <2>1, <2>2, <2>3 DEF IInv
<1>11. CASE f_sort_put
  <2>1. sorted' = Nothing /\ sorted.size > 0
    BY <1>11 DEF f_sort_put, IInv
  <2>2. Settled(Now)'
    BY <1>0, <1>11, <2>1, StepSort DEF ListStep
  <2> QED BY <2>1, <2>2, NothingThere DEF IInv
<1>12. CASE f_sort_throw
  <2>1. sorted' = Nothing /\ Now' = Now
    BY <1>12, Keeping DEF f_sort_throw
  <2>2. Settled(Now)'
    BY <1>0, <2>1
  <2> QED BY <2>1, <2>2, NothingThere DEF IInv
<1>13. CASE UNCHANGED vars
  <2>1. UNCHANGED sorted /\ Now' = Now
    BY <1>13, Keeping DEF vars
  <2>2. Settled(Now)'
    BY <1>0, <2>1
  <2> QED BY <2>1, <2>2, Others
<1> QED BY <1>1, <1>2, <1>3, <1>4, <1>5, <1>6, <1>7, <1>8, <1>9, <1>10, <1>11, <1>12, <1>13 DEF Next

\* The invariant holds throughout.
LEMMA Invariance == Spec => []IInv
BY Initially, Inductive, PTL DEF Spec

(***************************************************************************)
(* The words of the ring agree and the slots outside the list are null,    *)
(* whatever the operations do, for every size of the unit in which a tuple *)
(* grows (f_push, f_unshift, f_insert, f_remove, f_resize, sort).          *)
(***************************************************************************)
THEOREM RingSound == Spec => []TypeOK
<1>1. IInv => TypeOK
  <2> SUFFICES ASSUME IInv PROVE TypeOK
    OBVIOUS
  <2>1. Settled(Now)
    BY DEF IInv
  <2>2. /\ n = v_grow /\ (v_tuple = None <=> v_grow = 0) /\ (v_size = 0 <=> v_grow = 0)
        /\ v_grow \in Nat /\ v_size \in 0 .. v_grow /\ v_shrink \in Nat
        /\ v_grow > 0 => v_head \in 0 .. v_grow - 1
        /\ DOMAIN v_tuple = 0 .. v_grow - 1
        /\ Free(v_tuple, v_head, v_size, v_grow)
    BY <2>1, RingSize
  <2>3. v_head \in Nat
    BY <2>1 DEF Settled, Words, Now
  <2>4. VacantNull
    <3> SUFFICES ASSUME NEW i \in 0 .. v_grow - 1, v_tuple[i] # Null
                 PROVE  \E k \in 0 .. v_size - 1 : Slot(v_head, k, v_grow) = i
      BY <2>2 DEF VacantNull
    <3>1. (v_head <= i /\ i < v_head + v_size) \/ i < v_head + v_size - v_grow
      BY <2>2 DEF Free
    <3>2. CASE v_head <= i /\ i < v_head + v_size
      <4>1. i - v_head \in 0 .. v_size - 1 /\ Slot(v_head, i - v_head, v_grow) = i
        BY <2>2, <2>3, <3>2 DEF Slot
      <4> QED BY <4>1
    <3>3. CASE i < v_head + v_size - v_grow
      <4>1. /\ i - v_head + v_grow \in 0 .. v_size - 1
            /\ Slot(v_head, i - v_head + v_grow, v_grow) = i
        BY <2>2, <2>3, <3>3 DEF Slot
      <4> QED BY <4>1
    <3> QED BY <3>1, <3>2, <3>3
  <2> QED BY <2>2, <2>3, <2>4 DEF TypeOK
<1> QED BY Invariance, <1>1, PTL
-----------------------------------------------------------------------------
(***************************************************************************)
(* The refinement.                                                         *)
(***************************************************************************)
\* The elements, as the abstract list sees them.
LEMMA View ==
  ASSUME IInv
  PROVE  /\ Abstract!Size = v_size /\ v_size \in Nat
         /\ \A i : Abstract!Index(i) = f_validate(i)
         /\ v_size = 0 <=> Contents(Now) = <<>>
         /\ \E S : Contents(Now) \in Seq(S)
         /\ sorted = Nothing <=> Contents(sorted) = <<>>
<1>1. Words(Now) /\ Words(sorted) /\ Now.size = v_size /\ v_size \in Nat
  BY RingSize DEF IInv, Settled, Now
<1>2. Len(Contents(Now)) = v_size /\ \E S : Contents(Now) \in Seq(S)
  BY <1>1, ContentsSequence
<1>3. Abstract!Size = v_size
  BY <1>2 DEF Abstract!Size
<1>4. \A i : Abstract!Index(i) = f_validate(i)
  BY <1>3 DEF Abstract!Index, f_validate
<1>5. v_size = 0 <=> Contents(Now) = <<>>
  BY <1>2, EmptySeq
<1>6. sorted = Nothing <=> Contents(sorted) = <<>>
  <2>1. Len(Contents(sorted)) = sorted.size /\ \E S : Contents(sorted) \in Seq(S)
    BY <1>1, ContentsSequence
  <2>2. Contents(sorted) = <<>> => sorted.size = 0
    BY <2>1, EmptySeq
  <2> QED BY <2>2, NothingThere DEF IInv
<1> QED BY <1>1, <1>2, <1>3, <1>4, <1>5, <1>6

\* What an operation that leaves sort alone does to the abstract list.
LEMMA Does ==
  ASSUME NEW s, ListStep(s), UNCHANGED sorted
  PROVE  Abstract!Becomes(s)
BY DEF ListStep, Abstract!Becomes

\* A call that fails.
LEMMA Refused ==
  ASSUME IInv, NEW op, NEW i, NEW v, Fail(op, i, v)
  PROVE  call' = Abstract!Called(op, i, v, Error) /\ Abstract!Becomes(Contents(Now))
<1>1. Now' = Now /\ sorted' = sorted /\ call' = Called(op, i, v, Error)
  BY Failing
<1> QED BY <1>1 DEF Called, Abstract!Called, Abstract!Becomes

\* An index that f_validate refuses.
LEMMA NoSuch ==
  ASSUME IInv, NEW i \in -v_size - 1 .. v_size + 1, ~Valid(i)
  PROVE  i \in {-Abstract!Size - 1, Abstract!Size, Abstract!Size + 1}
BY View DEF Valid, f_validate

(***************************************************************************)
(* Each operation of the ring is that operation of the sequence.           *)
(***************************************************************************)
LEMMA Step ==
  ASSUME ~InsertFirst, IInv, [Next]_vars
  PROVE  [Abstract!Next]_Abstract!vars
<1>0. Settled(Now) /\ Settled(sorted)
  BY DEF IInv
<1>a. /\ Abstract!Size = v_size /\ v_size \in Nat
      /\ \A i : Abstract!Index(i) = f_validate(i)
      /\ v_size = 0 <=> Contents(Now) = <<>>
      /\ sorted = Nothing <=> Contents(sorted) = <<>>
  BY View
<1>b. PICK S : Contents(Now) \in Seq(S)
  BY View
<1>c. Len(Contents(Now)) = v_size
  BY <1>a DEF Abstract!Size
<1>1. ASSUME NEW v \in Values, f_push(v) PROVE Abstract!Next
  <2>1. UNCHANGED sorted /\ call' = Called("push", 0, v, Null)
    BY <1>1 DEF f_push, Returns
  <2>2. ListStep(Append(Contents(Now), v))
    BY <1>0, <1>1, <1>b, <1>c, StepPush, Ends
  <2>3. Abstract!Push(v)
    BY <2>1, <2>2, Does DEF Abstract!Push, Called, Abstract!Called
  <2> QED BY <2>3 DEF Abstract!Next
<1>2. ASSUME NEW v \in Values, f_unshift(v) PROVE Abstract!Next
  <2>1. UNCHANGED sorted /\ call' = Called("unshift", 0, v, Null)
    BY <1>2 DEF f_unshift, Returns
  <2>2. ListStep(<<v>> \o Contents(Now))
    BY <1>0, <1>2, <1>b, StepUnshift, Ends
  <2>3. Abstract!Unshift(v)
    BY <2>1, <2>2, Does DEF Abstract!Unshift, Called, Abstract!Called
  <2> QED BY <2>3 DEF Abstract!Next
<1>3. ASSUME NEW v \in Values, NEW i \in -v_size - 1 .. v_size + 1, ~Underflows(i), f_insert(i, v)
      PROVE  Abstract!Next
  <2>1. CASE i = v_size \/ i = 0 \/ Valid(i)
    <3>1. UNCHANGED sorted
      BY <1>3, <2>1 DEF f_insert, Returns
    <3>2. /\ i \in -v_size .. v_size
          /\ call' = Called("insert", i, v, Null)
          /\ ListStep(InsertAt(Contents(Now), f_validate(i) + 1, v))
      BY <1>0, <1>3, <2>1, StepInsert
    <3>3. Abstract!Insert(i, v)
      <4>1. Abstract!Becomes(InsertAt(Contents(Now), f_validate(i) + 1, v))
        BY <3>1, <3>2, Does
      <4>2. call' = Abstract!Called("insert", i, v, Null)
        BY <3>2 DEF Called, Abstract!Called
      <4> QED BY <1>a, <4>1, <4>2 DEF Abstract!Insert, InsertAt, Abstract!InsertAt
    <3> QED BY <1>a, <3>2, <3>3 DEF Abstract!Next
  <2>2. CASE i # v_size /\ i # 0 /\ ~Valid(i)
    <3>1. Fail("insert", i, v)
      BY <1>3, <2>2 DEF f_insert
    <3>2. i # Abstract!Size /\ i \in {-Abstract!Size - 1, Abstract!Size, Abstract!Size + 1}
      BY <1>a, <2>2, NoSuch
    <3>3. Abstract!OutOfRange
      BY <3>1, <3>2, Refused DEF Abstract!OutOfRange
    <3> QED BY <3>3 DEF Abstract!Next
  <2> QED BY <2>1, <2>2
<1>4. ASSUME NEW v \in Values, NEW i \in -v_size - 1 .. v_size + 1, f_set_at(i, v)
      PROVE  Abstract!Next
  <2>1. CASE Valid(i)
    <3>1. UNCHANGED sorted /\ call' = Called("set_at", i, v, v)
      BY <1>4, <2>1 DEF f_set_at, Returns
    <3>2. i \in -v_size .. v_size - 1 /\ ListStep([Contents(Now) EXCEPT ![f_validate(i) + 1] = v])
      BY <1>0, <1>4, <2>1, StepSetAt, ValidIndex
    <3>3. Abstract!SetAt(i, v)
      <4>1. Abstract!Becomes([Contents(Now) EXCEPT ![f_validate(i) + 1] = v])
        BY <3>1, <3>2, Does
      <4> QED BY <1>a, <3>1, <4>1 DEF Abstract!SetAt, Called, Abstract!Called
    <3> QED BY <1>a, <3>2, <3>3 DEF Abstract!Next
  <2>2. CASE ~Valid(i)
    <3>1. Fail("set_at", i, v)
      BY <1>4, <2>2 DEF f_set_at
    <3>2. Abstract!OutOfRange
      BY <2>2, <3>1, NoSuch, Refused DEF Abstract!OutOfRange
    <3> QED BY <3>2 DEF Abstract!Next
  <2> QED BY <2>1, <2>2
<1>5. ASSUME NEW i \in -v_size - 1 .. v_size, f_remove(i) PROVE Abstract!Next
  <2>0. i \in -v_size - 1 .. v_size + 1
    BY <1>a
  <2>1. CASE Valid(i)
    <3>1. UNCHANGED sorted
      BY <1>5, <2>1 DEF f_remove, Returns
    <3>2. /\ i \in -v_size .. v_size - 1
          /\ ListStep(RemoveAt(Contents(Now), f_validate(i) + 1))
          /\ call' = Called("remove", i, Null, Contents(Now)[f_validate(i) + 1])
      BY <1>0, <1>5, <2>0, <2>1, StepRemove, ValidIndex
    <3>3. Abstract!Erase(i)
      <4>1. Abstract!Becomes(RemoveAt(Contents(Now), f_validate(i) + 1))
        BY <3>1, <3>2, Does
      <4>2. call' = Abstract!Called("remove", i, Null, Contents(Now)[f_validate(i) + 1])
        BY <3>2 DEF Called, Abstract!Called
      <4> QED BY <1>a, <4>1, <4>2 DEF Abstract!Erase, RemoveAt, Abstract!RemoveAt
    <3> QED BY <1>a, <3>2, <3>3 DEF Abstract!Next
  <2>2. CASE ~Valid(i)
    <3>1. Fail("remove", i, Null)
      BY <1>5, <2>2 DEF f_remove
    <3>2. Abstract!OutOfRange
      BY <2>0, <2>2, <3>1, NoSuch, Refused DEF Abstract!OutOfRange
    <3> QED BY <3>2 DEF Abstract!Next
  <2> QED BY <2>1, <2>2
<1>6. ASSUME NEW i \in -v_size - 1 .. v_size, f_get_at(i) PROVE Abstract!Next
  <2>0. i \in -v_size - 1 .. v_size + 1
    BY <1>a
  <2>1. CASE Valid(i)
    <3>1. /\ UNCHANGED sorted /\ Now' = Now
          /\ call' = Called("get_at", i, Null, v_tuple[Slot(v_head, f_validate(i), n)])
      BY <1>6, <2>1, Keeping DEF f_get_at, Returns
    <3>2. i \in -v_size .. v_size - 1 /\ f_validate(i) \in 0 .. v_size - 1
      BY <1>0, <2>0, <2>1, ValidIndex
    <3>3. v_tuple[Slot(v_head, f_validate(i), n)] = Contents(Now)[f_validate(i) + 1]
      BY <1>0, <3>2, Elements
    <3>4. Abstract!GetAt(i)
      BY <1>a, <3>1, <3>3 DEF Abstract!GetAt, Abstract!Becomes, Called, Abstract!Called
    <3> QED BY <1>a, <3>2, <3>4 DEF Abstract!Next
  <2>2. CASE ~Valid(i)
    <3>1. Fail("get_at", i, Null)
      BY <1>6, <2>2 DEF f_get_at
    <3>2. Abstract!OutOfRange
      BY <2>0, <2>2, <3>1, NoSuch, Refused DEF Abstract!OutOfRange
    <3> QED BY <3>2 DEF Abstract!Next
  <2> QED BY <2>1, <2>2
<1>7. CASE f_pop
  <2>1. CASE v_size = 0
    <3>1. Fail("pop", 0, Null)
      BY <1>7, <2>1 DEF f_pop
    <3>2. Abstract!Empty
      BY <1>a, <2>1, <3>1, Refused DEF Abstract!Empty
    <3> QED BY <3>2 DEF Abstract!Next
  <2>2. CASE v_size # 0
    <3>1. UNCHANGED sorted /\ v_size > 0
      BY <1>7, <1>a, <2>2 DEF f_pop, Returns
    <3>2. /\ ListStep(RemoveAt(Contents(Now), v_size))
          /\ call' = Called("pop", 0, Null, Contents(Now)[v_size])
      BY <1>0, <1>7, <3>1, StepPop
    <3>3. Front(Contents(Now)) = RemoveAt(Contents(Now), v_size)
      BY <1>a, <1>b, <1>c, <2>2, Ends
    <3>4. Last(Contents(Now)) = Contents(Now)[v_size]
      BY <1>c DEF Last
    <3>5. Abstract!Pop
      <4>1. Abstract!Becomes(RemoveAt(Contents(Now), v_size))
        BY <3>1, <3>2, Does
      <4>2. call' = Abstract!Called("pop", 0, Null, Contents(Now)[v_size])
        BY <3>2 DEF Called, Abstract!Called
      <4>3. /\ Abstract!Front(Contents(Now)) = Front(Contents(Now))
            /\ Abstract!Last(Contents(Now)) = Last(Contents(Now))
        BY DEF Abstract!Front, Abstract!Last, Front, Last
      <4> QED BY <1>a, <2>2, <3>3, <3>4, <4>1, <4>2, <4>3 DEF Abstract!Pop
    <3> QED BY <3>5 DEF Abstract!Next
  <2> QED BY <2>1, <2>2
<1>8. CASE f_shift
  <2>1. CASE v_size = 0
    <3>1. Fail("shift", 0, Null)
      BY <1>8, <2>1 DEF f_shift
    <3>2. Abstract!Empty
      BY <1>a, <2>1, <3>1, Refused DEF Abstract!Empty
    <3> QED BY <3>2 DEF Abstract!Next
  <2>2. CASE v_size # 0
    <3>1. UNCHANGED sorted /\ v_size > 0
      BY <1>8, <1>a, <2>2 DEF f_shift, Returns
    <3>2. /\ ListStep(RemoveAt(Contents(Now), 1))
          /\ call' = Called("shift", 0, Null, Contents(Now)[1])
      BY <1>0, <1>8, <3>1, StepShift
    <3>3. Tail(Contents(Now)) = RemoveAt(Contents(Now), 1) /\ Contents(Now) # <<>>
      BY <1>a, <1>b, <2>2, Ends
    <3>4. Head(Contents(Now)) = Contents(Now)[1]
      BY <1>b, <3>3
    <3>5. Abstract!Shift
      BY <3>1, <3>2, <3>3, <3>4, Does DEF Abstract!Shift, Called, Abstract!Called
    <3> QED BY <3>5 DEF Abstract!Next
  <2> QED BY <2>1, <2>2
<1>9. CASE f_clear
  <2>1. UNCHANGED sorted /\ Becomes(Nothing) /\ call' = Called("clear", 0, Null, Null)
    BY <1>9 DEF f_clear, Returns
  <2>2. ListStep(<<>>)
    BY <2>1, NothingThere, Becoming DEF ListStep
  <2>3. Abstract!Clear
    BY <2>1, <2>2, Does DEF Abstract!Clear, Called, Abstract!Called
  <2> QED BY <2>3 DEF Abstract!Next
<1>10. CASE f_sort_take
  <2>1. /\ Becomes(Nothing) /\ sorted' = Now /\ sorted = Nothing /\ UNCHANGED call
        /\ v_tuple # None
    BY <1>10 DEF f_sort_take
  <2>2. v_size # 0
    BY <1>0, <2>1, RingSize
  <2>3. Contents(Now)' = <<>>
    BY <2>1, NothingThere, Becoming
  <2>4. Abstract!SortBegin
    BY <1>a, <2>1, <2>2, <2>3 DEF Abstract!SortBegin
  <2> QED BY <2>4 DEF Abstract!Next
<1>11. CASE f_sort_put
  <2>1. /\ sorted' = Nothing /\ sorted # Nothing /\ sorted.size > 0
        /\ call' = Called("sort", 0, Null, Null)
    BY <1>11 DEF f_sort_put, IInv
  <2>2. Contents(Now)' = Sorted(Contents(sorted))
    BY <1>0, <1>11, <2>1, StepSort DEF ListStep
  <2>3. Contents(sorted)' = <<>>
    BY <2>1, NothingThere
  <2>4. Abstract!Sorted(Contents(sorted)) = Sorted(Contents(sorted))
    BY DEF Sorted, Abstract!Sorted
  <2>5. Abstract!SortEnd
    BY <1>a, <2>1, <2>2, <2>3, <2>4 DEF Abstract!SortEnd, Called, Abstract!Called
  <2> QED BY <2>5 DEF Abstract!Next
<1>12. CASE f_sort_throw
  <2>1. /\ sorted' = Nothing /\ sorted # Nothing /\ Now' = Now
        /\ call' = Called("sort", 0, Null, Error)
    BY <1>12, Keeping DEF f_sort_throw
  <2>2. Contents(sorted)' = <<>>
    BY <2>1, NothingThere
  <2>3. Abstract!SortThrow
    BY <1>a, <2>1, <2>2 DEF Abstract!SortThrow, Called, Abstract!Called
  <2> QED BY <2>3 DEF Abstract!Next
<1>13. CASE UNCHANGED vars
  <2>1. UNCHANGED sorted /\ Now' = Now /\ UNCHANGED call
    BY <1>13, Keeping DEF vars
  <2> QED BY <2>1 DEF Abstract!vars
<1> QED BY <1>1, <1>2, <1>3, <1>4, <1>5, <1>6, <1>7, <1>8, <1>9, <1>10, <1>11, <1>12, <1>13 DEF Next

(***************************************************************************)
(* The ring implements the sequence of its elements, for every size of the *)
(* unit and of the list: whatever an operation moves, from whichever side, *)
(* and wherever the list wraps around, the elements, the results and the   *)
(* failures are those of the sequence.  The call of f_insert that          *)
(* decrements i = 0 is excluded: it puts the value second.                 *)
(***************************************************************************)
THEOREM Refinement ==
  ASSUME ~InsertFirst
  PROVE  Spec => AbstractSpec
<1>1. Init => Abstract!Init
  <2> SUFFICES ASSUME Init PROVE Abstract!Init
    OBVIOUS
  <2>1. Now = Nothing /\ sorted = Nothing /\ call = Called("new", 0, Null, Null)
    BY DEF Init, Now, Nothing
  <2> QED BY <2>1, NothingThere DEF Abstract!Init, Called, Abstract!Called
<1>2. IInv /\ [Next]_vars => [Abstract!Next]_Abstract!vars
  BY Step
<1> QED BY Invariance, <1>1, <1>2, PTL DEF Spec, AbstractSpec, Abstract!Spec
=============================================================================
