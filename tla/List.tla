-------------------------------- MODULE List --------------------------------
(***************************************************************************)
(* t_list: a deque in a ring, the t_tuple v_tuple, that is replaced by a   *)
(* larger or a smaller one as the list grows and shrinks.  Every operation *)
(* of the List type runs under f_owned_or_shared, and so is one step; only *)
(* sort gives the list up while the comparison runs.                       *)
(*                                                                         *)
(* A tuple of n slots is a function on 0 .. n - 1.  f_capacity_to_size and *)
(* f_size_to_capacity round to objects of Unit slots, of which the header  *)
(* of a tuple takes Header: 16 and 10 on a 64-bit machine.                 *)
(***************************************************************************)
EXTENDS Integers, Sequences, SequencesExt

CONSTANTS
  Values,      \* numbers, to be sorted
  Null,
  Error,
  Unit, Header,
  MaxSize,     \* bound: elements of the list and of those being sorted
  InsertFirst  \* insert may be called with the index -size while v_head is 0

ASSUME UnitAssumption == Unit \in Nat /\ Header \in Nat /\ 1 <= Header /\ Header < Unit

VARIABLES
  v_tuple, v_head, v_size, v_grow, v_shrink,   \* the list
  call,                                        \* the last operation, and its result
  sorted                                       \* what sort has taken away

listVars == <<v_tuple, v_head, v_size, v_grow, v_shrink>>
vars == <<listVars, call, sorted>>

None == [i \in {} |-> Null]     \* v_tuple is null
Nothing == [tuple |-> None, head |-> 0, size |-> 0, grow |-> 0, shrink |-> 0]

n == IF v_tuple = None THEN 0 ELSE v_grow

\* f_at: the slot of an element.
Slot(head, i, size) == IF head + i < size THEN head + i ELSE head + i - size

\* The elements of a list l, in order.
Contents(l) == [i \in 1 .. l.size |-> l.tuple[Slot(l.head, i - 1, l.grow)]]

Now == [tuple |-> v_tuple, head |-> v_head, size |-> v_size, grow |-> v_grow,
        shrink |-> v_shrink]

Becomes(l) ==
  /\ v_tuple' = l.tuple /\ v_head' = l.head /\ v_size' = l.size
  /\ v_grow' = l.grow /\ v_shrink' = l.shrink

\* The operation op with the index i and the value v returned or threw x.
Called(op, i, v, x) == [op |-> op, index |-> i, value |-> v, result |-> x]

Returns(op, i, v, x) == call' = Called(op, i, v, x) /\ UNCHANGED sorted

Fail(op, i, v) == Returns(op, i, v, Error) /\ UNCHANGED listVars

HasRoom == v_size + sorted.size < MaxSize
-----------------------------------------------------------------------------
(***************************************************************************)
(* Capacity.                                                               *)
(***************************************************************************)
f_capacity_to_size(c) == (Header + c + Unit - 1) \div Unit
f_size_to_capacity(s) == s * Unit - Header

\* Mutant: the elements that wrapped around are left behind.
f_resizeStraight(l) ==
  LET size == f_capacity_to_size(l.size)
      grow == f_size_to_capacity(size * 2)
  IN [l EXCEPT !.tuple = [i \in 0 .. grow - 1 |->
                            IF i < l.size /\ l.head + i < l.grow
                              THEN l.tuple[l.head + i] ELSE Null],
               !.head = 0, !.grow = grow,
               !.shrink = IF size < 2 THEN 0 ELSE ((size * Unit) \div 2) - Header]

\* Copy into a tuple twice the size of what is needed now.
f_resize(l) ==
  LET size == f_capacity_to_size(l.size)
      grow == f_size_to_capacity(size * 2)
  IN [l EXCEPT !.tuple = [i \in 0 .. grow - 1 |->
                            IF i < l.size THEN l.tuple[Slot(l.head, i, l.grow)] ELSE Null],
               !.head = 0, !.grow = grow,
               !.shrink = IF size < 2 THEN 0 ELSE ((size * Unit) \div 2) - Header]

\* "if (v_size >= v_grow) f_grow()"
f_grow(l) ==
  IF l.size < l.grow THEN l
  ELSE IF l.size > 0 THEN f_resize(l)
  ELSE LET grow == f_size_to_capacity(1)
       IN [l EXCEPT !.tuple = [i \in 0 .. grow - 1 |-> Null], !.grow = grow]

\* "if (v_size <= v_shrink) f_shrink()"
f_shrink(l) ==
  IF l.size > l.shrink THEN l
  ELSE IF l.size > 0 THEN f_resize(l)
  ELSE [l EXCEPT !.tuple = None, !.head = 0, !.grow = 0]

(***************************************************************************)
(* Both ends.                                                              *)
(***************************************************************************)
Pushed(v) ==
  LET l == f_grow(Now)
  IN [l EXCEPT !.tuple[Slot(l.head, l.size, l.grow)] = v, !.size = @ + 1]

Unshifted(v) ==
  LET l == f_grow(Now)
      head == (IF l.head > 0 THEN l.head ELSE l.grow) - 1
  IN [l EXCEPT !.tuple[head] = v, !.head = head, !.size = @ + 1]

f_push(v) == HasRoom /\ Becomes(Pushed(v)) /\ Returns("push", 0, v, Null)

f_unshift(v) == HasRoom /\ Becomes(Unshifted(v)) /\ Returns("unshift", 0, v, Null)

f_pop ==
  IF v_size = 0 THEN Fail("pop", 0, Null)
  ELSE LET x == Slot(v_head, v_size - 1, n)
       IN /\ Becomes(f_shrink([Now EXCEPT !.tuple[x] = Null, !.size = @ - 1]))
          /\ Returns("pop", 0, Null, v_tuple[x])

\* Mutant: the slot is not cleared.
f_shiftKept ==
  IF v_size = 0 THEN Fail("shift", 0, Null)
  ELSE /\ Becomes(f_shrink([Now EXCEPT !.head = IF v_head + 1 >= n THEN 0 ELSE v_head + 1,
                                       !.size = @ - 1]))
       /\ Returns("shift", 0, Null, v_tuple[v_head])

f_shift ==
  IF v_size = 0 THEN Fail("shift", 0, Null)
  ELSE /\ Becomes(f_shrink([Now EXCEPT !.tuple[v_head] = Null,
                                       !.head = IF v_head + 1 >= n THEN 0 ELSE v_head + 1,
                                       !.size = @ - 1]))
       /\ Returns("shift", 0, Null, v_tuple[v_head])

(***************************************************************************)
(* The middle.  f_move_forward and f_move_backward shift the slots from a  *)
(* to b by one and return the slot that became free, which is then set.    *)
(***************************************************************************)
f_move_forward(t, a, b, v) ==
  [[i \in DOMAIN t |-> IF a < i /\ i <= b THEN t[i - 1] ELSE t[i]]
     EXCEPT ![IF a < b THEN a ELSE b] = v]

f_move_backward(t, a, b, v) ==
  [[i \in DOMAIN t |-> IF a <= i /\ i < b THEN t[i + 1] ELSE t[i]]
     EXCEPT ![IF a < b THEN b ELSE a] = v]

\* f_validate: a negative index counts from the end.
f_validate(i) == IF i < 0 THEN i + v_size ELSE i

Valid(i) == 0 <= f_validate(i) /\ f_validate(i) < v_size

\* f_insert in the middle, at k: move whichever side of the list is shorter.
InsertMiddle(l, k, v) ==
  LET i == l.head + k
      j == l.head + l.size
      m == l.grow
      t == l.tuple
  IN IF k < l.size - k
       THEN CASE i > m ->
                   LET u == f_move_backward(t, l.head - 1, m - 1, t[0])
                   IN [l EXCEPT !.tuple = f_move_backward(u, 0, i - 1 - m, v),
                                !.head = l.head - 1, !.size = @ + 1]
              [] i <= m /\ l.head > 0 ->
                   [l EXCEPT !.tuple = f_move_backward(t, l.head - 1, i - 1, v),
                             !.head = l.head - 1, !.size = @ + 1]
              [] OTHER ->
                   LET u == [t EXCEPT ![m - 1] = t[0]]
                   IN [l EXCEPT !.tuple = f_move_backward(u, 0, i - 1, v),
                                !.head = m - 1, !.size = @ + 1]
       ELSE CASE i >= m ->
                   [l EXCEPT !.tuple = f_move_forward(t, i - m, j - m, v), !.size = @ + 1]
              [] i < m /\ j >= m ->
                   LET u == f_move_forward(t, 0, j - m, t[m - 1])
                   IN [l EXCEPT !.tuple = f_move_forward(u, i, m - 1, v), !.size = @ + 1]
              [] OTHER ->
                   [l EXCEPT !.tuple = f_move_forward(t, i, j, v), !.size = @ + 1]

f_insert(i, v) ==
  IF i # v_size /\ i # 0 /\ ~Valid(i) THEN Fail("insert", i, v)
  ELSE /\ HasRoom
       /\ Becomes(CASE i = v_size -> Pushed(v)
                    [] i # v_size /\ i = 0 -> Unshifted(v)
                    [] OTHER -> InsertMiddle(f_grow(Now), f_validate(i), v))
       /\ Returns("insert", i, v, Null)

\* The index of the first element from the end, with nothing before it in the
\* ring: f_insert decrements i = 0 there.
Underflows(i) == v_size > 0 /\ i = -v_size /\ f_grow(Now).head = 0

RemoveMiddle(l, k) ==
  LET i == l.head + k
      j == l.head + l.size
      m == l.grow
      t == l.tuple
      head == IF l.head + 1 >= m THEN 0 ELSE l.head + 1
  IN IF k < l.size - k
       THEN LET u == IF i >= m THEN f_move_forward(t, 0, i - m, t[m - 1]) ELSE t
            IN [l EXCEPT !.tuple = f_move_forward(u, l.head, IF i >= m THEN m - 1 ELSE i, Null),
                         !.head = head, !.size = @ - 1]
       ELSE CASE i >= m ->
                   [l EXCEPT !.tuple = f_move_backward(t, i - m, j - 1 - m, Null),
                             !.size = @ - 1]
              [] i < m /\ j > m ->
                   LET u == f_move_backward(t, i, m - 1, t[0])
                   IN [l EXCEPT !.tuple = f_move_backward(u, 0, j - 1 - m, Null), !.size = @ - 1]
              [] OTHER ->
                   [l EXCEPT !.tuple = f_move_backward(t, i, j - 1, Null), !.size = @ - 1]

f_remove(i) ==
  IF ~Valid(i) THEN Fail("remove", i, Null)
  ELSE /\ Becomes(f_shrink(RemoveMiddle(Now, f_validate(i))))
       /\ Returns("remove", i, Null, v_tuple[Slot(v_head, f_validate(i), n)])

f_get_at(i) ==
  IF ~Valid(i) THEN Fail("get_at", i, Null)
  ELSE /\ Returns("get_at", i, Null, v_tuple[Slot(v_head, f_validate(i), n)])
       /\ UNCHANGED listVars

f_set_at(i, v) ==
  IF ~Valid(i) THEN Fail("set_at", i, v)
  ELSE /\ Becomes([Now EXCEPT !.tuple[Slot(v_head, f_validate(i), n)] = v])
       /\ Returns("set_at", i, v, v)

f_clear == Becomes(Nothing) /\ Returns("clear", 0, Null, Null)

(***************************************************************************)
(* sort: take the tuple away, sort it in place, put it back.               *)
(***************************************************************************)
\* The elements of s in order.
Sorted(s) ==
  LET p == CHOOSE p \in Permutations(1 .. Len(s)) :
             \A i, j \in 1 .. Len(s) : i < j => s[p[i]] <= s[p[j]]
  IN [i \in 1 .. Len(s) |-> s[p[i]]]

f_sort_take ==
  /\ sorted = Nothing
  /\ v_tuple # None
  /\ sorted' = Now
  /\ Becomes(Nothing)
  /\ UNCHANGED call

\* Rotated to the start if it wraps around, else sorted where it is.
f_sort_put ==
  /\ sorted # Nothing
  /\ LET head == IF sorted.head + sorted.size > sorted.grow THEN 0 ELSE sorted.head
         s == Sorted(Contents(sorted))
     IN Becomes([sorted EXCEPT !.head = head,
                   !.tuple = [i \in DOMAIN sorted.tuple |->
                                IF head <= i /\ i < head + sorted.size
                                  THEN s[i - head + 1] ELSE Null]])
  /\ sorted' = Nothing
  /\ call' = Called("sort", 0, Null, Null)

\* The comparison threw.
f_sort_throw ==
  /\ sorted # Nothing
  /\ sorted' = Nothing
  /\ call' = Called("sort", 0, Null, Error)
  /\ UNCHANGED listVars
-----------------------------------------------------------------------------
Init ==
  /\ v_tuple = None
  /\ v_head = 0 /\ v_size = 0 /\ v_grow = 0 /\ v_shrink = 0
  /\ call = Called("new", 0, Null, Null)
  /\ sorted = Nothing

Next ==
  \/ \E v \in Values :
       \/ f_push(v) \/ f_unshift(v)
       \/ \E i \in -v_size - 1 .. v_size + 1 :
            \/ (InsertFirst \/ ~Underflows(i)) /\ f_insert(i, v)
            \/ f_set_at(i, v)
  \/ \E i \in -v_size - 1 .. v_size : f_remove(i) \/ f_get_at(i)
  \/ f_pop \/ f_shift \/ f_clear
  \/ f_sort_take \/ f_sort_put \/ f_sort_throw

Spec == Init /\ [][Next]_vars
-----------------------------------------------------------------------------
\* Slots outside the list hold nothing.
VacantNull ==
  \A i \in DOMAIN v_tuple :
    v_tuple[i] # Null => \E k \in 0 .. v_size - 1 : Slot(v_head, k, n) = i

(***************************************************************************)
(* The words of the ring agree with each other.  Slots outside the list    *)
(* are null: f_push and f_unshift construct the new element over the slot  *)
(* without looking at what it held, which would otherwise keep its         *)
(* reference for ever.                                                     *)
(***************************************************************************)
TypeOK ==
  /\ v_head \in Nat /\ v_size \in Nat /\ v_grow \in Nat /\ v_shrink \in Nat
  /\ DOMAIN v_tuple = 0 .. n - 1
  /\ v_size <= v_grow
  /\ n > 0 => v_head < n
  /\ v_tuple = None <=> v_grow = 0
  /\ VacantNull

(***************************************************************************)
(* The ring behaves as the sequence of its elements, whichever side an     *)
(* insertion or a removal moves and wherever the list wraps around.        *)
(***************************************************************************)
Abstract ==
  INSTANCE SequenceObject WITH elements <- Contents(Now), sorting <- Contents(sorted)
AbstractSpec == Abstract!Spec
=============================================================================
