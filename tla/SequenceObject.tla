--------------------------- MODULE SequenceObject ---------------------------
(***************************************************************************)
(* What a List promises: a sequence of values that grows and shrinks at    *)
(* both ends and in the middle.  call is the last operation, with its      *)
(* arguments and what it returned or threw.  A sort takes the elements     *)
(* away, lets the comparison run, which may use the list, and then puts    *)
(* them back in order in place of whatever the list holds; if the          *)
(* comparison throws, they are gone.                                       *)
(***************************************************************************)
EXTENDS Integers, Sequences, SequencesExt

CONSTANTS Values, Null, Error

VARIABLES elements, call, sorting

vars == <<elements, call, sorting>>

Called(op, i, v, x) == [op |-> op, index |-> i, value |-> v, result |-> x]

Init == elements = <<>> /\ call = Called("new", 0, Null, Null) /\ sorting = <<>>

Size == Len(elements)

\* A negative index counts from the end.
Index(i) == IF i < 0 THEN i + Size ELSE i

Becomes(s) == elements' = s /\ UNCHANGED sorting

Push(v) ==
  call' = Called("push", 0, v, Null) /\ Becomes(Append(elements, v))

Unshift(v) ==
  call' = Called("unshift", 0, v, Null) /\ Becomes(<<v>> \o elements)

Pop ==
  /\ elements # <<>>
  /\ call' = Called("pop", 0, Null, Last(elements))
  /\ Becomes(Front(elements))

Shift ==
  /\ elements # <<>>
  /\ call' = Called("shift", 0, Null, Head(elements))
  /\ Becomes(Tail(elements))

Insert(i, v) ==
  /\ call' = Called("insert", i, v, Null)
  /\ Becomes(InsertAt(elements, Index(i) + 1, v))

Erase(i) ==
  /\ call' = Called("remove", i, Null, elements[Index(i) + 1])
  /\ Becomes(RemoveAt(elements, Index(i) + 1))

SetAt(i, v) ==
  /\ call' = Called("set_at", i, v, v)
  /\ Becomes([elements EXCEPT ![Index(i) + 1] = v])

GetAt(i) ==
  /\ call' = Called("get_at", i, Null, elements[Index(i) + 1])
  /\ Becomes(elements)

Clear == call' = Called("clear", 0, Null, Null) /\ Becomes(<<>>)

\* Nothing to take, or no such element.
Empty ==
  /\ elements = <<>>
  /\ \E op \in {"pop", "shift"} : call' = Called(op, 0, Null, Error)
  /\ Becomes(elements)

OutOfRange ==
  /\ \E i \in {-Size - 1, Size, Size + 1} :
       \/ i # Size /\ \E v \in Values : call' = Called("insert", i, v, Error)
       \/ \E op \in {"remove", "get_at"} : call' = Called(op, i, Null, Error)
       \/ \E v \in Values : call' = Called("set_at", i, v, Error)
  /\ Becomes(elements)

\* The elements of s in order.
Sorted(s) ==
  LET p == CHOOSE p \in Permutations(1 .. Len(s)) :
             \A i, j \in 1 .. Len(s) : i < j => s[p[i]] <= s[p[j]]
  IN [i \in 1 .. Len(s) |-> s[p[i]]]

SortBegin ==
  /\ sorting = <<>> /\ elements # <<>>
  /\ sorting' = elements /\ elements' = <<>> /\ UNCHANGED call

SortEnd ==
  /\ sorting # <<>>
  /\ call' = Called("sort", 0, Null, Null)
  /\ elements' = Sorted(sorting)
  /\ sorting' = <<>>

SortThrow ==
  /\ sorting # <<>>
  /\ call' = Called("sort", 0, Null, Error)
  /\ sorting' = <<>> /\ UNCHANGED elements

Next ==
  \/ \E v \in Values :
       \/ Push(v) \/ Unshift(v)
       \/ \E i \in -Size .. Size : Insert(i, v)
       \/ \E i \in -Size .. Size - 1 : SetAt(i, v)
  \/ \E i \in -Size .. Size - 1 : Erase(i) \/ GetAt(i)
  \/ Pop \/ Shift \/ Clear \/ Empty \/ OutOfRange
  \/ SortBegin \/ SortEnd \/ SortThrow

Spec == Init /\ [][Next]_vars
=============================================================================
