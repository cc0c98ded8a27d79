------------------------------- MODULE Types -------------------------------
(***************************************************************************)
(* t_type (type.cc, type.h, global.h): the fields of a type and how an     *)
(* instruction finds one, through the index it keeps from the last time.   *)
(*                                                                         *)
(* A type is its super type, the number of fields that each instance       *)
(* holds, and all its fields <<key, value>>, the instance fields first     *)
(* (indices count from zero).  A lookup gives the index to keep and the    *)
(* place of the field: <<"instance", i>>, <<"class", i>> or Undefined.     *)
(***************************************************************************)
EXTENDS Values, SequencesExt

\* The addresses of the symbols, by which the keys of a type are sorted.
CONSTANT Address
ASSUME AddressAssumption == \A k, l \in DOMAIN Address : Address[k] = Address[l] => k = l

Undefined == <<"undefined">>

v_fields(type) == Len(type.fields)
KeyAt(type, i) == type.fields[i + 1][1]
Holds(type, i, key) == i < v_fields(type) /\ KeyAt(type, i) = key

f_key2index(type) ==
    LET before(p, q) == Address[KeyAt(type, p)] < Address[KeyAt(type, q)]
    IN  SetToSortSeq(0 .. v_fields(type) - 1, before)

RECURSIVE Search(_, _, _, _, _)
Search(type, entries, key, i, j) ==
    LET k == (i + j) \div 2
        found == KeyAt(type, entries[k + 1])
    IN  IF i >= j THEN v_fields(type)
        ELSE IF found = key THEN entries[k + 1]
        ELSE IF Address[found] < Address[key] THEN Search(type, entries, key, k + 1, j)
        ELSE Search(type, entries, key, i, k)
f_index(type, key) == Search(type, f_key2index(type), key, 0, v_fields(type))

(***************************************************************************)
(* A type derived with more fields: its instance fields go after those of  *)
(* the super type and move the class fields, which may be replaced.  <<>>  *)
(* where a name is taken.                                                  *)
(***************************************************************************)
f_merge(name, type, instance, class) ==
    LET keys == {f[1] : f \in Range(type.fields)}
        own == SubSeq(type.fields, 1, type.instance) \o [i \in 1 .. Len(instance) |-> <<instance[i], Null>>]
        taken == {f[1] : f \in Range(own)}
        replace(f) == IF \E c \in Range(class) : c[1] = f[1] THEN CHOOSE c \in Range(class) : c[1] = f[1] ELSE f
        inherited == [i \in 1 .. v_fields(type) - type.instance |-> replace(type.fields[type.instance + i])]
        new(c) == c[1] \notin keys
    IN  IF Range(instance) \cap keys # {} \/ (\E c \in Range(class) : c[1] \in taken) THEN <<>>
        ELSE [super |-> name, instance |-> Len(own), fields |-> own \o inherited \o SelectSeq(class, new)]

Found(index, place) == [index |-> index, place |-> place]

\* f__get, f__bind: the search, and the index to keep.
f__find(type, key, index) ==
    LET i == f_index(type, key)
    IN  IF i < type.instance THEN Found(i, <<"instance", i>>)
        ELSE IF i < v_fields(type) THEN Found(i - type.instance, <<"class", i>>)
        ELSE Found(index, Undefined)

\* Mutant: any field at the index is taken for one of the instance.
f_getLoose(type, key, index) ==
    IF Holds(type, index, key) THEN Found(index, <<"instance", index>>)
    ELSE IF Holds(type, index + type.instance, key) THEN Found(index, <<"class", index + type.instance>>)
    ELSE f__find(type, key, index)

\* The kept index counts instance fields for one and class fields for the other kind.
f_get(type, key, index) ==
    IF index < type.instance /\ KeyAt(type, index) = key THEN Found(index, <<"instance", index>>)
    ELSE IF Holds(type, index + type.instance, key) THEN Found(index, <<"class", index + type.instance>>)
    ELSE f__find(type, key, index)

f_bind(type, key, index) ==
    IF Holds(type, index + type.instance, key) THEN Found(index, <<"class", index + type.instance>>)
    ELSE IF index < type.instance /\ KeyAt(type, index) = key THEN Found(index, <<"instance", index>>)
    ELSE f__find(type, key, index)

f_put(type, key, index) ==
    LET i == f_index(type, key)
    IN  IF index < type.instance /\ KeyAt(type, index) = key THEN Found(index, <<"instance", index>>)
        ELSE IF i < type.instance THEN Found(i, <<"instance", i>>)
        ELSE Found(index, Undefined)

\* Here the kept index counts all fields.
f_has(type, key, index) ==
    LET i == f_index(type, key)
    IN  IF Holds(type, index, key) THEN Found(index, <<"any", index>>)
        ELSE IF i >= v_fields(type) THEN Found(index, Undefined)
        ELSE Found(i, <<"any", i>>)
=============================================================================
