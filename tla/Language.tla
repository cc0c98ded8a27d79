------------------------------ MODULE Language ------------------------------
(***************************************************************************)
(* What a script means, evaluated on its syntax tree: the specification    *)
(* that the instructions have to implement.  Variables have names and live *)
(* in environments, one for each call of a lambda.  s is the state of the  *)
(* evaluation: environments, fields of objects, the calls of native        *)
(* functions (log) with what they answer (answers), the value v, and out,  *)
(* how the evaluation of the last node ended.                              *)
(***************************************************************************)
EXTENDS Syntax, Types

CONSTANTS Declared, Objects, Globals

RECURSIVE f_derives(_, _)
f_derives(name, other) == name # "" /\ (name = other \/ f_derives(Declared[name].super, other))
TypeName(v) == IF f_tag(v) = "object" THEN Objects[v[2]] ELSE v[1]
f_type(v) == Declared[TypeName(v)]
Bindable(v) == f_tag(v) \in {"lambda", "native"}

Ok(s, v) == [s EXCEPT !.out = "ok", !.v = v]
Raise(s, message) == [s EXCEPT !.out = "throw", !.v = <<"throwable", message>>]

\* An evaluation that did not end well is not continued.
Then(s, rest(_)) == IF s.out = "ok" THEN rest(s) ELSE s

\* The names that the body of a lambda assigns, depth lambdas further in.
RECURSIVE Assigned(_, _)
Assigned(n, depth) ==
    LET inner(k) == IF n.n = "lambda" /\ k = 1 THEN Assigned(n.c[k], depth + 1) ELSE Assigned(n.c[k], depth)
    IN  UNION {inner(k) : k \in 1 .. Len(n.c)} \cup
        (CASE n.n = "scope_put" -> IF n.a.outer = depth THEN {n.a.symbol} ELSE {}
           [] n.n = "try" -> IF depth = 0 THEN Range(n.a) ELSE {}
           [] OTHER -> {})

RECURSIVE Outwards(_, _, _), Resolve(_, _, _)
Outwards(s, env, k) == IF k = 0 THEN env ELSE Outwards(s, s.envs[env].outer, k - 1)
\* The environment that has the name, 0 when it is global.
Resolve(s, env, name) ==
    IF env = 0 \/ name \in DOMAIN s.envs[env].names THEN env ELSE Resolve(s, s.envs[env].outer, name)

Show(v) == IF f_tag(v) \in {"lambda", "method"} THEN <<f_tag(v)>> ELSE v

RECURSIVE Eval(_, _), EvalAll(_, _, _, _), EvalLoop(_, _), EvalCatches(_, _, _, _), Apply(_, _, _, _)

\* The values of the children of n from k on, after the ones in vs.
EvalAll(n, s, k, vs) ==
    IF k > Len(n.c) THEN Ok(s, vs) ELSE Then(Eval(n.c[k], s), LAMBDA x : EvalAll(n, x, k + 1, Append(vs, x.v)))

Native(f, self, args, s) ==
    LET i == Len(s.log) + 1
        answer == IF i <= Len(s.answers) THEN s.answers[i] ELSE "false"
        t == [s EXCEPT !.log = Append(@, [f |-> f, self |-> Show(self), args |-> [j \in 1 .. Len(args) |-> Show(args[j])],
                                          answer |-> answer])]
    IN  IF answer = "throw" THEN Raise(t, "native") ELSE Ok(t, <<answer>>)

ApplyLambda(f, self, args, s) ==
    LET n == f[2]
        names == n.a.arguments
        fixed == IF n.a.variadic THEN Len(names) - 1 ELSE Len(names)
        least == fixed - Len(f[4])
        given(i) == CASE i > fixed -> <<"tuple", SubSeq(args, i, Len(args))>>
                      [] i <= Len(args) -> args[i]
                      [] OTHER -> f[4][i - least]
        initial(x) == IF x \in Range(names) THEN given(CHOOSE i \in 1 .. Len(names) : names[i] = x) ELSE Null
        env == [outer |-> f[3], self |-> self, names |-> [x \in Range(names) \cup Assigned(n.c[1], 0) |-> initial(x)]]
        plain == ~n.a.variadic /\ f[4] = <<>>
        leave(r) == [r EXCEPT !.env = s.env, !.out = IF @ = "return" THEN "ok" ELSE @]
    IN  IF plain /\ Len(args) # fixed THEN Raise(s, "invalid number of arguments.")
        ELSE IF Len(args) < least THEN Raise(s, "too few arguments.")
        ELSE IF ~n.a.variadic /\ Len(args) > fixed THEN Raise(s, "too many arguments.")
        ELSE leave(Eval(n.c[1], [s EXCEPT !.envs = Append(@, env), !.env = Len(s.envs) + 1]))

Apply(f, self, args, s) ==
    CASE f_tag(f) = "lambda" -> ApplyLambda(f, self, args, s)
      [] f_tag(f) = "method" -> Apply(f[2], f[3], args, s)
      [] f_tag(f) = "native" -> Native(f[2], self, args, s)
      [] f_tag(f) = "object" -> Native("CALL", f, args, s)
      [] f_tag(f) = "type" /\ f[2] \in {"tuple", "list", "map"} -> Ok(s, <<f[2], args>>)
      [] OTHER -> Raise(s, "not supported.")

\* The field of v with the key: <<its value, whether it belongs to the class>> or <<>>.
Field(s, v, key) ==
    LET type == f_type(v)
        found == {i \in 1 .. Len(type.fields) : type.fields[i][1] = key}
        i == CHOOSE j \in found : TRUE
    IN  IF found = {} THEN <<>>
        ELSE IF i <= type.instance THEN <<s.fields[v[2]][i], FALSE>> ELSE <<type.fields[i][2], TRUE>>

GetAt(v, index, s) ==
    CASE f_tag(v) = "object" -> Native("GET_AT", v, <<index>>, s)
      [] Bindable(v) -> Ok(s, <<"method", v, index>>)
      [] f_tag(v) \in {"tuple", "list"} ->
            IF f_tag(index) # "integer" THEN Raise(s, "index")
            ELSE IF index[2] \in 0 .. Len(v[2]) - 1 THEN Ok(s, v[2][index[2] + 1]) ELSE Raise(s, "out of range.")
      [] OTHER -> Raise(s, "not supported.")

\* Operations on values, the children of n.
Operate(n, vs, s) ==
    LET a == vs[1]
        key == IF n.a = "" THEN vs[2][2] ELSE n.a
        field == Field(s, a, key)
        type == f_type(a)
        at == CHOOSE i \in 1 .. type.instance : type.fields[i][1] = key
        put == vs[Len(vs)]
        number(v) == IF v = NotSupported THEN Raise(s, "not supported.") ELSE Ok(s, v)
        same == n.a \in Equality /\ Len(vs) = 2 /\ a = vs[2]
    IN  CASE n.n \in {"object_get", "object_get_indirect"} ->
                IF field = <<>> THEN Raise(s, "undefined field")
                ELSE Ok(s, IF field[2] /\ Bindable(field[1]) THEN <<"method", field[1], a>> ELSE field[1])
          [] n.n \in {"object_put", "object_put_indirect"} ->
                IF ~IsObject(a) THEN Raise(s, "not supported.")
                ELSE IF field = <<>> \/ field[2] THEN Raise(s, "undefined field")
                ELSE Ok([s EXCEPT !.fields[a[2]][at] = put], put)
          [] n.n \in {"object_has", "object_has_indirect"} -> Ok(s, Bool(field # <<>>))
          [] n.n = "class" -> Ok(s, <<"type", TypeName(a)>>)
          [] n.n = "super" -> IF f_tag(a) # "type" THEN Raise(s, "not class.")
                              ELSE IF Declared[a[2]].super = "" THEN Raise(s, "no more super class.")
                              ELSE Ok(s, <<"type", Declared[a[2]].super>>)
          [] n.n = "get_at" -> GetAt(a, vs[2], s)
          [] n.n = "set_at" -> IF f_tag(a) = "object" THEN Native("SET_AT", a, Tail(vs), s) ELSE Raise(s, "not supported.")
          [] n.n = "unary" -> IF f_tag(a) = "object" /\ n.a # "NOT" THEN Native(n.a, a, <<>>, s) ELSE number(f_unary_value(n.a, a))
          [] n.n = "binary" -> IF f_tag(a) = "object" /\ n.a \notin Identity /\ ~same THEN Native(n.a, a, Tail(vs), s)
                               ELSE number(f_binary_value(n.a, a, vs[2], FALSE))

\* The function of a call is found before the arguments are evaluated: it and self.
Method(n, o) ==
    LET field == Field(o, o.v, n.a)
    IN  IF field = <<>> THEN Raise(o, "undefined field")
        ELSE Ok(o, <<field[1], IF field[2] /\ Bindable(field[1]) THEN o.v ELSE Null>>)
Item(vs) == IF Bindable(vs.v[1]) THEN vs ELSE Then(GetAt(vs.v[1], vs.v[2], vs), LAMBDA i : Ok(i, <<i.v, Null>>))
Callee(t, s) ==
    CASE t.n = "object_get" -> Then(Eval(t.c[1], s), LAMBDA o : Method(t, o))
      [] t.n = "get_at" -> Then(EvalAll(t, s, 1, <<>>), Item)
      [] OTHER -> Then(Eval(t, s), LAMBDA f : Ok(f, <<f.v, Null>>))

EvalCall(n, s) ==
    LET wrong(args) == \E i \in n.a : f_tag(args[i]) \notin {"tuple", "list"}
        all(args) == FlattenSeq([i \in 1 .. Len(args) |-> IF i \in n.a THEN args[i][2] ELSE <<args[i]>>])
    IN  Then(Callee(n.c[1], s), LAMBDA f : Then(EvalAll(n, f, 2, <<>>), LAMBDA args :
            IF wrong(args.v) THEN Raise(args, "undefined field") ELSE Apply(f.v[1], f.v[2], all(args.v), args)))

\* A loop from its condition on: a for is a while with a part before the next round.
Optional(n, s, absent) == IF n.n = "none" THEN Ok(s, absent) ELSE Eval(n, s)
EvalLoop(n, s) ==
    LET condition == IF n.n = "for" THEN n.c[2] ELSE n.c[1]
        next(b) == IF n.n = "for" THEN Optional(n.c[3], Ok(b, Null), Null) ELSE Ok(b, Null)
        after(b) == CASE b.out \in {"ok", "continue"} -> Then(next(b), LAMBDA x : EvalLoop(n, x))
                      [] b.out = "break" -> Ok(b, b.v)
                      [] OTHER -> b
    IN  Then(Optional(condition, s, Bool(TRUE)), LAMBDA c :
            IF f_as_bool(c.v) THEN after(Eval(n.c[Len(n.c)], c)) ELSE Ok(c, Null))

\* v has been thrown: the catches from the k-th on.
EvalCatches(n, v, s, k) ==
    LET catch(t) ==
            IF f_tag(t.v) # "type" THEN Raise(t, "type")
            ELSE IF f_derives(TypeName(v), t.v[2]) THEN Eval(n.c[2 * k + 2], [Ok(t, Null) EXCEPT !.envs[t.env].names[n.a[k]] = v])
            ELSE EvalCatches(n, v, t, k + 1)
    IN  IF k > Len(n.a) THEN [s EXCEPT !.out = "throw", !.v = v] ELSE Then(Eval(n.c[2 * k + 1], s), catch)

EvalTry(n, s) ==
    LET caught(b) == IF b.out = "throw" THEN EvalCatches(n, b.v, Ok(b, Null), 1) ELSE b
        finally(c) == IF n.c[2].n = "none" THEN c
                      ELSE Then(Eval(n.c[2], Ok(c, Null)), LAMBDA f : [f EXCEPT !.out = c.out, !.v = c.v])
    IN  finally(caught(Eval(n.c[1], s)))

EvalPut(n, s) ==
    LET env == Outwards(s, s.env, n.a.outer)
    IN  Then(Eval(n.c[1], s), LAMBDA x : [x EXCEPT !.envs[env].names[n.a.symbol] = x.v])

EvalIf(n, s) ==
    LET branch(c) == IF f_as_bool(c.v) THEN n.c[2] ELSE n.c[3]
    IN  Then(Optional(n.c[1], s, Bool(TRUE)), LAMBDA c : IF branch(c).n = "preserve" THEN c ELSE Eval(branch(c), c))

\* break, return and throw leave with a value.
Leave(n, s, out) == Then(Eval(n.c[1], s), LAMBDA x : [x EXCEPT !.out = out])

Eval(n, s) ==
    LET env == Resolve(s, Outwards(s, s.env, n.a.outer), n.a.symbol)
    IN  CASE n.n = "nodes" -> Then(EvalAll(n, s, 1, <<>>), LAMBDA all : Ok(all, IF n.c = <<>> THEN Null ELSE Last(all.v)))
          [] n.n = "literal" -> Ok(s, n.a)
          [] n.n = "self" -> Ok(s, s.envs[Outwards(s, s.env, n.a)].self)
          [] n.n = "symbol_get" -> IF env # 0 THEN Ok(s, s.envs[env].names[n.a.symbol])
                                   ELSE IF n.a.symbol \in DOMAIN Globals THEN Ok(s, Globals[n.a.symbol])
                                   ELSE Raise(s, "undefined field")
          [] n.n = "scope_put" -> EvalPut(n, s)
          [] n.n = "lambda" -> Then(EvalAll(n, s, 2, <<>>), LAMBDA d : Ok(d, <<"lambda", n, s.env, d.v>>))
          [] n.n = "if" -> EvalIf(n, s)
          [] n.n = "while" -> EvalLoop(n, s)
          [] n.n = "for" -> Then(Optional(n.c[1], s, Null), LAMBDA i : EvalLoop(n, i))
          [] n.n = "break" -> Leave(n, s, "break")
          [] n.n = "continue" -> [s EXCEPT !.out = "continue"]
          [] n.n = "return" -> Leave(n, s, "return")
          [] n.n = "throw" -> Leave(n, s, "throw")
          [] n.n = "try" -> EvalTry(n, s)
          [] n.n = "call" -> EvalCall(n, s)
          [] OTHER -> Then(EvalAll(n, s, 1, <<>>), LAMBDA all : Operate(n, all.v, all))

Result(s) ==
    [log |-> s.log, fields |-> [o \in DOMAIN s.fields |-> [i \in DOMAIN s.fields[o] |-> Show(s.fields[o][i])]],
     v |-> IF s.out = "throw" THEN Show(s.v) ELSE Null]

\* A script run with what the native functions answer, one after the other.
Meaning(body, answers) ==
    Result(Eval(body, [env |-> 1, envs |-> <<[outer |-> 0, self |-> <<"module">>, names |-> [x \in Assigned(body, 0) |-> Null]]>>,
                       fields |-> [o \in DOMAIN Objects |-> [i \in 1 .. Declared[Objects[o]].instance |-> Null]],
                       log |-> <<>>, answers |-> answers, out |-> "ok", v |-> Null]))
=============================================================================
