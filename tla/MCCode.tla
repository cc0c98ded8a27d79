------------------------------- MODULE MCCode -------------------------------
(***************************************************************************)
(* Scripts to run, and what is checked of them.                            *)
(***************************************************************************)
EXTENDS Code, Printer, TLC

L == INSTANCE Language

NativeFunction(x) == <<"native", x>>
Base == [super |-> "", instance |-> 0, fields |-> <<>>]
TypeA == f_merge("object", Base, <<"x">>, <<<<"m", NativeFunction("m")>>, <<"k", Integer(7)>>>>)
TypeB == f_merge("A", TypeA, <<"y">>, <<<<"n", NativeFunction("n")>>, <<"m", NativeFunction("mB")>>>>)
TypeC == f_merge("object", Base, <<"m", "x">>, <<<<"k", NativeFunction("k")>>>>)
TypeD == f_merge("object", Base, <<>>, <<<<"k", NativeFunction("kD")>>, <<"m", Integer(3)>>>>)
Tags == {"null", "false", "true", "integer", "float", "tuple", "list", "map", "lambda", "method", "native", "throwable",
         "type", "symbol", "string", "module", "fiber", "junk"}
MCDeclared == [t \in Tags |-> [Base EXCEPT !.super = "object"]] @@ [object |-> Base, A |-> TypeA, B |-> TypeB, C |-> TypeC, D |-> TypeD]
MCObjects == [a |-> "A", b |-> "B", c |-> "C", d |-> "D"]
MCGlobals == [f |-> NativeFunction("f"), g |-> NativeFunction("g"), h |-> NativeFunction("h"),
              a |-> <<"object", "a">>, b |-> <<"object", "b">>, c |-> <<"object", "c">>, d |-> <<"object", "d">>,
              A |-> <<"type", "A">>, Throwable |-> <<"type", "throwable">>, Object |-> <<"type", "object">>,
              Fiber |-> Fiber, current |-> Current]
MCAddress == [m |-> 1, y |-> 2, k |-> 3, x |-> 4, n |-> 5, z |-> 6]

(***************************************************************************)
(* Abbreviations for syntax trees.                                         *)
(***************************************************************************)
get(x) == t_symbol_get(0, x)
put(x, v) == t_scope_put(0, x, v)
call(t, args) == t_call(t, args, {})
f(args) == call(get("f"), args)
g(args) == call(get("g"), args)
h(args) == call(get("h"), args)
int(i) == t_literal(Integer(i))
do(ns) == t_nodes(ns)
fn(names, body) == t_lambda(names, FALSE, <<>>, 0, body)
if(c, t, e) == t_if(do(<<c>>), t, e)
while(c, b) == t_while(do(<<c>>), b)
for(i, c, n, b) == t_for(do(<<i>>), do(<<c>>), do(<<n>>), b)
also(l, r) == t_if(l, r, t_preserve)
else(l, r) == t_if(l, t_preserve, r)
tuple(args) == call(t_literal(<<"type", "tuple">>), args)
list(args) == call(t_literal(<<"type", "list">>), args)
catch(b, e) == t_try(b, t_none, <<"e">>, <<get("Throwable"), e>>)
finally(b, e) == t_try(b, e, <<>>, <<>>)
bin(op, l, r) == t_binary(op, l, r)

\* Every way two operators can be nested, on variables.
Ranked == <<"MULTIPLY", "SUBTRACT", "LEFT_SHIFT", "LESS", "EQUALS", "AND", "XOR", "OR">>
Nested(o, p, left) ==
    do(<<put("x", int(5)), put("y", int(3)), put("z", int(2)),
         f(<<IF left THEN bin(o, bin(p, get("x"), get("y")), get("z")) ELSE bin(o, get("x"), bin(p, get("y"), get("z")))>>)>>)
Precedence ==
    [i \in 1 .. 2 * Len(Ranked)^2 |->
        Nested(Ranked[1 + ((i - 1) \div 2) \div Len(Ranked)], Ranked[1 + (((i - 1) \div 2) % Len(Ranked))], i % 2 = 1)]

\* Every kind of operand: constants, variables on the stack and in scopes, temporaries, objects.
Operands == <<int(2), t_literal(Float(3)), t_null, get("x"), get("s"), get("o"), get("a")>>
Operators == <<"ADD", "LESS", "MODULUS", "EQUALS", "NOT_IDENTICAL", "OR">>
Applied(op, l, r) ==
    do(<<put("s", int(5)), put("t", fn(<<"x", "o">>, bin(op, l, r))), f(<<call(get("t"), <<int(7), get("a")>>)>>),
         put("u", fn(<<"x", "o">>, do(<<f(<<int(1), bin(op, l, r)>>)>>))), call(get("u"), <<int(7), get("a")>>)>>)
Kinds ==
    LET constant(n) == n.n = "literal" /\ IsNumber(n.a)
        all == [i \in 1 .. Len(Operators) * 49 |->
                   [op |-> Operators[1 + (i - 1) \div 49], l |-> Operands[1 + ((i - 1) % 49) \div 7], r |-> Operands[1 + ((i - 1) % 7)]]]
        valid(k) == ~(constant(k.l) /\ constant(k.r) /\ k.op \in {"MODULUS", "OR"})
        good == SelectSeq(all, valid)
    IN  [i \in 1 .. Len(good) |-> Applied(good[i].op, good[i].l, good[i].r)]

Control == <<
    do(<<put("x", int(1)), if(f(<<>>), do(<<put("x", int(2)), put("y", int(3))>>), do(<<put("z", get("x"))>>)),
         g(<<get("x"), get("y"), get("z")>>)>>),
    do(<<put("x", int(0)),
         while(f(<<>>), do(<<if(g(<<>>), do(<<t_continue>>), t_null), if(g(<<int(1)>>), do(<<t_break(t_null)>>), t_null),
                             put("x", bin("ADD", get("x"), int(1)))>>)), h(<<get("x"), get("y")>>), put("y", int(1))>>),
    do(<<put("x", while(f(<<>>), do(<<if(g(<<>>), do(<<t_break(int(5))>>), t_null), g(<<get("v")>>), put("v", int(2))>>))),
         f(<<get("x")>>)>>),
    do(<<for(put("i", int(0)), bin("LESS", get("i"), int(3)), put("i", bin("ADD", get("i"), int(1))),
             do(<<if(f(<<get("i")>>), do(<<t_continue>>), t_null), g(<<get("i")>>)>>)), f(<<get("i")>>)>>),
    do(<<for(put("i", int(0)), bin("LESS", get("i"), int(3)), put("i", bin("ADD", get("i"), int(1))),
             do(<<if(bin("EQUALS", get("i"), int(1)), do(<<t_continue>>), t_null), put("j", get("i"))>>)), f(<<get("i"), get("j")>>)>>),
    do(<<t_for(t_none, t_none, t_none, do(<<if(f(<<>>), do(<<put("w", int(1))>>), do(<<t_break(t_null)>>)), g(<<get("w")>>)>>)),
         t_while(t_none, t_break(t_null)), f(<<get("w")>>)>>),
    do(<<t_try(do(<<f(<<>>), put("x", int(1))>>), do(<<h(<<>>)>>), <<"e">>, <<get("Throwable"), do(<<g(<<get("e")>>)>>)>>),
         f(<<get("x"), get("e")>>)>>),
    do(<<put("r", while(f(<<>>), do(<<finally(do(<<if(g(<<>>), do(<<t_break(int(7))>>), t_null), f(<<int(1)>>)>>), do(<<h(<<>>)>>))>>))),
         f(<<get("r")>>)>>),
    do(<<put("k", fn(<<>>, do(<<finally(do(<<t_return(f(<<>>))>>), do(<<g(<<>>)>>)), h(<<>>)>>))), f(<<call(get("k"), <<>>)>>)>>),
    do(<<catch(do(<<finally(do(<<f(<<>>)>>), do(<<g(<<>>)>>))>>), do(<<h(<<get("e")>>)>>)), f(<<>>)>>),
    do(<<catch(do(<<t_try(do(<<f(<<>>)>>), do(<<g(<<int(1)>>)>>), <<"e">>, <<get("Throwable"), do(<<g(<<>>)>>)>>)>>),
               do(<<h(<<get("e")>>)>>))>>),
    do(<<t_try(do(<<t_throw(get("b"))>>), t_none, <<"d", "e">>,
               <<get("Throwable"), do(<<f(<<>>)>>), get("A"), do(<<g(<<get("d"), get("e")>>)>>)>>), t_throw(get("a"))>>),
    do(<<t_try(do(<<t_throw(get("c"))>>), do(<<f(<<>>)>>), <<"e">>, <<get("A"), do(<<f(<<int(1)>>)>>)>>)>>),
    do(<<t_try(do(<<t_throw(int(1))>>), do(<<f(<<>>)>>), <<"e">>, <<int(1), do(<<f(<<int(1)>>)>>)>>)>>),
    do(<<for(put("i", int(0)), bin("LESS", get("i"), int(2)), put("i", bin("ADD", get("i"), int(1))),
             do(<<t_try(do(<<if(f(<<get("i")>>), do(<<t_continue>>), t_null), g(<<>>)>>), do(<<h(<<get("y")>>)>>), <<"e">>,
                        <<get("Throwable"), do(<<t_continue>>)>>), put("y", get("i"))>>))>>),
    do(<<f(<<int(1), while(f(<<>>), do(<<finally(do(<<else(g(<<>>), t_break(int(2)))>>), do(<<h(<<>>)>>))>>))>>)>>),
    do(<<put("k", fn(<<"p">>, do(<<f(<<int(1), finally(do(<<also(g(<<>>), t_return(get("p")))>>), h(<<>>)), int(3)>>)>>))),
         f(<<call(get("k"), <<int(4)>>)>>)>>),
    do(<<f(<<also(f(<<>>), g(<<>>)), else(f(<<>>), else(g(<<>>), int(1))), also(else(f(<<>>), g(<<>>)), h(<<>>))>>)>>),
    do(<<put("k", fn(<<>>, t_if(f(<<>>), g(<<int(1)>>), also(h(<<>>), int(2))))), f(<<call(get("k"), <<>>)>>)>>),
    do(<<put("k", fn(<<>>, while(f(<<>>), t_break(g(<<int(1)>>))))), f(<<call(get("k"), <<>>), int(2)>>)>>),
    do(<<put("k", fn(<<"x">>, do(<<while(f(<<>>), do(<<if(g(<<>>), do(<<t_return(t_null)>>), t_null)>>)), get("x")>>))),
         f(<<call(get("k"), <<int(2)>>)>>)>>),
    do(<<put("k", fn(<<>>, do(<<t_return(if(f(<<>>), do(<<int(1)>>), do(<<catch(do(<<g(<<>>)>>), do(<<t_return(int(2))>>))>>)))>>))),
         f(<<call(get("k"), <<>>)>>)>>),
    do(<<f(<<get("u")>>), put("u", int(1)), while(f(<<>>), do(<<g(<<get("u"), get("v")>>), put("v", get("u")), put("u", t_null)>>))>>),
    do(<<f(<<get("undefined")>>)>>), do(<<>>),
    do(<<f(<<int(0), t_literal(Float(0)), t_literal(<<"string", "a # b">>), get("iffy"), get("tr"), get("_1")>>)>>) >>

\* Lambdas that end by calling themselves.
Recursive == <<
    do(<<put("k", fn(<<"n", "m">>, t_if(bin("GREATER", get("n"), int(0)), call(get("k"), <<bin("SUBTRACT", get("n"), int(1)), get("n")>>),
                                        f(<<get("n"), get("m")>>)))), f(<<call(get("k"), <<int(4), t_null>>)>>)>>),
    do(<<put("k", fn(<<"n", "z">>, t_if(bin("GREATER", get("n"), int(0)),
                         t_call(get("k"), <<bin("SUBTRACT", get("n"), int(1)), tuple(<<get("n")>>)>>, {2}), f(<<get("z")>>)))),
         f(<<call(get("k"), <<int(4), int(9)>>)>>)>>) >>

Closures == <<
    do(<<put("n", int(0)), put("k", fn(<<>>, t_scope_put(1, "n", bin("ADD", t_symbol_get(1, "n"), int(1))))),
         call(get("k"), <<>>), call(get("k"), <<>>), f(<<get("n")>>)>>),
    do(<<put("k", fn(<<"x">>, fn(<<>>, get("x")))), put("p", call(get("k"), <<int(1)>>)), put("q", call(get("k"), <<int(2)>>)),
         f(<<call(get("p"), <<>>), call(get("q"), <<>>)>>)>>),
    do(<<put("v", int(1)),
         put("k", fn(<<>>, fn(<<"y">>, fn(<<>>, fn(<<>>, do(<<t_scope_put(4, "v", bin("ADD", get("v"), get("y"))),
                                                              t_scope_put(3, "w", get("v"))>>)))))),
         call(call(call(call(get("k"), <<>>), <<int(2)>>), <<>>), <<>>), f(<<get("v")>>)>>),
    do(<<put("k", t_lambda(<<"p", "q", "r">>, TRUE, <<f(<<>>)>>, 0, f(<<get("p"), get("q"), get("r")>>))),
         call(get("k"), <<int(1)>>), call(get("k"), <<int(1), int(3)>>), call(get("k"), <<int(1), int(3), int(4), int(5)>>),
         call(get("k"), <<>>)>>),
    do(<<put("k", t_lambda(<<"p", "q">>, FALSE, <<int(2)>>, 0, fn(<<>>, bin("ADD", get("p"), get("q"))))),
         f(<<call(call(get("k"), <<int(1)>>), <<>>), call(call(get("k"), <<int(1), int(1)>>), <<>>)>>),
         call(get("k"), <<int(1), int(2), int(3)>>)>>),
    do(<<put("k", fn(<<"x">>, get("x"))), catch(do(<<call(get("k"), <<>>)>>), do(<<f(<<get("e")>>)>>)), call(get("k"), <<f(<<>>)>>)>>),
    do(<<t_call(get("f"), <<tuple(<<int(1), int(2)>>), int(3), list(<<int(4)>>)>>, {1, 3}), t_call(get("f"), <<tuple(<<>>)>>, {1}),
         put("k", fn(<<"x">>, t_call(get("f"), <<get("x"), get("x")>>, {2}))), call(get("k"), <<tuple(<<int(1), int(2), int(3)>>)>>),
         call(get("k"), <<int(1)>>)>>),
    do(<<while(f(<<>>), do(<<put("x", g(<<>>)), put("k", fn(<<>>, get("x"))), h(<<call(get("k"), <<>>)>>)>>)),
         f(<<else(get("k"), int(1))>>)>>),
    do(<<put("k", fn(<<"x">>, f(<<t_self(0), get("x")>>))), call(t_get_at(get("k"), int(3)), <<int(1)>>),
         put("m", t_get_at(get("k"), int(4))), call(get("m"), <<int(2)>>), call(get("k"), <<get("m")>>)>>),
    do(<<put("k", fn(<<>>, fn(<<>>, f(<<t_self(1), t_self(0), t_class(t_self(1))>>)))),
         call(call(t_get_at(get("k"), int(4)), <<>>), <<>>), f(<<t_object_get(t_self(0), "z")>>)>>),
    do(<<catch(do(<<f(<<>>)>>), do(<<put("k", fn(<<>>, get("e"))), g(<<call(get("k"), <<>>)>>)>>)), f(<<get("e")>>)>>),
    do(<<put("k", fn(<<>>, do(<<put("x", int(1)), put("j", fn(<<>>, do(<<t_scope_put(1, "x", int(2))>>))), call(get("j"), <<>>), get("x")>>))),
         f(<<call(get("k"), <<>>)>>)>>) >>

ObjectsUsed == <<
    do(<<t_object_put(get("a"), "x", int(1)), t_object_put(get("b"), "x", int(2)), t_object_put(get("c"), "x", int(3)),
         put("k", fn(<<"o">>, t_object_get(get("o"), "x"))),
         f(<<call(get("k"), <<get("a")>>), call(get("k"), <<get("c")>>), call(get("k"), <<get("b")>>), call(get("k"), <<get("a")>>)>>)>>),
    do(<<t_object_put(get("c"), "m", get("f")), put("k", fn(<<"o">>, call(t_object_get(get("o"), "m"), <<int(1)>>))),
         call(get("k"), <<get("a")>>), call(get("k"), <<get("c")>>), call(get("k"), <<get("b")>>)>>),
    do(<<put("k", fn(<<"o">>, f(<<t_object_has(get("o"), "m"), t_object_has(get("o"), "y"), t_object_get(get("o"), "k")>>))),
         call(get("k"), <<get("a")>>), call(get("k"), <<get("c")>>), call(get("k"), <<get("d")>>), call(get("k"), <<int(1)>>)>>),
    do(<<put("k", fn(<<"o", "v">>, t_object_put(get("o"), "x", get("v")))), call(get("k"), <<get("a"), int(1)>>),
         call(get("k"), <<get("c"), int(2)>>), call(get("k"), <<get("b"), int(3)>>), call(get("k"), <<get("a"), get("k")>>),
         call(get("k"), <<int(1), int(2)>>)>>),
    do(<<put("s", t_literal(<<"symbol", "x">>)), t_object_put_indirect(get("b"), get("s"), int(5)),
         f(<<t_object_get_indirect(get("b"), get("s")), t_object_has_indirect(get("a"), t_literal(<<"symbol", "y">>)),
             t_object_has_indirect(get("b"), t_literal(<<"symbol", "y">>))>>),
         t_object_put_indirect(get("b"), t_literal(<<"symbol", "m">>), int(1))>>),
    do(<<f(<<t_class(get("a")), t_super(t_class(get("b"))), t_class(int(1)), t_class(t_class(get("b")))>>),
         f(<<t_super(t_super(t_super(t_class(get("b")))))>>)>>),
    do(<<t_super(get("a"))>>), do(<<t_object_get(get("a"), "z")>>), do(<<call(t_object_get(int(1), "x"), <<>>)>>),
    do(<<put("m", t_object_get(get("b"), "m")), call(get("m"), <<int(3)>>), f(<<get("m")>>)>>),
    do(<<f(<<t_unary("MINUS", get("a")), t_unary("COMPLEMENT", get("b")), t_unary("NOT", get("a")), t_unary("PLUS", int(1)),
             t_unary("MINUS", t_unary("MINUS", int(2))), t_unary("NOT", t_null)>>)>>),
    do(<<put("k", fn(<<"o">>, t_unary("MINUS", get("o")))), f(<<call(get("k"), <<get("a")>>), call(get("k"), <<int(2)>>), call(get("k"), <<t_null>>)>>)>>),
    do(<<put("k", fn(<<"o">>, t_get_at(get("o"), int(0)))), f(<<call(get("k"), <<get("a")>>), call(get("k"), <<tuple(<<int(6)>>)>>)>>),
         call(get("k"), <<list(<<>>)>>)>>),
    do(<<put("k", fn(<<"o">>, t_set_at(get("o"), int(0), f(<<>>)))), f(<<call(get("k"), <<get("a")>>), t_set_at(get("b"), int(1), int(2))>>),
         call(get("k"), <<int(1)>>)>>),
    do(<<call(get("a"), <<int(1)>>), put("k", fn(<<"o">>, call(get("o"), <<int(2)>>))), call(get("k"), <<get("b")>>), call(get("k"), <<int(1)>>)>>),
    do(<<call(t_get_at(tuple(<<get("f")>>), int(0)), <<int(1)>>), f(<<call(t_literal(<<"type", "map">>), <<int(1), int(2)>>)>>),
         call(t_get_at(get("a"), int(1)), <<int(2)>>)>>),
    do(<<f(<<t_get_at(get("a"), int(0)), t_get_at(tuple(<<int(6)>>), int(0))>>)>>), do(<<f(<<bin("MODULUS", int(1), t_literal(Float(3)))>>)>>),
    do(<<call(t_get_at(tuple(<<>>), t_null), <<>>)>>), do(<<call(t_get_at(int(1), int(1)), <<>>)>>) >>

\* Scripts with fibers, each with the values it hands to native functions, one
\* after the other, as long as none of them throws.
fiber(names, body) == call(get("Fiber"), <<fn(names, do(body))>>)
Switches(values, ns) == [values |-> values, tree |-> do(<<put("m", call(get("current"), <<>>))>> \o ns)]
to(x, v) == call(get(x), <<v>>)
plus1(x) == bin("ADD", get(x), int(1))
FiberScripts == <<
    Switches(<<0, 1, 2, 3, 4>>, <<put("p", t_null), put("q", t_null), put("r", t_null),
        put("p", fiber(<<"x">>, <<f(<<get("x")>>), put("x", to("q", plus1("x"))), f(<<get("x")>>), to("m", plus1("x"))>>)),
        put("q", fiber(<<"x">>, <<f(<<get("x")>>), to("r", plus1("x"))>>)),
        put("r", fiber(<<"x">>, <<f(<<get("x")>>), to("p", plus1("x"))>>)),
        f(<<to("p", int(0))>>)>>),
    Switches(<<1, 2, 3, 1>>, <<put("p", fiber(<<"x">>, <<to("m", int(1)), to("m", int(2)), get("x")>>)),
        f(<<to("p", int(3))>>), f(<<to("p", int(0))>>), f(<<to("p", int(0))>>), f(<<to("p", int(0))>>)>>),
    Switches(<<6, 5, 7>>, <<put("p", fiber(<<"x">>, <<f(<<get("x")>>), t_throw(int(5))>>)), put("q", fiber(<<"x">>, <<to("m", plus1("x"))>>)),
        t_try(do(<<to("p", int(6))>>), t_none, <<"e">>, <<get("Object"), do(<<f(<<get("e")>>)>>)>>), put("y", to("q", int(6))), f(<<get("y")>>)>>),
    Switches(<<1, 9, 6>>, <<put("p", fiber(<<"x">>, <<
            finally(do(<<t_try(do(<<to("m", get("x"))>>), do(<<f(<<int(9)>>), while(int(1), do(<<to("m", int(2))>>)), f(<<int(8)>>)>>),
                               <<"e">>, <<get("Object"), do(<<f(<<int(7)>>)>>)>>)>>), do(<<f(<<int(6)>>), to("m", int(5)), f(<<int(4)>>)>>))>>)),
        f(<<to("p", int(1))>>)>>),
    Switches(<<3, 4, 5>>, <<put("q", fiber(<<"x">>, <<get("x")>>)),
        put("p", fiber(<<"x">>, <<put("y", to("q", int(3))), f(<<get("y")>>), int(5)>>)),
        f(<<to("p", int(0))>>), f(<<to("p", int(4))>>)>>),
    Switches(<<1, 2, 3>>, <<put("q", fiber(<<"x">>, <<to("m", get("x")), f(<<int(3)>>)>>)),
        put("p", fiber(<<"x">>, <<finally(do(<<to("m", get("x"))>>), do(<<to("q", int(0))>>)), f(<<int(4)>>)>>)),
        f(<<to("q", int(1))>>), f(<<to("p", int(2))>>)>>),
    Switches(<<1, 2>>, <<catch(do(<<to("m", int(0))>>), do(<<f(<<int(1)>>)>>)),
        put("p", fiber(<<"x">>, <<to("p", int(0))>>)), catch(do(<<to("p", int(0))>>), do(<<f(<<int(2)>>)>>)), call(get("p"), <<>>)>>),
    Switches(<<1, 2>>, <<put("p", call(get("Fiber"), <<get("f"), int(1)>>)), to("p", int(1)),
        catch(do(<<call(get("Fiber"), <<get("f"), t_null>>)>>), do(<<f(<<int(2)>>)>>)), call(get("Fiber"), <<>>)>>),
    Switches(<<1>>, <<put("p", call(get("Fiber"), <<t_null>>)), catch(do(<<to("p", int(0))>>), do(<<f(<<int(1)>>)>>)), t_throw(int(3))>>) >>

Plain == Recursive \o Precedence \o Kinds \o Control \o Closures \o ObjectsUsed
Trees == Plain \o [i \in 1 .. Len(FiberScripts) |-> FiberScripts[i].tree]

(***************************************************************************)
(* Texts that are no scripts, each with the message it has to be rejected  *)
(* with (parser.cc).                                                       *)
(***************************************************************************)
Wrong(text, message) == [text |-> text, message |-> message]
Assigned == "can not assign to expression."
Lexical == "lexical error."
NoScripts == <<
    Wrong("x + x = 1", Assigned), Wrong("1 + x.x = 1", Assigned), Wrong("1 + $x = 1", Assigned),
    Wrong(":x = 1", "no more outer scope."), Wrong(":$", "no more outer scope."), Wrong(":1", "expecting symbol or self."),
    Wrong("{1 1", "expecting ':'."), Wrong("x ? x", "expecting ':'."), Wrong("@(x = 1, x)", "expecting '='."),
    Wrong("@(*1", "expecting symbol."), Wrong("@(1", "expecting symbol or '*'."), Wrong("@(x 1", "expecting ')'."),
    Wrong("'1", "expecting symbol or '('."), Wrong("break", "expecting inside loop."),
    Wrong("while x; try x finally continue", "expecting inside loop."), Wrong("return x", "expecting within lambda."),
    Wrong("@ try x finally return", "expecting within lambda."), Wrong(")", "unexpected token."),
    Wrong("x.?1", "expecting '(' or symbol."), Wrong("x.1", "expecting '(' or '?' or '@' or '^' or symbol."),
    Wrong("if x x", "expecting ';'."), Wrong("try x", "expecting 'finally'."), Wrong("try x catch x 1", "expecting symbol."),
    Wrong("x x", "expecting newline."), Wrong("x\n x", "unexpected indent."), Wrong("if x\n x\n  x", "unexpected indent."),
    Wrong("if x\n\tx\n x", Lexical), Wrong("x = \"a", Lexical), Wrong("\"\\x\"", Lexical), Wrong("f(08)", Lexical), Wrong("0x", Lexical),
    Wrong("128", Lexical), Wrong("0.", Lexical), Wrong("1.0e+", Lexical), Wrong("x \\ x", Lexical), Wrong("# no line\n\"", Lexical) >>

MCSources ==
    LET trees == Trees
        wrong == NoScripts
    IN  [i \in 1 .. Len(trees) + Len(wrong) |-> IF i <= Len(trees) THEN Text(trees[i]) ELSE wrong[i - Len(trees)].text]

Script == Trees[source]

\* The parser finds in the text of a script the tree it was written from, with
\* precedence, associativity, blocks and the ends of lines; a text that is no
\* script is rejected with the right message, and nothing else is.
ParsesBack ==
    LET parsed == P!Parse(X!Tokens(Sources[source]))
    IN  status.m = "load" =>
            IF source <= Len(Trees) THEN parsed.err = "" /\ Erase(parsed.body) = Erase(Script)
            ELSE parsed.err = NoScripts[source - Len(Trees)].message

\* What runs has the meaning of the source: the native functions are called in
\* the order and with the arguments that evaluating the tree gives, the fields
\* end up the same, and the same exception leaves the script.  Scripts leave out
\* where folding differs from the instruction (% of literals, and & | ^ of a
\* boolean and a number literal) and an operand assigned by the other operand.
SameAsTree ==
    LET shown == [o \in DOMAIN fields |-> [i \in DOMAIN fields[o] |-> Show(fields[o][i])]]
    IN  L!Meaning(Script, [i \in 1 .. Len(log) |-> log[i].answer]) = [log |-> log, fields |-> shown, v |-> Show(status.v)]
MeansSame == status.m \in {"done", "failed"} /\ source <= Len(Plain) => SameAsTree

\* Every value a fiber hands over, by a call or by its end, comes to the fiber it
\* is for and to no other, is thrown there if it was thrown, and only then; a fiber
\* told to exit runs what is under finally, once, and nothing else.
FibersDeliver ==
    LET expected == FiberScripts[source - Len(Plain)].values
        received == [i \in 1 .. Len(log) |-> log[i].args[1][2]]
    IN  status.m \in {"done", "failed"} /\ source \in Len(Plain) + 1 .. Len(Trees) /\ (\A i \in 1 .. Len(log) : log[i].answer # "throw")
            => received = expected

\* However often a lambda calls itself as the last thing it does, there is one
\* context and the stack does not grow.
TailCallsBounded == source <= Len(Recursive) => Len(frames) <= 2 /\ Len(estack) <= 20
=============================================================================
