------------------------------- MODULE Parser -------------------------------
(***************************************************************************)
(* t_parser (parser.cc): recursive descent over the tokens of a script.    *)
(* A token is a record of its kind t, its value v, whether it is the first *)
(* of its line (nl) and the indentation of its line (in); the last token   *)
(* is EOF, or ERROR where the lexer throws when it is asked for it.        *)
(*                                                                         *)
(* The state p of the parser is the position i in the tokens ts, the       *)
(* scopes sc from the outermost to v_scope, whether break and continue     *)
(* (jump) and return (ret) are allowed, and the node x parsed last.  A     *)
(* syntax error is an exception in the source: here it is kept in err and  *)
(* nothing that comes Then is done.                                        *)
(***************************************************************************)
EXTENDS Syntax, SequencesExt

Tok(p) == p.ts[p.i].t
Val(p) == p.ts[p.i].v
Newline(p) == p.ts[p.i].nl
Indent(p) == p.ts[p.i].in
Yield(p, node) == [p EXCEPT !.x = node]
Reach(p) == IF Tok(p) = "ERROR" THEN [p EXCEPT !.err = "lexical error."] ELSE p
Skip(p) == IF p.err = "" THEN Reach([p EXCEPT !.i = @ + 1]) ELSE p
f_throw(p, message) == IF p.err = "" THEN [p EXCEPT !.err = message, !.x = t_none] ELSE p

Then(p, rest(_)) == IF p.err = "" THEN rest(p) ELSE p
\* The node made from the one parsed last.
Make(p, node(_)) == Then(p, LAMBDA q : Yield(q, node(q.x)))

f_single_colon(p) == Tok(p) = "COLON" /\ Val(p) = 1
f_any(p, indent, right) == (~Newline(p) \/ Indent(p) > indent) /\ Tok(p) # right
f_close(p, indent, right) ==
    IF (~Newline(p) \/ Indent(p) >= indent) /\ Tok(p) = right THEN Skip(p) ELSE p

(***************************************************************************)
(* A scope under construction: the variables in the order of their         *)
(* creation, the arguments first; the ones that live in the scope object   *)
(* because a nested lambda uses them; the ones that may be assigned again; *)
(* the symbols read here and the ones read by nested lambdas.  The names   *)
(* of arguments are distinct: the source counts v_arguments by name but    *)
(* links a variable into the list of privates once per parameter.          *)
(***************************************************************************)
t_scope(arguments) ==
    [arguments |-> arguments, names |-> arguments, shared |-> {}, varies |-> {},
     references |-> {}, unresolveds |-> {}, v_shared |-> FALSE, self_shared |-> FALSE]

Here(p) == Len(p.sc)

f_variable(p, k, symbol) ==
    IF symbol \in Range(p.sc[k].names) THEN [p EXCEPT !.sc[k].varies = @ \cup {symbol}]
    ELSE [p EXCEPT !.sc[k].names = Append(@, symbol)]

\* Variables created in a loop, after the first n, are assigned repeatedly.
f_vary(p, n) ==
    LET s == p.sc[Here(p)]
    IN  [p EXCEPT !.sc[Here(p)].varies = @ \cup Range(SubSeq(s.names, n + 1, Len(s.names)))]

\* The finished scope: each variable's place, in the scope object when it is
\* shared, otherwise on the stack, where the arguments keep their places.
f_classify(s) ==
    LET n == Len(s.arguments)
        private(i) == i > n /\ s.names[i] \notin s.shared
        before(P(_), i) == Cardinality({j \in 1 .. i - 1 : P(j)})
        shared(i) == s.names[i] \in s.shared
        base == IF s.self_shared THEN 1 ELSE 0
        place(i) == IF shared(i) THEN base + before(shared, i)
                    ELSE IF i <= n THEN i - 1 ELSE n + before(private, i)
        variable(x) == [shared |-> x \in s.shared, varies |-> x \in s.varies,
                        index |-> place(CHOOSE i \in 1 .. Len(s.names) : s.names[i] = x)]
    IN  [variables |-> [x \in Range(s.names) |-> variable(x)], arguments |-> n,
         privates |-> n + before(private, Len(s.names) + 1),
         shareds |-> base + before(shared, Len(s.names) + 1),
         v_shared |-> s.v_shared, self_shared |-> s.self_shared]

\* Variables of s that nested lambdas use become shared.
f_resolve(s) == [s EXCEPT !.shared = @ \cup (s.unresolveds \cap Range(s.names))]

Expressions == {"EXCLAMATION", "APOSTROPHE", "LEFT_PARENTHESIS", "PLUS", "HYPHEN", "COLON", "ATMARK",
    "LEFT_BRACKET", "LEFT_BRACE", "TILDE", "NULL", "TRUE", "FALSE", "SYMBOL", "SELF", "INTEGER", "FLOAT",
    "STRING", "IF", "WHILE", "FOR", "TRY"}
f_has_expression(p) == ~Newline(p) /\ Tok(p) \in Expressions

\* Mutant: & and ^ change places.
OperatorsSwapped == <<
    [ASTERISK |-> "MULTIPLY", SLASH |-> "DIVIDE", PERCENT |-> "MODULUS"],
    [PLUS |-> "ADD", HYPHEN |-> "SUBTRACT"],
    [LEFT_SHIFT |-> "LEFT_SHIFT", RIGHT_SHIFT |-> "RIGHT_SHIFT"],
    [LESS |-> "LESS", LESS_EQUAL |-> "LESS_EQUAL", GREATER |-> "GREATER", GREATER_EQUAL |-> "GREATER_EQUAL"],
    [EQUALS |-> "EQUALS", NOT_EQUALS |-> "NOT_EQUALS", IDENTICAL |-> "IDENTICAL", NOT_IDENTICAL |-> "NOT_IDENTICAL"],
    [HAT |-> "XOR"], [AMPERSAND |-> "AND"], [BAR |-> "OR"] >>

Operators == <<
    [ASTERISK |-> "MULTIPLY", SLASH |-> "DIVIDE", PERCENT |-> "MODULUS"],
    [PLUS |-> "ADD", HYPHEN |-> "SUBTRACT"],
    [LEFT_SHIFT |-> "LEFT_SHIFT", RIGHT_SHIFT |-> "RIGHT_SHIFT"],
    [LESS |-> "LESS", LESS_EQUAL |-> "LESS_EQUAL", GREATER |-> "GREATER", GREATER_EQUAL |-> "GREATER_EQUAL"],
    [EQUALS |-> "EQUALS", NOT_EQUALS |-> "NOT_EQUALS", IDENTICAL |-> "IDENTICAL", NOT_IDENTICAL |-> "NOT_IDENTICAL"],
    [AMPERSAND |-> "AND"], [HAT |-> "XOR"], [BAR |-> "OR"] >>
Signs == [PLUS |-> "PLUS", HYPHEN |-> "MINUS", EXCLAMATION |-> "NOT", TILDE |-> "COMPLEMENT"]

RECURSIVE f_target(_, _), f_parameters(_, _), f_pairs(_, _, _), f_action(_, _, _), f_unary(_, _),
    f_binary(_, _, _), f_binary_rest(_, _, _), f_and_also(_), f_or_else(_), f_conditional(_, _), f_expression(_),
    f_catches(_, _, _, _), f_argument(_, _, _), f_arguments(_, _, _, _), f_expressions(_, _), f_block(_, _, _),
    f_lines(_, _, _)

\* An expression after the current token.
f_after(p) == f_expression(Skip(p))

f_target_symbol(p, outer, assignable) ==
    LET symbol == Val(p)
        k == Here(p) - outer
        q == Skip(p)
        v == f_variable(Skip(q), k, symbol)
        w == IF outer = 0 THEN v ELSE [v EXCEPT !.sc[k].shared = @ \cup {symbol}, !.sc[k].varies = @ \cup {symbol}]
    IN  IF Tok(q) = "EQUAL"
        THEN IF ~assignable THEN f_throw(q, "can not assign to expression.")
             ELSE IF k = 0 THEN f_throw(q, "no more outer scope.")
             ELSE Make(f_expression(w), LAMBDA x : t_scope_put(outer, symbol, x))
        ELSE Yield(IF k = 0 THEN q
                   ELSE IF outer > 0 THEN [q EXCEPT !.sc[k].unresolveds = @ \cup {symbol}]
                   ELSE [q EXCEPT !.sc[k].references = @ \cup {symbol}], t_symbol_get(outer, symbol))

\* The value of a SELF token is the sequence of @ and ^ that follows the $.
f_target_self(p, outer, assignable) ==
    LET k == Here(p) - outer
        wrap(node, c) == IF c = "@" THEN t_class(node) ELSE t_super(node)
        target == FoldLeft(wrap, t_self(outer), Val(p))
        q == Skip(IF outer > 0 THEN [p EXCEPT !.sc[k].self_shared = TRUE] ELSE p)
        r == Skip(q)
    IN  IF k = 0 THEN f_throw(p, "no more outer scope.")
        ELSE IF Newline(q) \/ Tok(q) # "SYMBOL" THEN Yield(q, target)
        ELSE IF Tok(r) # "EQUAL" THEN Yield(r, t_object_get(target, Val(q)))
        ELSE IF ~assignable THEN f_throw(r, "can not assign to expression.")
        ELSE Make(f_after(r), LAMBDA x : t_object_put(target, Val(q), x))

f_target_name(p, assignable) ==
    LET outer == IF Tok(p) = "COLON" THEN Val(p) ELSE 0
        q == IF Tok(p) = "COLON" THEN Skip(p) ELSE p
    IN  IF outer > Here(p) THEN f_throw(p, "no more outer scope.")
        ELSE CASE Tok(q) = "SYMBOL" -> f_target_symbol(q, outer, assignable)
               [] Tok(q) = "SELF" -> f_target_self(q, outer, assignable)
               [] OTHER -> f_throw(q, "expecting symbol or self.")

\* The calls of the types behind '(...), [...] and {...}; p is at the opening token.
f_construct(p, type, right) ==
    LET indent == Indent(p)
        q == Yield(Skip(p), t_call(t_literal(<<"type", type>>), <<>>, {}))
    IN  Then(CASE ~f_any(q, indent, right) -> q
               [] type = "map" -> f_pairs(q, indent, <<>>)
               [] OTHER -> f_arguments(q, indent, <<>>, {}), LAMBDA r : f_close(r, indent, right))

\* Whether another argument follows the one just parsed, and a step past the comma.
f_more(p, indent) ==
    IF Tok(p) # "COMMA" THEN Newline(p) /\ Indent(p) > indent ELSE ~Newline(p) \/ Indent(p) >= indent
f_comma(p) == IF Tok(p) = "COMMA" THEN Skip(p) ELSE p

\* The keys and values of the map p.x.
f_pairs(p, indent, arguments) ==
    LET pair(k, v) ==
            IF f_more(v, indent) THEN f_pairs(Yield(f_comma(v), p.x), indent, arguments \o <<k.x, v.x>>)
            ELSE Yield(v, t_call(p.x.c[1], arguments \o <<k.x, v.x>>, {}))
    IN  Then(f_expression(p), LAMBDA k :
            IF ~f_single_colon(k) THEN f_throw(k, "expecting ':'.") ELSE Then(f_after(k), LAMBDA v : pair(k, v)))

\* The parameters of a lambda, gathered in x; p is at the first of them.
f_parameters(p, x) ==
    LET q == Skip(p)
        y == [x EXCEPT !.names = Append(@, Val(p))]
        rest(r, z) == IF Newline(r) /\ Tok(r) # "RIGHT_PARENTHESIS" THEN f_parameters(r, z)
                      ELSE IF Tok(r) = "COMMA" THEN f_parameters(Skip(r), z)
                      ELSE Yield(r, z)
    IN  CASE Tok(p) = "SYMBOL" /\ Tok(q) = "EQUAL" ->
                Then(f_after(q), LAMBDA e : rest(e, [y EXCEPT !.defaults = Append(@, e.x)]))
          [] Tok(p) = "SYMBOL" -> IF x.defaults # <<>> THEN f_throw(q, "expecting '='.") ELSE rest(q, y)
          [] Tok(p) = "ASTERISK" ->
                IF Tok(q) # "SYMBOL" THEN f_throw(q, "expecting symbol.")
                ELSE Yield(Skip(q), [x EXCEPT !.names = Append(@, Val(q)), !.variadic = TRUE])
          [] OTHER -> f_throw(p, "expecting symbol or '*'.")

f_signature(p) ==
    LET none == [names |-> <<>>, defaults |-> <<>>, variadic |-> FALSE]
        close(q) == IF Tok(q) # "RIGHT_PARENTHESIS" THEN f_throw(q, "expecting ')'.") ELSE Skip(q)
    IN  IF Newline(p) \/ Tok(p) # "LEFT_PARENTHESIS" THEN Yield(p, none)
        ELSE IF Tok(Skip(p)) = "RIGHT_PARENTHESIS" THEN Yield(Skip(Skip(p)), none)
        ELSE Then(f_parameters(Skip(p), none), close)

f_body(p, indent) == IF Newline(p) THEN f_block(p, indent, <<>>) ELSE f_expression(p)

\* v_can_jump is saved and restored but stays as it was in the body.
f_target_lambda(p) ==
    LET h == Here(p)
        enter(r) == [r EXCEPT !.sc = Append([@ EXCEPT ![h].v_shared = TRUE], t_scope(r.x.names)), !.ret = TRUE]
        free(s) == (s.unresolveds \cup s.references) \ Range(s.names)
        leave(r, b, s) == [b EXCEPT !.sc = [SubSeq(@, 1, h) EXCEPT ![h].unresolveds = @ \cup free(s)],
                                    !.jump = p.jump, !.ret = p.ret,
                                    !.x = t_lambda(r.x.names, r.x.variadic, r.x.defaults, f_classify(s), b.x)]
    IN  Then(f_signature(Skip(p)), LAMBDA r :
            Then(f_body(enter(r), Indent(p)), LAMBDA b : leave(r, b, f_resolve(b.sc[h + 1]))))

\* break and return: the expression is optional.
f_target_jump(p, allowed, message) ==
    LET q == Skip(p)
    IN  IF ~allowed THEN f_throw(p, message)
        ELSE Make(IF f_has_expression(q) THEN f_expression(q) ELSE Yield(q, t_null),
                  LAMBDA x : IF Tok(p) = "BREAK" THEN t_break(x) ELSE t_return(x))

f_target(p, assignable) ==
    LET t == Tok(p)
        q == Skip(p)
    IN  CASE t \in {"COLON", "SYMBOL", "SELF"} -> f_target_name(p, assignable)
          [] t = "APOSTROPHE" ->
                CASE Tok(q) = "SYMBOL" -> Yield(Skip(q), t_literal(<<"symbol", Val(q)>>))
                  [] Tok(q) = "LEFT_PARENTHESIS" -> f_construct(q, "tuple", "RIGHT_PARENTHESIS")
                  [] OTHER -> f_throw(q, "expecting symbol or '('.")
          [] t = "LEFT_PARENTHESIS" ->
                Then(IF f_any(q, Indent(p), "RIGHT_PARENTHESIS") THEN f_argument(q, Indent(p), <<>>)
                     ELSE Yield(q, t_nodes(<<>>)), LAMBDA r : f_close(r, Indent(p), "RIGHT_PARENTHESIS"))
          [] t = "ATMARK" -> f_target_lambda(p)
          [] t = "LEFT_BRACKET" -> f_construct(p, "list", "RIGHT_BRACKET")
          [] t = "LEFT_BRACE" -> f_construct(p, "map", "RIGHT_BRACE")
          [] t = "NULL" -> Yield(q, t_null)
          [] t \in {"TRUE", "FALSE"} -> Yield(q, t_literal(Bool(t = "TRUE")))
          [] t = "INTEGER" -> Yield(q, t_literal(Integer(Val(p))))
          [] t = "FLOAT" -> Yield(q, t_literal(Float(Val(p))))
          [] t = "STRING" -> Yield(q, t_literal(<<"string", Val(p)>>))
          [] t = "BREAK" -> f_target_jump(p, p.jump, "expecting inside loop.")
          [] t = "CONTINUE" -> IF p.jump THEN Yield(q, t_continue) ELSE f_throw(p, "expecting inside loop.")
          [] t = "RETURN" -> f_target_jump(p, p.ret, "expecting within lambda.")
          [] t = "THROW" -> Make(f_after(p), t_throw)
          [] OTHER -> f_throw(p, "unexpected token.")

\* An assignment to what has been parsed so far ends the chain of actions.
f_assign(p, assignable, put(_), get, indent) ==
    IF Tok(p) # "EQUAL" THEN f_action(Yield(p, get), indent, assignable)
    ELSE IF ~assignable THEN f_throw(p, "can not assign to expression.")
    ELSE Make(f_after(p), put)

\* An expression in parentheses or brackets; p is at the opening token.
f_enclosed(p, right) == Then(f_after(p), LAMBDA e : f_close(e, Indent(p), right))

f_action_has(p, indent, assignable) ==
    CASE Tok(p) = "LEFT_PARENTHESIS" ->
            Then(f_enclosed(p, "RIGHT_PARENTHESIS"),
                 LAMBDA k : f_action(Yield(k, t_object_has_indirect(p.x, k.x)), indent, assignable))
      [] Tok(p) = "SYMBOL" -> f_action(Yield(Skip(p), t_object_has(p.x, Val(p))), indent, assignable)
      [] OTHER -> f_throw(p, "expecting '(' or symbol.")

f_action_dot(p, indent, assignable) ==
    CASE Tok(p) = "LEFT_PARENTHESIS" ->
            Then(f_enclosed(p, "RIGHT_PARENTHESIS"),
                 LAMBDA k : f_assign(k, assignable, LAMBDA v : t_object_put_indirect(p.x, k.x, v),
                                     t_object_get_indirect(p.x, k.x), indent))
      [] Tok(p) = "SYMBOL" ->
            f_assign(Skip(p), assignable, LAMBDA v : t_object_put(p.x, Val(p), v), t_object_get(p.x, Val(p)), indent)
      [] Tok(p) = "ATMARK" -> f_action(Yield(Skip(p), t_class(p.x)), indent, assignable)
      [] Tok(p) = "HAT" -> f_action(Yield(Skip(p), t_super(p.x)), indent, assignable)
      [] Tok(p) = "QUESTION" -> f_action_has(Skip(p), indent, assignable)
      [] OTHER -> f_throw(p, "expecting '(' or '?' or '@' or '^' or symbol.")

f_action(p, indent, assignable) ==
    LET call == Yield(Skip(p), t_call(p.x, <<>>, {}))
    IN  IF p.err # "" \/ (Newline(p) /\ ~(Indent(p) > indent /\ Tok(p) = "DOT")) THEN p
        ELSE CASE Tok(p) = "LEFT_PARENTHESIS" ->
                    Then(IF f_any(call, Indent(p), "RIGHT_PARENTHESIS") THEN f_arguments(call, Indent(p), <<>>, {}) ELSE call,
                         LAMBDA q : f_action(f_close(q, Indent(p), "RIGHT_PARENTHESIS"), indent, assignable))
               [] Tok(p) = "DOT" -> f_action_dot(Skip(p), indent, assignable)
               [] Tok(p) = "LEFT_BRACKET" ->
                    Then(f_enclosed(p, "RIGHT_BRACKET"),
                         LAMBDA k : f_assign(k, assignable, LAMBDA v : t_set_at(p.x, k.x, v), t_get_at(p.x, k.x), indent))
               [] OTHER -> p

\* A sign or complement and the number it precedes make one literal.
f_unary(p, assignable) ==
    LET op == Signs[Tok(p)]
        q == Skip(p)
        x == Val(q)
        number == op # "NOT" /\ (Tok(q) = "INTEGER" \/ (Tok(q) = "FLOAT" /\ op # "COMPLEMENT"))
        value == CASE op = "PLUS" -> x [] op = "MINUS" -> -x [] op = "COMPLEMENT" -> -x - 1
    IN  IF Tok(p) \in DOMAIN Signs /\ ~number THEN Make(f_unary(q, FALSE), LAMBDA e : t_unary(op, e))
        ELSE f_action(IF Tok(p) \notin DOMAIN Signs THEN f_target(p, assignable)
                      ELSE Yield(Skip(q), t_literal(IF Tok(q) = "INTEGER" THEN Integer(value) ELSE Float(value))),
                      Indent(p), assignable)

\* f_multiplicative, f_additive, ..., f_or: one level of Operators each, up to the level l.
f_binary(l, p, assignable) == f_binary_rest(1, l, f_unary(p, assignable))

\* p has parsed the left operand of the level k.
f_binary_rest(k, l, p) ==
    IF p.err # "" \/ Newline(p) \/ k > l THEN p
    ELSE IF Tok(p) \notin DOMAIN Operators[k] THEN f_binary_rest(k + 1, l, p)
    ELSE f_binary_rest(k, l, Make(f_binary(k - 1, Skip(p), FALSE), LAMBDA x : t_binary(Operators[k][Tok(p)], p.x, x)))

\* The operands of && and of ||.
f_or(p, assignable) == f_binary(Len(Operators), p, assignable)

\* p has parsed the left operand.
f_and_also(p) ==
    IF p.err # "" \/ Newline(p) \/ Tok(p) # "AND_ALSO" THEN p
    ELSE f_and_also(Make(f_or(Skip(p), FALSE), LAMBDA x : t_if(p.x, x, t_preserve)))

f_or_else(p) ==
    IF p.err # "" \/ Newline(p) \/ Tok(p) # "OR_ELSE" THEN p
    ELSE f_or_else(Make(f_and_also(f_or(Skip(p), FALSE)), LAMBDA x : t_if(p.x, t_preserve, x)))

f_conditional(p, assignable) ==
    LET false(c, t) == IF ~f_single_colon(t) THEN f_throw(t, "expecting ':'.")
                       ELSE Make(f_conditional(Skip(t), FALSE), LAMBDA f : t_if(c.x, t.x, f))
    IN  Then(f_or_else(f_and_also(f_or(p, assignable))), LAMBDA c :
            IF Newline(c) \/ Tok(c) # "QUESTION" THEN c
            ELSE Then(f_conditional(Skip(c), FALSE), LAMBDA t : false(c, t)))

\* A comma separated list of expressions on one line.
f_expressions(p, nodes) ==
    Then(f_expression(p), LAMBDA e :
        IF Newline(e) \/ Tok(e) # "COMMA" THEN Yield(e, t_nodes(Append(nodes, e.x)))
        ELSE f_expressions(Skip(e), Append(nodes, e.x)))

f_options(p) ==
    LET close(e) == IF Newline(e) THEN e
                    ELSE IF Tok(e) = "SEMICOLON" THEN Skip(e) ELSE f_throw(e, "expecting ';'.")
    IN  IF Newline(p) THEN Yield(p, t_none)
        ELSE IF Tok(p) = "SEMICOLON" THEN Yield(Skip(p), t_none)
        ELSE Then(f_expressions(p, <<>>), close)

f_expression_if(p) ==
    LET else(c, t) ==
            IF (~Newline(t) \/ Indent(t) = Indent(p)) /\ Tok(t) = "ELSE"
            THEN Make(f_body(Skip(t), Indent(p)), LAMBDA f : t_if(c.x, t.x, f))
            ELSE Yield(t, t_if(c.x, t.x, t_null))
    IN  Then(f_options(Skip(p)), LAMBDA c : Then(f_body(c, Indent(p)), LAMBDA t : else(c, t)))

\* The body of a loop: from the n-th on, variables were created in the loop.
Loop(p, indent, n, jump) ==
    Then(f_body([p EXCEPT !.jump = TRUE], indent), LAMBDA b : [f_vary(b, n) EXCEPT !.jump = jump])
Names(p) == Len(p.sc[Here(p)].names)

f_expression_while(p) ==
    Then(f_options(Skip(p)), LAMBDA c : Make(Loop(c, Indent(p), Names(p), p.jump), LAMBDA b : t_while(c.x, b)))

f_expression_for(p) ==
    Then(f_options(Skip(p)), LAMBDA i : Then(f_options(i), LAMBDA c : Then(f_options(c), LAMBDA n :
        Make(Loop(n, Indent(p), Names(i), p.jump), LAMBDA b : t_for(i.x, c.x, n.x, b)))))

\* The catch clauses that follow; p.x keeps the body of the try.
f_catches(p, indent, symbols, catches) ==
    LET clause(e) ==
            Then(f_body(f_variable(Skip(e), Here(e), Val(e)), indent), LAMBDA b :
                f_catches(Yield(b, p.x), indent, Append(symbols, Val(e)), catches \o <<e.x, b.x>>))
    IN  IF Indent(p) # indent \/ Tok(p) # "CATCH" THEN Yield(p, t_try(p.x, t_none, symbols, catches))
        ELSE Then(f_after(p), LAMBDA e : IF Tok(e) # "SYMBOL" THEN f_throw(e, "expecting symbol.") ELSE clause(e))

f_expression_try(p) ==
    LET indent == Indent(p)
        finally(c) ==
            IF Indent(c) = indent /\ Tok(c) = "FINALLY"
            THEN Then(f_body([Skip(c) EXCEPT !.jump = FALSE, !.ret = FALSE], indent), LAMBDA f :
                    [f EXCEPT !.jump = p.jump, !.ret = p.ret, !.x = [c.x EXCEPT !.c[2] = f.x]])
            ELSE IF c.x.a = <<>> THEN f_throw(c, "expecting 'finally'.")
            ELSE c
    IN  Then(f_body(Skip(p), indent), LAMBDA b : Then(f_catches(b, indent, <<>>, <<>>), finally))

f_expression(p) ==
    CASE Tok(p) = "IF" -> f_expression_if(p)
      [] Tok(p) = "WHILE" -> f_expression_while(p)
      [] Tok(p) = "FOR" -> f_expression_for(p)
      [] Tok(p) = "TRY" -> f_expression_try(p)
      [] OTHER -> f_conditional(p, TRUE)

\* The expressions in parentheses.
f_argument(p, indent, nodes) ==
    Then(f_expression(p), LAMBDA e :
        IF f_more(e, indent) THEN f_argument(f_comma(e), indent, Append(nodes, e.x))
        ELSE Yield(e, t_nodes(Append(nodes, e.x))))

\* The arguments of the call p.x.
f_arguments(p, indent, nodes, expands) ==
    LET star == Tok(p) = "ASTERISK"
        marks == IF star THEN expands \cup {Len(nodes) + 1} ELSE expands
    IN  Then(f_expression(IF star THEN Skip(p) ELSE p), LAMBDA e :
            IF f_more(e, indent) THEN f_arguments(Yield(f_comma(e), p.x), indent, Append(nodes, e.x), marks)
            ELSE Yield(e, t_call(p.x.c[1], Append(nodes, e.x), marks)))

\* The lines of a body that are indented deeper than the line it belongs to.
f_block(p, indent, nodes) ==
    LET rest(e) == IF Newline(e) /\ Indent(e) = Indent(p) THEN f_block(e, indent, e.x.c)
                   ELSE IF Indent(e) > Indent(p) THEN f_throw(e, "unexpected indent.")
                   ELSE e
    IN  IF Indent(p) <= indent THEN Yield(p, t_nodes(nodes)) ELSE Then(f_expressions(p, nodes), rest)

\* The lines of the script, all indented alike.
f_lines(p, indent, nodes) ==
    Then(f_expressions(p, nodes), LAMBDA e :
        IF Tok(e) = "EOF" THEN e
        ELSE IF ~Newline(e) THEN f_throw(e, "expecting newline.")
        ELSE IF Indent(e) # indent THEN f_throw(e, "unexpected indent.")
        ELSE f_lines(e, indent, e.x.c))

\* t_parser::operator(): the script is a scope without arguments.
Parsed(p) == [err |-> p.err, body |-> p.x, scope |-> IF p.err = "" THEN f_classify(f_resolve(p.sc[1])) ELSE <<>>]
Parse(tokens) ==
    LET start == Reach([ts |-> tokens, i |-> 1, sc |-> <<t_scope(<<>>)>>, jump |-> FALSE, ret |-> FALSE,
                        x |-> t_nodes(<<>>), err |-> ""])
    IN  Parsed(IF Tok(start) \in {"EOF", "ERROR"} THEN start ELSE f_lines(start, Indent(start), <<>>))
=============================================================================
