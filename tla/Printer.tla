------------------------------ MODULE Printer ------------------------------
(***************************************************************************)
(* The text of a syntax tree: the grammar of the language read             *)
(* the other way round, with parentheses only where the precedence of the  *)
(* operators requires them.  Statements are laid out in lines.             *)
(***************************************************************************)
EXTENDS Syntax, SequencesExt, TLC

K(t) == [t |-> t, v |-> ""]
Mark == [MULTIPLY |-> "ASTERISK", DIVIDE |-> "SLASH", MODULUS |-> "PERCENT", ADD |-> "PLUS", SUBTRACT |-> "HYPHEN",
         LEFT_SHIFT |-> "LEFT_SHIFT", RIGHT_SHIFT |-> "RIGHT_SHIFT", LESS |-> "LESS", LESS_EQUAL |-> "LESS_EQUAL",
         GREATER |-> "GREATER", GREATER_EQUAL |-> "GREATER_EQUAL", EQUALS |-> "EQUALS", NOT_EQUALS |-> "NOT_EQUALS",
         IDENTICAL |-> "IDENTICAL", NOT_IDENTICAL |-> "NOT_IDENTICAL", AND |-> "AMPERSAND", XOR |-> "HAT", OR |-> "BAR",
         PLUS |-> "PLUS", MINUS |-> "HYPHEN", NOT |-> "EXCLAMATION", COMPLEMENT |-> "TILDE"]

\* How tightly the binary operators bind, the tightest first.
Tightness == <<{"MULTIPLY", "DIVIDE", "MODULUS"}, {"ADD", "SUBTRACT"}, {"LEFT_SHIFT", "RIGHT_SHIFT"},
    {"LESS", "LESS_EQUAL", "GREATER", "GREATER_EQUAL"}, {"EQUALS", "NOT_EQUALS", "IDENTICAL", "NOT_IDENTICAL"},
    {"AND"}, {"XOR"}, {"OR"}>>
Tight(op) == 1 + (CHOOSE l \in 1 .. Len(Tightness) : op \in Tightness[l])

Also(n) == n.n = "if" /\ n.c[3].n = "preserve"
Else(n) == n.n = "if" /\ n.c[2].n = "preserve"
Loose == 13
Level(n) ==
    CASE n.n = "unary" -> 1
      [] n.n = "binary" -> Tight(n.a)
      [] Also(n) -> 10
      [] Else(n) -> 11
      [] n.n = "if" -> 12
      [] n.n \in {"lambda", "while", "for", "try", "break", "return", "throw", "scope_put", "object_put", "object_put_indirect", "set_at"} -> Loose
      [] OTHER -> 0

\* The sequences f(1), ..., f(n), one after the other.
Gather(n, f(_)) == LET first[k \in 0 .. n] == IF k = 0 THEN <<>> ELSE first[k - 1] \o f(k) IN first[n]

IsNull(n) == n.n = "literal" /\ n.a = Null

RECURSIVE Inline(_, _), Bare(_), Lines(_, _)

Parens(ts) == <<K("LEFT_PARENTHESIS")>> \o ts \o <<K("RIGHT_PARENTHESIS")>>
Inline(n, level) == IF Level(n) <= level THEN Bare(n) ELSE Parens(Bare(n))

\* The children of n from k to l, between commas.
Commas(n, k, l) ==
    LET one(i) == (IF i > 1 THEN <<K("COMMA")>> ELSE <<>>) \o
                  (IF n.n = "call" /\ k + i - 2 \in n.a THEN <<K("ASTERISK")>> ELSE <<>>) \o Inline(n.c[k + i - 1], Loose)
    IN  Gather(l - k + 1, one)

Outer(k) == IF k > 0 THEN <<[t |-> "COLON", v |-> k]>> ELSE <<>>
Symbol(x) == <<[t |-> "SYMBOL", v |-> x]>>
Digits(v) ==
    (IF v[2] < 0 THEN <<K("HYPHEN")>> ELSE <<>>) \o
    <<[t |-> IF f_tag(v) = "integer" THEN "INTEGER" ELSE "FLOAT", v |-> IF v[2] < 0 THEN -v[2] ELSE v[2]]>>
Literal(v) ==
    CASE f_tag(v) \in {"integer", "float"} -> Digits(v)
      [] f_tag(v) = "symbol" -> <<K("APOSTROPHE")>> \o Symbol(v[2])
      [] f_tag(v) = "string" -> <<[t |-> "STRING", v |-> v[2]]>>
      [] OTHER -> <<K(CASE f_tag(v) = "null" -> "NULL" [] f_tag(v) = "true" -> "TRUE" [] f_tag(v) = "false" -> "FALSE")>>

Parameters(n) ==
    LET names == n.a.arguments
        plain == Len(names) - Len(n.c) + 1 - (IF n.a.variadic THEN 1 ELSE 0)
        one(i) == CASE n.a.variadic /\ i = Len(names) -> <<K("ASTERISK")>> \o Symbol(names[i])
                    [] i <= plain -> Symbol(names[i])
                    [] OTHER -> Symbol(names[i]) \o <<K("EQUAL")>> \o Inline(n.c[1 + i - plain], Loose)
        next(i) == (IF i > 1 THEN <<K("COMMA")>> ELSE <<>>) \o one(i)
    IN  Parens(Gather(Len(names), next))

Call(n) ==
    LET args == Commas(n, 2, Len(n.c))
        type == n.c[1].a[2]
        pair(i) == (CASE i = 1 -> <<>> [] i % 2 = 0 -> <<[t |-> "COLON", v |-> 1]>> [] OTHER -> <<K("COMMA")>>) \o
                   Inline(n.c[i + 1], Loose)
    IN  IF n.c[1].n # "literal" THEN Inline(n.c[1], 0) \o Parens(args)
        ELSE CASE type = "tuple" -> <<K("APOSTROPHE")>> \o Parens(args)
               [] type = "list" -> <<K("LEFT_BRACKET")>> \o args \o <<K("RIGHT_BRACKET")>>
               [] type = "map" -> <<K("LEFT_BRACE")>> \o Gather(Len(n.c) - 1, pair) \o <<K("RIGHT_BRACE")>>

\* A condition or another optional part of a head; the last one of a line needs no semicolon.
Option(n, last) == (IF n.n = "none" THEN <<>> ELSE Commas(n, 1, Len(n.c))) \o (IF last THEN <<>> ELSE <<K("SEMICOLON")>>)

Target(n) == Inline(n.c[1], 0)
Brackets(n) == Target(n) \o <<K("LEFT_BRACKET")>> \o Inline(n.c[2], Loose) \o <<K("RIGHT_BRACKET")>>
Indirect(n) == Parens(Inline(n.c[2], Loose))
Assign(ts, value) == ts \o <<K("EQUAL")>> \o Inline(value, Loose)
Dot(n, ts) == Target(n) \o <<K("DOT")>> \o ts
Suffix(n) == IF n.n = "class" THEN "@" ELSE "^"
Jump(t, n) == <<K(t)>> \o (IF IsNull(n.c[1]) THEN <<>> ELSE Inline(n.c[1], Loose))

\* A minus before a number would make a literal of both.
Unary(n) == <<K(Mark[n.a])>> \o (IF n.c[1].n = "literal" THEN Parens(Bare(n.c[1])) ELSE Inline(n.c[1], 1))

CatchClause(n, k) == <<K("CATCH")>> \o Inline(n.c[2 * k + 1], Loose) \o Symbol(n.a[k])
TryExpression(n) ==
    LET clause(k) == CatchClause(n, k) \o Inline(n.c[2 * k + 2], Loose)
    IN  <<K("TRY")>> \o Inline(n.c[1], Loose) \o Gather(Len(n.a), clause) \o
        (IF n.c[2].n = "none" THEN <<>> ELSE <<K("FINALLY")>> \o Inline(n.c[2], Loose))

Bare(n) ==
    CASE n.n = "nodes" -> Parens(Commas(n, 1, Len(n.c)))
      [] n.n = "literal" -> Literal(n.a)
      [] n.n = "symbol_get" -> Outer(n.a.outer) \o Symbol(n.a.symbol)
      [] n.n = "scope_put" -> Assign(Outer(n.a.outer) \o Symbol(n.a.symbol), n.c[1])
      [] n.n = "self" -> Outer(n.a) \o <<[t |-> "SELF", v |-> <<>>]>>
      [] n.n \in {"class", "super"} ->
            IF n.c[1].n = "self" THEN Outer(n.c[1].a) \o <<[t |-> "SELF", v |-> <<Suffix(n)>>]>>
            ELSE Dot(n, <<K(IF n.n = "class" THEN "ATMARK" ELSE "HAT")>>)
      [] n.n = "object_get" -> IF n.c[1].n = "self" THEN Target(n) \o Symbol(n.a) ELSE Dot(n, Symbol(n.a))
      [] n.n = "object_put" -> Assign(IF n.c[1].n = "self" THEN Target(n) \o Symbol(n.a) ELSE Dot(n, Symbol(n.a)), n.c[2])
      [] n.n = "object_has" -> Dot(n, <<K("QUESTION")>> \o Symbol(n.a))
      [] n.n = "object_get_indirect" -> Dot(n, Indirect(n))
      [] n.n = "object_put_indirect" -> Assign(Dot(n, Indirect(n)), n.c[3])
      [] n.n = "object_has_indirect" -> Dot(n, <<K("QUESTION")>> \o Indirect(n))
      [] n.n = "call" -> Call(n)
      [] n.n = "get_at" -> Brackets(n)
      [] n.n = "set_at" -> Assign(Brackets(n), n.c[3])
      [] n.n = "unary" -> Unary(n)
      [] n.n = "binary" -> Inline(n.c[1], Tight(n.a)) \o <<K(Mark[n.a])>> \o Inline(n.c[2], Tight(n.a) - 1)
      [] Also(n) -> Inline(n.c[1], 10) \o <<K("AND_ALSO")>> \o Inline(n.c[2], 9)
      [] Else(n) -> Inline(n.c[1], 11) \o <<K("OR_ELSE")>> \o Inline(n.c[3], 10)
      [] n.n = "if" -> Inline(n.c[1], 11) \o <<K("QUESTION")>> \o Inline(n.c[2], 12) \o <<[t |-> "COLON", v |-> 1]>> \o Inline(n.c[3], 12)
      [] n.n = "while" -> <<K("WHILE")>> \o Option(n.c[1], FALSE) \o Inline(n.c[2], Loose)
      [] n.n = "for" -> <<K("FOR")>> \o Option(n.c[1], FALSE) \o Option(n.c[2], FALSE) \o Option(n.c[3], FALSE) \o Inline(n.c[4], Loose)
      [] n.n = "try" -> TryExpression(n)
      [] n.n = "lambda" -> <<K("ATMARK")>> \o Parameters(n) \o Inline(n.c[1], Loose)
      [] n.n = "break" -> Jump("BREAK", n)
      [] n.n = "continue" -> <<K("CONTINUE")>>
      [] n.n = "return" -> Jump("RETURN", n)
      [] n.n = "throw" -> Jump("THROW", n)

\* A line is its indentation and its tokens.
Opening(in, ts) == <<[in |-> in, ts |-> ts]>>
Body(n, in) == LET lines(k) == Lines(n.c[k], in + 1) IN Gather(Len(n.c), lines)
Block(n) == n.n = "nodes" /\ n.c # <<>>

Clauses(n, in) ==
    LET clause(k) == Opening(in, CatchClause(n, k)) \o Body(n.c[2 * k + 2], in)
    IN  Gather(Len(n.a), clause) \o (IF n.c[2].n = "none" THEN <<>> ELSE Opening(in, <<K("FINALLY")>>) \o Body(n.c[2], in))

Lines(n, in) ==
    CASE n.n = "if" /\ Block(n.c[2]) ->
            Opening(in, <<K("IF")>> \o Option(n.c[1], TRUE)) \o Body(n.c[2], in) \o
            (IF IsNull(n.c[3]) THEN <<>> ELSE Opening(in, <<K("ELSE")>>) \o Body(n.c[3], in))
      [] n.n = "while" /\ Block(n.c[2]) -> Opening(in, <<K("WHILE")>> \o Option(n.c[1], TRUE)) \o Body(n.c[2], in)
      [] n.n = "for" /\ Block(n.c[4]) ->
            Opening(in, <<K("FOR")>> \o Option(n.c[1], FALSE) \o Option(n.c[2], FALSE) \o Option(n.c[3], TRUE)) \o Body(n.c[4], in)
      [] n.n = "try" /\ Block(n.c[1]) -> Opening(in, <<K("TRY")>>) \o Body(n.c[1], in) \o Clauses(n, in)
      [] n.n = "scope_put" /\ n.c[1].n = "lambda" /\ Block(n.c[1].c[1]) ->
            Opening(in, Outer(n.a.outer) \o Symbol(n.a.symbol) \o <<K("EQUAL"), K("ATMARK")>> \o Parameters(n.c[1])) \o
            Body(n.c[1].c[1], in)
      [] n.n \in {"return", "break"} /\ n.c[1].n \in {"if", "while", "for", "try"} /\ Level(n.c[1]) \notin {10, 11} ->
            LET inner == Lines(n.c[1], in) IN <<[inner[1] EXCEPT !.ts = <<K(IF n.n = "return" THEN "RETURN" ELSE "BREAK")>> \o @]>> \o Tail(inner)
      [] n.n = "scope_put" /\ n.c[1].n \in {"if", "while", "for", "try"} /\ Level(n.c[1]) \notin {10, 11} ->
            LET inner == Lines(n.c[1], in)
            IN  <<[inner[1] EXCEPT !.ts = Outer(n.a.outer) \o Symbol(n.a.symbol) \o <<K("EQUAL")>> \o @]>> \o Tail(inner)
      [] OTHER -> Opening(in, Inline(n, Loose))

(***************************************************************************)
(* The characters.  Every third line is followed by a comment that is      *)
(* deeper, every third one ends in a comment, and every third one is       *)
(* followed by a line with nothing but some blanks.                        *)
(***************************************************************************)
Spelt == [EXCLAMATION |-> "!", PERCENT |-> "%", AMPERSAND |-> "&", APOSTROPHE |-> "'", LEFT_PARENTHESIS |-> "(",
    RIGHT_PARENTHESIS |-> ")", ASTERISK |-> "*", PLUS |-> "+", COMMA |-> ",", HYPHEN |-> "-", DOT |-> ".", SLASH |-> "/",
    SEMICOLON |-> ";", LESS |-> "<", EQUAL |-> "=", GREATER |-> ">", QUESTION |-> "?", ATMARK |-> "@", LEFT_BRACKET |-> "[",
    RIGHT_BRACKET |-> "]", HAT |-> "^", LEFT_BRACE |-> "{", BAR |-> "|", RIGHT_BRACE |-> "}", TILDE |-> "~", LEFT_SHIFT |-> "<<",
    RIGHT_SHIFT |-> ">>", EQUALS |-> "==", NOT_EQUALS |-> "!=", IDENTICAL |-> "===", NOT_IDENTICAL |-> "!==", LESS_EQUAL |-> "<=",
    GREATER_EQUAL |-> ">=", AND_ALSO |-> "&&", OR_ELSE |-> "||", NULL |-> "null",
    BREAK |-> "break", CONTINUE |-> "continue", RETURN |-> "return", THROW |-> "throw",
    WHILE |-> "while", FOR |-> "for", TRY |-> "try", CATCH |-> "catch", FINALLY |-> "finally"] @@
    ("TRUE" :> "true") @@ ("FALSE" :> "false") @@ ("IF" :> "if") @@ ("ELSE" :> "else")
Times(x, n) == LET f[k \in 0 .. n] == IF k = 0 THEN "" ELSE f[k - 1] \o x IN f[n]
Spell(token) ==
    CASE token.t = "SYMBOL" -> token.v
      [] token.t = "INTEGER" -> ToString(token.v)
      [] token.t = "FLOAT" -> ToString(token.v) \o ".0"
      [] token.t = "STRING" -> "\"" \o token.v \o "\""
      [] token.t = "COLON" -> Times(":", token.v)
      [] token.t = "SELF" -> FoldLeft(LAMBDA s, c : s \o c, "$", token.v)
      [] OTHER -> Spelt[token.t]

\* No space after an opening bracket or before a closing one, a comma, or the
\* arguments of a call.
Space(a, b) ==
    IF a.t \in {"LEFT_PARENTHESIS", "LEFT_BRACKET", "APOSTROPHE", "DOT"}
       \/ b.t \in {"RIGHT_PARENTHESIS", "RIGHT_BRACKET", "COMMA", "SEMICOLON", "LEFT_PARENTHESIS", "LEFT_BRACKET"} THEN "" ELSE " "
SpellLine(line, l) ==
    LET ts == line.ts
        f[k \in 1 .. Len(ts)] == IF k = 1 THEN Spell(ts[1]) ELSE f[k - 1] \o Space(ts[k - 1], ts[k]) \o Spell(ts[k])
    IN  Times("\t", line.in) \o f[Len(ts)] \o
        (CASE l % 3 = 0 -> "\n\t\t\t\t\t# comment\n" [] l % 3 = 1 -> " # comment\n" [] l % 3 = 2 -> "\n\t\n")
Text(body) ==
    LET lines == Body(body, -1)
        f[l \in 0 .. Len(lines)] == IF l = 0 THEN "" ELSE f[l - 1] \o SpellLine(lines[l], l)
    IN  f[Len(lines)]

\* A tree without what parentheses, blocks and the analysis of scopes add to it.
RECURSIVE Erase(_)
Erase(n) ==
    LET children == [k \in 1 .. Len(n.c) |-> Erase(n.c[k])]
    IN  CASE n.n = "nodes" /\ Len(n.c) = 1 -> children[1]
          [] n.n = "lambda" -> Node("lambda", [arguments |-> n.a.arguments, variadic |-> n.a.variadic], children)
          [] OTHER -> Node(n.n, n.a, children)
=============================================================================
