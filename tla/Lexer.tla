------------------------------- MODULE Lexer -------------------------------
(***************************************************************************)
(* t_lexer (lexer.cc): the tokens of a text.  A character is a string of   *)
(* length one, and the empty string is the end of the file.                *)
(*                                                                         *)
(* The state l of the lexer is the position i of v_c in the text, the      *)
(* blanks the current line starts with (v_indent), the token read last     *)
(* with its value, and whether it is the first one of its line.  A token   *)
(* ERROR stands for the lexical error thrown when it is reached.           *)
(***************************************************************************)
EXTENDS Values, TLC

Characters(s) == {SubSeq(s, k, k) : k \in 1 .. Len(s)}
Blank == Characters(" \t\r\f")
Digit == Characters("0123456789")
HexDigit == Digit \cup Characters("abcdefABCDEF")
Letter == Characters("abcdefghijklmnopqrstuvwxyzABCDEFGHIJKLMNOPQRSTUVWXYZ")
f_is_symbol == Letter \cup Digit \cup {"_"}

At(l, i) == IF i > Len(l.text) THEN "" ELSE SubSeq(l.text, i, i)
v_c(l) == At(l, l.i)
Move(l, n) == [l EXCEPT !.i = @ + n]

\* The position after the run of characters of a set that starts at i.
RECURSIVE Past(_, _, _)
Past(l, i, set) == IF At(l, i) \in set THEN Past(l, i + 1, set) ELSE i
Run(l, set) == SubSeq(l.text, l.i, Past(l, l.i, set) - 1)
LineEnd == {"\n", "#"}

Read(l, token, value, n) == [Move(l, n) EXCEPT !.token = token, !.value = value]
f_throw(l) == [l EXCEPT !.token = "ERROR"]

f_read_indent(l) == LET blanks == Run(l, Blank) IN [Move(l, Len(blanks)) EXCEPT !.indent = @ \o blanks]

RECURSIVE f_skip_line(_)
f_skip_line(l) ==
    CASE v_c(l) = "\n" -> Move(l, 1)
      [] v_c(l) = "" -> l
      [] OTHER -> f_skip_line(Move(l, 1))

\* Lines that are empty or a comment do not count before the first token.
RECURSIVE Start(_)
Start(l) ==
    LET m == f_read_indent(l)
    IN  IF v_c(m) \in LineEnd THEN Start(f_skip_line([m EXCEPT !.indent = ""])) ELSE m

\* The next line with a token on it: as far as both go, its blanks are those of
\* the line before.
RECURSIVE NextLine(_)
NextLine(l) ==
    LET m == f_skip_line(l)
        n == Len(l.indent)
        blanks == Run(m, Blank)
        k == IF Len(blanks) < n THEN Len(blanks) ELSE n
        q == f_read_indent(Move(m, k))
    IN  IF SubSeq(blanks, 1, k) # SubSeq(l.indent, 1, k) THEN f_throw(m)
        ELSE IF v_c(q) \in LineEnd THEN NextLine([q EXCEPT !.indent = SubSeq(@, 1, n)])
        ELSE IF k < n THEN [q EXCEPT !.indent = SubSeq(@, 1, k)] ELSE q

(***************************************************************************)
(* Operators: the longest one, of which every beginning is one as well.    *)
(***************************************************************************)
Marks ==
    [x \in {"!"} |-> "EXCLAMATION"] @@ ("!=" :> "NOT_EQUALS") @@ ("!==" :> "NOT_IDENTICAL") @@ ("%" :> "PERCENT") @@
    ("&" :> "AMPERSAND") @@ ("&&" :> "AND_ALSO") @@ ("'" :> "APOSTROPHE") @@ ("(" :> "LEFT_PARENTHESIS") @@
    (")" :> "RIGHT_PARENTHESIS") @@ ("*" :> "ASTERISK") @@ ("+" :> "PLUS") @@ ("," :> "COMMA") @@ ("-" :> "HYPHEN") @@
    ("." :> "DOT") @@ ("/" :> "SLASH") @@ (";" :> "SEMICOLON") @@ ("<" :> "LESS") @@ ("<<" :> "LEFT_SHIFT") @@
    ("<=" :> "LESS_EQUAL") @@ ("=" :> "EQUAL") @@ ("==" :> "EQUALS") @@ ("===" :> "IDENTICAL") @@ (">" :> "GREATER") @@
    (">=" :> "GREATER_EQUAL") @@ (">>" :> "RIGHT_SHIFT") @@ ("?" :> "QUESTION") @@ ("@" :> "ATMARK") @@
    ("[" :> "LEFT_BRACKET") @@ ("]" :> "RIGHT_BRACKET") @@ ("^" :> "HAT") @@ ("{" :> "LEFT_BRACE") @@ ("|" :> "BAR") @@
    ("||" :> "OR_ELSE") @@ ("}" :> "RIGHT_BRACE") @@ ("~" :> "TILDE")

Mark(l, n) == IF l.i + n - 1 <= Len(l.text) THEN SubSeq(l.text, l.i, l.i + n - 1) ELSE ""
f_mark(l) ==
    LET n == CHOOSE k \in 1 .. 3 : Mark(l, k) \in DOMAIN Marks /\ \A j \in k + 1 .. 3 : Mark(l, j) \notin DOMAIN Marks
    IN  Read(l, Marks[Mark(l, n)], "", n)

\* The escapes that TLA+ has no character for stand as they are written.
Escapes == [x \in Characters("0abv") |-> "\\" \o x] @@ [n |-> "\n", t |-> "\t", r |-> "\r", f |-> "\f"] @@
           [x \in Characters("\"\\") |-> x]
RECURSIVE f_string(_, _)
f_string(l, s) ==
    LET c == v_c(l)
        escape == v_c(Move(l, 1))
    IN  CASE c = "" -> f_throw(l)
          [] c = "\"" -> Read(l, "STRING", s, 1)
          [] c = "\\" -> IF escape \in DOMAIN Escapes THEN f_string(Move(l, 2), s \o Escapes[escape]) ELSE f_throw(l)
          [] OTHER -> f_string(Move(l, 1), s \o c)

Words == [break |-> "BREAK", catch |-> "CATCH", continue |-> "CONTINUE", else |-> "ELSE", false |-> "FALSE",
          finally |-> "FINALLY", for |-> "FOR", if |-> "IF", null |-> "NULL", return |-> "RETURN", throw |-> "THROW",
          true |-> "TRUE", try |-> "TRY", while |-> "WHILE"]
f_word(l) ==
    LET word == Run(l, f_is_symbol)
    IN  IF word \in DOMAIN Words THEN Read(l, Words[word], "", Len(word)) ELSE Read(l, "SYMBOL", word, Len(word))

(***************************************************************************)
(* Numbers.  A number that starts with 0 is octal or hexadecimal, and is   *)
(* cut to the width of an integer; a decimal one that does not fit is an   *)
(* error.  0 before a point is dropped.                                    *)
(***************************************************************************)
Buffer == 32
ValueOf(c) == (CHOOSE k \in 1 .. 22 : SubSeq("0123456789abcdefABCDEF", k, k) = c) - 1
DigitOf(c) == IF ValueOf(c) > 15 THEN ValueOf(c) - 6 ELSE ValueOf(c)
FromDigits(digits, base) ==
    LET f[k \in 0 .. Len(digits)] == IF k = 0 THEN 0 ELSE f[k - 1] * base + DigitOf(SubSeq(digits, k, k)) IN f[Len(digits)]
Masked(x) == x % 2^(Width - 1)

f_based(l) ==
    LET hex == v_c(l) \in {"X", "x"}
        m == IF hex THEN Move(l, 1) ELSE l
        digits == Run(m, IF hex THEN HexDigit ELSE Digit)
        bad == IF hex THEN digits = "" ELSE \E k \in 1 .. Len(digits) : SubSeq(digits, k, k) \in {"8", "9"}
    IN  IF bad THEN f_throw(m) ELSE Read(m, "INTEGER", Masked(FromDigits(digits, IF hex THEN 16 ELSE 8)), Len(digits))

\* The exponent at l with its sign, or nothing.
Exponent(l) ==
    LET sign == IF v_c(Move(l, 1)) \in {"+", "-"} THEN 2 ELSE 1
    IN  IF v_c(l) \in {"E", "e"} THEN SubSeq(l.text, l.i, l.i + sign - 1) \o Run(Move(l, sign), Digit) ELSE ""

\* std::from_chars for whole numbers: the fraction only has to be there.
f_float(l, digits) ==
    LET m == Move(l, 1 + Len(Run(Move(l, 1), Digit)))
        exponent == Exponent(m)
        length == Len(digits) + m.i - l.i + Len(exponent)
    IN  IF \/ exponent # "" /\ SubSeq(exponent, Len(exponent), Len(exponent)) \notin Digit
           \/ digits = "" /\ m.i = l.i + 1
           \/ length > Buffer
        THEN f_throw(m) ELSE Read(m, "FLOAT", FromDigits(digits, 10), Len(exponent))

f_decimal(l) ==
    LET digits == Run(l, Digit)
        m == Move(l, Len(digits))
    IN  IF v_c(m) = "." THEN f_float(m, digits)
        ELSE IF Len(digits) > Buffer \/ FromDigits(digits, 10) >= 2^(Width - 1) THEN f_throw(m)
        ELSE Read(m, "INTEGER", FromDigits(digits, 10), 0)

f_number(l) ==
    IF v_c(l) # "0" THEN f_decimal(l) ELSE IF v_c(Move(l, 1)) = "." THEN f_decimal(Move(l, 1)) ELSE f_based(Move(l, 1))

f_token(l) ==
    LET colons == Run(l, {":"})
        levels == Run(Move(l, 1), {"@", "^"})
    IN  CASE v_c(l) = "" -> Read(l, "EOF", "", 0)
          [] v_c(l) = ":" -> Read(l, "COLON", Len(colons), Len(colons))
          [] v_c(l) = "$" -> Read(l, "SELF", [k \in 1 .. Len(levels) |-> SubSeq(levels, k, k)], 1 + Len(levels))
          [] v_c(l) = "\"" -> f_string(Move(l, 1), "")
          [] v_c(l) \in Letter \cup {"_"} -> f_word(l)
          [] v_c(l) \in Digit -> f_number(l)
          [] v_c(l) \in DOMAIN Marks -> f_mark(l)
          [] OTHER -> f_throw(l)

f_next(l) ==
    LET m == Move(l, Len(Run(l, Blank)))
        newline == v_c(m) \in LineEnd
        q == IF newline THEN NextLine([m EXCEPT !.token = ""]) ELSE m
    IN  [IF q.token = "ERROR" THEN q ELSE f_token(q) EXCEPT !.newline = newline]

RECURSIVE Rest(_)
Rest(l) ==
    <<[t |-> l.token, v |-> l.value, nl |-> l.newline, in |-> Len(l.indent)]>> \o
    (IF l.token \in {"EOF", "ERROR"} THEN <<>> ELSE Rest(f_next(l)))

Tokens(text) ==
    Rest(f_next(Start([text |-> text, i |-> 1, indent |-> "", token |-> "", value |-> "", newline |-> FALSE])))
=============================================================================
