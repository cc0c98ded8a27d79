------------------------------- MODULE Values -------------------------------
(***************************************************************************)
(* The values of a script and the operators on those that are not objects. *)
(* A value is a tuple whose first element is its tag: <<"null">>,          *)
(* <<"true">>, <<"integer", 3>>, <<"float", 3>>; every other tag is that   *)
(* of an object.  A float is a whole number here.                          *)
(***************************************************************************)
EXTENDS Integers, Sequences, FiniteSets
LOCAL INSTANCE Bitwise

\* The width of intptr_t.
CONSTANT Width
ASSUME WidthAssumption == Width \in Nat \ {0}

Signed(x) == ((x + 2^(Width - 1)) % 2^Width) - 2^(Width - 1)
Unsigned(x) == x % 2^Width

Null == <<"null">>
Bool(b) == IF b THEN <<"true">> ELSE <<"false">>
Integer(x) == <<"integer", Signed(x)>>
Float(x) == <<"float", x>>
f_tag(v) == v[1]
IsNumber(v) == f_tag(v) \in {"integer", "float"}
IsObject(v) == f_tag(v) \notin {"null", "false", "true", "integer", "float"}

\* What an operation that throws "not supported." leaves instead of a value.
NotSupported == <<"not supported.">>

\* f_as<bool>: null and false are false.
f_as_bool(v) == f_tag(v) \notin {"null", "false"}

\* Division in C++ truncates, and the remainder takes the sign of x.
Quotient(x, y) == LET q == (IF x < 0 THEN -x ELSE x) \div (IF y < 0 THEN -y ELSE y)
                  IN  IF (x < 0) = (y < 0) THEN q ELSE -q
Remainder(x, y) == x - y * Quotient(x, y)

Number(a, b, x) == IF f_tag(a) = "integer" /\ f_tag(b) = "integer" THEN Integer(x) ELSE Float(x)

Arithmetic == {"MULTIPLY", "DIVIDE", "ADD", "SUBTRACT", "LESS", "LESS_EQUAL", "GREATER", "GREATER_EQUAL"}
Integral == {"MODULUS", "LEFT_SHIFT", "RIGHT_SHIFT"}
Equality == {"EQUALS", "NOT_EQUALS"}
Identity == {"IDENTICAL", "NOT_IDENTICAL"}
BitOperators == {"AND", "XOR", "OR"}

f_arithmetic(op, a, b) ==
    LET x == a[2]  y == b[2]
    IN  CASE op = "MULTIPLY" -> Number(a, b, x * y)
          [] op = "DIVIDE" -> Number(a, b, Quotient(x, y))
          [] op = "ADD" -> Number(a, b, x + y)
          [] op = "SUBTRACT" -> Number(a, b, x - y)
          [] op = "LESS" -> Bool(x < y)
          [] op = "LESS_EQUAL" -> Bool(x <= y)
          [] op = "GREATER" -> Bool(x > y)
          [] op = "GREATER_EQUAL" -> Bool(x >= y)

Bits(op, x, y) == CASE op = "AND" -> x & y [] op = "XOR" -> x ^^ y [] op = "OR" -> x | y

\* The left operand is unsigned.
f_integral(op, a, b) ==
    LET x == Unsigned(a[2])  y == Unsigned(b[2])
    IN  CASE op = "MODULUS" -> Integer(x % y)
          [] op = "LEFT_SHIFT" -> Integer(x * 2^y)
          [] op = "RIGHT_SHIFT" -> Integer(x \div 2^y)
          [] OTHER -> Integer(Bits(op, x, y))

f_same(a, b) == IF IsNumber(a) /\ IsNumber(b) THEN a[2] = b[2] ELSE a = b

f_unary_value(op, a) ==
    CASE op = "NOT" -> Bool(~f_as_bool(a))
      [] op = "PLUS" /\ IsNumber(a) -> a
      [] op = "MINUS" /\ IsNumber(a) -> Number(a, a, -a[2])
      [] op = "COMPLEMENT" /\ f_tag(a) = "integer" -> Integer(-a[2] - 1)
      [] OTHER -> NotSupported

(***************************************************************************)
(* The operators at run time (code_operator.h) when a is not an object.    *)
(***************************************************************************)
f_binary_arithmetic(op, a, b) == IF IsNumber(a) /\ IsNumber(b) THEN f_arithmetic(op, a, b) ELSE NotSupported
f_binary_integral(op, a, b) ==
    IF f_tag(a) = "integer" /\ f_tag(b) = "integer" THEN f_integral(op, a, b) ELSE NotSupported
f_binary_equality(op, a, b) == Bool(f_same(a, b) = (op = "EQUALS"))
f_binary_identity(op, a, b) == Bool((a = b) = (op = "IDENTICAL"))

\* A boolean takes its other operand for one.
f_binary_bitwise(op, a, b) ==
    LET and == f_as_bool(a) /\ f_as_bool(b)
        or == f_as_bool(a) \/ f_as_bool(b)
    IN  IF f_tag(a) \notin {"false", "true"} THEN f_binary_integral(op, a, b)
        ELSE Bool(CASE op = "AND" -> and [] op = "OR" -> or [] op = "XOR" -> or /\ ~and)

\* constant says that b is a number in the instruction: the bitwise instructions
\* for that case have no branch for booleans.
f_binary_value(op, a, b, constant) ==
    CASE op \in Arithmetic -> f_binary_arithmetic(op, a, b)
      [] op \in Integral \/ (op \in BitOperators /\ constant) -> f_binary_integral(op, a, b)
      [] op \in BitOperators -> f_binary_bitwise(op, a, b)
      [] op \in Equality -> f_binary_equality(op, a, b)
      [] op \in Identity -> f_binary_identity(op, a, b)

\* The operators on two constants, computed by the emitter: the remainder is signed there.
f_fold_unary(op, a) == f_unary_value(op, a)
f_fold_integers(op, a, b) ==
    IF op = "MODULUS" THEN Integer(Remainder(a[2], b[2])) ELSE f_binary_value(op, a, b, FALSE)
f_fold_floats(op, a, b) ==
    IF op \in Integral \cup BitOperators THEN NotSupported ELSE f_binary_value(op, a, b, FALSE)
=============================================================================
