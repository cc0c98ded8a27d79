-------------------------------- MODULE Code --------------------------------
(***************************************************************************)
(* The life of a script: it is parsed and emitted (f_load_script), and its *)
(* instructions are executed (code.cc, code_operator.h, t_context, lambda).*)
(*                                                                         *)
(* estack is the stack of values of the fiber up to f_stack(); what lies   *)
(* above has no defined value when the stack grows over it again.  frames  *)
(* holds the contexts, each with the f_try calls that are active in it.    *)
(* A native function may answer true, false or by throwing: log records    *)
(* its calls.  estack, frames and status are those of the active fiber;    *)
(* the other ones are in fibers, and internals is the list of those that   *)
(* have been called and have not ended, the newest first.                  *)
(***************************************************************************)
EXTENDS Syntax, Types

CONSTANTS
    Sources,     \* the texts of the scripts
    Declared,    \* the types by name
    Objects,     \* the name of the type of each object
    Globals,     \* what the global module defines
    MaxCalls     \* after that many calls native functions answer false

ASSUME MaxCallsAssumption == MaxCalls \in Nat

X == INSTANCE Lexer
P == INSTANCE Parser
E == INSTANCE Emitter

VARIABLES source, codes, caches, estack, frames, scopes, fields, log, status, fibers, internals, active

others == <<fibers, internals, active>>
vars == <<source, codes, caches, estack, frames, scopes, fields, log, status, others>>
world == <<source, codes, caches, scopes, fields, log, others>>

Junk == <<"junk">>
Temporary == <<"T">>
Error(message) == <<"throwable", message>>

Running == [m |-> "run", v |-> Null, at |-> 0, n |-> 0]
Calling(callee, at, n) == [m |-> "call", v |-> callee, at |-> at, n |-> n]
Throwing(v) == [m |-> "throw", v |-> v, at |-> 0, n |-> 0]
Stopped(how, v) == [m |-> how, v |-> v, at |-> 0, n |-> 0]

\* A call has returned v: the context below goes on, or the fiber has nothing more to do.
After(contexts, v) == IF contexts = <<>> THEN Stopped("returned", v) ELSE Running

Top == frames[Len(frames)]
Fetch == codes[Top.code].instructions[Top.pc]
Execute(name) == status.m = "run" /\ Fetch.i = name
Label(l) == codes[Top.code].labels[l]

\* The values at positions relative to the base of the context.
Slot(k) == estack[Top.base + k + 1]
Slots(k, n) == SubSeq(estack, Top.base + k + 1, Top.base + k + n)
Set(k, v) == [estack EXCEPT ![Top.base + k + 1] = v]
Overwrite(stack, at, vs) == [i \in DOMAIN stack |-> IF i > at /\ i <= at + Len(vs) THEN vs[i - at] ELSE stack[i]]

\* f_stack__: the stack ends at n.
Resize(stack, n) == [i \in 1 .. n |-> IF i <= Len(stack) THEN stack[i] ELSE Junk]

Goto(pc) == frames' = [frames EXCEPT ![Len(frames)].pc = pc]
Step(stack) == estack' = stack /\ Goto(Top.pc + 1) /\ UNCHANGED status
Throw(v) == status' = Throwing(v) /\ UNCHANGED <<estack, frames>>

\* The thread starts in a fiber of its own.
Main == 1
FiberExit == <<"exit">>
t_fiber(callable) == [v_callable |-> callable, v_throw |-> FALSE, estack |-> <<>>, frames |-> <<>>, status |-> Running]

Init ==
    /\ source \in DOMAIN Sources
    /\ codes = <<>> /\ caches = <<>> /\ estack = <<>> /\ frames = <<>> /\ scopes = <<>> /\ log = <<>>
    /\ fields = [o \in DOMAIN Objects |-> [i \in 1 .. Declared[Objects[o]].instance |-> Null]]
    /\ status = Stopped("load", Null)
    /\ fibers = <<t_fiber(Null)>> /\ internals = <<Main>> /\ active = Main

\* t_module::f_load_script and f_execute_script.
Enter(c) ==
    IF c.err # "" THEN status' = Stopped("failed", Error(c.err)) /\ UNCHANGED <<codes, estack>>
    ELSE codes' = c.codes /\ estack' = <<Junk, <<"module">>>> /\ status' = Calling(<<"lambda", Len(c.codes), 0, <<>> >>, 0, 0)
Build(p) ==
    IF p.err # "" THEN status' = Stopped("syntax error", Error(p.err)) /\ UNCHANGED <<codes, estack>>
    ELSE Enter(E!Compile(p.body, p.scope))
f_load_script ==
    /\ status.m = "load"
    /\ Build(P!Parse(X!Tokens(Sources[source])))
    /\ UNCHANGED <<source, caches, frames, scopes, fields, log, others>>

JUMP == Execute("JUMP") /\ Goto(Label(Fetch.l)) /\ UNCHANGED <<estack, status, world>>

BRANCH ==
    /\ Execute("BRANCH")
    /\ Goto(IF f_as_bool(Slot(Fetch.s)) THEN Top.pc + 1 ELSE Label(Fetch.l))
    /\ UNCHANGED <<estack, status, world>>

(***************************************************************************)
(* f_try: the body, the catches once something was thrown, and finally.    *)
(* try0 is how the block ended, pending what is thrown again after finally.*)
(***************************************************************************)
Try == Last(Top.tries)
Entered(phase, try0, pending, pc) ==
    frames' = [frames EXCEPT ![Len(frames)].tries = Front(@) \o <<[Try EXCEPT !.phase = phase, !.try0 = try0, !.pending = pending]>>,
                             ![Len(frames)].pc = pc]
Leave(pc) == frames' = [frames EXCEPT ![Len(frames)].tries = Front(@), ![Len(frames)].pc = pc]

TRY ==
    /\ Execute("TRY")
    /\ LET t == [phase |-> "body", stack |-> Fetch.s, catch |-> Label(Fetch.catch), finally |-> Label(Fetch.finally),
                 try0 |-> "", pending |-> Junk]
       IN  frames' = [frames EXCEPT ![Len(frames)].tries = Append(@, t), ![Len(frames)].pc = @ + 1]
    /\ UNCHANGED <<estack, status, world>>

RECURSIVE f_derives(_, _)
f_derives(name, other) == name # "" /\ (name = other \/ f_derives(Declared[name].super, other))

TypeName(v) == IF f_tag(v) = "object" THEN Objects[v[2]] ELSE v[1]
f_type(v) == Declared[TypeName(v)]

CATCH ==
    /\ Execute("CATCH")
    /\ LET type == Slot(Try.stack)
           thrown == Try.pending
       IN  IF f_tag(type) # "type" THEN Throw(Error("type")) /\ UNCHANGED world
           ELSE IF thrown = FiberExit \/ ~f_derives(TypeName(thrown), type[2])
           THEN Goto(Label(Fetch.l)) /\ UNCHANGED <<estack, status, world>>
           ELSE /\ IF Fetch.shared
                   THEN scopes' = [scopes EXCEPT ![Top.scope].entries[Fetch.x + 1] = thrown] /\ UNCHANGED estack
                   ELSE estack' = Set(Fetch.x, thrown) /\ UNCHANGED scopes
                /\ Goto(Top.pc + 1)
                /\ UNCHANGED <<status, source, codes, caches, fields, log, others>>

FINALLY ==
    /\ Execute("FINALLY")
    /\ Entered("finally", Fetch.try, IF Fetch.try = "THROW" THEN Try.pending ELSE Junk, Try.finally)
    /\ UNCHANGED <<estack, status, world>>

YRT ==
    /\ Execute("YRT")
    /\ IF Try.pending # Junk THEN Leave(Top.pc) /\ status' = Throwing(Try.pending)
       ELSE /\ Leave(CASE Try.try0 = "BREAK" -> Label(Fetch.brk) [] Try.try0 = "CONTINUE" -> Label(Fetch.cont)
                       [] Try.try0 = "RETURN" -> Label(Fetch.ret) [] OTHER -> Top.pc + 1)
            /\ UNCHANGED status
    /\ UNCHANGED <<estack, world>>

\* An exception reaches the innermost f_try, or leaves the context (t_context::f_loop).
Unwind ==
    /\ status.m = "throw"
    /\ IF frames = <<>> THEN status' = Stopped("thrown", status.v) /\ UNCHANGED <<estack, frames>>
       ELSE IF Top.tries = <<>>
       THEN estack' = Resize(SubSeq(estack, 1, Top.base - 1), Top.previous) /\ frames' = Front(frames) /\ UNCHANGED status
       ELSE IF Try.phase = "body"
       THEN Entered("catch", "", status.v, Try.catch) /\ status' = Running /\ UNCHANGED estack
       ELSE IF Try.phase = "catch"
       THEN Entered("finally", "THROW", status.v, Try.finally) /\ status' = Running /\ UNCHANGED estack
       ELSE Leave(Top.pc) /\ UNCHANGED <<estack, status>>
    /\ UNCHANGED world

THROW == Execute("THROW") /\ Throw(Slot(Fetch.s)) /\ UNCHANGED world

(***************************************************************************)
(* Fields: each instruction keeps an index.                                *)
(***************************************************************************)
Cached == IF <<Top.code, Top.pc>> \in DOMAIN caches THEN caches[<<Top.code, Top.pc>>] ELSE 0
Keep(found) == caches' = (<<Top.code, Top.pc>> :> found.index) @@ caches
f_is_bindable(v) == f_tag(v) \in {"lambda", "native"}
FieldAt(v, place) == IF place[1] = "instance" THEN fields[v[2]][place[2] + 1] ELSE f_type(v).fields[place[2] + 1][2]

\* The key is in the instruction or on the stack after the object.
Key(direct) == IF Fetch.i = direct THEN Fetch.x ELSE Slot(Fetch.s + 1)[2]

OBJECT_GET ==
    /\ Execute("OBJECT_GET") \/ Execute("OBJECT_GET_INDIRECT")
    /\ LET top == Slot(Fetch.s)
           found == f_get(f_type(top), Key("OBJECT_GET"), Cached)
           field == FieldAt(top, found.place)
       IN  /\ Keep(found)
           /\ IF found.place = Undefined THEN Throw(Error("undefined field"))
              ELSE Step(Set(Fetch.s, IF found.place[1] = "class" /\ f_is_bindable(field) THEN <<"method", field, top>> ELSE field))
    /\ UNCHANGED <<source, codes, scopes, fields, log, others>>

OBJECT_PUT ==
    /\ Execute("OBJECT_PUT") \/ Execute("OBJECT_PUT_INDIRECT")
    /\ LET top == Slot(Fetch.s)
           found == f_put(f_type(top), Key("OBJECT_PUT"), Cached)
           value == IF Fetch.i = "OBJECT_PUT" THEN Slot(Fetch.s + 1) ELSE Slot(Fetch.s + 2)
       IN  IF ~IsObject(top) THEN Throw(Error("not supported.")) /\ UNCHANGED <<caches, fields>>
           ELSE IF found.place = Undefined THEN Throw(Error("undefined field")) /\ UNCHANGED <<caches, fields>>
           ELSE Keep(found) /\ fields' = [fields EXCEPT ![top[2]][found.place[2] + 1] = value] /\ Step(Set(Fetch.s, value))
    /\ UNCHANGED <<source, codes, scopes, log, others>>

OBJECT_HAS ==
    /\ Execute("OBJECT_HAS") \/ Execute("OBJECT_HAS_INDIRECT")
    /\ LET found == f_has(f_type(Slot(Fetch.s)), Key("OBJECT_HAS"), Cached)
       IN  Keep(found) /\ Step(Set(Fetch.s, Bool(found.place # Undefined)))
    /\ UNCHANGED <<source, codes, scopes, fields, log, others>>

METHOD_GET ==
    /\ Execute("METHOD_GET")
    /\ LET top == Slot(Fetch.s)
           found == f_bind(f_type(top), Fetch.x, Cached)
           field == FieldAt(top, found.place)
           self == IF found.place[1] = "class" /\ f_is_bindable(field) THEN top ELSE Null
       IN  /\ Keep(found)
           /\ IF found.place = Undefined THEN Throw(Error("undefined field"))
              ELSE Step(Overwrite(estack, Top.base + Fetch.s, <<field, self>>))
    /\ UNCHANGED <<source, codes, scopes, fields, log, others>>

GLOBAL_GET ==
    /\ Execute("GLOBAL_GET")
    /\ IF Fetch.x \in DOMAIN Globals THEN Step(Set(Fetch.s, Globals[Fetch.x])) ELSE Throw(Error("undefined field"))
    /\ UNCHANGED world

(***************************************************************************)
(* Variables, on the stack or in scope objects.                            *)
(***************************************************************************)
RECURSIVE f_outer(_, _)
f_outer(scope, k) == IF k = 0 THEN scope ELSE f_outer(scopes[scope].outer, k - 1)

\* The lambda of the context knows the scope it was made in.
ScopeAt(outer) == IF outer = 0 THEN Top.scope ELSE f_outer(Top.lambda[3], outer - 1)

STACK_GET == Execute("STACK_GET") /\ Step(Set(Fetch.s, Slot(Fetch.x))) /\ UNCHANGED world
STACK_PUT == Execute("STACK_PUT") /\ Step(Set(Fetch.x, Slot(Fetch.s))) /\ UNCHANGED world

SCOPE_GET ==
    /\ Execute("SCOPE_GET")
    /\ Step(Set(Fetch.s, scopes[ScopeAt(Fetch.outer)].entries[Fetch.x + 1]))
    /\ UNCHANGED world

SCOPE_PUT ==
    /\ Execute("SCOPE_PUT")
    /\ scopes' = [scopes EXCEPT ![ScopeAt(Fetch.outer)].entries[Fetch.x + 1] = Slot(Fetch.s)]
    /\ Step(estack)
    /\ UNCHANGED <<source, codes, caches, fields, log, others>>

\* LAMBDA and ADVANCED_LAMBDA: the default values are taken from the stack.
ADVANCED_LAMBDA ==
    /\ Execute("LAMBDA")
    /\ LET code == codes[Fetch.code]
           n == code.arguments - code.minimum - (IF code.variadic THEN 1 ELSE 0)
       IN  Step(Set(Fetch.s, <<"lambda", Fetch.code, Top.scope, Slots(Fetch.s, n)>>))
    /\ UNCHANGED world

SELF == Execute("SELF") /\ Step(Set(Fetch.s, Slot(-1))) /\ UNCHANGED world

CLASS == Execute("CLASS") /\ Step(Set(Fetch.s, <<"type", TypeName(Slot(Fetch.s))>>)) /\ UNCHANGED world

SUPER ==
    /\ Execute("SUPER")
    /\ LET top == Slot(Fetch.s)
       IN  IF f_tag(top) # "type" THEN Throw(Error("not class."))
           ELSE IF Declared[top[2]].super = "" THEN Throw(Error("no more super class."))
           ELSE Step(Set(Fetch.s, <<"type", Declared[top[2]].super>>))
    /\ UNCHANGED world

\* NUL, INTEGER, FLOAT and INSTANCE.
VALUE == Execute("VALUE") /\ Step(Set(Fetch.s, Fetch.v)) /\ UNCHANGED world

\* Mutant: the stack ends at the result.
ReturnShort(v) ==
    /\ estack' = Append(SubSeq(estack, 1, Top.base - 2), v)
    /\ frames' = Front(frames)
    /\ status' = After(Front(frames), v)

\* The result goes below the base, and the stack ends where it did at the call.
Return(v) ==
    /\ estack' = Resize(Append(SubSeq(estack, 1, Top.base - 2), v), Top.previous)
    /\ frames' = Front(frames)
    /\ status' = After(Front(frames), v)

RETURN == Execute("RETURN") /\ Return(Slot(Fetch.s)) /\ UNCHANGED world
RETURN_VALUE == Execute("RETURN_VALUE") /\ Return(Fetch.v) /\ UNCHANGED world

(***************************************************************************)
(* Calls: the function, self and the arguments lie on the stack.  A tail   *)
(* call moves them down to where the context itself was called and leaves  *)
(* it: the caller's loop then makes the call (f_tail, f_loop).             *)
(***************************************************************************)
\* Mutant: the context stays.
f_tailNested(stack, k, n) ==
    estack' = stack /\ Goto(Top.pc + 1) /\ status' = Calling(stack[Top.base + k + 1], Top.base + k, n)

f_tail(stack, k, n) ==
    LET moved == SubSeq(stack, Top.base + k + 1, Top.base + k + n + 2)
        end == IF Top.previous > Top.base + n THEN Top.previous ELSE Top.base + n
    IN  /\ estack' = Resize(SubSeq(stack, 1, Top.base - 2) \o moved, end)
        /\ frames' = Front(frames)
        /\ status' = Calling(moved[1], Top.base - 2, n)

f_call(stack, callee, k, n) ==
    /\ estack' = stack
    /\ Goto(Top.pc + 1)
    /\ status' = Calling(callee, Top.base + k, n)

Invoke(stack, k, n) == IF Fetch.tail THEN f_tail(stack, k, n) ELSE f_call(stack, stack[Top.base + k + 1], k, n)

\* f_expand: the elements of tuples and lists in place of the marked arguments.
\* Any other value is expanded through its methods size and [], which no type
\* declared here has: then it is an error, as where Expandable is false.
f_expand(args, marks) ==
    FlattenSeq([i \in 1 .. Len(args) |-> IF i \in marks THEN args[i][2] ELSE <<args[i]>>])

Arguments == Slots(Fetch.s + 2, Fetch.n)
Expandable == \A i \in Fetch.expands : f_tag(Arguments[i]) \in {"tuple", "list"}
Expanded == f_expand(Arguments, Fetch.expands)

\* A variable is called without a copy of it on the stack.
Callee ==
    CASE Fetch.x[1] = "top" -> Slot(Fetch.s)
      [] Fetch.x[1] = "stack" -> Slot(Fetch.x[2])
      [] Fetch.x[1] = "scope" -> scopes[ScopeAt(Fetch.x[2])].entries[Fetch.x[3] + 1]

\* The stack with the function, self and all the arguments; expansion may grow it.
Passing(function) ==
    LET at == Top.base + Fetch.s
        end == at + 2 + Len(Expanded)
        grown == Resize(estack, IF end > Len(estack) THEN end ELSE Len(estack))
    IN  IF Fetch.x[1] = "top" THEN Overwrite(grown, at + 2, Expanded) ELSE Overwrite(estack, at, <<function, Null>>)

CALL ==
    /\ Execute("CALL") /\ ~Fetch.tail
    /\ IF Expandable THEN f_call(Passing(Slot(Fetch.s)), Callee, Fetch.s, Len(Expanded)) ELSE Throw(Error("undefined field"))
    /\ UNCHANGED world

CALL_TAIL ==
    /\ Execute("CALL") /\ Fetch.tail
    /\ IF Expandable THEN f_tail(Passing(Callee), Fetch.s, Len(Expanded)) ELSE Throw(Error("undefined field"))
    /\ UNCHANGED world

(***************************************************************************)
(* The operators.  Those of an object are methods of its type: the method  *)
(* and the object are put below the operands.                              *)
(***************************************************************************)
Finish(v) == IF Fetch.tail THEN Return(v) ELSE Step(Set(Fetch.s, v))
FinishOrThrow(v) == IF v = NotSupported THEN Throw(Error("not supported.")) ELSE Finish(v)

\* XEMMAI__CODE__FETCH: k is where the operand is when it is a temporary.
OperandValue(op, k) == CASE op[1] = "V" -> Slot(op[2]) [] op = Temporary -> Slot(k) [] OTHER -> op[2]

\* XEMMAI__CODE__OBJECT_CALL
MethodCall(method, object, operands) ==
    Invoke(Overwrite(estack, Top.base + Fetch.s, <<(<<"native", method>>), object>> \o operands), Fetch.s, Len(operands))

UNARY ==
    /\ Execute("UNARY")
    /\ LET a0 == OperandValue(Fetch.l, Fetch.s + 1)
       IN  IF f_tag(a0) = "object" /\ Fetch.op # "NOT" THEN MethodCall(Fetch.op, a0, <<>>)
           ELSE FinishOrThrow(f_unary_value(Fetch.op, a0))
    /\ UNCHANGED world

BINARY ==
    /\ Execute("BINARY")
    /\ LET a0 == OperandValue(Fetch.l, Fetch.s + 1)
           a1 == OperandValue(Fetch.r, Fetch.s + 2)
           method == f_tag(a0) = "object" /\ Fetch.op \notin Identity /\ ~(Fetch.op \in Equality /\ a0 = a1)
       IN  IF method THEN MethodCall(Fetch.op, a0, <<a1>>)
           ELSE FinishOrThrow(f_binary_value(Fetch.op, a0, a1, Fetch.r[1] \in {"I", "F"}))
    /\ UNCHANGED world

\* f_get_at of the types that are no classes of a script.
f_get_at(v, index) ==
    CASE f_is_bindable(v) -> <<"method", v, index>>
      [] f_tag(v) \in {"tuple", "list"} ->
            IF f_tag(index) # "integer" THEN Error("index")
            ELSE IF index[2] \in 0 .. Len(v[2]) - 1 THEN v[2][index[2] + 1] ELSE Error("out of range.")
      [] OTHER -> Error("not supported.")
FinishAt(v) == IF f_tag(v) = "throwable" THEN Throw(v) ELSE Finish(v)

GET_AT ==
    /\ Execute("GET_AT")
    /\ LET a0 == Slot(Fetch.s + 1)
       IN  IF f_tag(a0) = "object" THEN MethodCall("GET_AT", a0, Slots(Fetch.s + 2, 1))
           ELSE FinishAt(f_get_at(a0, Slot(Fetch.s + 2)))
    /\ UNCHANGED world

SET_AT ==
    /\ Execute("SET_AT")
    /\ LET a0 == Slot(Fetch.s + 1)
       IN  IF f_tag(a0) = "object" THEN MethodCall("SET_AT", a0, Slots(Fetch.s + 2, 2)) ELSE Throw(Error("not supported."))
    /\ UNCHANGED world

(***************************************************************************)
(* A native function: what it answers and what it was called with.  It may *)
(* use the stack above its end before it reads its arguments.              *)
(***************************************************************************)
Show(v) == IF f_tag(v) \in {"lambda", "method"} THEN <<f_tag(v)>> ELSE v
Answers == IF Len(log) < MaxCalls THEN {"false", "true", "throw"} ELSE {"false"}
Record(f, self, args, answer) ==
    log' = Append(log, [f |-> f, self |-> Show(self), args |-> [i \in 1 .. Len(args) |-> Show(args[i])], answer |-> answer])

\* The item takes the place of the object, or the index is self of the function.
Bound(v) == Step(Overwrite(estack, Top.base + Fetch.s, <<v, Null>>))
METHOD_BIND ==
    /\ Execute("METHOD_BIND")
    /\ LET top == Slot(Fetch.s)
           index == Slot(Fetch.s + 1)
           above == Top.base + Fetch.s + 2 >= Len(estack)
           item == f_get_at(top, index)
       IN  IF f_tag(top) = "object"
           THEN \E answer \in Answers :
                /\ Record("GET_AT", top, <<IF above THEN Junk ELSE index>>, answer)
                /\ IF answer = "throw" THEN Throw(Error("native")) ELSE Bound(<<answer>>)
           ELSE /\ IF f_is_bindable(top) THEN Step(estack) ELSE IF f_tag(item) = "throwable" THEN Throw(item) ELSE Bound(item)
                /\ UNCHANGED log
    /\ UNCHANGED <<source, codes, caches, scopes, fields, others>>

(***************************************************************************)
(* The call of the function status.v with n arguments above at (f_loop).   *)
(***************************************************************************)
Called(tag) == status.m = "call" /\ f_tag(status.v) = tag
Current == <<"native", "current">>
Fiber == <<"type", "fiber">>
Args == SubSeq(estack, status.at + 3, status.at + 2 + status.n)

\* t_lambda, t_advanced_lambda: the arguments as the code expects them, or an error.
Arity(code, defaults) ==
    LET n == status.n
        fixed == IF code.variadic THEN code.arguments - 1 ELSE code.arguments
        missing == IF n < fixed THEN SubSeq(defaults, n - code.minimum + 1, Len(defaults)) ELSE <<>>
        rest == IF code.variadic THEN <<(<<"tuple", SubSeq(Args, fixed + 1, n)>>)>> ELSE <<>>
    IN  IF ~code.variadic /\ defaults = <<>>
        THEN IF n = code.arguments THEN <<"arguments", Args>> ELSE Error("invalid number of arguments.")
        ELSE IF n < code.minimum THEN Error("too few arguments.")
        ELSE IF ~code.variadic /\ n > fixed THEN Error("too many arguments.")
        ELSE <<"arguments", SubSeq(Args, 1, IF n < fixed THEN n ELSE fixed) \o missing \o rest>>

CallLambda ==
    /\ Called("lambda")
    /\ LET lambda == status.v
           code == codes[lambda[2]]
           args == Arity(code, lambda[4])
           base == status.at + 2
       IN  IF f_tag(args) # "arguments" THEN Throw(args) /\ UNCHANGED scopes
           ELSE /\ estack' = Resize(SubSeq(estack, 1, base) \o args[2], base + code.size)
                /\ frames' = Append(frames, [code |-> lambda[2], pc |-> 1, base |-> base, previous |-> Len(estack),
                                             scope |-> IF code.shared THEN Len(scopes) + 1 ELSE 0, lambda |-> lambda, tries |-> <<>>])
                /\ scopes' = IF code.shared
                             THEN Append(scopes, [outer |-> lambda[3], entries |-> [i \in 1 .. code.shareds |-> Null]]) ELSE scopes
                /\ status' = Running
    /\ UNCHANGED <<source, codes, caches, fields, log, others>>

\* A bound method passes self.
CallMethod ==
    /\ Called("method")
    /\ estack' = [estack EXCEPT ![status.at + 2] = status.v[3]]
    /\ status' = [status EXCEPT !.v = @[2]]
    /\ UNCHANGED <<frames, world>>

\* The call being made returns v.
Answer(v) == estack' = [estack EXCEPT ![status.at + 1] = v] /\ status' = After(frames, v) /\ UNCHANGED frames

CallNative ==
    /\ Called("native") /\ status.v # Current
    /\ \E answer \in Answers :
        /\ Record(status.v[2], estack[status.at + 2], Args, answer)
        /\ IF answer = "throw" THEN Throw(Error("native")) ELSE Answer(<<answer>>)
    /\ UNCHANGED <<source, codes, caches, scopes, fields, others>>

\* Tuples, lists and maps are made by calling their types; an object has a method for being called.
CallObject ==
    /\ status.m = "call" /\ f_tag(status.v) \notin {"lambda", "method", "native", "fiber"} /\ status.v # Fiber
    /\ CASE f_tag(status.v) = "type" /\ status.v[2] \in {"tuple", "list", "map"} ->
                Answer(<<status.v[2], Args>>)
         [] f_tag(status.v) = "object" ->
                /\ estack' = Overwrite(estack, status.at, <<(<<"native", "CALL">>), status.v>>)
                /\ status' = [status EXCEPT !.v = <<"native", "CALL">>]
                /\ UNCHANGED frames
         [] OTHER -> Throw(Error("not supported."))
    /\ UNCHANGED world

(***************************************************************************)
(* Fibers: a call switches to the fiber, which hands back a value by       *)
(* calling another one, or by ending, to the main fiber whoever called it. *)
(* After the script, the fibers left are thrown an exit until none is left.*)
(***************************************************************************)
f_do_instantiate ==
    /\ status.m = "call" /\ status.v = Fiber
    /\ IF status.n \notin {1, 2} THEN Throw(Error("must be called with 1 or 2 argument(s).")) /\ UNCHANGED fibers
       ELSE IF status.n = 2 /\ f_tag(Args[2]) # "integer" THEN Throw(Error("argument1")) /\ UNCHANGED fibers
       ELSE fibers' = Append(fibers, t_fiber(Args[1])) /\ Answer(<<"fiber", Len(fibers) + 1>>)
    /\ UNCHANGED <<source, codes, caches, scopes, fields, log, internals, active>>

f_current ==
    /\ status.m = "call" /\ status.v = Current
    /\ Answer(<<"fiber", active>>)
    /\ UNCHANGED world

\* The active fiber as it waits.
Suspended == [fibers EXCEPT ![active].estack = estack, ![active].frames = frames, ![active].status = status]

\* Mutant: the next value that comes is thrown as well.
ResumeThrowing(fs, i, v) ==
    LET p == fs[i]
    IN  /\ active' = i /\ frames' = p.frames /\ fibers' = fs
        /\ IF p.status.m # "call" THEN estack' = p.estack /\ status' = p.status
           ELSE /\ estack' = [p.estack EXCEPT ![p.status.at + 1] = v]
                /\ status' = IF p.v_throw THEN Throwing(v) ELSE After(p.frames, v)

\* The fiber i, which waits in f_do_call with its place for the result or in
\* f_main, goes on.
Resume(fs, i, v) ==
    LET p == fs[i]
    IN  /\ active' = i /\ frames' = p.frames
        /\ IF p.status.m # "call" THEN estack' = p.estack /\ status' = p.status /\ fibers' = fs
           ELSE /\ estack' = [p.estack EXCEPT ![p.status.at + 1] = v]
                /\ status' = IF p.v_throw THEN Throwing(v) ELSE After(p.frames, v)
                /\ fibers' = [fs EXCEPT ![i].v_throw = FALSE]

\* A fiber not called yet, or ended, begins: f_run calls its function.
Begin(i, v) ==
    /\ estack' = <<Junk, Null, v>> /\ frames' = <<>>
    /\ status' = Calling(fibers[i].v_callable, 0, 1)
    /\ fibers' = Suspended /\ internals' = <<i>> \o internals /\ active' = i

f_do_call ==
    /\ Called("fiber")
    /\ LET i == status.v[2]
       IN  IF status.n # 1 THEN Throw(Error("must be called with an argument.")) /\ UNCHANGED others
           ELSE IF i = active THEN Throw(Error("already active.")) /\ UNCHANGED others
           ELSE IF i \in Range(internals) THEN Resume(Suspended, i, Args[1]) /\ UNCHANGED internals
           ELSE Begin(i, Args[1])
    /\ UNCHANGED <<source, codes, caches, scopes, fields, log>>

Ended == status.m \in {"returned", "thrown"}

f_run ==
    /\ Ended /\ active # Main
    /\ internals' = Remove(internals, active)
    /\ Resume([fibers EXCEPT ![Main].v_throw = (status.m = "thrown")], Main, status.v)
    /\ UNCHANGED <<source, codes, caches, scopes, fields, log>>

f_main ==
    /\ Ended /\ active = Main
    /\ IF Head(internals) = Main
       THEN status' = Stopped(IF status.m = "thrown" THEN "failed" ELSE "done", status.v) /\ UNCHANGED <<estack, frames, others>>
       ELSE Resume([Suspended EXCEPT ![Head(internals)].v_throw = TRUE], Head(internals), FiberExit) /\ UNCHANGED internals
    /\ UNCHANGED <<source, codes, caches, scopes, fields, log>>

Run ==
    \/ Unwind
    \/ JUMP \/ BRANCH \/ TRY \/ CATCH \/ FINALLY \/ YRT \/ THROW
    \/ OBJECT_GET \/ OBJECT_PUT \/ OBJECT_HAS \/ METHOD_GET \/ METHOD_BIND \/ GLOBAL_GET
    \/ STACK_GET \/ STACK_PUT \/ SCOPE_GET \/ SCOPE_PUT \/ ADVANCED_LAMBDA \/ SELF \/ CLASS \/ SUPER
    \/ VALUE \/ RETURN_VALUE \/ RETURN \/ CALL \/ CALL_TAIL \/ GET_AT \/ SET_AT \/ UNARY \/ BINARY
    \/ CallLambda \/ CallMethod \/ CallNative \/ CallObject
    \/ f_do_instantiate \/ f_current \/ f_do_call \/ f_run \/ f_main

Stops == {"done", "failed", "syntax error"}
Finished == status.m \in Stops /\ UNCHANGED vars

Next == f_load_script \/ Run \/ Finished

\* The thread that runs the script goes on.
Spec == Init /\ [][Next]_vars /\ WF_vars(Run)

(***************************************************************************)
(* Properties.                                                             *)
(***************************************************************************)
TypeOK ==
    /\ status.m \in {"load", "run", "call", "throw", "returned", "thrown"} \cup Stops
    /\ active \in Range(internals) /\ Last(internals) = Main /\ IsInjective(internals)
    /\ \A i \in Range(internals) \ {active} : fibers[i].status.m \in {"call", "returned", "thrown"}
    /\ status.m = "run" => frames # <<>> /\ Top.pc \in 1 .. Len(codes[Top.code].instructions)
    /\ \A i \in 1 .. Len(frames) : /\ frames[i].scope \in 0 .. Len(scopes)
                                   /\ frames[i].base <= Len(estack)
    /\ DOMAIN fields = DOMAIN Objects

OperandSlots(op, k) == CASE op[1] = "V" -> {op[2]} [] op = Temporary -> {k} [] OTHER -> {}

\* The slots an instruction reads (doc/StackUsage.md).
Reads(i) ==
    CASE i.i \in {"BRANCH", "THROW", "OBJECT_GET", "OBJECT_HAS", "METHOD_GET", "STACK_PUT", "SCOPE_PUT", "CLASS", "SUPER", "RETURN"} -> {i.s}
      [] i.i \in {"OBJECT_GET_INDIRECT", "OBJECT_PUT", "OBJECT_HAS_INDIRECT", "METHOD_BIND"} -> i.s .. i.s + 1
      [] i.i = "OBJECT_PUT_INDIRECT" -> i.s .. i.s + 2
      [] i.i = "CATCH" -> {Try.stack}
      [] i.i = "STACK_GET" -> {i.x}
      [] i.i = "GET_AT" -> i.s + 1 .. i.s + 2
      [] i.i = "SET_AT" -> i.s + 1 .. i.s + 3
      [] i.i = "UNARY" -> OperandSlots(i.l, i.s + 1)
      [] i.i = "BINARY" -> OperandSlots(i.l, i.s + 1) \cup OperandSlots(i.r, i.s + 2)
      [] i.i = "CALL" -> (i.s + 2 .. i.s + 1 + i.n) \cup
                         (CASE i.x[1] = "top" -> {i.s, i.s + 1} [] i.x[1] = "stack" -> {i.x[2]} [] OTHER -> {})
      [] OTHER -> {}

\* The slots an instruction may write, the ones for calling a method included.
Writes(i) ==
    CASE i.i \in {"JUMP", "BRANCH", "TRY", "FINALLY", "YRT", "THROW", "SCOPE_PUT", "RETURN", "RETURN_VALUE"} -> {}
      [] i.i \in {"METHOD_GET", "UNARY"} -> i.s .. i.s + 1
      [] i.i = "METHOD_BIND" -> IF f_tag(Slot(i.s)) = "object" THEN i.s .. i.s + 2 ELSE i.s .. i.s + 1
      [] i.i \in {"BINARY", "GET_AT"} -> i.s .. i.s + 2
      [] i.i = "SET_AT" -> i.s .. i.s + 3
      [] i.i = "CALL" -> i.s .. i.s + 1 + i.n
      [] i.i = "STACK_PUT" -> {i.x}
      [] i.i = "CATCH" -> IF i.shared THEN {} ELSE {i.x}
      [] OTHER -> {i.s}

\* No instruction reads a place of the stack that nothing was put in since the
\* context was entered: on every path, a variable is assigned or set to null
\* before it is read, and no native function is passed such a value.  This does
\* not hold of, and no script has, a catch that reads a variable the body assigns
\* after what may throw: t_try::f_flow leads to no catch from the start of the body.
ReadsDefined ==
    /\ status.m = "run" => \A k \in Reads(Fetch) : Slot(k) # Junk
    /\ \A i \in 1 .. Len(log) : Junk \notin Range(log[i].args)

\* An instruction works below the end of the stack, above which native code keeps
\* its own values; and whichever way control came back to a context, by return,
\* tail call or exception, the stack ends above its last place.  This does not
\* hold of, and no script has, m[k]() on an object: METHOD_BIND writes one place
\* more than t_get_at::f_bind reserves.
WithinStack ==
    status.m = "run" =>
        /\ Top.base + codes[Top.code].size <= Len(estack)
        /\ \A k \in Reads(Fetch) \cup Writes(Fetch) : k < codes[Top.code].size

\* The index an instruction keeps never shows: with any type that comes by, the
\* lookup that starts from it finds what a search from nothing finds.
SameAsSearch(i, index) ==
    \A t \in Range(Declared) : \A key \in IF "x" \in DOMAIN i /\ i.x # "" THEN {i.x} ELSE DOMAIN Address :
        CASE i.i \in {"OBJECT_GET", "OBJECT_GET_INDIRECT"} -> f_get(t, key, index).place = f__find(t, key, 0).place
          [] i.i = "METHOD_GET" -> f_bind(t, key, index).place = f__find(t, key, 0).place
          [] i.i \in {"OBJECT_PUT", "OBJECT_PUT_INDIRECT"} -> f_put(t, key, index).place = f_put(t, key, v_fields(t)).place
          [] i.i \in {"OBJECT_HAS", "OBJECT_HAS_INDIRECT"} -> f_has(t, key, index).place = f_has(t, key, v_fields(t)).place
CacheTransparent == \A c \in DOMAIN caches : SameAsSearch(codes[c[1]].instructions[c[2]], caches[c])

\* Once loaded, every script whose loops end comes to its end, through whatever its
\* blocks of try, catch and finally do with breaks, returns and exceptions, and so
\* does every fiber it called, even if it yields again when it is told to exit.
Terminates == status.m = "call" ~> status.m \in Stops /\ internals = <<Main>>
=============================================================================
