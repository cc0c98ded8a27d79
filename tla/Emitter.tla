------------------------------ MODULE Emitter ------------------------------
(***************************************************************************)
(* From the syntax tree to instructions (ast.cc, t_emit in ast.h).         *)
(*                                                                         *)
(* First f_flow builds, for each scope, the graph of its basic blocks with *)
(* the private variables each touches first by a put or a get, and         *)
(* f_analyze finds where a variable may have been touched before (in) and  *)
(* may still be read (use).  Then f_emit writes the instructions: a        *)
(* variable that may be read before it is assigned gets a NUL on the paths *)
(* that join at a junction.                                                *)
(*                                                                         *)
(* A node is known by its path, the sequence of the positions of its       *)
(* ancestors among their siblings, and a block or a label by the path of   *)
(* its node and a name.  Instructions are records: i is the name, s the    *)
(* position on the stack, counted from the base.                           *)
(***************************************************************************)
EXTENDS Syntax, SequencesExt

NoTarget == <<"none">>

ToInstruction == [object_get |-> "OBJECT_GET", object_get_indirect |-> "OBJECT_GET_INDIRECT", object_put |-> "OBJECT_PUT",
    object_put_indirect |-> "OBJECT_PUT_INDIRECT", object_has |-> "OBJECT_HAS", object_has_indirect |-> "OBJECT_HAS_INDIRECT",
    class |-> "CLASS", super |-> "SUPER", get_at |-> "GET_AT", set_at |-> "SET_AT"]

(***************************************************************************)
(* Flow: w is t_flow (the current block cur and the targets) together with *)
(* the graph built so far: edges, and touches as <<block, variable, put>>. *)
(***************************************************************************)
f_next(w, block) == [w EXCEPT !.edges = @ \cup {<<w.cur, block>>}]
Edge(w, from, to) == [w EXCEPT !.edges = @ \cup {<<from, to>>}]
At(w, block) == [w EXCEPT !.cur = block]

f_use(w, i, put) ==
    IF \E t \in w.touches : t[1] = w.cur /\ t[2] = i THEN w
    ELSE [w EXCEPT !.touches = @ \cup {<<w.cur, i, put>>}]

\* The variable that a symbol stands for and how many scopes out it is; v is <<>> for a global.
f_find(chain, outer, symbol) ==
    LET found == {k \in outer + 1 .. Len(chain) : symbol \in DOMAIN chain[k].variables}
        k == CHOOSE j \in found : \A l \in found : j <= l
    IN  IF found = {} THEN [resolved |-> Len(chain), v |-> <<>>]
        ELSE [resolved |-> k - 1, v |-> chain[k].variables[symbol]]

\* A variable is private to the scope and not an argument.
IsPrivate(chain, v) == v # <<>> /\ ~v.shared /\ v.index >= chain[1].arguments

RECURSIVE Flow(_, _, _, _), FlowCatches(_, _, _, _, _)

Child(n, path, chain, w, k) == Flow(n.c[k], Append(path, k), chain, w)
Children(n, path, chain, w, first) ==
    LET flow(x, k) == Child(n, path, chain, x, k)
    IN  FoldLeft(flow, w, [j \in 1 .. Len(n.c) - first + 1 |-> j + first - 1])

FlowIf(n, path, chain, w) ==
    LET c == Child(n, path, chain, w, 1)
        split == Edge(f_next(c, <<path, "true">>), c.cur, <<path, "false">>)
        t == f_next(Child(n, path, chain, At(split, <<path, "true">>), 2), <<path, "junction">>)
        f == f_next(Child(n, path, chain, At(t, <<path, "false">>), 3), <<path, "junction">>)
    IN  At(Edge(f, <<path, "junction">>, <<path, "exit">>), <<path, "exit">>)

\* From the condition, child k, around the loop; continue goes to the block next.
FlowLoop(n, path, chain, w, k, body, next) ==
    LET enter == Edge(f_next(w, <<path, "condition">>), <<path, "condition">>, <<path, "test">>)
        c == Child(n, path, chain, At(enter, <<path, "test">>), k)
        split == Edge(f_next(c, <<path, "body">>), c.cur, <<path, "leave">>)
        inside == [At(split, <<path, "body">>) EXCEPT !.brk = <<path, "leave">>, !.cont = next]
        b == f_next(Child(n, path, chain, inside, body), next)
    IN  [Edge(b, <<path, "leave">>, <<path, "exit">>) EXCEPT !.brk = w.brk, !.cont = w.cont]

FlowWhile(n, path, chain, w) ==
    At(FlowLoop(n, path, chain, w, 1, 2, <<path, "condition">>), <<path, "exit">>)

FlowFor(n, path, chain, w) ==
    LET l == FlowLoop(n, path, chain, Child(n, path, chain, w, 1), 2, 4, <<path, "continue">>)
        x == Child(n, path, chain, At(Edge(l, <<path, "continue">>, <<path, "next">>), <<path, "next">>), 3)
    IN  At(f_next(x, <<path, "condition">>), <<path, "exit">>)

\* The catches from the k-th on: each is tried when the ones before it did not match.
FlowCatches(n, path, chain, w, k) ==
    LET e == Child(n, path, chain, At(f_next(w, <<path, "expression", k>>), <<path, "expression", k>>), 2 * k + 1)
        v == chain[1].variables[n.a[k]]
        b == At(f_next(e, <<path, "catch", k>>), <<path, "catch", k>>)
        put == IF v.shared THEN b ELSE f_use(b, v.index - chain[1].arguments, TRUE)
        done == f_next(Child(n, path, chain, put, 2 * k + 2), <<path, "finally">>)
    IN  IF k > Len(n.a) THEN w ELSE FlowCatches(n, path, chain, At(done, e.cur), k + 1)

FlowTry(n, path, chain, w) ==
    LET fin == <<path, "finally">>
        enter == Edge(Edge(f_next(w, <<path, "junction">>), <<path, "junction">>, fin), <<path, "junction">>, <<path, "try">>)
        b == Child(n, path, chain, [At(enter, <<path, "try">>) EXCEPT !.brk = fin, !.cont = fin, !.ret = fin], 1)
        c == FlowCatches(n, path, chain, f_next(b, fin), 1)
        back == Edge(Edge(c, fin, <<path, "junction">>), fin, <<path, "block">>)
        f == Child(n, path, chain,
                   [At(back, <<path, "block">>) EXCEPT !.brk = NoTarget, !.cont = NoTarget, !.ret = NoTarget], 2)
        outs == {<<path, "exit">>} \cup ({w.brk, w.cont, w.ret} \ {NoTarget})
    IN  [At(f, <<path, "exit">>) EXCEPT !.edges = @ \cup {<<f.cur, b0>> : b0 \in outs},
                                       !.brk = w.brk, !.cont = w.cont, !.ret = w.ret]

FlowGet(n, chain, w) ==
    LET v == f_find(chain, n.a.outer, n.a.symbol).v
    IN  IF IsPrivate(chain, v) THEN f_use(w, v.index - chain[1].arguments, FALSE) ELSE w

FlowPut(n, path, chain, w) ==
    LET v == f_find(chain, n.a.outer, n.a.symbol).v
        x == Child(n, path, chain, w, 1)
    IN  IF IsPrivate(chain, v) THEN f_use(x, v.index - chain[1].arguments, TRUE) ELSE x

\* The body of a lambda is analysed with its own scope; its default values belong here.
Flow(n, path, chain, w) ==
    CASE n.n = "lambda" -> Children(n, path, chain, w, 2)
      [] n.n = "if" -> FlowIf(n, path, chain, w)
      [] n.n = "while" -> FlowWhile(n, path, chain, w)
      [] n.n = "for" -> FlowFor(n, path, chain, w)
      [] n.n = "break" -> LET x == Children(n, path, chain, w, 1) IN f_next(x, x.brk)
      [] n.n = "continue" -> f_next(w, w.cont)
      [] n.n = "return" -> LET x == Children(n, path, chain, w, 1) IN f_next(x, x.ret)
      [] n.n = "try" -> FlowTry(n, path, chain, w)
      [] n.n = "symbol_get" -> FlowGet(n, chain, w)
      [] n.n = "scope_put" -> FlowPut(n, path, chain, w)
      [] OTHER -> Children(n, path, chain, w, 1)

RECURSIVE f_forward(_, _), f_backward(_, _, _)

\* A variable touched in a block has been touched in every block after it.
f_forward(edges, out) ==
    LET more == {<<g[2], x[2]>> : <<g, x>> \in {y \in edges \X out : y[1][1] = y[2][1]}}
    IN  IF more \subseteq out THEN out ELSE f_forward(edges, out \cup more)

\* A variable is in use before a block that reads it, back to the block that defines it.
f_backward(edges, define, use) ==
    LET more == {<<g[1], x[2]>> : <<g, x>> \in {y \in edges \X use : y[1][2] = y[2][1]}} \ define
    IN  IF more \subseteq use THEN use ELSE f_backward(edges, define, use \cup more)

\* From the graph w: the variables to be initialised at each junction (join) and initialised after it (merge).
Analysis(w) ==
    LET touched == {<<t[1], t[2]>> : t \in w.touches}
        define == {<<t[1], t[2]>> : t \in {t \in w.touches : t[3]}}
        out == f_forward(w.edges, touched)
        use == f_backward(w.edges, define, touched \ define)
        in == {<<g[2], x[2]>> : <<g, x>> \in {y \in w.edges \X out : y[1][1] = y[2][1]}}
        blocks == {g[1] : g \in w.edges} \cup {g[2] : g \in w.edges}
    IN  [join |-> [b \in blocks |-> {x[2] : x \in {y \in in \cap use : y[1] = b}}],
         merge |-> [b \in blocks |-> {x[2] : x \in {y \in out : y[1] = b}}]]

f_analyze(body, path, chain) ==
    LET start == [cur |-> <<path, "start">>, edges |-> {}, touches |-> {}, brk |-> NoTarget, cont |-> NoTarget,
                  ret |-> <<path, "end">>]
    IN  Analysis(f_next(Flow(body, Append(path, 1), chain, start), <<path, "end">>))

(***************************************************************************)
(* Emission: e is t_emit, the code being written and the operand op that   *)
(* the last f_emit returned: <<"I" or "F" or "L", value>> for a constant,  *)
(* <<"V", index>> for a private variable, <<"T">> for the top of the stack.*)
(***************************************************************************)
Temporary == <<"T">>

\* A constant operation that is not supported throws and ends the load of the script.
Then(e, rest(_)) == IF e.err = "" THEN rest(e) ELSE e

Put(e, instruction) == [e EXCEPT !.code = Append(@, instruction), !.op = Temporary]
f_push(e) == [e EXCEPT !.stack = @ + 1, !.size = IF e.stack + 1 > @ THEN e.stack + 1 ELSE @]
f_pop(e, n) == [e EXCEPT !.stack = @ - n]
f_target(e, label) == [e EXCEPT !.labels = (label :> Len(e.code) + 1) @@ @]
f_emit_null(e) == f_push(Put(e, [i |-> "VALUE", s |-> e.stack, v |-> Null]))

\* What stays on the stack when its value is not wanted is popped.
Clear(e, clear) == IF clear THEN f_pop(e, 1) ELSE e
PushUnless(e, clear) == IF clear THEN e ELSE f_push(e)

\* NUL for variables that a join requires; always in the order of their places.
f_join(e, block) ==
    LET missing == SetToSortSeq(e.flow.join[block] \ e.privates, <)
        nul(x, i) == Put(x, [i |-> "VALUE", s |-> x.chain[1].arguments + i, v |-> Null])
    IN  FoldLeft(nul, e, missing)
f_merge(e, block) == [e EXCEPT !.privates = e.flow.merge[block]]

RECURSIVE Emit(_, _, _, _, _, _), EmitCatches(_, _, _, _, _)

Value(n, path, e, k) == Emit(n.c[k], Append(path, k), e, FALSE, FALSE, FALSE)
Operand(n, path, e, k) == Emit(n.c[k], Append(path, k), e, FALSE, TRUE, FALSE)
Effect(n, path, e, k) == Emit(n.c[k], Append(path, k), e, FALSE, FALSE, TRUE)
Values(n, path, e, first) ==
    LET emit(x, k) == Value(n, path, x, k)
    IN  FoldLeft(emit, e, [j \in 1 .. Len(n.c) - first + 1 |-> j + first - 1])

t_nodes_emit(n, path, e, tail, clear) ==
    LET last == Len(n.c)
        emit(x, k) == Effect(n, path, x, k)
        e0 == FoldLeft(emit, e, [k \in 1 .. last - 1 |-> k])
    IN  IF last = 0 THEN IF clear THEN e ELSE f_emit_null(e)
        ELSE Emit(n.c[last], Append(path, last), e0, tail, FALSE, clear)

\* t_lambda::f_code and the members of t_code.
f_code(a, defaults, code, size) ==
    [shared |-> a.scope.v_shared, variadic |-> a.variadic, privates |-> a.scope.privates, shareds |-> a.scope.shareds,
     arguments |-> a.scope.arguments, minimum |-> a.scope.arguments - defaults - (IF a.variadic THEN 1 ELSE 0),
     size |-> size, instructions |-> code.code, labels |-> code.labels]

\* self and the arguments that nested lambdas use are copied to the scope object.
Prologue(e, scope, names) ==
    LET self == Put(Put(e, [i |-> "SELF", s |-> e.stack]), [i |-> "SCOPE_PUT", s |-> e.stack, outer |-> 0, x |-> 0])
        copy(x, k) == LET v == scope.variables[names[k]]
                      IN  IF ~v.shared THEN x
                          ELSE Put(Put(x, [i |-> "STACK_GET", s |-> x.stack, x |-> k - 1]),
                                   [i |-> "SCOPE_PUT", s |-> x.stack, outer |-> 0, x |-> v.index])
    IN  FoldLeft(copy, IF scope.self_shared THEN self ELSE e, [k \in 1 .. Len(names) |-> k])

\* The code of the body, written from an empty t_emit.
LambdaBody(n, path, e) ==
    LET scope == n.a.scope
        chain == <<scope>> \o e.chain
        size == scope.privates
        targets == [brk |-> NoTarget, brkj |-> NoTarget, brks |-> size, brktail |-> FALSE, brkclear |-> FALSE,
                    cont |-> NoTarget, contj |-> NoTarget, ret |-> <<path, "return">>, retj |-> <<path, "end">>,
                    rets |-> size, rettail |-> TRUE]
        e1 == [e EXCEPT !.code = <<>>, !.labels = <<>>, !.stack = size, !.size = size, !.privates = {}, !.chain = chain,
                        !.flow = f_analyze(n.c[1], path, chain), !.targets = targets]
        b == Emit(n.c[1], Append(path, 1), Prologue(e1, scope, n.a.arguments), TRUE, FALSE, FALSE)
    IN  Put(f_target(f_pop(b, 1), <<path, "return">>), [i |-> "RETURN", s |-> size])

t_lambda_emit(n, path, e, clear) ==
    LET defaults == Len(n.c) - 1
        with(r) == [e EXCEPT !.codes = Append(r.codes, f_code(n.a, defaults, r, r.size))]
        lambda(r) == [i |-> "LAMBDA", s |-> e.stack, advanced |-> n.a.variadic \/ defaults > 0, code |-> Len(r.codes) + 1]
    IN  Then(LambdaBody(n, path, e), LAMBDA r :
            Then(Values(n, path, with(r), 2), LAMBDA d : Clear(f_push(Put(f_pop(d, defaults), lambda(r))), clear)))

\* Where the condition on top of the stack is false, go to the label.
Branch(e, label) == Put(f_pop(e, 1), [i |-> "BRANCH", s |-> e.stack - 1, l |-> label])
Jump(e, label) == Put(e, [i |-> "JUMP", l |-> label])

\* Mutant: what one branch assigns counts as assigned in the other.
t_if_emitKept(n, path, e, tail, clear) ==
    LET c == IF n.c[1].n = "none" THEN e ELSE Branch(Value(n, path, e, 1), <<path, "label0">>)
        t == f_join(Emit(n.c[2], Append(path, 2), c, tail, FALSE, clear), <<path, "junction">>)
        f0 == [f_target(Jump(t, <<path, "label1">>), <<path, "label0">>) EXCEPT !.stack = c.stack]
        f == f_join(Emit(n.c[3], Append(path, 3), f0, tail, FALSE, clear), <<path, "junction">>)
    IN  f_merge(f_target(f, <<path, "label1">>), <<path, "junction">>)

t_if_emit(n, path, e, tail, clear) ==
    LET c == IF n.c[1].n = "none" THEN e ELSE Branch(Value(n, path, e, 1), <<path, "label0">>)
        t == f_join(Emit(n.c[2], Append(path, 2), c, tail, FALSE, clear), <<path, "junction">>)
        f0 == [f_target(Jump(t, <<path, "label1">>), <<path, "label0">>) EXCEPT !.privates = c.privates, !.stack = c.stack]
        f == f_join(Emit(n.c[3], Append(path, 3), f0, tail, FALSE, clear), <<path, "junction">>)
    IN  f_merge(f_target(f, <<path, "label1">>), <<path, "junction">>)

\* From the condition, child k, to the end of the body; continue is the label and its junction.
EmitLoop(n, path, e, k, body, continue, junction, tail, clear) ==
    LET l == f_merge(f_target(f_join(e, <<path, "condition">>), <<path, "loop">>), <<path, "condition">>)
        c == IF n.c[k].n = "none" THEN l ELSE Branch(Value(n, path, l, k), <<path, "label0">>)
        inside == [c EXCEPT !.targets.brk = <<path, "break">>, !.targets.brkj = <<path, "leave">>, !.targets.brks = c.stack,
                            !.targets.brktail = tail, !.targets.brkclear = clear, !.targets.cont = continue,
                            !.targets.contj = junction]
    IN  [Effect(n, path, inside, body) EXCEPT !.targets = e.targets]

\* The jump back and the way out of a loop.
LeaveLoop(path, e, clear) ==
    LET l == f_join(f_target(Jump(e, <<path, "loop">>), <<path, "label0">>), <<path, "leave">>)
    IN  f_merge(f_target(IF clear THEN l ELSE f_emit_null(l), <<path, "break">>), <<path, "leave">>)

t_while_emit(n, path, e, tail, clear) ==
    LeaveLoop(path, EmitLoop(n, path, e, 1, 2, <<path, "loop">>, <<path, "condition">>, tail, clear), clear)

\* Mutant: continue skips the step of the loop.
t_for_emitSkip(n, path, e, tail, clear) ==
    LET i == IF n.c[1].n = "none" THEN e ELSE Effect(n, path, e, 1)
        b == EmitLoop(n, path, i, 2, 4, <<path, "loop">>, <<path, "continue">>, tail, clear)
    IN  LeaveLoop(path, IF n.c[3].n # "none" THEN Effect(n, path, b, 3) ELSE b, clear)

t_for_emit(n, path, e, tail, clear) ==
    LET i == IF n.c[1].n = "none" THEN e ELSE Effect(n, path, e, 1)
        next == n.c[3].n # "none"
        label == IF next THEN <<path, "next">> ELSE <<path, "loop">>
        b == EmitLoop(n, path, i, 2, 4, label, <<path, "continue">>, tail, clear)
    IN  LeaveLoop(path, IF next THEN Effect(n, path, f_target(b, label), 3) ELSE b, clear)

t_break_emit(n, path, e, clear) ==
    LET x == Emit(n.c[1], Append(path, 1), [e EXCEPT !.stack = e.targets.brks], e.targets.brktail, FALSE, e.targets.brkclear)
    IN  Jump(f_join(PushUnless([x EXCEPT !.stack = e.stack], clear), e.targets.brkj), e.targets.brk)

t_continue_emit(e, clear) == Jump(PushUnless(e, clear), e.targets.cont)

t_return_emit(n, path, e, clear) ==
    LET x == Emit(n.c[1], Append(path, 1), [e EXCEPT !.stack = e.targets.rets], e.targets.rettail, FALSE, FALSE)
        r == IF e.targets.rettail THEN Put(x, [i |-> "RETURN", s |-> x.stack - 1])
             ELSE Jump(f_join(x, e.targets.retj), e.targets.ret)
    IN  PushUnless([r EXCEPT !.stack = e.stack], clear)

\* The catches from the k-th on.
EmitCatches(n, path, e, clear, k) ==
    LET v == e.chain[1].variables[n.a[k]]
        next == <<path, "catch", k>>
        t == f_pop(Value(n, path, IF clear THEN e ELSE f_pop(e, 1), 2 * k + 1), 1)
        c == Put(t, [i |-> "CATCH", l |-> next, shared |-> v.shared, x |-> v.index])
        b == Emit(n.c[2 * k + 2], Append(path, 2 * k + 2), c, FALSE, FALSE, clear)
    IN  IF k > Len(n.a) THEN e
        ELSE EmitCatches(n, path, f_target(Put(b, [i |-> "FINALLY", try |-> "STEP"]), next), clear, k + 1)

\* The code that break, continue or return leaves through: at the label, finish the block by FINALLY.
TryExit(e, label, try) == Put(f_target(e, label), [i |-> "FINALLY", try |-> try])

\* The part of a try up to the code of finally.
EmitTryBody(n, path, e, clear) ==
    LET o == e.targets
        label(outer, name) == IF outer = NoTarget THEN NoTarget ELSE <<path, name>>
        fin == <<path, "finally">>
        inside == [e EXCEPT !.targets = [brk |-> label(o.brk, "break"), brkj |-> fin, brks |-> e.stack, brktail |-> FALSE,
                       brkclear |-> o.brkclear, cont |-> label(o.cont, "continue"), contj |-> fin,
                       ret |-> label(o.ret, "return"), retj |-> fin, rets |-> e.stack, rettail |-> FALSE]]
        enter == Put(inside, [i |-> "TRY", s |-> e.stack, catch |-> <<path, "catch">>, finally |-> fin])
        b == Put(Emit(n.c[1], Append(path, 1), enter, FALSE, FALSE, clear), [i |-> "FINALLY", try |-> "STEP"])
        c == Put(EmitCatches(n, path, f_target(b, <<path, "catch">>), clear, 1), [i |-> "FINALLY", try |-> "THROW"])
    IN  TryExit(TryExit(TryExit(c, <<path, "break">>, "BREAK"), <<path, "continue">>, "CONTINUE"), <<path, "return">>, "RETURN")

\* Whether a jump out of the try has to move the value down or to initialise variables first.
NeedsJoin(e, stack, label, junction, at) ==
    label # NoTarget /\ (stack > at \/ e.flow.join[junction] \ e.privates # {})

\* Mutant: the value of the jump stays where the try left it.
LeaveTryUnmoved(e, needed, label, stack, target, junction, at) ==
    IF needed THEN Jump(f_join(f_target(e, label), junction), target) ELSE e

\* The jumps that need it, one after the other at the end.
LeaveTry(e, needed, label, stack, target, junction, at) ==
    LET l == f_target(e, label)
        moved == IF stack > at THEN Put(l, [i |-> "STACK_GET", s |-> at, x |-> stack]) ELSE l
    IN  IF needed THEN Jump(f_join(moved, junction), target) ELSE e

\* The code of finally; the jumps out of the try are not allowed there.
EmitFinally(n, path, e, clear) ==
    LET none == [brk |-> NoTarget, brkj |-> NoTarget, brks |-> 0, brktail |-> FALSE, brkclear |-> FALSE, cont |-> NoTarget,
                 contj |-> NoTarget, ret |-> NoTarget, retj |-> NoTarget, rets |-> 0, rettail |-> FALSE]
        quiet == Effect(n, path, [IF clear THEN f_push(e) ELSE e EXCEPT !.targets = none], 2)
    IN  IF n.c[2].n = "none" THEN e ELSE IF clear THEN f_pop(quiet, 1) ELSE quiet

\* The end of the try, after finally: o are the targets and s the stack around it.
LeaveBlock(path, f, o, s) ==
    LET at == IF o.brkclear THEN s ELSE o.brks
        brk == NeedsJoin(f, s, o.brk, o.brkj, at)
        cont == NeedsJoin(f, s, o.cont, o.contj, s)
        ret == NeedsJoin(f, s, o.ret, o.retj, o.rets)
        to(needed, name, target) == IF needed THEN <<path, name>> ELSE target
        y == Put(f, [i |-> "YRT", brk |-> to(brk, "break0", o.brk), cont |-> to(cont, "continue0", o.cont),
                     ret |-> to(ret, "return0", o.ret)])
        j1 == LeaveTry(Jump(y, <<path, "step">>), brk, <<path, "break0">>, s, o.brk, o.brkj, at)
        j2 == LeaveTry(j1, cont, <<path, "continue0">>, s, o.cont, o.contj, s)
        j3 == LeaveTry(j2, ret, <<path, "return0">>, s, o.ret, o.retj, o.rets)
    IN  [IF brk \/ cont \/ ret THEN f_target(j3, <<path, "step">>) ELSE y EXCEPT !.targets = o]

t_try_emit(n, path, e, clear) ==
    LET enter == f_merge(f_join(e, <<path, "junction">>), <<path, "junction">>)
    IN  Then(EmitTryBody(n, path, enter, clear), LAMBDA b :
            Then(EmitFinally(n, path, f_target(b, <<path, "finally">>), clear),
                 LAMBDA f : LeaveBlock(path, f, e.targets, e.stack)))

t_throw_emit(n, path, e, clear) ==
    PushUnless(Put(f_pop(Value(n, path, e, 1), 1), [i |-> "THROW", s |-> e.stack]), clear)

\* get, put and has of a field, and class and super: the operands are emitted in
\* order and replaced by the result.  A key in the instruction is x.
t_object_emit(n, path, e, clear) ==
    Clear(f_pop(Put(Values(n, path, e, 1), [i |-> ToInstruction[n.n], s |-> e.stack, x |-> n.a]), Len(n.c) - 1), clear)

t_symbol_get_emit(n, path, e, tail, operand, clear) ==
    LET r == f_find(e.chain, n.a.outer, n.a.symbol)
        i == r.v.index - e.chain[1].arguments
        e1 == IF i >= 0 /\ i \notin e.privates
              THEN [Put(e, [i |-> "VALUE", s |-> r.v.index, v |-> Null]) EXCEPT !.privates = @ \cup {i}] ELSE e
    IN  IF r.v = <<>> THEN Clear(f_push(Put(e, [i |-> "GLOBAL_GET", s |-> e.stack, x |-> n.a.symbol])), clear)
        ELSE IF r.v.shared
        THEN Clear(f_push(Put(e, [i |-> "SCOPE_GET", s |-> e.stack, outer |-> r.resolved, x |-> r.v.index])), clear)
        ELSE IF operand THEN [e1 EXCEPT !.op = <<"V", r.v.index>>]
        ELSE Clear(f_push(Put(e1, IF tail THEN [i |-> "RETURN", s |-> r.v.index]
                                  ELSE [i |-> "STACK_GET", s |-> e.stack, x |-> r.v.index])), clear)

\* An assignment to a private variable whose value is not used further.
t_scope_put_direct(n, path, e, v) ==
    LET o == Operand(n, path, e, 1)
        i == v.index - e.chain[1].arguments
        e1 == IF i >= 0 THEN [o EXCEPT !.privates = @ \cup {i}] ELSE o
    IN  CASE o.op[1] \in {"I", "F", "L"} -> Put(e1, [i |-> "VALUE", s |-> v.index, v |-> o.op[2]])
          [] o.op[1] = "V" -> Put(e1, [i |-> "STACK_PUT", s |-> o.op[2], x |-> v.index])
          [] OTHER -> f_pop(Put(e1, [i |-> "STACK_PUT", s |-> e1.stack - 1, x |-> v.index]), 1)

t_scope_put_emit(n, path, e, clear) ==
    LET v == f_find(e.chain, n.a.outer, n.a.symbol).v
        i == v.index - e.chain[1].arguments
        x == Value(n, path, e, 1)
        e1 == IF ~v.shared /\ i >= 0 THEN [x EXCEPT !.privates = @ \cup {i}] ELSE x
    IN  IF clear /\ ~v.shared THEN t_scope_put_direct(n, path, e, v)
        ELSE Clear(Put(e1, IF v.shared THEN [i |-> "SCOPE_PUT", s |-> x.stack - 1, outer |-> n.a.outer, x |-> v.index]
                           ELSE [i |-> "STACK_PUT", s |-> x.stack - 1, x |-> v.index]), clear)

t_self_emit(n, e, clear) ==
    IF clear THEN e
    ELSE f_push(Put(e, IF n.a > 0 THEN [i |-> "SCOPE_GET", s |-> e.stack, outer |-> n.a, x |-> 0]
                       ELSE [i |-> "SELF", s |-> e.stack]))

t_literal_emit(value, e, tail, operand, clear) ==
    LET kind == CASE f_tag(value) = "integer" -> "I" [] f_tag(value) = "float" -> "F" [] OTHER -> "L"
    IN  IF operand THEN [e EXCEPT !.op = <<kind, value>>]
        ELSE IF clear THEN [e EXCEPT !.op = Temporary]
        ELSE f_push(Put(e, IF tail THEN [i |-> "RETURN_VALUE", v |-> value]
                           ELSE [i |-> "VALUE", s |-> e.stack, v |-> value]))

Fail(e) == [e EXCEPT !.err = "not supported."]

\* The value computed from constants in place of an instruction; what it pushed is undone.
Folded(e0, e, value, tail, operand, clear) ==
    LET undone == [e EXCEPT !.stack = e0.stack, !.size = e0.size]
    IN  IF value = NotSupported THEN Fail(f_push(undone)) ELSE t_literal_emit(value, undone, tail, operand, clear)

IsConstant(op) == op[1] \in {"I", "F"}

Pushed(e) == IF e.op = Temporary THEN e ELSE f_push(e)

t_unary_emit(n, path, e, tail, operand, clear) ==
    LET unary(x) == [i |-> "UNARY", op |-> n.a, tail |-> tail, s |-> e.stack, l |-> x.op]
    IN  Then(Operand(n, path, f_push(e), 1), LAMBDA x :
            IF IsConstant(x.op) THEN Folded(e, x, f_fold_unary(n.a, x.op[2]), tail, operand, clear)
            ELSE Clear(f_push(Put(f_pop(Pushed(x), 2), unary(x))), clear))

t_binary_emit(n, path, e, tail, operand, clear) ==
    LET fold(l, r) == IF l.op[1] = "I" /\ r.op[1] = "I" THEN f_fold_integers(n.a, l.op[2], r.op[2])
                      ELSE f_fold_floats(n.a, l.op[2], r.op[2])
        binary(l, r) == [i |-> "BINARY", op |-> n.a, tail |-> tail, s |-> e.stack, l |-> l.op, r |-> r.op]
    IN  Then(Operand(n, path, f_push(e), 1), LAMBDA l : Then(Operand(n, path, Pushed(l), 2), LAMBDA r :
            IF IsConstant(l.op) /\ IsConstant(r.op) THEN Folded(e, r, fold(l, r), tail, operand, clear)
            ELSE Clear(f_push(Put(f_pop(Pushed(r), 3), binary(l, r))), clear)))

\* The function of a call: a variable called directly, a method, an item or any value.
t_call_target(n, path, e) ==
    LET t == n.c[1]
        r == f_find(e.chain, t.a.outer, t.a.symbol)
        direct == t.n = "symbol_get" /\ n.a = {} /\ r.v # <<>> /\ (~r.v.shared \/ (r.resolved < 3 /\ ~r.v.varies))
        method == Value(t, Append(path, 1), e, 1)
        item == Value(t, Append(path, 1), method, 2)
    IN  CASE direct -> [e |-> f_push(f_push(e)), x |-> IF r.v.shared THEN <<"scope", r.resolved, r.v.index>> ELSE <<"stack", r.v.index>>]
          [] t.n = "object_get" -> [e |-> f_push(Put(method, [i |-> "METHOD_GET", s |-> e.stack, x |-> t.a])), x |-> <<"top">>]
          [] t.n = "get_at" -> [e |-> Put(item, [i |-> "METHOD_BIND", s |-> e.stack]), x |-> <<"top">>]
          [] OTHER -> [e |-> f_emit_null(Value(n, path, e, 1)), x |-> <<"top">>]

t_call_emit(n, path, e, tail, clear) ==
    LET call(x) == [i |-> "CALL", tail |-> tail, s |-> e.stack, x |-> x, n |-> Len(n.c) - 1, expands |-> n.a]
        args(t) == Then(Values(n, path, t.e, 2), LAMBDA a : Clear(f_push(Put(f_pop(a, Len(n.c) + 1), call(t.x))), clear))
    IN  args(t_call_target(n, path, e))

\* get_at and set_at leave the first place for the function to be called.
t_at_emit(n, path, e, tail, clear) ==
    Clear(f_pop(Put(Values(n, path, f_push(e), 1), [i |-> ToInstruction[n.n], tail |-> tail, s |-> e.stack]), Len(n.c)), clear)

\* After a throw nothing more is emitted.
Emit(n, path, e, tail, operand, clear) ==
    CASE e.err # "" -> e
      [] n.n = "nodes" -> t_nodes_emit(n, path, e, tail, clear)
      [] n.n = "lambda" -> t_lambda_emit(n, path, e, clear)
      [] n.n = "if" -> t_if_emit(n, path, e, tail, clear)
      [] n.n = "while" -> t_while_emit(n, path, e, tail, clear)
      [] n.n = "for" -> t_for_emit(n, path, e, tail, clear)
      [] n.n = "break" -> t_break_emit(n, path, e, clear)
      [] n.n = "continue" -> t_continue_emit(e, clear)
      [] n.n = "return" -> t_return_emit(n, path, e, clear)
      [] n.n = "try" -> t_try_emit(n, path, e, clear)
      [] n.n = "throw" -> t_throw_emit(n, path, e, clear)
      [] n.n = "symbol_get" -> t_symbol_get_emit(n, path, e, tail, operand, clear)
      [] n.n = "scope_put" -> t_scope_put_emit(n, path, e, clear)
      [] n.n = "self" -> t_self_emit(n, e, clear)
      [] n.n = "literal" -> t_literal_emit(n.a, e, tail, operand, clear)
      [] n.n = "unary" -> t_unary_emit(n, path, e, tail, operand, clear)
      [] n.n = "binary" -> t_binary_emit(n, path, e, tail, operand, clear)
      [] n.n = "preserve" -> PushUnless(e, clear)
      [] n.n = "call" -> t_call_emit(n, path, e, tail, clear)
      [] n.n \in {"get_at", "set_at"} -> t_at_emit(n, path, e, tail, clear)
      [] OTHER -> t_object_emit(n, path, e, clear)

\* Mutant: a script that does not return.
CompiledOpen(e, scope) ==
    LET a == [scope |-> [scope EXCEPT !.v_shared = TRUE], variadic |-> FALSE]
    IN  [err |-> e.err, codes |-> Append(e.codes, f_code(a, 0, e, e.size))]

Compiled(e, scope) ==
    LET a == [scope |-> [scope EXCEPT !.v_shared = TRUE], variadic |-> FALSE]
    IN  [err |-> e.err, codes |-> Append(e.codes, f_code(a, 0, Put(e, [i |-> "RETURN_VALUE", v |-> Null]), e.size))]

\* t_emit::operator(): the script is code without arguments; nested codes come before it.
Compile(body, scope) ==
    LET targets == [brk |-> NoTarget, brkj |-> NoTarget, brks |-> scope.privates, brktail |-> FALSE, brkclear |-> FALSE,
                    cont |-> NoTarget, contj |-> NoTarget, ret |-> NoTarget, retj |-> NoTarget, rets |-> scope.privates,
                    rettail |-> FALSE]
        start == [code |-> <<>>, labels |-> <<>>, stack |-> scope.privates, size |-> scope.privates, privates |-> {},
                  chain |-> <<scope>>, flow |-> f_analyze(body, <<>>, <<scope>>), targets |-> targets, codes |-> <<>>,
                  op |-> Temporary, err |-> ""]
    IN  Compiled(Emit(body, <<1>>, Prologue(start, scope, <<>>), FALSE, FALSE, TRUE), scope)
=============================================================================
