------------------------------- MODULE Syntax -------------------------------
(***************************************************************************)
(* The syntax tree that the parser builds and the emitter walks (ast.h).   *)
(* A node holds its kind n, what it carries besides nodes (a) and its      *)
(* children in the order of their members (c).  An optional child that is  *)
(* absent is t_none.  Positions in the source text (t_at) are left out.    *)
(***************************************************************************)
EXTENDS Values

Node(kind, a, c) == [n |-> kind, a |-> a, c |-> c]

t_none == Node("none", <<>>, <<>>)
t_nodes(nodes) == Node("nodes", <<>>, nodes)

\* The body comes first and the default values of the last arguments follow.
t_lambda(arguments, variadic, defaults, scope, body) ==
    Node("lambda", [arguments |-> arguments, variadic |-> variadic, scope |-> scope], <<body>> \o defaults)

t_if(condition, true, false) == Node("if", <<>>, <<condition, true, false>>)
t_while(condition, body) == Node("while", <<>>, <<condition, body>>)
t_for(initialization, condition, next, body) == Node("for", <<>>, <<initialization, condition, next, body>>)
t_break(expression) == Node("break", <<>>, <<expression>>)
t_continue == Node("continue", <<>>, <<>>)
t_return(expression) == Node("return", <<>>, <<expression>>)

\* A catch clause is its variable (in a) and its expression and body (in c).
t_try(body, finally, symbols, catches) == Node("try", symbols, <<body, finally>> \o catches)

t_throw(expression) == Node("throw", <<>>, <<expression>>)
t_object_get(target, key) == Node("object_get", key, <<target>>)
t_object_get_indirect(target, key) == Node("object_get_indirect", "", <<target, key>>)
t_object_put(target, key, value) == Node("object_put", key, <<target, value>>)
t_object_put_indirect(target, key, value) == Node("object_put_indirect", "", <<target, key, value>>)
t_object_has(target, key) == Node("object_has", key, <<target>>)
t_object_has_indirect(target, key) == Node("object_has_indirect", "", <<target, key>>)
t_symbol_get(outer, symbol) == Node("symbol_get", [outer |-> outer, symbol |-> symbol], <<>>)
t_scope_put(outer, symbol, value) == Node("scope_put", [outer |-> outer, symbol |-> symbol], <<value>>)
t_self(outer) == Node("self", outer, <<>>)
t_class(target) == Node("class", "", <<target>>)
t_super(target) == Node("super", "", <<target>>)
t_literal(value) == Node("literal", value, <<>>)
t_unary(instruction, expression) == Node("unary", instruction, <<expression>>)
t_binary(instruction, left, right) == Node("binary", instruction, <<left, right>>)
t_preserve == Node("preserve", <<>>, <<>>)

\* expands holds the positions of the arguments preceded by an asterisk.
t_call(target, arguments, expands) == Node("call", expands, <<target>> \o arguments)

t_get_at(target, index) == Node("get_at", "", <<target, index>>)
t_set_at(target, index, value) == Node("set_at", "", <<target, index, value>>)

t_null == t_literal(Null)
=============================================================================
