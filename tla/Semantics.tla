------------------------------ MODULE Semantics ------------------------------
(***************************************************************************)
(* The meaning README.md gives SimpLang programs, as a recursive function  *)
(* from expressions and environments to results.  There is no memory here  *)
(* and no machine: environments are functions, and a recur is a value that *)
(* travels to the innermost loop.  It is the reference the interpreters    *)
(* are checked against.                                                    *)
(***************************************************************************)
EXTENDS Words, Syntax, TLC

Value(v)  == [k |-> "int",   v |-> v, args |-> << >>]
Again(vs) == [k |-> "recur", v |-> 0, args |-> vs]
\* The program breaks a rule of the language: a name that stands for nothing,
\* or a recur that is not in tail position of a loop or has another number of
\* arguments.
Unbound   == [k |-> "unbound", v |-> 0, args |-> << >>]
Illegal   == [k |-> "illegal", v |-> 0, args |-> << >>]
\* A call with another number of arguments, of which README.md says nothing.
Unknown   == [k |-> "unknown", v |-> 0, args |-> << >>]

Bind(env, x, v) == (x :> v) @@ env

RECURSIVE BindAll(_, _, _)
BindAll(env, names, vs) ==
  IF vs = << >> THEN env
  ELSE BindAll(Bind(env, Head(names), Head(vs)), Tail(names), Tail(vs))

Unary(op, x) == IF op = "!" THEN Truth(x = 0) ELSE Wrap(-x)
Binary(op, x, y) ==
  CASE op = "<"  -> Truth(x < y)
    [] op = "==" -> Truth(x = y)
    [] op = "+"  -> Wrap(x + y)
    [] op = "*"  -> Wrap(x * y)

RECURSIVE Eval(_, _, _), EvalArgs(_, _, _, _), EvalBindings(_, _, _, _, _),
          Iterate(_, _, _, _)

\* An operand must have a value; anything else decides the whole.
Operand(r) == IF r.k = "recur" THEN Illegal ELSE r

\* All arguments, left to right: Again(values), or the first that has none.
EvalArgs(fs, env, es, vs) ==
  IF es = << >> THEN Again(vs)
  ELSE LET r == Operand(Eval(fs, env, Head(es))) IN
       IF r.k # "int" THEN r ELSE EvalArgs(fs, env, Tail(es), Append(vs, r.v))

\* The environment after the bindings of a let or loop, each visible to the
\* next, and the result that cut the bindings short, if one did.
EvalBindings(fs, env, names, es, i) ==
  IF i > Len(names) THEN [env |-> env, r |-> Value(0)]
  ELSE LET r == Operand(Eval(fs, env, es[i])) IN
       IF r.k # "int" THEN [env |-> env, r |-> r]
       ELSE EvalBindings(fs, Bind(env, names[i], r.v), names, es, i + 1)

\* The loop's body, until it ends otherwise than in a recur.  New values are
\* bound on top of the environment around the loop.
Iterate(fs, outer, env, loop) ==
  LET r == Eval(fs, env, Body(loop)) IN
  IF r.k # "recur" THEN r
  ELSE IF Len(r.args) # Len(loop.names) THEN Illegal
  ELSE Iterate(fs, outer, BindAll(outer, loop.names, r.args), loop)

Eval(fs, env, e) ==
  CASE e.t = "Int" -> Value(e.v)
    [] e.t = "Id" -> IF e.id \in DOMAIN env THEN Value(env[e.id]) ELSE Unbound
    [] e.t = "If" ->
         LET c == Operand(Eval(fs, env, e.kids[1])) IN
         IF c.k # "int" THEN c
         ELSE Eval(fs, env, IF c.v # 0 THEN e.kids[2] ELSE e.kids[3])
    [] e.t = "Unary" ->
         LET x == Operand(Eval(fs, env, e.kids[1])) IN
         IF x.k # "int" THEN x ELSE Value(Unary(e.id, x.v))
    [] e.t = "Binary" ->
         LET x == Operand(Eval(fs, env, e.kids[1])) IN
         IF x.k # "int" THEN x
         ELSE IF e.id = "&&" /\ x.v = 0 THEN Value(0)
         ELSE IF e.id = "||" /\ x.v # 0 THEN Value(1)
         ELSE LET y == Operand(Eval(fs, env, e.kids[2])) IN
              IF y.k # "int" THEN y
              ELSE IF e.id \in {"&&", "||"} THEN Value(Truth(y.v # 0))
              ELSE Value(Binary(e.id, x.v, y.v))
    [] e.t = "Let" ->
         LET b == EvalBindings(fs, env, e.names, e.kids, 1) IN
         IF b.r.k # "int" THEN b.r ELSE Eval(fs, b.env, Body(e))
    [] e.t = "Loop" ->
         LET b == EvalBindings(fs, env, e.names, e.kids, 1) IN
         IF b.r.k # "int" THEN b.r ELSE Iterate(fs, env, b.env, e)
    [] e.t = "Recur" -> EvalArgs(fs, env, e.kids, << >>)
    [] e.t = "Call" ->
         LET a == EvalArgs(fs, env, e.kids, << >>) IN
         IF a.k # "recur" THEN a
         ELSE IF ~Defines(fs, e.id) THEN Unbound
         ELSE LET f == Lookup(fs, e.id) IN
              IF Len(f.names) # Len(a.args) THEN Unknown
              ELSE Operand(Eval(fs, BindAll(<< >>, f.names, a.args), Body(f)))

\* What the program computes from its arguments: the call of its main.
Meaning(fs, args) ==
  LET main == Lookup(fs, "main") IN
  Operand(Eval(fs, BindAll(<< >>, main.names, args), Body(main)))
=============================================================================
