------------------------------ MODULE Programs ------------------------------
(***************************************************************************)
(* A grammar of small programs, legal or not, that both interpreters are   *)
(* checked on: all calculations of two operands; bindings that shadow; and *)
(* loops whose recurs are in tail position, in a let, in an operand, in an *)
(* inner loop, or have the wrong number of arguments, with calls that      *)
(* recur or have the wrong number of arguments.                            *)
(***************************************************************************)
EXTENDS Words, Syntax

x == Var("x")
y == Var("y")
Up(e) == Bin("+", e, Num(1))

Values == { Num(1), x, y, Up(x), Bin("+", y, x), Var("unbound") }
Calculations ==
  { Bin(op, a, b) : op \in {"<", "==", "+", "*", "&&", "||"}, a \in {x, Num(1)},
                    b \in {x, y, Var("unbound")} }
    \union { Un(op, a) : op \in {"!", "-"}, a \in {x, y} }
Calls ==
  { CallOf("apply", <<y>>), CallOf("apply", <<Num(1), x, y>>), CallOf("down", <<x>>),
    CallOf("apply", <<CallOf("apply", <<x, y>>), x>>), Bin("+", CallOf("apply", <<x, y>>), x) }

Lets ==
  { Let(<<"x", "y">>, <<a, b>>, Bin("+", x, Let(<<"y">>, <<c>>, Bin("<", x, y)))) :
      a \in Values, b \in Values, c \in Values }

\* What a loop of x and y may do until x is 0.
Again == { Recur(<<Up(x), b>>) : b \in Values \union Calls }
LoopBodies ==
  Again
    \union { Let(<<"y">>, <<a>>, r) : a \in Values, r \in Again }
    \union { Loop(<<"x", "z">>, <<x, y>>, If(x, Recur(<<Up(x), b>>), Var("z"))) :
               b \in {Var("z"), Bin("*", Var("z"), y)} }
    \union { Recur(<<Up(x), Loop(<<"y">>, <<y>>, If(y, Recur(<<Up(y)>>), b))>>) :
               b \in {x, y, Recur(<<x, y>>)} }
    \union { Bin(op, a, Recur(<<x, y>>)) : op \in {"+", "&&", "||"}, a \in {y, Num(1)} }
    \union { Recur(<<x>>), Un("-", Recur(<<Up(x), y>>)), CallOf("apply", <<x, Recur(<<x, y>>)>>),
             If(y, Recur(<<Up(x), x>>), y), Let(<<"x">>, <<Recur(<<x, y>>)>>, x) }
Loops ==
  { Loop(<<"x", "y">>, <<x, a>>, If(c, body, y)) :
      a \in {y, Up(x)}, c \in {x, Bin("&&", x, Num(1))}, body \in LoopBodies }

Helpers == <<
  Fun("apply", <<"y", "x">>, Bin("+", x, Bin("*", y, y))),
  Fun("down", <<"z">>, If(Var("z"), Up(CallOf("down", <<Up(Var("z"))>>)), y)) >>

\* main evaluates one of these.
MainBodies ==
  Calculations \union Calls \union Lets \union Loops
    \union { Recur(<<x, y>>), Loop(<<"x">>, <<x>>, Recur(<<x>>)) }

\* An expression or definition, and all it is made of.
RECURSIVE Parts(_)
Parts(e) == {e} \union UNION { Parts(e.kids[k]) : k \in 1 .. Len(e.kids) }

Calling(e, args) ==
  [functions |-> Helpers \o << Fun("main", <<"x", "y">>, e) >>, args |-> args]
=============================================================================
