---------------------------- MODULE SamplePrograms ----------------------------
(***************************************************************************)
(* Programs that have all forms of the language in them, the tokens they   *)
(* are written with, and every way to go wrong in a token of them.  Both   *)
(* parsers are checked on them.                                            *)
(***************************************************************************)
EXTENDS Syntax, Tokens

Plus(x, y)  == Bin("+", x, y)
Times(x, y) == Bin("*", x, y)
Minus(x, n) == Plus(x, Un("-", Num(n)))
Equal(x, y) == Bin("==", x, y)
Less(x, y)  == Bin("<", x, y)

\* An expression of a tests/ file as a program; main must have a parameter.
Main(e) == << Fun("main", <<"unused">>, e) >>

\* examples/fac.sl
Fac == <<
  Fun("fac", <<"n">>,
    Loop(<<"acc", "i">>, <<Num(1), Num(2)>>,
      If(Less(Var("n"), Var("i")), Var("acc"),
         Recur(<<Times(Var("acc"), Var("i")), Plus(Var("i"), Num(1))>>)))),
  Fun("main", <<"n">>, CallOf("fac", <<Var("n")>>)) >>

\* examples/fib.sl
Fib == <<
  Fun("fib", <<"n">>,
    If(Less(Var("n"), Num(2)), Var("n"),
       Plus(CallOf("fib", <<Minus(Var("n"), 1)>>), CallOf("fib", <<Minus(Var("n"), 2)>>)))),
  Fun("main", <<"n">>, CallOf("fib", <<Var("n")>>)) >>

\* tests/interpreter-1.9/looprecur2.sl, counting down from n
LoopRecur(n) ==
  Loop(<<"a", "b">>, <<n, Num(0)>>,
    If(Equal(Var("a"), Num(0)), Var("b"),
       Recur(<<Minus(Var("a"), 1), Plus(Var("b"), Num(1))>>)))

-----------------------------------------------------------------------------
(* The programs as tokens: with the parentheses that the precedences ask   *)
(* for, or (full) around every operation.                                  *)

RECURSIVE Concat(_)
Concat(ss) == IF ss = << >> THEN << >> ELSE Head(ss) \o Concat(Tail(ss))

RECURSIVE Text(_, _)
Text(e, full) ==
  LET Parens(ts) == <<Tok("(")>> \o ts \o <<Tok(")")>>
      Of(k)     == Text(e.kids[k], full)
      Atom(kid) == IF kid.t = "Binary" THEN Parens(Text(kid, full)) ELSE Text(kid, full)
      Side(kid, strength) == IF kid.t # "Binary" THEN Text(kid, full)
                             ELSE IF full \/ Precedence[kid.id] < strength THEN Atom(kid)
                             ELSE Text(kid, full)
      Each(from, F(_)) == Concat([k \in 1 .. Len(e.kids) + 1 - from |-> F(k + from - 1)])
      Argument(k) == Parens(Of(k))
      Binding(k)  == << Tok(IF k = 1 THEN (IF e.t = "Let" THEN "let" ELSE "loop") ELSE "and"),
                        Ident(e.names[k]), Tok("=") >> \o Of(k)
  IN
  CASE e.t = "Int"    -> << Integer(e.v) >>
    [] e.t = "Id"     -> << Ident(e.id) >>
    [] e.t = "If"     -> <<Tok("if")>> \o Of(1) \o <<Tok("then")>> \o Of(2)
                           \o <<Tok("else")>> \o Of(3) \o <<Tok("end")>>
    [] e.t = "Unary"  -> << Tok(e.id) >> \o Atom(e.kids[1])
    [] e.t = "Binary" -> Side(e.kids[1], Precedence[e.id]) \o << Tok(e.id) >>
                           \o Side(e.kids[2], Precedence[e.id] + 1)
    [] e.t \in {"Let", "Loop"} ->
         Concat([k \in 1 .. Len(e.names) |-> Binding(k)])
           \o <<Tok("in")>> \o Of(Len(e.kids)) \o <<Tok("end")>>
    [] e.t = "Recur"  -> << Tok("recur") >> \o Each(1, Argument)
    [] e.t = "Call"   -> << Ident(e.id) >> \o Each(1, Argument)

\* The grammar wants a parameter where the tests evaluate an expression.
FunctionText(f, full) ==
  <<Tok("let"), Ident(f.id)>>
    \o [k \in 1 .. Len(f.names) |-> Ident(f.names[k])]
    \o <<Tok("=")>> \o Text(Body(f), full) \o <<Tok("end")>>
ProgramText(fs, full) == Concat([k \in 1 .. Len(fs) |-> FunctionText(fs[k], full)])

-----------------------------------------------------------------------------
(* Every way to go wrong in one token, or two that have changed places, of *)
(* programs that have all forms in them.                                   *)

a == Var("a")
b == Var("b")
Samples ==
  { << Fun("main", <<"a">>,
         Bin("||", Bin("&&", Less(Plus(Times(Un("-", a), Num(2)), Num(1)), a),
                             Equal(Un("!", Num(3)), Times(a, Plus(b, a)))), b)) >>,
    << Fun("f", <<"a", "b">>, If(a, CallOf("f", <<a, Plus(b, Num(1))>>), Un("-", Un("!", Less(a, b))))) >>,
    << Fun("g", <<"a">>, a), Fun("main", <<"a">>,
         Let(<<"b", "a">>, <<Num(1), b>>,
             Loop(<<"b">>, <<a>>, If(b, Recur(<<Plus(b, a)>>), a)))) >>,
    << Fun("b", <<"a">>, a), Fun("main", <<"a">>, CallOf("b", <<CallOf("b", <<a>>)>>)) >> }

Replace(s, k, ts) == SubSeq(s, 1, k - 1) \o ts \o SubSeq(s, k + 1, Len(s))
OneOfEach == { Tok(token_type_t[k]) : k \in Place("let") .. Len(token_type_t) }
           \union { Ident("b"), Integer(2) }
Changed(s) ==
  UNION { { Replace(s, k, ts) :
              ts \in { << >> } \union { <<t>> : t \in OneOfEach } \union { <<t, s[k]>> : t \in OneOfEach } }
          : k \in 1 .. Len(s) }
  \union { [s EXCEPT ![k] = s[k + 1], ![k + 1] = s[k]] : k \in 1 .. Len(s) - 1 }
  \union { SubSeq(s, 1, k) : k \in 0 .. Len(s) }
=============================================================================
