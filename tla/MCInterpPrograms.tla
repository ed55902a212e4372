-------------------------- MODULE MCInterpPrograms --------------------------
(***************************************************************************)
(* The interpreter on programs of the repository, on 16-bit words: fac,    *)
(* fib and div of examples/, and the programs of tests/interpreter-1.7 and *)
(* -1.9.  Each is run on several arguments, and must give what its test    *)
(* expects or what arithmetic gives.                                       *)
(***************************************************************************)
EXTENDS EvalProgramMain, SamplePrograms

MCHalf     == 32768
MCMaxNodes == 48

\* examples/div.sl, with the word width 16 for 64
Div == <<
  Fun("shiftl", <<"x", "a">>,
    Loop(<<"x", "i">>, <<Var("x"), Num(0)>>,
      If(Less(Var("i"), Var("a")),
         Recur(<<Times(Var("x"), Num(2)), Plus(Var("i"), Num(1))>>), Var("x")))),
  Fun("leadingzeros", <<"x">>,
    If(Equal(Var("x"), Num(0)), Num(16),
       If(Less(Var("x"), Num(0)), Num(0),
          Plus(Num(1), CallOf("leadingzeros", <<Times(Var("x"), Num(2))>>))))),
  Fun("sign", <<"x">>,
    If(Equal(Var("x"), Num(0)), Num(0),
       If(Less(Var("x"), Num(0)), Un("-", Num(1)), Num(1)))),
  Fun("div", <<"x", "y">>,
    Let(<<"multiplier", "x", "y", "lz">>,
        << Times(CallOf("sign", <<Var("x")>>), CallOf("sign", <<Var("y")>>)),
           Times(Var("x"), CallOf("sign", <<Var("x")>>)),
           Times(Var("y"), CallOf("sign", <<Var("y")>>)),
           CallOf("leadingzeros", <<Var("y")>>) >>,
        Loop(<<"x", "r", "i">>, <<Var("x"), Num(0), Minus(Var("lz"), 1)>>,
          If(Less(Var("i"), Num(0)), Times(Var("r"), Var("multiplier")),
             Let(<<"sy">>, <<CallOf("shiftl", <<Var("y"), Var("i")>>)>>,
               If(Un("!", Less(Var("x"), Var("sy"))),
                  Recur(<< Plus(Var("x"), Un("-", Var("sy"))),
                           Plus(Var("r"), CallOf("shiftl", <<Num(1), Var("i")>>)),
                           Minus(Var("i"), 1) >>),
                  Recur(<< Var("x"), Var("r"), Minus(Var("i"), 1) >>))))))),
  Fun("main", <<"x", "y">>, CallOf("div", <<Var("x"), Var("y")>>)) >>

\* tests/interpreter-1.7/letnest.sl
LetNest == Main(
  Un("-", Let(<<"a">>, <<Num(10)>>,
    Plus(Let(<<"a", "a">>, <<Num(1), Plus(Var("a"), Num(1))>>, Var("a")), Var("a")))))

\* tests/interpreter-1.9/names1.sl and names2.sl: the value is b, or c; the
\* recur passes b, or c, within the let of another c.
Names(x) == Main(
  Let(<<"c">>, <<Num(123)>>,
    Loop(<<"a", "b">>, <<Num(1), Num(0)>>,
      If(Equal(Var("a"), Num(2)), Var(x),
         Let(<<"c">>, <<Num(456)>>, Recur(<<Plus(Var("a"), Num(1)), Var(x)>>))))))

\* tests/interpreter-1.9/nestedloop.sl
NestedLoop == Main(
  Loop(<<"a", "b">>, <<Num(5), Num(0)>>,
    If(Equal(Var("a"), Num(0)), Var("b"),
       Recur(<<Minus(Var("a"), 1), Plus(Var("b"), LoopRecur(Num(6)))>>))))

Abs(n) == IF n < 0 THEN -n ELSE n
Quotient(x, y) == LET q == Abs(x) \div Abs(y) IN IF (x < 0) = (y < 0) THEN q ELSE -q

-----------------------------------------------------------------------------
Line(tokens, argv, value, code) ==
  [tokens |-> tokens, argv |-> argv, expected |-> value, exit |-> code]
Case(fs, argv, value) == { Line(ProgramText(fs, full), argv, value, 0) : full \in BOOLEAN }

Good ==
  UNION { Case(Fac, <<n>>, << 1, 2, 6, 24, 120, 720, 5040, -25216 >>[n]) : n \in 1 .. 8 }
  \union UNION { Case(Fib, <<n>>, << 1, 1, 2, 3, 5, 8 >>[n]) : n \in 1 .. 6 }
  \union UNION { Case(Div, <<x, y>>, Quotient(IF x > 32767 THEN 32767 ELSE x, y)) :
                   x \in {-4352, 0, 123, 40000}, y \in {-341, 2, 7} }
  \union Case(LetNest, <<0>>, -12) \union Case(Names("b"), <<0>>, 0)
  \union Case(Names("c"), <<0>>, 123) \union Case(NestedLoop, <<0>>, 30)
  \union Case(Main(LoopRecur(Num(100))), <<0>>, 100)

\* Refused after parsing: no main, or another number of arguments.
Refused ==
  { Line(ProgramText(SubSeq(Fac, 1, 1), FALSE), <<1>>, 0, 1),
    Line(ProgramText(Fac, FALSE), << >>, 0, 2), Line(ProgramText(Div, FALSE), <<1>>, 0, 2) }

\* These get more arguments than any main has parameters, so that those that
\* can be parsed are not run.
TooMany == <<1, 2, 3, 4>>
Wrong == { Line(tokens, TooMany, 0, 2) :
             tokens \in UNION { Changed(ProgramText(fs, FALSE)) : fs \in Samples } }

MCCommandLines == Good \union Refused \union Wrong

Ref == INSTANCE TokenGrammar WITH Strength <- Precedence

(* The parser finds the tree the grammar gives the tokens, and ends in an  *)
(* assert exactly if the grammar gives none (ASSIGNMENTS.md, 1.13).        *)
ParsesByGrammar ==
  /\ status = "parsing" /\ at = "parsed" => Ref!ProgramTrees(program.line.tokens) = {functions}
  /\ at = "aborted" => Ref!ProgramTrees(program.line.tokens) = {}

(* Every program returns what its test expects, with no more than MaxNodes *)
(* environment nodes, however often its loops recur; and the process exits *)
(* with 1 or 2, before anything is evaluated, where main.c says so.        *)
ComputesExpected ==
  LET line == program.line IN
  /\ status \in {"returned", "crashed"} =>
       line.exit = 0 /\ status = "returned" /\ result = line.expected
  /\ status = "aborted" => line.argv = TooMany
  /\ status = "exited" /\ line.argv # TooMany => line.exit # 0 /\ result = line.exit
=============================================================================
