------------------------- MODULE MCSwiftInterpExprs -------------------------
(***************************************************************************)
(* The Swift interpreter on every program of the grammar of Programs, with *)
(* words of three bits; names are bound twice, too, and main is given too  *)
(* few and too many arguments.  These programs are given as trees.  Those  *)
(* of SamplePrograms are given as tokens, and parsed before they are run,  *)
(* with every way to go wrong in a token.                                  *)
(***************************************************************************)
EXTENDS SwiftMain, Programs

MCHalf           == 4
MCIdentifiers    == {"x", "y", "z", "unbound", "n", "acc", "i", "a", "b", "unused"}
                      \union {"main", "fac", "fib", "f", "g"}
MCMaxInvocations == 2

Ref    == INSTANCE Semantics
Sample == INSTANCE SamplePrograms
Tokens == INSTANCE TokenGrammar WITH Strength <- P!SY!rawValue

BoundTwice ==
  { Let(<<"x", "y", "x">>, <<a, x, Up(x)>>, b) : a \in Values, b \in {x, y} }
    \union { Loop(<<"x", "x">>, <<x, y>>, If(x, Recur(<<y, Up(x)>>), y)),
             Loop(<<"x">>, <<x>>, If(x, Recur(<<Up(x), y>>), y)) }

\* Loops whose recurs add 1 to x, and so end: at the latest when x wraps to 0.
CountingUp ==
  { Loop(<<"x", "y">>, <<x, a>>, If(x, r, y)) : a \in {y, Up(x)}, r \in Again }

Run(e, args) ==
  [functions |-> Calling(e, args).functions, args |-> args,
   ends |-> e \in CountingUp \/ e.t # "Loop"]
Arguments == {-Half, -1, 0, Half - 1}
MCInvocations ==
  { Run(e, <<a, b>>) : e \in MainBodies \union BoundTwice, a \in Arguments, b \in Arguments }
    \union { Run(Bin("+", x, y), args) : args \in {<<1>>, <<1, 0, 1>>} }
AllParts == UNION { Parts(f) : f \in UNION { ToSet(inv.functions) : inv \in MCInvocations } }
MCExprs  == {e \in AllParts : e.t \in Kinds}

Line(fs, argv) == [tokens |-> Sample!ProgramText(fs, TRUE), argv |-> argv, ends |-> TRUE]
MCCommandLines ==
  { Line(fs, <<n>>) : fs \in {Sample!Fac, Sample!Fib, Sample!Main(Sample!LoopRecur(Num(3)))},
                      n \in {-1, 0, 1, 2, Half} }
    \union { [tokens |-> tokens, argv |-> << >>, ends |-> TRUE] :
               tokens \in UNION { Sample!Changed(Sample!ProgramText(fs, FALSE)) : fs \in Sample!Samples } }
    \union { Line(SubSeq(Sample!Fac, 1, 1), <<1>>) }

MCInit == (Init /\ P!Idle) \/ MainInit
MCSpec == MCInit /\ [][MainNext]_mvars /\ WF_mvars(MainNext)

(* The interpreter gives a program the value README.md gives it, unless a  *)
(* negation overflows on the way; it ends for a name that is not bound, so *)
(* no variable of a caller is seen in a function.  Programs with a recur   *)
(* in the wrong place are not promised anything.                           *)
MeansReference ==
  status \in {"returned", "trapped"} /\ program.functions # << >> /\ Len(program.args) <= 2 =>
    LET m == Ref!Meaning(program.functions, program.args) IN
    \/ m.k = "illegal"
    \/ m.k = "int" /\ status = "returned" /\ result = m.v
    \/ m.k \in {"unbound", "unknown"} /\ status = "trapped"

\* In a tree: identifiers are no functions known by then, and calls are.
RECURSIVE NamesAgree(_, _)
NamesAgree(e, known) ==
  /\ e.t = "Id" => e.id \notin known
  /\ e.t = "Call" => e.id \in known
  /\ \A k \in 1 .. Len(e.kids) : NamesAgree(e.kids[k], known)
AllNamesAgree(fs) ==
  \A k \in 1 .. Len(fs) : NamesAgree(fs[k], { fs[j].id : j \in 1 .. k })

(* The parser finds the tree the grammar gives the tokens, with the raw    *)
(* values as precedences, and traps exactly if the grammar gives none, or  *)
(* the name of a function that is known by then is used for a variable, or *)
(* that of one that is not is called.  A file without tokens is let pass.  *)
ParsesByGrammar ==
  /\ status = "parsing" /\ at = "parsed" /\ program.line.tokens # << >> =>
       Tokens!ProgramTrees(program.line.tokens) = {functions} /\ AllNamesAgree(functions)
  /\ at = "trapped" => \A fs \in Tokens!ProgramTrees(program.line.tokens) : ~AllNamesAgree(fs)

(* The process does not go on for ever: with parsing for no tokens, and    *)
(* with evaluating for no program that ends, for every recur of a loop     *)
(* finds the values the last one left.                                     *)
EndsWithProgram == program.ends ~> status \in Stopped \union {"exited"}
=============================================================================
