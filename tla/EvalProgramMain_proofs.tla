----------------------- MODULE EvalProgramMain_proofs -----------------------
(***************************************************************************)
(* The C program.  The recursive-descent parser, within the program that   *)
(* calls it: however deep expressions are nested, and whatever the tokens, *)
(* every open call of parse_expr keeps its two arrays in step and returns  *)
(* with one operand and no operator; and the functions it makes are well   *)
(* formed.  The tree-walking interpreter: a recur never reaches an operand *)
(* that is evaluated for its value, no frame holds a freed environment,    *)
(* and every allocated node is a binding in force, for all programs, all   *)
(* arguments and any amount of memory.  Together: the same of the          *)
(* interpreter in the whole program, run on whatever was parsed.           *)
(***************************************************************************)
EXTENDS EvalProgramMain, Basics_proofs

\* The loops of parse_expr, with what is proved about them for one chain.
OP == INSTANCE OperatorParser_proofs WITH chain <- 0, Operands <- {}, Chains <- {}

-----------------------------------------------------------------------------
(***************************************************************************)
(* The inductive invariant.  The stack of activations begins with that of  *)
(* parse_function, which is the only one, and is never empty while an      *)
(* expression is parsed; the arrays that the activations keep are in step. *)
(* Of the arrays of the innermost parse_expr the same holds between two    *)
(* operands, and in its loops what OperatorParser_proofs has found: no     *)
(* operator is left of the levels that are done.                           *)
(***************************************************************************)
InStep(exprs, ops) == IsSeq(exprs) /\ ops \in Seq(BinaryOperators) /\ Len(exprs) = Len(ops)

StackOK(cs) ==
  /\ IsSeq(cs)
  /\ \A k \in 1 .. Len(cs) : /\ cs[k].place = "function" <=> k = 1
                             /\ InStep(cs[k].exprs, cs[k].ops)

Collecting == at \in {"primary", "returned"} => InStep(expr_arr, op_arr) /\ p = 0 /\ i = 0
Joining    == at = "join" => OP!PInv
Nested     == at \in {"primary", "returned", "join"} => callers # << >>

ParserInv == StackOK(callers) /\ Nested /\ Collecting /\ Joining

-----------------------------------------------------------------------------
(* The stack of activations, and the arrays.                               *)

\* No activation waits, and the arrays are new.
LEMMA EmptyOK == StackOK(<< >>) /\ InStep(<< >>, << >>)
<1>1. IsSeq(<< >>)
  <2>1. << >> \in Seq({0})
    OBVIOUS
  <2> QED
    BY <2>1, SeqIsSeq
<1> QED
  BY <1>1 DEF StackOK, InStep

\* An activation waits on top of the others; only the first is of
\* parse_function.
LEMMA PushOK ==
  ASSUME NEW cs, StackOK(cs), NEW place, cs = << >> <=> place = "function",
         NEW node, NEW exprs, NEW ops, InStep(exprs, ops),
         NEW cs2, cs2 = Append(cs, P!Activation(place, node, exprs, ops))
  PROVE  StackOK(cs2) /\ cs2 # << >>
<1> DEFINE act == P!Activation(place, node, exprs, ops)
<1>1. act.place = place /\ act.exprs = exprs /\ act.ops = ops
  BY DEF P!Activation
<1> HIDE DEF act
<1>2. /\ IsSeq(cs2) /\ cs2 # << >>
      /\ Len(cs) \in Nat /\ Len(cs2) = Len(cs) + 1
      /\ \A k \in 1 .. Len(cs) : cs2[k] = cs[k]
      /\ cs2[Len(cs) + 1] = act
  <2>1. IsSeq(cs)
    BY DEF StackOK
  <2> QED
    BY <2>1, AppendIsSeq DEF act
<1>3. cs = << >> <=> Len(cs) = 0
  BY DEF StackOK, IsSeq
<1>4. ASSUME NEW k \in 1 .. Len(cs2)
      PROVE  (cs2[k].place = "function" <=> k = 1) /\ InStep(cs2[k].exprs, cs2[k].ops)
  <2>1. CASE k \in 1 .. Len(cs)
    BY <1>2, <2>1 DEF StackOK
  <2>2. CASE k = Len(cs) + 1
    <3>1. cs2[k].place = place /\ InStep(cs2[k].exprs, cs2[k].ops)
      BY <1>1, <1>2, <2>2
    <3>2. k = 1 <=> place = "function"
      BY <1>2, <1>3, <2>2
    <3> QED
      BY <3>1, <3>2
  <2>3. k \in 1 .. Len(cs) \/ k = Len(cs) + 1
    BY <1>2
  <2> QED
    BY <2>1, <2>2, <2>3
<1> QED
  BY <1>2, <1>4 DEF StackOK

\* The activation on top goes on; only that of parse_function is the last.
LEMMA PopOK ==
  ASSUME NEW cs, StackOK(cs), cs # << >>,
         NEW cs2, cs2 = SubSeq(cs, 1, Len(cs) - 1)
  PROVE  /\ StackOK(cs2)
         /\ InStep(cs[Len(cs)].exprs, cs[Len(cs)].ops)
         /\ cs2 = << >> <=> cs[Len(cs)].place = "function"
<1>1. /\ IsSeq(cs2) /\ Len(cs) \in Nat \ {0} /\ Len(cs2) = Len(cs) - 1
      /\ \A k \in 1 .. Len(cs) - 1 : cs2[k] = cs[k]
  BY FrontIsSeq DEF StackOK
<1>2. cs2 = << >> <=> Len(cs) = 1
  <2>1. cs2 = << >> <=> Len(cs2) = 0
    BY <1>1 DEF IsSeq
  <2> QED
    BY <1>1, <2>1
<1>3. Len(cs) \in 1 .. Len(cs) /\ \A k \in 1 .. Len(cs) - 1 : k \in 1 .. Len(cs)
  BY <1>1
<1>4. StackOK(cs2)
  BY <1>1, <1>3 DEF StackOK
<1> QED
  BY <1>2, <1>3, <1>4 DEF StackOK

\* What the type of the loops says of the lengths.
LEMMA JoiningLengths ==
  ASSUME OP!PInv
  PROVE  /\ op_arr \in Seq(BinaryOperators) /\ Len(op_arr) \in Nat
         /\ Len(expr_arr) = Len(op_arr) + 1
<1>1. op_arr \in Seq(BinaryOperators) /\ Len(op_arr) \in Nat
  BY DEF OP!PInv, OP!TypeOK, OP!BinaryOperators, BinaryOperators
<1> DEFINE n == Len(op_arr) + 1
           S == { expr_arr[j] : j \in 1 .. n }
<1>2. expr_arr \in [1 .. n -> S]
  BY DEF OP!PInv, OP!TypeOK
<1> HIDE DEF S
<1>3. Len(expr_arr) = n
  <2>1. n \in Nat
    BY <1>1
  <2> HIDE DEF n
  <2> QED
    BY <1>2, <2>1, OP!LengthByDomain
<1> QED
  BY <1>1, <1>3

\* parse_expr returns with one operand and no operator.
LEMMA ReturnsOne ==
  ASSUME ParserInv, P!Returns
  PROVE  op_arr = << >> /\ Len(expr_arr) = 1
<1>1. OP!PInv /\ p = OP!Levels
  BY DEF ParserInv, Joining, P!Returns, P!Op!Levels, OP!Levels
<1>2. Len(op_arr) = 0 /\ Len(expr_arr) = 1
  BY <1>1, HalfAssumption, OP!PInvOneTree DEF OP!OneTreeLeft
<1> QED
  BY <1>1, <1>2, JoiningLengths

-----------------------------------------------------------------------------
(* The calls and returns that the actions are made of.                     *)

\* parse_expr is called, with new arrays.
LEMMA CallKeepsParserInv ==
  ASSUME NEW others, StackOK(others), NEW place, others = << >> <=> place = "function",
         NEW node, NEW exprs, NEW ops, InStep(exprs, ops),
         P!CallParseExpr(others, P!Activation(place, node, exprs, ops))
  PROVE  ParserInv'
<1>1. StackOK(callers') /\ callers' # << >>
  BY PushOK DEF P!CallParseExpr
<1>2. expr_arr' = << >> /\ op_arr' = << >> /\ p' = 0 /\ i' = 0 /\ at' = "primary"
  BY DEF P!CallParseExpr
<1>3. InStep(expr_arr', op_arr')
  BY <1>2, EmptyOK
<1> QED
  BY <1>1, <1>2, <1>3 DEF ParserInv, Nested, Collecting, Joining

\* An activation of parse_primary or parse_args calls parse_expr again.
LEMMA AgainKeepsParserInv ==
  ASSUME ParserInv, NEW place, place # "function", NEW node,
         at = "join", P!Top.place # "function", P!Again(node, place)
  PROVE  ParserInv'
<1>1. StackOK(callers) /\ callers # << >>
  BY DEF ParserInv, Nested
<1>2. StackOK(P!Others) /\ InStep(P!Top.exprs, P!Top.ops) /\ P!Others # << >>
  BY <1>1, PopOK DEF P!Others, P!Top
<1> QED
  BY <1>2, CallKeepsParserInv DEF P!Again

\* It returns, and the arrays of the parse_expr that called it are back.
LEMMA ReturnKeepsParserInv ==
  ASSUME ParserInv, NEW node, at = "join", P!Top.place # "function", P!PrimaryReturns(node)
  PROVE  ParserInv'
<1>1. StackOK(callers) /\ callers # << >>
  BY DEF ParserInv, Nested
<1>2. StackOK(P!Others) /\ InStep(P!Top.exprs, P!Top.ops) /\ P!Others # << >>
  BY <1>1, PopOK DEF P!Others, P!Top
<1>3. /\ callers' = P!Others /\ expr_arr' = P!Top.exprs /\ op_arr' = P!Top.ops
      /\ p' = 0 /\ i' = 0 /\ at' = "returned"
  BY DEF P!PrimaryReturns
<1> QED
  BY <1>2, <1>3 DEF ParserInv, Nested, Collecting, Joining

\* parse_primary calls parse_expr, and its activation keeps the arrays.
LEMMA OpensKeepsParserInv ==
  ASSUME ParserInv, NEW types, NEW place, place # "function", NEW node,
         P!Opens(types, place, node)
  PROVE  ParserInv'
<1>1. at = "primary" /\ P!CallParseExpr(callers, P!Activation(place, node, expr_arr, op_arr))
  BY DEF P!Opens
<1>2. StackOK(callers) /\ callers # << >> /\ InStep(expr_arr, op_arr)
  BY <1>1 DEF ParserInv, Nested, Collecting
<1> QED
  BY <1>1, <1>2, CallKeepsParserInv

\* parse_primary returns an integer or an identifier.
LEMMA LeafKeepsParserInv ==
  ASSUME ParserInv, NEW node, at = "primary", P!Leaf(node)
  PROVE  ParserInv'
<1>1. /\ at' = "returned" /\ callers' = callers /\ expr_arr' = expr_arr /\ op_arr' = op_arr
      /\ p' = p /\ i' = i
  BY DEF P!Leaf, P!arrays
<1> QED
  BY <1>1 DEF ParserInv, Nested, Collecting, Joining

-----------------------------------------------------------------------------
(* The parser takes a step.                                                *)

\* parse_primary begins.
LEMMA PrimaryKeepsParserInv ==
  ASSUME ParserInv,
         \/ P!PrimaryInteger \/ P!PrimaryIdent \/ P!PrimaryCall \/ P!PrimaryRecur \/ P!PrimaryIf
         \/ P!PrimaryLet \/ P!PrimaryLoop \/ P!PrimaryParen
  PROVE  ParserInv'
<1>1. CASE P!PrimaryInteger
  BY <1>1, LeafKeepsParserInv DEF P!PrimaryInteger
<1>2. CASE P!PrimaryIdent
  BY <1>2, LeafKeepsParserInv DEF P!PrimaryIdent
<1>3. CASE P!PrimaryCall
  BY <1>3, OpensKeepsParserInv DEF P!PrimaryCall
<1>4. CASE P!PrimaryRecur
  BY <1>4, OpensKeepsParserInv DEF P!PrimaryRecur
<1>5. CASE P!PrimaryIf
  BY <1>5, OpensKeepsParserInv DEF P!PrimaryIf
<1>6. CASE P!PrimaryLet
  BY <1>6, OpensKeepsParserInv DEF P!PrimaryLet
<1>7. CASE P!PrimaryLoop
  BY <1>7, OpensKeepsParserInv DEF P!PrimaryLoop
<1>8. CASE P!PrimaryParen
  BY <1>8, OpensKeepsParserInv DEF P!PrimaryParen
<1> QED
  BY <1>1, <1>2, <1>3, <1>4, <1>5, <1>6, <1>7, <1>8

\* parse_function calls parse_expr for the body.
LEMMA FunctionKeepsParserInv == ASSUME ParserInv, P!parse_function PROVE ParserInv'
<1> DEFINE fun(n) == P!Node("Fun", 0, input[2].name, [k \in 1 .. n |-> input[k + 2].name], << >>)
<1>1. PICK n \in 1 .. Len(input) :
        P!CallParseExpr(<< >>, P!Activation("function", fun(n), << >>, << >>))
  BY DEF P!parse_function
<1> HIDE DEF fun
<1> QED
  BY <1>1, EmptyOK, CallKeepsParserInv

\* parse_primary calls itself for the operand of ! and -, and returns to itself.
LEMMA UnaryKeepsParserInv ==
  ASSUME ParserInv, P!PrimaryUnary \/ P!ReturnToUnary
  PROVE  ParserInv'
<1>1. CASE P!PrimaryUnary
  <2> DEFINE node == P!Node("Unary", 0, P!lookahead, << >>, << >>)
  <2>1. /\ callers' = Append(callers, P!Activation("unary", node, << >>, << >>))
        /\ at = "primary" /\ at' = at /\ expr_arr' = expr_arr /\ op_arr' = op_arr
        /\ p' = p /\ i' = i
    BY <1>1 DEF P!PrimaryUnary, P!arrays
  <2> HIDE DEF node
  <2>2. StackOK(callers) /\ callers # << >>
    BY <2>1 DEF ParserInv, Nested
  <2>3. StackOK(callers') /\ callers' # << >>
    BY <2>1, <2>2, EmptyOK, PushOK
  <2> QED
    BY <2>1, <2>3 DEF ParserInv, Nested, Collecting, Joining
<1>2. CASE P!ReturnToUnary
  <2>1. /\ callers # << >> /\ P!Top.place = "unary" /\ callers' = P!Others
        /\ at = "returned" /\ at' = at /\ expr_arr' = expr_arr /\ op_arr' = op_arr
        /\ p' = p /\ i' = i
    BY <1>2 DEF P!ReturnToUnary, P!ToUnary, P!arrays
  <2>2. StackOK(callers') /\ callers' # << >>
    BY <2>1, PopOK DEF ParserInv, P!Others, P!Top
  <2> QED
    BY <2>1, <2>2 DEF ParserInv, Nested, Collecting, Joining
<1> QED
  BY <1>1, <1>2

\* The tokens between "<" and "==" are the binary operators.
LEMMA BinaryTokens == P!IsBinaryOperator \subseteq BinaryOperators
<1>1. \A k \in 1 .. 23 : P!token_type_t[k] = "<" <=> k = 17
  BY DEF P!token_type_t
<1>2. \A k \in 1 .. 23 : P!token_type_t[k] = "==" <=> k = 22
  BY DEF P!token_type_t
<1>3. Len(P!token_type_t) = 23
  BY DEF P!token_type_t
<1>4. P!Place("<") = 17 /\ P!Place("==") = 22
  BY <1>1, <1>2, <1>3 DEF P!Place
<1>5. \A k \in 17 .. 22 : P!token_type_t[k] \in BinaryOperators
  BY DEF P!token_type_t, BinaryOperators
<1> QED
  BY <1>4, <1>5 DEF P!IsBinaryOperator, P!Between

\* What the first level of the loops finds.
LEMMA LevelZero ==
  /\ op_arr \in Seq(BinaryOperators) /\ IsSeq(expr_arr) /\ Len(expr_arr) = Len(op_arr) + 1
  /\ p = 0 /\ i = 0
  => OP!PInv
<1> SUFFICES ASSUME op_arr \in Seq(BinaryOperators), IsSeq(expr_arr),
                    Len(expr_arr) = Len(op_arr) + 1, p = 0, i = 0
             PROVE  OP!PInv
  OBVIOUS
<1>1. Len(op_arr) \in Nat /\ op_arr \in Seq(OP!BinaryOperators)
  BY DEF OP!BinaryOperators, BinaryOperators
<1>2. expr_arr = [j \in 1 .. Len(op_arr) + 1 |-> expr_arr[j]]
  BY DEF IsSeq
<1>3. OP!TypeOK
  BY <1>1, <1>2 DEF OP!TypeOK, OP!Levels
<1>4. OP!LevelsDone
  <2>1. ASSUME NEW j \in 1 .. Len(op_arr) PROVE OP!operator_precedence[op_arr[j]] \in 0 .. 3
    BY <1>1, HalfAssumption, OP!LevelsArePrecedences
  <2> QED
    BY <1>1, <2>1 DEF OP!LevelsDone
<1> QED
  BY <1>3, <1>4 DEF OP!PInv

\* parse_primary returns to parse_expr, which collects an operand.
LEMMA ReturnToExprKeepsParserInv == ASSUME ParserInv, P!ReturnToExpr PROVE ParserInv'
<1>1. /\ at = "returned" /\ expr_arr' = Append(expr_arr, ret)
      /\ callers' = callers /\ p' = p /\ i' = i
  BY DEF P!ReturnToExpr
<1>2. /\ callers # << >> /\ IsSeq(expr_arr) /\ op_arr \in Seq(BinaryOperators)
      /\ Len(expr_arr) = Len(op_arr) /\ p = 0 /\ i = 0
  BY <1>1 DEF ParserInv, Nested, Collecting, InStep
<1>3. IsSeq(expr_arr') /\ Len(expr_arr') = Len(op_arr) + 1
  BY <1>1, <1>2, AppendIsSeq
<1>4. CASE at' = "primary" /\ op_arr' = Append(op_arr, P!lookahead) /\ P!lookahead \in P!IsBinaryOperator
  <2>1. P!lookahead \in BinaryOperators
    BY <1>4, BinaryTokens
  <2>2. op_arr' \in Seq(BinaryOperators) /\ Len(op_arr') = Len(op_arr) + 1
    BY <1>2, <1>4, <2>1
  <2> QED
    BY <1>1, <1>2, <1>3, <1>4, <2>2 DEF ParserInv, Nested, Collecting, Joining, InStep
<1>5. CASE at' = "join" /\ op_arr' = op_arr
  <2>1. OP!PInv'
    <3>1. (/\ op_arr \in Seq(BinaryOperators) /\ IsSeq(expr_arr)
           /\ Len(expr_arr) = Len(op_arr) + 1 /\ p = 0 /\ i = 0)'
      BY <1>1, <1>2, <1>3, <1>5
    <3> QED
      BY <3>1, LevelZero, PTL
  <2> QED
    BY <1>1, <1>2, <1>5, <2>1 DEF ParserInv, Nested, Collecting, Joining
<1> QED
  BY <1>4, <1>5 DEF P!ReturnToExpr

\* One turn of the loops of parse_expr.
LEMMA LoopsKeepParserInv == ASSUME ParserInv, P!JoinLoops PROVE ParserInv'
<1>1. at = "join" /\ at' = at /\ callers' = callers
  BY DEF P!JoinLoops
<1>2. OP!PInv /\ StackOK(callers) /\ callers # << >>
  BY <1>1 DEF ParserInv, Nested, Joining
<1>3. OP!Skip \/ OP!Join \/ OP!NextLevel
  BY DEF P!JoinLoops, P!Op!Skip, OP!Skip, P!Op!Join, OP!Join, P!Op!NextLevel, OP!NextLevel,
         P!Op!Looks, OP!Looks, P!Op!Levels, OP!Levels, P!Op!dynarr_remove, OP!dynarr_remove,
         P!Op!operator_precedence, OP!operator_precedence, P!Op!BinaryOperators,
         OP!BinaryOperators, P!Op!Bin, OP!Bin, P!Op!Node, OP!Node
<1>4. OP!PInv'
  BY <1>2, <1>3, HalfAssumption, OP!SkipPInv, OP!JoinPInv, OP!NextLevelPInv
<1> QED
  BY <1>1, <1>2, <1>4 DEF ParserInv, Nested, Collecting, Joining

\* parse_expr returns to parse_primary or parse_args.
LEMMA ResumeKeepsParserInv ==
  ASSUME ParserInv,
         P!ResumeIf \/ P!ResumeBindings \/ P!ResumeBody \/ P!ResumeArgs \/ P!ResumeParen
  PROVE  ParserInv'
<1> USE DEF P!Resumes, P!Returns
<1>1. CASE P!ResumeIf
  BY <1>1, AgainKeepsParserInv, ReturnKeepsParserInv DEF P!ResumeIf
<1>2. CASE P!ResumeBindings
  BY <1>2, AgainKeepsParserInv DEF P!ResumeBindings
<1>3. CASE P!ResumeBody
  BY <1>3, ReturnKeepsParserInv DEF P!ResumeBody
<1>4. CASE P!ResumeArgs
  BY <1>4, AgainKeepsParserInv, ReturnKeepsParserInv DEF P!ResumeArgs
<1>5. CASE P!ResumeParen
  BY <1>5, ReturnKeepsParserInv DEF P!ResumeParen
<1> QED
  BY <1>1, <1>2, <1>3, <1>4, <1>5

\* parse_function returns, or an assert fails.
LEMMA EndsKeepParserInv ==
  ASSUME ParserInv, P!ResumeFunction \/ P!Abort
  PROVE  ParserInv'
<1>1. CASE P!ResumeFunction
  <2>1. at = "join" /\ at' \in {"function", "parsed"} /\ callers' = P!Others
    BY <1>1 DEF P!ResumeFunction, P!Resumes, P!Returns
  <2>2. StackOK(callers')
    BY <2>1, PopOK DEF ParserInv, Nested, P!Others
  <2> QED
    BY <2>1, <2>2 DEF ParserInv, Nested, Collecting, Joining
<1>2. CASE P!Abort
  BY <1>2 DEF P!Abort, ParserInv, Nested, Collecting, Joining
<1> QED
  BY <1>1, <1>2

\* Every step of the parser.
LEMMA ParserInvStep == ParserInv /\ [P!Next]_parser => ParserInv'
<1> SUFFICES ASSUME ParserInv, [P!Next]_parser PROVE ParserInv'
  OBVIOUS
<1>1. CASE P!Next
  BY <1>1, FunctionKeepsParserInv, PrimaryKeepsParserInv, UnaryKeepsParserInv,
     ReturnToExprKeepsParserInv, LoopsKeepParserInv, ResumeKeepsParserInv, EndsKeepParserInv
     DEF P!Next
<1>2. CASE UNCHANGED parser
  <2>1. /\ callers' = callers /\ expr_arr' = expr_arr /\ op_arr' = op_arr /\ p' = p /\ i' = i
        /\ at' = at
    BY <1>2 DEF parser
  <2>2. OP!PInv => OP!PInv'
    BY <2>1 DEF OP!PInv, OP!TypeOK, OP!LevelsDone
  <2> QED
    BY <2>1, <2>2 DEF ParserInv, Nested, Collecting, Joining
<1> QED
  BY <1>1, <1>2

\* And its beginning.
LEMMA ParserInvInit == P!parser_init => ParserInv
BY EmptyOK DEF P!parser_init, ParserInv, Nested, Collecting, Joining

\* What the invariant was made for.
LEMMA ParserInvArrays == ParserInv => ArraysInStep
<1> SUFFICES ASSUME ParserInv PROVE P!ArraysInStep
  BY DEF ArraysInStep
<1>1. \A k \in 1 .. Len(callers) : Len(callers[k].exprs) = Len(callers[k].ops)
  BY DEF ParserInv, StackOK, InStep
<1>2. at \in {"primary", "returned"} => Len(expr_arr) = Len(op_arr)
  BY DEF ParserInv, Collecting, InStep
<1>3. at = "join" => Len(expr_arr) = Len(op_arr) + 1
  BY JoiningLengths DEF ParserInv, Joining
<1>4. P!Returns => op_arr = << >>
  BY ReturnsOne
<1> QED
  BY <1>1, <1>2, <1>3, <1>4 DEF P!ArraysInStep

-----------------------------------------------------------------------------
\* The driver leaves the parser alone while it evaluates.
LEMMA ParserInvAlways == MainSpec => []ParserInv
<1>1. MainInit => ParserInv
  BY ParserInvInit DEF MainInit
<1>2. [MainNext]_evars => [P!Next]_parser
  BY DEF MainNext, evars, Parse, Refuse, eval_function, Evaluate, Exited
<1> QED
  BY <1>1, <1>2, ParserInvStep, PTL DEF MainSpec

(* Whatever the tokens and however deep the nesting: every open parse_expr *)
(* has as many operands as operators while it collects, one more in its    *)
(* loops, and none of its callees ever takes its arrays for their own; at  *)
(* the end the asserts of parser.c:102-103 hold.                           *)
THEOREM ArraysInStepAlways == MainSpec => []ArraysInStep
BY ParserInvAlways, ParserInvArrays, PTL

(* What parse_expr returns is the one operand that is left: ret and Node1  *)
(* never take an element that is not there (parser.c:102-105).             *)
ReturnsOneOperand == P!Returns => Len(expr_arr) = 1

THEOREM ReturnsOneOperandAlways == MainSpec => []ReturnsOneOperand
<1>1. ParserInv => ReturnsOneOperand
  BY ReturnsOne DEF ReturnsOneOperand
<1> QED
  BY <1>1, ParserInvAlways, PTL

-----------------------------------------------------------------------------
(***************************************************************************)
(* The heap, as a stack of segments: the bindings each active call of eval *)
(* has made, each segment on top of an environment made of earlier ones.   *)
(* These lemmas say what env_bind and env_free do to such a heap, and that *)
(* every environment in it ends at NULL.                                   *)
(***************************************************************************)
Places == 0 .. MaxNodes
Cell   == [name : STRING, value : Word, next : Places]
Heaps  == UNION { [D -> Cell] : D \in SUBSET Addresses }

(***************************************************************************)
(* A segment: its number n of bindings, the environment base it starts     *)
(* from and its own, end; and low, other environments of its call, which   *)
(* like base are older than the segment.                                   *)
(***************************************************************************)
SegmentRecord == [n : Nat, low : SUBSET Places, base : Places, end : Places]

\* nodes lists the allocated nodes, the oldest first: those of segment k are
\* the ones from hi[k - 1] + 1 to hi[k].  a is NULL or one of the first q.
Low(nodes, q, a) == a = NULL \/ \E pos \in 1 .. q : nodes[pos] = a

\* The nodes after lo up to up are a list that begins with end, down to base.
Chain(h, nodes, lo, up, base, end) ==
  /\ end = IF up = lo THEN base ELSE nodes[up]
  /\ \A q \in lo + 1 .. up : h[nodes[q]].next = IF q = lo + 1 THEN base ELSE nodes[q - 1]

Lists(h, M, nodes) ==
  /\ M \in Nat
  /\ nodes \in [1 .. M -> DOMAIN h]
  /\ \A pos, q \in 1 .. M : nodes[pos] = nodes[q] => pos = q
  /\ \A a \in DOMAIN h : \E pos \in 1 .. M : nodes[pos] = a
  /\ \A pos \in 1 .. M : Low(nodes, pos - 1, h[nodes[pos]].next)

Divides(h, g, M, nodes, hi) ==
  /\ hi \in [0 .. Len(g) -> 0 .. M]
  /\ hi[0] = 0 /\ hi[Len(g)] = M
  /\ \A k \in 1 .. Len(g) :
       /\ hi[k] = hi[k - 1] + g[k].n
       /\ Chain(h, nodes, hi[k - 1], hi[k], g[k].base, g[k].end)
       /\ g[k].base \in g[k].low
       /\ \A a \in g[k].low : Low(nodes, hi[k - 1], a)

Layout(h, g) ==
  /\ h \in Heaps
  /\ g \in Seq(SegmentRecord)
  /\ \E M, nodes, hi : Lists(h, M, nodes) /\ Divides(h, g, M, nodes, hi)

\* What the heap holds.
LEMMA HeapType ==
  ASSUME NEW h \in Heaps
  PROVE  /\ h \in [DOMAIN h -> Cell]
         /\ DOMAIN h \subseteq Addresses
         /\ \A a \in DOMAIN h : a \in Places /\ a # NULL /\ h[a].next \in Places
<1>1. PICK D \in SUBSET Addresses : h \in [D -> Cell]
  BY DEF Heaps
<1>2. DOMAIN h = D
  BY <1>1
<1>3. \A a \in D : a \in Places /\ a # NULL
  BY MaxNodesAssumption DEF Addresses, Places, NULL
<1>4. \A a \in D : h[a].next \in Places
  BY <1>1 DEF Cell
<1> QED
  BY <1>1, <1>2, <1>3, <1>4

-----------------------------------------------------------------------------
(* Walks.                                                                  *)

\* walk is the recursive function of Walk: walk[n][a] goes n steps from a.
GoesDown(walk, h, ends) ==
  \A n \in Places, a \in Places :
    IF n = 0 \/ a \notin DOMAIN h \/ a \in ends
    THEN walk[n][a].passed = {} /\ walk[n][a].at = a
    ELSE /\ walk[n][a].passed = walk[n - 1][h[a].next].passed \union {a}
         /\ walk[n][a].at = walk[n - 1][h[a].next].at

\* The recursive function in Walk exists, and does what its equation says.
LEMMA WalkDefined ==
  ASSUME NEW h \in Heaps, NEW ends
  PROVE  \E walk : GoesDown(walk, h, ends) /\ \A env : Walk(h, env, ends) = walk[MaxNodes][env]
<1> DEFINE W == [Places -> [passed : SUBSET Places, at : Places]]
           first == [a \in Places |-> [passed |-> {}, at |-> a]]
           after(w) == [a \in Places |->
                          IF a \notin DOMAIN h \/ a \in ends
                          THEN [passed |-> {}, at |-> a]
                          ELSE [passed |-> w[h[a].next].passed \union {a},
                                at     |-> w[h[a].next].at]]
           step == [n \in 1 .. MaxNodes |-> [w \in W |-> after(w)]]
           IsWalk(f) == f = [n \in 0 .. MaxNodes |-> [a \in 0 .. MaxNodes |->
                 IF n = 0 \/ a \notin DOMAIN h \/ a \in ends THEN [passed |-> {}, at |-> a]
                 ELSE [passed |-> f[n - 1][h[a].next].passed \union {a},
                       at     |-> f[n - 1][h[a].next].at]]]
<1>1. \A a \in DOMAIN h : a \in Places /\ h[a].next \in Places
  BY HeapType
<1>2. first \in W
  OBVIOUS
<1>3. \A w \in W : after(w) \in W
  BY <1>1
<1>4. step \in [1 .. MaxNodes -> [W -> W]]
  <2> HIDE DEF W, after
  <2> QED
    BY <1>3
<1>5. PICK f \in [0 .. MaxNodes -> W] :
        \A n \in 0 .. MaxNodes : f[n] = IF n = 0 THEN first ELSE step[n][f[n - 1]]
  <2> HIDE DEF W, first, step
  <2>1. RecursiveFunctionExists(W, first, MaxNodes, step)
    BY <1>2, <1>4, MaxNodesAssumption, Recursion
  <2> QED
    BY <2>1, Zenon DEF RecursiveFunctionExists
<1>6. IsWalk(f)
  <2>1. ASSUME NEW n \in 0 .. MaxNodes, n # 0
        PROVE  f[n] = after(f[n - 1])
    <3>1. f[n] = step[n][f[n - 1]]
      BY <1>5, <2>1
    <3>2. n \in 1 .. MaxNodes /\ n - 1 \in 0 .. MaxNodes
      BY <2>1, MaxNodesAssumption
    <3>3. f[n - 1] \in W
      BY <3>2, <1>5
    <3> HIDE DEF W, after
    <3> QED
      BY <3>1, <3>2, <3>3
  <2>2. f[0] = first
    <3> HIDE DEF W, first, step
    <3> QED
      BY <1>5, MaxNodesAssumption
  <2>3. f = [n \in 0 .. MaxNodes |-> f[n]]
    BY <1>5
  <2>4. ASSUME NEW n \in 0 .. MaxNodes
        PROVE  f[n] = [a \in 0 .. MaxNodes |->
                 IF n = 0 \/ a \notin DOMAIN h \/ a \in ends THEN [passed |-> {}, at |-> a]
                 ELSE [passed |-> f[n - 1][h[a].next].passed \union {a},
                       at     |-> f[n - 1][h[a].next].at]]
    BY <2>1, <2>2 DEF Places
  <2> HIDE DEF W
  <2> QED
    BY <2>3, <2>4
<1> DEFINE walk == CHOOSE g : IsWalk(g)
<1>7. IsWalk(walk)
  <2> HIDE DEF IsWalk
  <2> QED
    BY <1>6
<1>8. \A env : Walk(h, env, ends) = walk[MaxNodes][env]
  BY DEF Walk
<1>9. GoesDown(walk, h, ends)
  <2> HIDE DEF walk
  <2> SUFFICES ASSUME NEW n \in Places, NEW a \in Places
               PROVE  IF n = 0 \/ a \notin DOMAIN h \/ a \in ends
                      THEN walk[n][a].passed = {} /\ walk[n][a].at = a
                      ELSE /\ walk[n][a].passed = walk[n - 1][h[a].next].passed \union {a}
                           /\ walk[n][a].at = walk[n - 1][h[a].next].at
    BY DEF GoesDown
  <2>1. walk[n] = [b \in Places |->
                     IF n = 0 \/ b \notin DOMAIN h \/ b \in ends
                     THEN [passed |-> {}, at |-> b]
                     ELSE [passed |-> walk[n - 1][h[b].next].passed \union {b},
                           at     |-> walk[n - 1][h[b].next].at]]
    BY <1>7, Zenon DEF Places
  <2> QED
    BY <2>1
<1> HIDE DEF walk
<1> QED
  BY <1>8, <1>9, Zenon

-----------------------------------------------------------------------------
\* There are as many allocated nodes as nodes lists.
LEMMA Count ==
  ASSUME NEW h \in Heaps, NEW M, NEW nodes, Lists(h, M, nodes)
  PROVE  Cardinality(DOMAIN h) = M /\ M <= MaxNodes
<1>1. nodes \in Bijection(1 .. M, DOMAIN h)
  BY DEF Lists, Bijection, Injection, IsInjective, Surjection
<1>2. Cardinality(DOMAIN h) = M
  BY <1>1, FS_CountingElements DEF ExistsBijection, Lists
<1>3. IsFiniteSet(Addresses) /\ Cardinality(Addresses) = MaxNodes
  BY FS_Interval, MaxNodesAssumption DEF Addresses
<1>4. Cardinality(DOMAIN h) <= Cardinality(Addresses)
  BY <1>3, HeapType, FS_Subset
<1> QED
  BY <1>2, <1>3, <1>4

\* An environment of listed nodes ends at NULL.
LEMMA Live ==
  ASSUME NEW h \in Heaps, NEW M, NEW nodes, Lists(h, M, nodes),
         NEW env \in Places, Low(nodes, M, env)
  PROVE  CanFree(h, env, NULL)
<1>1. PICK walk : GoesDown(walk, h, {NULL}) /\ \A e : Walk(h, e, {NULL}) = walk[MaxNodes][e]
  BY WalkDefined
<1> DEFINE S == { m \in Nat : m <= M => \A n \in Places, a \in Places :
                    n >= m /\ Low(nodes, m, a) => walk[n][a].at = NULL }
<1>0. M \in Nat
  BY DEF Lists
<1>2. 0 \in S
  <2> SUFFICES ASSUME NEW n \in Places, Low(nodes, 0, NULL) PROVE walk[n][NULL].at = NULL
    BY DEF Low
  <2> QED
    BY <1>1, MaxNodesAssumption DEF GoesDown, Places, NULL
<1>3. ASSUME NEW m \in Nat, m \in S PROVE m + 1 \in S
  <2> SUFFICES ASSUME m + 1 <= M, NEW n \in Places, NEW a \in Places, n >= m + 1,
                      Low(nodes, m + 1, a)
               PROVE  walk[n][a].at = NULL
    OBVIOUS
  <2>1. CASE Low(nodes, m, a)
    BY <1>0, <1>3, <2>1 DEF Places
  <2>2. CASE ~ Low(nodes, m, a)
    <3>1. m + 1 \in 1 .. M /\ a = nodes[m + 1]
      BY <1>0, <2>2 DEF Low
    <3>2. a \in DOMAIN h /\ a # NULL /\ Low(nodes, m, h[a].next)
      BY <3>1, HeapType DEF Lists
    <3>3. walk[n][a].at = walk[n - 1][h[a].next].at
      BY <1>1, <3>2 DEF GoesDown, Places
    <3>4. n - 1 \in Places /\ n - 1 >= m /\ h[a].next \in Places
      BY <3>2, HeapType, MaxNodesAssumption DEF Places
    <3> QED
      BY <1>0, <1>3, <3>2, <3>3, <3>4
  <2> QED
    BY <2>1, <2>2
<1>4. \A m \in Nat : m \in S
  <2> HIDE DEF S
  <2> QED
    BY <1>2, <1>3, Induct
<1>5. MaxNodes \in Places /\ MaxNodes >= M
  BY <1>0, Count, MaxNodesAssumption DEF Places
<1>6. walk[MaxNodes][env].at = NULL
  BY <1>0, <1>4, <1>5
<1> QED
  BY <1>1, <1>6 DEF CanFree, Segment

\* env_free goes through the nodes of the segment, and stops below it.
LEMMA SegmentPasses ==
  ASSUME NEW h \in Heaps, NEW M, NEW nodes, Lists(h, M, nodes),
         NEW lo \in 0 .. M, NEW up \in lo .. M, NEW base \in Places, NEW end,
         Chain(h, nodes, lo, up, base, end), Low(nodes, lo, base)
  PROVE  Segment(h, end, base).passed = { nodes[q] : q \in lo + 1 .. up }
<1>1. PICK walk : GoesDown(walk, h, {base}) /\ \A e : Walk(h, e, {base}) = walk[MaxNodes][e]
  BY WalkDefined
<1> DEFINE Nodes(m) == { nodes[q] : q \in lo + 1 .. lo + m }
           Top1(m) == IF m = 0 THEN base ELSE nodes[lo + m]
           S == { m \in Nat : lo + m <= up => \A n \in Places :
                    n >= m => walk[n][Top1(m)].passed = Nodes(m) }
<1>0. lo \in Nat /\ up \in Nat /\ M \in Nat
  BY DEF Lists
<1>2. 0 \in S
  <2> SUFFICES ASSUME NEW n \in Places PROVE walk[n][base].passed = Nodes(0)
    OBVIOUS
  <2>1. Nodes(0) = {}
    BY <1>0
  <2> QED
    BY <1>1, <2>1 DEF GoesDown
<1>3. ASSUME NEW m \in Nat, m \in S PROVE m + 1 \in S
  <2> SUFFICES ASSUME lo + m + 1 <= up, NEW n \in Places, n >= m + 1
               PROVE  walk[n][nodes[lo + m + 1]].passed = Nodes(m + 1)
    BY <1>0
  <2> DEFINE a == nodes[lo + m + 1]
  <2>1. lo + m + 1 \in 1 .. M /\ lo + m + 1 \in lo + 1 .. up
    BY <1>0
  <2>2. a \in DOMAIN h /\ a \in Places /\ a # NULL
    BY <2>1, HeapType DEF Lists
  <2>3. a # base
    BY <2>1, <2>2, <1>0 DEF Low, Lists
  <2>4. h[a].next = Top1(m)
    BY <2>1, <1>0 DEF Chain
  <2>5. n - 1 \in Places /\ n - 1 >= m /\ n # 0
    BY MaxNodesAssumption DEF Places
  <2>6. walk[n][a].passed = walk[n - 1][Top1(m)].passed \union {a}
    BY <1>1, <2>2, <2>3, <2>4, <2>5 DEF GoesDown
  <2>7. walk[n - 1][Top1(m)].passed = Nodes(m)
    BY <1>3, <2>5, <1>0
  <2>8. Nodes(m + 1) = Nodes(m) \union {a}
    <3>1. lo + 1 .. lo + (m + 1) = (lo + 1 .. lo + m) \union {lo + m + 1}
      BY <1>0
    <3> QED
      BY <3>1
  <2> QED
    BY <2>6, <2>7, <2>8
<1>4. \A m \in Nat : m \in S
  <2> HIDE DEF S
  <2> QED
    BY <1>2, <1>3, Induct
<1>5. MaxNodes \in Places /\ up - lo \in Nat /\ MaxNodes >= up - lo /\ lo + (up - lo) = up
  BY <1>0, Count, MaxNodesAssumption DEF Places
<1>6. end = Top1(up - lo)
  BY <1>0 DEF Chain
<1>7. walk[MaxNodes][end].passed = Nodes(up - lo)
  BY <1>4, <1>5, <1>6
<1> QED
  BY <1>1, <1>5, <1>7 DEF Segment
-----------------------------------------------------------------------------
(* The operations on a stack of segments.                                  *)

\* What a segment holds.
LEMMA SegmentType ==
  ASSUME NEW g \in Seq(SegmentRecord), NEW k \in 1 .. Len(g)
  PROVE  /\ g[k] \in SegmentRecord
         /\ g[k].n \in Nat /\ g[k].low \subseteq Places
         /\ g[k].base \in Places /\ g[k].end \in Places
<1>1. g[k] \in SegmentRecord
  OBVIOUS
<1> QED
  BY <1>1 DEF SegmentRecord

\* Later segments have later nodes.
LEMMA Increasing ==
  ASSUME NEW h, NEW g \in Seq(SegmentRecord), NEW M, NEW nodes, NEW hi,
         Lists(h, M, nodes), Divides(h, g, M, nodes, hi), NEW m \in 0 .. Len(g)
  PROVE  \A k \in 0 .. m : hi[k] <= hi[m]
<1>1. Len(g) \in Nat /\ m \in Nat /\ M \in Nat /\ hi \in [0 .. Len(g) -> 0 .. M]
  BY DEF Divides, Lists
<1> DEFINE S == { j \in Nat : j <= m => hi[m - j] <= hi[m] }
<1>2. 0 \in S
  BY <1>1
<1>3. ASSUME NEW j \in Nat, j \in S PROVE j + 1 \in S
  <2> SUFFICES ASSUME j + 1 <= m PROVE hi[m - (j + 1)] <= hi[m]
    OBVIOUS
  <2>1. m - j \in 1 .. Len(g) /\ (m - j) - 1 = m - (j + 1) /\ m - (j + 1) \in 0 .. Len(g)
    BY <1>1
  <2>2. hi[m - j] = hi[m - (j + 1)] + g[m - j].n /\ g[m - j].n \in Nat
    BY <2>1, SegmentType DEF Divides
  <2>3. hi[m - j] <= hi[m]
    BY <1>1, <1>3
  <2>4. hi[m - (j + 1)] \in 0 .. M /\ hi[m] \in 0 .. M
    BY <1>1, <2>1
  <2> QED
    BY <1>1, <2>2, <2>3, <2>4
<1>4. \A j \in Nat : j \in S
  <2> HIDE DEF S
  <2> QED
    BY <1>2, <1>3, Induct
<1> SUFFICES ASSUME NEW k \in 0 .. m PROVE hi[k] <= hi[m]
  OBVIOUS
<1>5. m - k \in Nat /\ m - (m - k) = k /\ m - k <= m
  BY <1>1
<1> QED
  BY <1>4, <1>5

\* The environments of the segments are made of listed nodes.
LEMMA AllListed ==
  ASSUME NEW h, NEW g \in Seq(SegmentRecord), NEW M, NEW nodes, NEW hi,
         Lists(h, M, nodes), Divides(h, g, M, nodes, hi), NEW k \in 1 .. Len(g)
  PROVE  \A a \in g[k].low \union {g[k].end} : Low(nodes, M, a)
<1>1. M \in Nat /\ hi[k - 1] \in 0 .. M /\ hi[k] \in 0 .. M
  BY DEF Lists, Divides
<1>2. ASSUME NEW a \in g[k].low PROVE Low(nodes, M, a)
  BY <1>1 DEF Divides, Low
<1>3. Low(nodes, M, g[k].end)
  <2>1. CASE hi[k] = hi[k - 1]
    BY <1>2, <2>1 DEF Divides, Chain
  <2>2. CASE hi[k] # hi[k - 1]
    <3>1. g[k].n \in Nat
      BY SegmentType
    <3>2. hi[k] \in 1 .. M
      BY <1>1, <2>2, <3>1 DEF Divides
    <3> QED
      BY <2>2, <3>2 DEF Divides, Chain, Low
  <2> QED
    BY <2>1, <2>2
<1> QED
  BY <1>2, <1>3

\* Every environment of a segment is live.
LEMMA SegmentsLive ==
  ASSUME NEW h, NEW g, Layout(h, g), NEW k \in 1 .. Len(g)
  PROVE  \A a \in g[k].low \union {g[k].end, NULL} : CanFree(h, a, NULL)
<1>1. h \in Heaps /\ g \in Seq(SegmentRecord)
  BY DEF Layout
<1>2. PICK M, nodes, hi : Lists(h, M, nodes) /\ Divides(h, g, M, nodes, hi)
  BY DEF Layout
<1>3. \A a \in g[k].low \union {g[k].end, NULL} : a \in Places
  BY <1>1, SegmentType, MaxNodesAssumption DEF Places, NULL
<1>4. \A a \in g[k].low \union {g[k].end} : Low(nodes, M, a)
  BY <1>1, <1>2, AllListed
<1>5. Low(nodes, M, NULL)
  BY DEF Low
<1> QED
  BY <1>1, <1>2, <1>3, <1>4, <1>5, Live

\* A call without bindings is in the environment it began in, and env_free
\* has nothing to free.
LEMMA EmptySegment ==
  ASSUME NEW h, NEW g, Layout(h, g), NEW k \in 1 .. Len(g), g[k].n = 0
  PROVE  g[k].end = g[k].base
<1>1. PICK M, nodes, hi : Lists(h, M, nodes) /\ Divides(h, g, M, nodes, hi)
  BY DEF Layout
<1>0. Len(g) \in Nat
  BY DEF Layout
<1>2. k - 1 \in 0 .. Len(g) /\ hi[k - 1] \in 0 .. M /\ M \in Nat
  BY <1>0, <1>1 DEF Divides, Lists
<1>3. hi[k] = hi[k - 1]
  BY <1>1, <1>2 DEF Divides
<1> QED
  BY <1>1, <1>3 DEF Divides, Chain

\* env_free of an environment down to itself frees nothing.
LEMMA FreeNothing ==
  ASSUME NEW h \in Heaps, NEW env \in Places
  PROVE  env_free(h, env, env) = h
<1>1. PICK walk : GoesDown(walk, h, {env}) /\ \A e : Walk(h, e, {env}) = walk[MaxNodes][e]
  BY WalkDefined
<1>2. MaxNodes \in Places
  BY MaxNodesAssumption DEF Places
<1>3. walk[MaxNodes][env].passed = {}
  BY <1>1, <1>2 DEF GoesDown
<1>4. Segment(h, env, env).passed = {}
  BY <1>1, <1>3 DEF Segment
<1>5. h = [a \in DOMAIN h |-> h[a]]
  BY HeapType
<1> QED
  BY <1>4, <1>5 DEF env_free

\* At the start nothing is allocated.
LEMMA NoSegments ==
  ASSUME NEW g \in Seq(SegmentRecord), Len(g) = 1, g[1].n = 0, g[1].base = g[1].end,
         g[1].base \in g[1].low, \A a \in g[1].low : a = NULL
  PROVE  Layout(<< >>, g)
<1>1. << >> \in Heaps
  <2>1. << >> \in [{} -> Cell]
    OBVIOUS
  <2> QED
    BY <2>1 DEF Heaps
<1> DEFINE hi == [k \in 0 .. 1 |-> 0]
<1>2. Lists(<< >>, 0, << >>)
  BY DEF Lists
<1>3. Divides(<< >>, g, 0, << >>, hi)
  BY DEF Divides, Chain, Low
<1> HIDE DEF hi
<1> QED
  BY <1>1, <1>2, <1>3 DEF Layout

\* A call begins with no bindings, in an environment it is given.
LEMMA BeginSegment ==
  ASSUME NEW h, NEW g, Layout(h, g), NEW g2 \in Seq(SegmentRecord),
         Len(g2) = Len(g) + 1, \A k \in 1 .. Len(g) : g2[k] = g[k],
         NEW new, new = g2[Len(g) + 1], new.n = 0, new.base = new.end, new.base \in new.low,
         \A a \in new.low :
           a = NULL \/ \E k \in 1 .. Len(g) : a \in g[k].low \union {g[k].end}
  PROVE  Layout(h, g2)
<1>1. h \in Heaps /\ g \in Seq(SegmentRecord)
  BY DEF Layout
<1>2. PICK M, nodes, hi : Lists(h, M, nodes) /\ Divides(h, g, M, nodes, hi)
  BY DEF Layout
<1>3. \A a \in new.low : Low(nodes, M, a)
  <2>1. \A k \in 1 .. Len(g) : \A a \in g[k].low \union {g[k].end} : Low(nodes, M, a)
    BY <1>1, <1>2, AllListed
  <2>2. Low(nodes, M, NULL)
    BY DEF Low
  <2> QED
    BY <2>1, <2>2
<1> DEFINE hi2 == [k \in 0 .. Len(g) + 1 |-> IF k = Len(g) + 1 THEN M ELSE hi[k]]
<1>4. Len(g) \in Nat /\ M \in Nat
  BY <1>1, <1>2 DEF Lists
<1>5. hi2 \in [0 .. Len(g2) -> 0 .. M] /\ hi2[0] = 0 /\ hi2[Len(g2)] = M
  BY <1>2, <1>4 DEF Divides
<1>6. ASSUME NEW k \in 1 .. Len(g2)
      PROVE  /\ hi2[k] = hi2[k - 1] + g2[k].n
             /\ Chain(h, nodes, hi2[k - 1], hi2[k], g2[k].base, g2[k].end)
             /\ g2[k].base \in g2[k].low
             /\ \A a \in g2[k].low : Low(nodes, hi2[k - 1], a)
  <2>1. CASE k = Len(g) + 1
    <3>1. hi2[k] = M /\ hi2[k - 1] = M
      BY <1>2, <1>4, <2>1 DEF Divides
    <3>2. M + 1 .. M = {}
      BY <1>4
    <3> QED
      BY <1>3, <1>4, <2>1, <3>1, <3>2 DEF Chain
  <2>2. CASE k # Len(g) + 1
    <3>1. k \in 1 .. Len(g) /\ hi2[k] = hi[k] /\ hi2[k - 1] = hi[k - 1] /\ g2[k] = g[k]
      BY <1>4, <2>2
    <3> QED
      BY <1>2, <3>1 DEF Divides
  <2> QED
    BY <2>1, <2>2
<1>7. Divides(h, g2, M, nodes, hi2)
  BY <1>5, <1>6 DEF Divides
<1> QED
  BY <1>1, <1>2, <1>7 DEF Layout

\* Environments of a call that nobody goes back to need not be remembered.
LEMMA ForgetLow ==
  ASSUME NEW h, NEW g, Layout(h, g), NEW g2 \in Seq(SegmentRecord), Len(g2) = Len(g),
         \A k \in 1 .. Len(g) :
           /\ g2[k].n = g[k].n /\ g2[k].base = g[k].base /\ g2[k].end = g[k].end
           /\ g2[k].base \in g2[k].low
           /\ g2[k].low \subseteq g[k].low \union {NULL}
  PROVE  Layout(h, g2)
<1>1. PICK M, nodes, hi : Lists(h, M, nodes) /\ Divides(h, g, M, nodes, hi)
  BY DEF Layout
<1>2. Divides(h, g2, M, nodes, hi)
  BY <1>1 DEF Divides, Low
<1> QED
  BY <1>1, <1>2 DEF Layout
\* malloc hands out an address that was free.
LEMMA NewNodeFree ==
  ASSUME NEW h \in Heaps, CanBind(h)
  PROVE  NewNode(h) \in Addresses \ DOMAIN h
<1>1. DOMAIN h \subseteq Addresses
  BY HeapType
<1>2. Addresses \ DOMAIN h # {}
  BY <1>1 DEF CanBind
<1>3. Addresses \ DOMAIN h \subseteq Nat
  BY MaxNodesAssumption DEF Addresses
<1>4. \E a \in Addresses \ DOMAIN h : \A b \in Addresses \ DOMAIN h : a <= b
  BY <1>2, <1>3, Smallest
<1> QED
  BY <1>4 DEF NewNode

Bound(h, env, h2) ==
  /\ h2 \in Heaps
  /\ DOMAIN h2 = DOMAIN h \union {NewNode(h)}
  /\ \A a \in DOMAIN h : h2[a] = h[a]
  /\ h2[NewNode(h)].next = env

\* env_bind adds one node, and changes no other.
LEMMA BoundHeap ==
  ASSUME NEW h \in Heaps, CanBind(h), NEW env \in Places, NEW name \in STRING, NEW value \in Word
  PROVE  Bound(h, env, env_bind(h, env, name, value))
<1>1. NewNode(h) \in Addresses \ DOMAIN h
  BY NewNodeFree
<1> DEFINE h2   == env_bind(h, env, name, value)
           new  == NewNode(h)
           cell == [name |-> name, value |-> value, next |-> env]
<1>2. h2 = [a \in DOMAIN h \union {new} |-> IF a = new THEN cell ELSE h[a]]
  BY DEF env_bind
<1>3. cell \in Cell /\ cell.next = env
  BY DEF Cell
<1> HIDE DEF h2, new, cell
<1>4. new \in Addresses \ DOMAIN h
  BY <1>1 DEF new
<1>5. DOMAIN h2 = DOMAIN h \union {new} /\ h2[new] = cell /\ \A a \in DOMAIN h : h2[a] = h[a]
  BY <1>2, <1>4
<1>6. h2 \in [DOMAIN h \union {new} -> Cell]
  BY <1>2, <1>3, HeapType
<1>7. DOMAIN h \union {new} \in SUBSET Addresses
  BY <1>4, HeapType
<1>8. h2 \in Heaps
  BY <1>6, <1>7 DEF Heaps
<1> QED
  BY <1>3, <1>5, <1>8 DEF Bound, h2, new

\* env_bind adds a binding to the last segment.
LEMMA ExtendSegment ==
  ASSUME NEW h, NEW g, Layout(h, g), CanBind(h), NEW name \in STRING, NEW value \in Word,
         NEW K, K = Len(g), K > 0, NEW h2, h2 = env_bind(h, g[K].end, name, value),
         NEW g2 \in Seq(SegmentRecord), Len(g2) = K, \A k \in 1 .. K - 1 : g2[k] = g[k],
         g2[K].n = g[K].n + 1, g2[K].low = g[K].low, g2[K].base = g[K].base,
         g2[K].end = NewNode(h)
  PROVE  Layout(h2, g2)
<1> DEFINE new == NewNode(h)
<1>1. h \in Heaps /\ g \in Seq(SegmentRecord) /\ K \in Nat /\ K \in 1 .. Len(g)
  BY DEF Layout
<1>2. PICK M, nodes, hi : Lists(h, M, nodes) /\ Divides(h, g, M, nodes, hi)
  BY DEF Layout
<1>3. /\ h2 \in Heaps
      /\ DOMAIN h2 = DOMAIN h \union {new}
      /\ \A a \in DOMAIN h : h2[a] = h[a]
      /\ h2[new].next = g[K].end
  <2>1. g[K].end \in Places
    BY <1>1, SegmentType
  <2>2. Bound(h, g[K].end, h2)
    BY <1>1, <2>1, BoundHeap
  <2> QED
    BY <2>2 DEF Bound
<1>4. new \notin DOMAIN h /\ new # NULL
  BY <1>1, NewNodeFree, MaxNodesAssumption DEF Addresses, NULL
<1>5. M \in Nat
  BY <1>2 DEF Lists
<1> DEFINE nodes2 == [pos \in 1 .. M + 1 |-> IF pos = M + 1 THEN new ELSE nodes[pos]]
           hi2    == [k \in 0 .. K |-> IF k = K THEN M + 1 ELSE hi[k]]
<1> HIDE DEF new
<1>6. \A pos \in 1 .. M : nodes2[pos] = nodes[pos] /\ nodes[pos] \in DOMAIN h /\ nodes[pos] # new
  BY <1>2, <1>4, <1>5 DEF Lists
<1>7. nodes2[M + 1] = new
  BY <1>5
<1>8. \A k \in 0 .. K - 1 : hi2[k] = hi[k] /\ hi[k] \in 0 .. M
  BY <1>1, <1>2 DEF Divides
<1>9. hi2[K] = M + 1 /\ hi[K] = M /\ hi2[0] = 0
  BY <1>1, <1>2 DEF Divides
<1>10. nodes2 \in [1 .. M + 1 -> DOMAIN h2] /\ hi2 \in [0 .. K -> 0 .. M + 1]
  <2>1. \A pos \in 1 .. M + 1 : pos \in 1 .. M \/ pos = M + 1
    BY <1>5
  <2>2. \A k \in 0 .. K : k \in 0 .. K - 1 \/ k = K
    BY <1>1
  <2>3. 0 .. M \subseteq 0 .. M + 1 /\ M + 1 \in 0 .. M + 1
    BY <1>5
  <2>4. \A pos \in 1 .. M + 1 : nodes2[pos] \in DOMAIN h2
    <3> HIDE DEF nodes2
    <3> QED
      BY <1>3, <1>6, <1>7, <2>1
  <2>5. \A k \in 0 .. K : hi2[k] \in 0 .. M + 1
    <3> HIDE DEF hi2
    <3> QED
      BY <1>8, <1>9, <2>2, <2>3
  <2> QED
    BY <2>4, <2>5
<1> HIDE DEF nodes2, hi2
<1>11. \A a, q : q \in 0 .. M /\ Low(nodes, q, a) => Low(nodes2, q, a)
  BY <1>5, <1>6, SMTT(30) DEF Low
<1>12. Low(nodes2, M, g[K].end)
  <2>1. Low(nodes, M, g[K].end)
    BY <1>1, <1>2, AllListed
  <2> QED
    BY <1>5, <1>11, <2>1
<1>13. Lists(h2, M + 1, nodes2)
  <2>1. ASSUME NEW pos \in 1 .. M + 1, NEW q \in 1 .. M + 1, nodes2[pos] = nodes2[q]
        PROVE  pos = q
    <3>1. (pos \in 1 .. M \/ pos = M + 1) /\ (q \in 1 .. M \/ q = M + 1)
      BY <1>5
    <3>2. CASE pos \in 1 .. M /\ q \in 1 .. M
      <4>1. nodes[pos] = nodes[q]
        BY <1>6, <2>1, <3>2
      <4> QED
        BY <1>2, <3>2, <4>1 DEF Lists
    <3>3. CASE pos \in 1 .. M /\ q = M + 1
      BY <1>6, <1>7, <2>1, <3>3
    <3>4. CASE pos = M + 1 /\ q \in 1 .. M
      BY <1>6, <1>7, <2>1, <3>4
    <3> QED
      BY <3>1, <3>2, <3>3, <3>4
  <2>2. ASSUME NEW a \in DOMAIN h2 PROVE \E pos \in 1 .. M + 1 : nodes2[pos] = a
    <3>1. CASE a = new
      BY <1>5, <1>7, <3>1
    <3>2. CASE a # new
      <4>1. PICK pos \in 1 .. M : nodes[pos] = a
        BY <1>2, <1>3, <3>2 DEF Lists
      <4> QED
        BY <1>5, <1>6, <4>1
    <3> QED
      BY <3>1, <3>2
  <2>3. ASSUME NEW pos \in 1 .. M + 1 PROVE Low(nodes2, pos - 1, h2[nodes2[pos]].next)
    <3>1. CASE pos = M + 1
      BY <1>3, <1>5, <1>7, <1>12, <3>1
    <3>2. CASE pos # M + 1
      <4>1. pos \in 1 .. M /\ pos - 1 \in 0 .. M
        BY <1>5, <3>2
      <4>2. Low(nodes, pos - 1, h[nodes[pos]].next)
        BY <1>2, <4>1 DEF Lists
      <4>3. h2[nodes2[pos]] = h[nodes[pos]]
        BY <1>3, <1>6, <4>1
      <4> QED
        BY <1>11, <4>1, <4>2, <4>3
    <3> QED
      BY <3>1, <3>2
  <2> QED
    BY <1>5, <1>10, <2>1, <2>2, <2>3 DEF Lists
<1>14. ASSUME NEW lo \in 0 .. M, NEW up \in 0 .. M, NEW base, NEW end,
              Chain(h, nodes, lo, up, base, end), lo <= up
       PROVE  Chain(h2, nodes2, lo, up, base, end)
  <2>1. up # lo => up \in 1 .. M
    BY <1>5, <1>14
  <2>2. \A q \in lo + 1 .. up : q \in 1 .. M /\ (q # lo + 1 => q - 1 \in 1 .. M)
    BY <1>5
  <2> QED
    BY <1>3, <1>6, <1>14, <2>1, <2>2 DEF Chain
<1>15. ASSUME NEW k \in 1 .. K
       PROVE  /\ hi2[k] = hi2[k - 1] + g2[k].n
              /\ Chain(h2, nodes2, hi2[k - 1], hi2[k], g2[k].base, g2[k].end)
              /\ g2[k].base \in g2[k].low
              /\ \A a \in g2[k].low : Low(nodes2, hi2[k - 1], a)
  <2>1. /\ k - 1 \in 0 .. K - 1 /\ hi2[k - 1] = hi[k - 1] /\ hi[k - 1] \in 0 .. M
        /\ g[k].n \in Nat /\ hi[k] = hi[k - 1] + g[k].n /\ hi[k] \in 0 .. M
    BY <1>1, <1>2, <1>8, SegmentType DEF Divides
  <2>2. Chain(h2, nodes2, hi[k - 1], hi[k], g[k].base, g[k].end)
    BY <1>1, <1>2, <1>14, <2>1 DEF Divides
  <2>3. g[k].base \in g[k].low /\ \A a \in g[k].low : Low(nodes2, hi[k - 1], a)
    BY <1>1, <1>2, <1>11, <2>1 DEF Divides
  <2>4. CASE k # K
    BY <1>1, <1>8, <2>1, <2>2, <2>3, <2>4
  <2>5. CASE k = K
    <3>1. hi2[k] = hi2[k - 1] + g2[k].n
      BY <1>5, <1>9, <2>1, <2>5
    <3>2. Chain(h2, nodes2, hi[k - 1], M + 1, g[k].base, new)
      <4>1. ASSUME NEW q \in hi[k - 1] + 1 .. M + 1
            PROVE  h2[nodes2[q]].next = IF q = hi[k - 1] + 1 THEN g[k].base ELSE nodes2[q - 1]
        <5>1. CASE q # M + 1
          <6>1. q \in hi[k - 1] + 1 .. hi[k]
            BY <1>5, <1>9, <2>1, <2>5, <5>1
          <6> QED
            BY <2>2, <6>1 DEF Chain
        <5>2. CASE q = M + 1
          <6>1. g[k].end = IF M = hi[k - 1] THEN g[k].base ELSE nodes2[M]
            BY <1>9, <2>2, <2>5 DEF Chain
          <6> QED
            BY <1>3, <1>5, <1>7, <2>1, <2>5, <5>2, <6>1
        <5> QED
          BY <5>1, <5>2
      <4> QED
        BY <1>5, <1>7, <2>1, <4>1 DEF Chain
    <3> QED
      BY <1>9, <2>1, <2>3, <2>5, <3>1, <3>2 DEF new
  <2> QED
    BY <2>4, <2>5
<1>16. Divides(h2, g2, M + 1, nodes2, hi2)
  BY <1>9, <1>10, <1>15 DEF Divides
<1> QED
  BY <1>3, <1>13, <1>16 DEF Layout
\* The nodes listed after lo up to up.
NodesBetween(nodes, lo, up) == { nodes[q] : q \in lo + 1 .. up }

\* g2 is g with one more binding, the new node, in its last segment.
Extended(h, g, g2) ==
  /\ g2 \in Seq(SegmentRecord) /\ Len(g) > 0 /\ Len(g2) = Len(g)
  /\ \A k \in 1 .. Len(g) - 1 : g2[k] = g[k]
  /\ g2[Len(g)].n = g[Len(g)].n + 1 /\ g2[Len(g)].low = g[Len(g)].low
  /\ g2[Len(g)].base = g[Len(g)].base /\ g2[Len(g)].end = NewNode(h)

LEMMA ExtendedLayout ==
  ASSUME NEW h, NEW g, Layout(h, g), CanBind(h), NEW name \in STRING, NEW value \in Word,
         NEW g2, Extended(h, g, g2)
  PROVE  Layout(env_bind(h, g[Len(g)].end, name, value), g2)
<1> DEFINE K == Len(g)
           h2 == env_bind(h, g[K].end, name, value)
<1>1. /\ g2 \in Seq(SegmentRecord) /\ K > 0 /\ Len(g2) = K
      /\ \A k \in 1 .. K - 1 : g2[k] = g[k]
      /\ g2[K].n = g[K].n + 1 /\ g2[K].low = g[K].low
      /\ g2[K].base = g[K].base /\ g2[K].end = NewNode(h)
  BY DEF Extended
<1> HIDE DEF K, h2
<1>2. K = Len(g) /\ h2 = env_bind(h, g[K].end, name, value)
  BY DEF K, h2
<1>3. Layout(h2, g2)
  BY <1>1, <1>2, ExtendSegment
<1> QED
  BY <1>3 DEF h2, K

\* What env_free leaves of a heap when it frees the nodes given.
Freed(h, gone, h2) ==
  /\ h2 \in Heaps
  /\ DOMAIN h2 = DOMAIN h \ gone
  /\ \A a \in DOMAIN h2 : h2[a] = h[a]

\* env_free of a segment frees its nodes, and no other.
LEMMA FreedHeap ==
  ASSUME NEW h, NEW g, NEW M, NEW nodes, NEW hi, h \in Heaps, g \in Seq(SegmentRecord),
         Lists(h, M, nodes), Divides(h, g, M, nodes, hi), NEW k \in 1 .. Len(g)
  PROVE  Freed(h, NodesBetween(nodes, hi[k - 1], hi[k]), env_free(h, g[k].end, g[k].base))
<1> DEFINE gone == NodesBetween(nodes, hi[k - 1], hi[k])
           h2   == env_free(h, g[k].end, g[k].base)
<1>1. /\ hi[k - 1] \in 0 .. M /\ hi[k] \in hi[k - 1] .. M
      /\ Chain(h, nodes, hi[k - 1], hi[k], g[k].base, g[k].end)
      /\ Low(nodes, hi[k - 1], g[k].base)
  <2>1. M \in Nat /\ k \in 0 .. Len(g) /\ k - 1 \in 0 .. Len(g) /\ g[k].n \in Nat
    <3>1. M \in Nat
      BY DEF Lists
    <3>2. g[k].n \in Nat
      BY SegmentType
    <3>3. k \in 1 .. Len(g) /\ Len(g) \in Nat
      OBVIOUS
    <3>4. k \in 0 .. Len(g) /\ k - 1 \in 0 .. Len(g)
      BY ONLY <3>3
    <3> QED
      BY ONLY <3>1, <3>2, <3>4
  <2>2. hi \in [0 .. Len(g) -> 0 .. M]
    BY DEF Divides
  <2>3. /\ hi[k] = hi[k - 1] + g[k].n
        /\ Chain(h, nodes, hi[k - 1], hi[k], g[k].base, g[k].end)
        /\ g[k].base \in g[k].low
        /\ \A a \in g[k].low : Low(nodes, hi[k - 1], a)
    BY DEF Divides
  <2>4. hi[k - 1] \in 0 .. M /\ hi[k] \in 0 .. M
    BY ONLY <2>1, <2>2
  <2>5. hi[k] \in hi[k - 1] .. M
    BY ONLY <2>1, <2>3, <2>4
  <2> QED
    BY ONLY <2>3, <2>4, <2>5
<1>2. g[k].base \in Places
  BY SegmentType
<1>3. Segment(h, g[k].end, g[k].base).passed = gone
  <2> HIDE DEF gone
  <2>1. Segment(h, g[k].end, g[k].base).passed = { nodes[q] : q \in hi[k - 1] + 1 .. hi[k] }
    BY <1>1, <1>2, SegmentPasses
  <2> QED
    BY <2>1 DEF gone, NodesBetween
<1>4. h2 = [a \in DOMAIN h \ gone |-> h[a]]
  BY <1>3 DEF env_free
<1> HIDE DEF gone, h2
<1>5. DOMAIN h2 = DOMAIN h \ gone /\ \A a \in DOMAIN h2 : h2[a] = h[a]
  BY <1>4
<1>6. h2 \in [DOMAIN h \ gone -> Cell] /\ DOMAIN h \ gone \in SUBSET Addresses
  BY <1>4, HeapType
<1>7. h2 \in Heaps
  BY <1>6 DEF Heaps
<1> QED
  BY <1>5, <1>7 DEF Freed, gone, h2

\* The last call returns, and frees its bindings.
LEMMA FreeLast ==
  ASSUME NEW h, NEW g, Layout(h, g), NEW K, K = Len(g), K > 0,
         NEW h2, h2 = env_free(h, g[K].end, g[K].base),
         NEW g2 \in Seq(SegmentRecord), Len(g2) = K - 1, \A k \in 1 .. K - 1 : g2[k] = g[k]
  PROVE  Layout(h2, g2)
<1>1. h \in Heaps /\ g \in Seq(SegmentRecord) /\ K \in Nat /\ K \in 1 .. Len(g)
  BY DEF Layout
<1>2. PICK M, nodes, hi : Lists(h, M, nodes) /\ Divides(h, g, M, nodes, hi)
  BY DEF Layout
<1> DEFINE lo == hi[K - 1]
           gone == NodesBetween(nodes, lo, M)
<1>0. M \in Nat /\ hi \in [0 .. K -> 0 .. M] /\ hi[0] = 0 /\ hi[K] = M
  BY <1>2 DEF Divides, Lists
<1>3. M \in Nat /\ lo \in 0 .. M /\ hi[K] = M
  BY <1>0, <1>1
<1>4. Freed(h, gone, h2)
  <2>1. Freed(h, NodesBetween(nodes, hi[K - 1], hi[K]), env_free(h, g[K].end, g[K].base))
    BY <1>1, <1>2, FreedHeap
  <2> QED
    BY <1>3, <2>1
<1> HIDE DEF gone
<1> DEFINE nodes2 == [pos \in 1 .. lo |-> nodes[pos]]
           hi2    == [k \in 0 .. K - 1 |-> hi[k]]
<1>5. \A pos \in 1 .. lo : pos \in 1 .. M /\ nodes2[pos] = nodes[pos] /\ nodes[pos] \in DOMAIN h
  BY <1>2, <1>3 DEF Lists
<1>6. ASSUME NEW pos \in 1 .. lo PROVE nodes[pos] \in DOMAIN h2
  <2>1. nodes[pos] \notin gone
    BY <1>2, <1>3, <1>5 DEF gone, NodesBetween, Lists
  <2> QED
    BY <1>4, <1>5, <2>1 DEF Freed
<1>7. ASSUME NEW a \in DOMAIN h2 PROVE \E pos \in 1 .. lo : nodes2[pos] = a
  <2>1. a \in DOMAIN h /\ a \notin gone
    BY <1>4 DEF Freed
  <2>2. PICK pos \in 1 .. M : nodes[pos] = a
    BY <1>2, <2>1 DEF Lists
  <2>3. pos \in 1 .. lo
    BY <1>3, <2>1, <2>2 DEF gone, NodesBetween
  <2> QED
    BY <1>5, <2>2, <2>3
<1>8. \A k \in 0 .. K - 1 : hi2[k] = hi[k] /\ hi[k] \in 0 .. M
  BY <1>0, <1>1
<1> HIDE DEF nodes2, hi2
<1>9. \A a, q : q \in 0 .. lo /\ Low(nodes, q, a) => Low(nodes2, q, a)
  BY <1>3, <1>5 DEF Low
<1>10. Lists(h2, lo, nodes2)
  <2>1. nodes2 \in [1 .. lo -> DOMAIN h2]
    BY <1>5, <1>6 DEF nodes2
  <2>2. \A pos, q \in 1 .. lo : nodes2[pos] = nodes2[q] => pos = q
    BY <1>2, <1>5 DEF Lists
  <2>3. ASSUME NEW pos \in 1 .. lo PROVE Low(nodes2, pos - 1, h2[nodes2[pos]].next)
    <3>1. Low(nodes, pos - 1, h[nodes[pos]].next)
      BY <1>2, <1>5 DEF Lists
    <3>2. h2[nodes2[pos]] = h[nodes[pos]] /\ pos - 1 \in 0 .. lo
      BY <1>3, <1>4, <1>5, <1>6 DEF Freed
    <3> QED
      BY <1>9, <3>1, <3>2
  <2>4. lo \in Nat
    BY <1>3
  <2> QED
    BY <1>7, <2>1, <2>2, <2>3, <2>4 DEF Lists
<1>11. \A k \in 0 .. K - 1 : hi[k] <= lo
  <2>1. K - 1 \in 0 .. Len(g)
    BY ONLY <1>1
  <2> QED
    BY ONLY <1>1, <1>2, <2>1, Increasing
<1>12. Divides(h2, g2, lo, nodes2, hi2)
  <2>1. hi2 \in [0 .. Len(g2) -> 0 .. lo] /\ hi2[0] = 0 /\ hi2[Len(g2)] = lo
    <3>1. \A k \in 0 .. K - 1 : hi2[k] \in 0 .. lo
      BY <1>3, <1>8, <1>11
    <3>2. 0 \in 0 .. K - 1 /\ K - 1 \in 0 .. K - 1 /\ hi[0] = 0
      BY <1>1, <1>2 DEF Divides
    <3> QED
      BY <1>8, <3>1, <3>2 DEF hi2
  <2>2. ASSUME NEW k \in 1 .. Len(g2)
        PROVE  /\ hi2[k] = hi2[k - 1] + g2[k].n
               /\ Chain(h2, nodes2, hi2[k - 1], hi2[k], g2[k].base, g2[k].end)
               /\ g2[k].base \in g2[k].low
               /\ \A a \in g2[k].low : Low(nodes2, hi2[k - 1], a)
    <3>1. k \in 1 .. Len(g) /\ k \in 0 .. K - 1 /\ k - 1 \in 0 .. K - 1 /\ g2[k] = g[k]
      BY <1>1
    <3>2. /\ hi2[k] = hi[k] /\ hi2[k - 1] = hi[k - 1]
          /\ hi[k] \in 0 .. lo /\ hi[k - 1] \in 0 .. lo
      BY <1>3, <1>8, <1>11, <3>1
    <3>3. /\ hi[k] = hi[k - 1] + g[k].n /\ g[k].n \in Nat
          /\ Chain(h, nodes, hi[k - 1], hi[k], g[k].base, g[k].end)
          /\ g[k].base \in g[k].low
          /\ \A a \in g[k].low : Low(nodes, hi[k - 1], a)
      BY <1>1, <1>2, <3>1, SegmentType DEF Divides
    <3>4. Chain(h2, nodes2, hi[k - 1], hi[k], g[k].base, g[k].end)
      <4>1. \A q \in hi[k - 1] + 1 .. hi[k] :
              q \in 1 .. lo /\ (q # hi[k - 1] + 1 => q - 1 \in 1 .. lo)
        BY <1>3, <3>2, SMTT(30)
      <4>2. hi[k] # hi[k - 1] => hi[k] \in 1 .. lo
        BY <3>2, <3>3
      <4>3. \A q \in 1 .. lo : h2[nodes2[q]] = h[nodes[q]] /\ nodes2[q] = nodes[q]
        BY <1>4, <1>5, <1>6 DEF Freed
      <4> QED
        BY <3>3, <4>1, <4>2, <4>3, SMTT(30) DEF Chain
    <3> QED
      BY <1>9, <3>1, <3>2, <3>3, <3>4
  <2> QED
    BY <2>1, <2>2 DEF Divides
<1> QED
  BY <1>4, <1>10, <1>12 DEF Layout, Freed

\* A call returns, frees its bindings, and hands on the bindings that a recur
\* has made above an environment older than the call.
LEMMA FreeUnder ==
  ASSUME NEW h, NEW g, Layout(h, g), NEW K, K = Len(g), K > 1,
         NEW h2, h2 = env_free(h, g[K - 1].end, g[K - 1].base),
         g[K].low \subseteq g[K - 1].low \union {NULL},
         NEW g2 \in Seq(SegmentRecord), Len(g2) = K - 1, \A k \in 1 .. K - 2 : g2[k] = g[k],
         g2[K - 1].n = g[K].n, g2[K - 1].base = g[K].base, g2[K - 1].end = g[K].end,
         g2[K - 1].low = g[K - 1].low \union g[K].low
  PROVE  Layout(h2, g2)
<1>1. h \in Heaps /\ g \in Seq(SegmentRecord) /\ K \in Nat /\ K \in 1 .. Len(g) /\ K - 1 \in 1 .. Len(g)
  BY DEF Layout
<1>2. PICK M, nodes, hi : Lists(h, M, nodes) /\ Divides(h, g, M, nodes, hi)
  BY DEF Layout
<1> DEFINE lo == hi[K - 2]
           up == hi[K - 1]
           d  == g[K - 1].n
           M2 == M - d
           gone == NodesBetween(nodes, lo, up)
<1>3. M \in Nat /\ hi \in [0 .. K -> 0 .. M] /\ hi[0] = 0 /\ hi[K] = M
  BY <1>2 DEF Divides, Lists
<1>4. K - 2 \in 0 .. Len(g) /\ (K - 1) - 1 = K - 2
  BY <1>1
<1>5. /\ lo \in 0 .. M /\ up \in lo .. M /\ d \in Nat /\ up = lo + d
      /\ M2 \in Nat /\ M2 = lo + g[K].n /\ g[K].n \in Nat /\ M = up + g[K].n
  <2>1. up = lo + d /\ M = up + g[K].n
    BY <1>1, <1>2, <1>3, <1>4 DEF Divides
  <2>2. lo \in 0 .. M /\ up \in 0 .. M
    <3>1. K - 2 \in 0 .. K /\ K - 1 \in 0 .. K
      BY <1>1
    <3> QED
      BY <1>3, <3>1
  <2>3. d \in Nat /\ g[K].n \in Nat
    BY <1>1, SegmentType
  <2> HIDE DEF lo, up, d
  <2> QED
    BY <1>3, <2>1, <2>2, <2>3
<1>6. Freed(h, gone, h2)
  <2>1. Freed(h, NodesBetween(nodes, hi[(K - 1) - 1], hi[K - 1]),
              env_free(h, g[K - 1].end, g[K - 1].base))
    BY <1>1, <1>2, FreedHeap
  <2> QED
    BY <1>4, <2>1
<1> HIDE DEF gone, lo, up, d, M2
<1> DEFINE old(pos) == IF pos <= lo THEN pos ELSE pos + d
           nodes2 == [pos \in 1 .. M2 |-> nodes[old(pos)]]
           hi2    == [k \in 0 .. K - 1 |-> IF k = K - 1 THEN M2 ELSE hi[k]]
<1>7. \A pos \in 1 .. M2 : old(pos) \in 1 .. M /\ (old(pos) <= lo \/ old(pos) > up) /\ nodes2[pos] = nodes[old(pos)]
  BY <1>3, <1>5, SMTT(30)
<1>8. \A pos, q \in 1 .. M2 : old(pos) = old(q) => pos = q
  BY <1>3, <1>5
<1>9. ASSUME NEW pos \in 1 .. M2 PROVE nodes2[pos] \in DOMAIN h2 /\ h2[nodes2[pos]] = h[nodes[old(pos)]]
  <2>1. nodes[old(pos)] \in DOMAIN h
    BY <1>2, <1>7 DEF Lists
  <2>2. nodes[old(pos)] \notin gone
    <3> SUFFICES ASSUME NEW q \in lo + 1 .. up, nodes[q] = nodes[old(pos)] PROVE FALSE
      BY DEF gone, NodesBetween
    <3>1. q \in 1 .. M
      BY <1>3, <1>5
    <3>2. q = old(pos)
      BY <1>2, <1>7, <3>1 DEF Lists
    <3> QED
      BY <1>5, <1>7, <3>2
  <2> QED
    BY <1>6, <1>7, <2>1, <2>2 DEF Freed
<1>10. ASSUME NEW a \in DOMAIN h2 PROVE \E pos \in 1 .. M2 : nodes2[pos] = a
  <2>1. a \in DOMAIN h /\ a \notin gone
    BY <1>6 DEF Freed
  <2>2. PICK q \in 1 .. M : nodes[q] = a
    BY <1>2, <2>1 DEF Lists
  <2>3. q \notin lo + 1 .. up
    BY <2>1, <2>2 DEF gone, NodesBetween
  <2>4. \E pos \in 1 .. M2 : old(pos) = q
    <3>1. CASE q <= lo
      BY <1>5, <2>2, <3>1
    <3>2. CASE q > up
      <4>1. q - d \in 1 .. M2 /\ old(q - d) = q
        BY <1>3, <1>5, <2>2, <3>2 
      <4> QED
        BY <4>1
    <3> QED
      BY <1>5, <2>2, <2>3, <3>1, <3>2
  <2> QED
    BY <1>7, <2>2, <2>4
<1>11. \A pos \in 1 .. lo : pos \in 1 .. M2 /\ nodes2[pos] = nodes[pos] /\ old(pos) = pos
  BY <1>5 
<1>12. \A pos \in lo + 1 .. M2 : pos \in 1 .. M2 /\ nodes2[pos] = nodes[pos + d] /\ old(pos) = pos + d
  BY <1>5 
<1>13. \A k \in 0 .. K - 2 : hi2[k] = hi[k] /\ hi[k] \in 0 .. M /\ hi[k] <= lo
  <2>1. \A k \in 0 .. K - 2 : hi[k] <= lo
    BY <1>1, <1>2, <1>4, Increasing DEF lo
  <2>2. \A k \in 0 .. K - 2 : k \in 0 .. K /\ k \in 0 .. K - 1 /\ k # K - 1
    BY <1>1
  <2>3. \A k \in 0 .. K - 2 : hi2[k] = hi[k]
    BY <2>2
  <2> QED
    BY <1>3, <2>1, <2>2, <2>3
<1>14. hi2[K - 1] = M2 /\ hi2[K - 2] = lo /\ hi2[0] = 0
  BY <1>1, <1>3 DEF lo
<1>15. nodes2 \in [1 .. M2 -> DOMAIN h2]
  <2> HIDE DEF old
  <2> QED
    BY <1>9
<1>16. hi2 \in [0 .. K - 1 -> 0 .. M2]
  <2>1. \A k \in 0 .. K - 1 : k \in 0 .. K - 2 \/ k = K - 1
    BY <1>1
  <2>2. \A k \in 0 .. K - 1 : hi2[k] \in 0 .. M2
    <3> HIDE DEF hi2
    <3>1. \A k \in 0 .. K - 2 : hi2[k] \in Nat /\ hi2[k] <= lo
      BY <1>3, <1>13
    <3>2. lo \in Nat /\ M2 \in Nat /\ lo <= M2
      BY <1>5
    <3>3. \A k \in 0 .. K - 2 : hi2[k] \in 0 .. M2
      BY <3>1, <3>2
    <3>4. hi2[K - 1] \in 0 .. M2
      BY <1>14, <3>2
    <3> QED
      BY <2>1, <3>3, <3>4
  <2> QED
    BY <2>2
<1> HIDE DEF nodes2, hi2, old
<1>17. \A a, q : q \in 0 .. lo /\ Low(nodes, q, a) => Low(nodes2, q, a)
  BY <1>5, <1>11, SMTT(30) DEF Low
<1>18. \A a \in g[K].low \union g[K - 1].low : Low(nodes2, lo, a)
  <2>1. \A a \in g[K - 1].low : Low(nodes, lo, a)
    BY <1>1, <1>2, <1>4 DEF Divides, lo
  <2>2. \A a \in g[K].low : Low(nodes, lo, a)
    BY <2>1 DEF Low
  <2> QED
    BY <1>5, <1>17, <2>1, <2>2
<1>19. /\ g[K].base \in g[K].low
       /\ Chain(h, nodes, up, M, g[K].base, g[K].end)
  BY <1>1, <1>2, <1>3 DEF Divides, up
<1>20. Chain(h2, nodes2, lo, M2, g[K].base, g[K].end)
  <2>1. g[K].end = IF M2 = lo THEN g[K].base ELSE nodes2[M2]
    <3>1. CASE M2 = lo
      BY <1>5, <1>19, <3>1 DEF Chain
    <3>2. CASE M2 # lo
      <4>1. M2 \in lo + 1 .. M2 /\ M2 + d = M /\ M # up
        BY <1>3, <1>5, <3>2, SMTT(30)
      <4> QED
        BY <1>12, <1>19, <3>2, <4>1 DEF Chain
    <3> QED
      BY <3>1, <3>2
  <2>2. ASSUME NEW q \in lo + 1 .. M2
        PROVE  h2[nodes2[q]].next = IF q = lo + 1 THEN g[K].base ELSE nodes2[q - 1]
    <3>0. /\ lo \in Nat /\ d \in Nat /\ up = lo + d /\ M2 \in Nat /\ M = M2 + d
          /\ q \in Nat /\ lo + 1 <= q /\ q <= M2
      BY <1>5, SMTT(30)
    <3>1. q + d \in up + 1 .. M /\ (q + d = up + 1 <=> q = lo + 1) /\ (q + d) - 1 = (q - 1) + d
      BY <3>0, SMTT(30)
    <3>2. h2[nodes2[q]].next = h[nodes[q + d]].next
      BY <1>9, <1>12
    <3>3. q # lo + 1 => nodes2[q - 1] = nodes[(q - 1) + d]
      BY <1>5, <1>12
    <3> QED
      BY <1>19, <3>1, <3>2, <3>3 DEF Chain
  <2> QED
    BY <2>1, <2>2 DEF Chain
<1>21. Lists(h2, M2, nodes2)
  <2>1. \A pos, q \in 1 .. M2 : nodes2[pos] = nodes2[q] => pos = q
    BY <1>2, <1>7, <1>8 DEF Lists
  <2>2. ASSUME NEW pos \in 1 .. M2 PROVE Low(nodes2, pos - 1, h2[nodes2[pos]].next)
    <3>1. CASE pos <= lo
      <4>1. pos \in 1 .. lo /\ pos - 1 \in 0 .. lo /\ pos \in 1 .. M
        BY <1>5, <3>1
      <4>2. Low(nodes, pos - 1, h[nodes[pos]].next)
        BY <1>2, <4>1 DEF Lists
      <4> QED
        BY <1>9, <1>11, <1>17, <4>1, <4>2
    <3>2. CASE pos > lo
      <4>1. pos \in lo + 1 .. M2
        BY <1>5, <3>2
      <4>2. CASE pos = lo + 1
        <5>1. h2[nodes2[pos]].next = g[K].base /\ pos - 1 = lo
          BY <1>5, <1>20, <4>1, <4>2 DEF Chain
        <5> QED
          BY <1>18, <1>19, <5>1
      <4>3. CASE pos # lo + 1
        <5>1. h2[nodes2[pos]].next = nodes2[pos - 1] /\ pos - 1 \in 1 .. pos - 1
          BY <1>5, <1>20, <4>1, <4>3 DEF Chain
        <5> QED
          BY <5>1 DEF Low
      <4> QED
        BY <4>2, <4>3
    <3> QED
      BY <1>5, <3>1, <3>2
  <2> QED
    BY <1>5, <1>10, <1>15, <2>1, <2>2 DEF Lists
<1>22. ASSUME NEW k \in 1 .. Len(g2)
       PROVE  /\ hi2[k] = hi2[k - 1] + g2[k].n
              /\ Chain(h2, nodes2, hi2[k - 1], hi2[k], g2[k].base, g2[k].end)
              /\ g2[k].base \in g2[k].low
              /\ \A a \in g2[k].low : Low(nodes2, hi2[k - 1], a)
  <2>1. CASE k = K - 1
    <3>1. k - 1 = K - 2
      BY <1>1, <2>1
    <3> QED
      BY <1>5, <1>14, <1>18, <1>19, <1>20, <2>1, <3>1
  <2>2. CASE k # K - 1
    <3>1. k \in 1 .. Len(g) /\ k \in 0 .. K - 2 /\ k - 1 \in 0 .. K - 2 /\ g2[k] = g[k]
      BY <1>1, <2>2, SMTT(30)
    <3>2. /\ hi2[k] = hi[k] /\ hi2[k - 1] = hi[k - 1]
          /\ hi[k] \in 0 .. M /\ hi[k] <= lo /\ hi[k - 1] \in 0 .. M /\ hi[k - 1] <= lo
      BY <1>13, <3>1
    <3>3. /\ hi[k] = hi[k - 1] + g[k].n /\ g[k].n \in Nat
          /\ Chain(h, nodes, hi[k - 1], hi[k], g[k].base, g[k].end)
          /\ g[k].base \in g[k].low
          /\ \A a \in g[k].low : Low(nodes, hi[k - 1], a)
      BY <1>1, <1>2, <3>1, SegmentType DEF Divides
    <3>4. Chain(h2, nodes2, hi[k - 1], hi[k], g[k].base, g[k].end)
      <4>1. \A q \in hi[k - 1] + 1 .. hi[k] :
              q \in 1 .. lo /\ (q # hi[k - 1] + 1 => q - 1 \in 1 .. lo)
        BY <1>5, <3>2
      <4>2. hi[k] # hi[k - 1] => hi[k] \in 1 .. lo
        BY <3>2, <3>3
      <4>3. \A q \in 1 .. lo : h2[nodes2[q]] = h[nodes[q]] /\ nodes2[q] = nodes[q]
        BY <1>9, <1>11
      <4> QED
        BY <3>3, <4>1, <4>2, <4>3, SMTT(30) DEF Chain
    <3> QED
      BY <1>17, <3>1, <3>2, <3>3, <3>4
  <2> QED
    BY <2>1, <2>2
<1>23. Divides(h2, g2, M2, nodes2, hi2)
  <2>1. Len(g2) = K - 1
    OBVIOUS
  <2> QED
    BY <1>14, <1>16, <1>22, <2>1 DEF Divides
<1> QED
  BY <1>6, <1>21, <1>23 DEF Layout, Freed

\* g2 is g without the segment below the last.
FreedUnder(g, g2) ==
  /\ g2 \in Seq(SegmentRecord) /\ Len(g) > 1 /\ Len(g2) = Len(g) - 1
  /\ g[Len(g)].low \subseteq g[Len(g) - 1].low \union {NULL}
  /\ \A k \in 1 .. Len(g) - 2 : g2[k] = g[k]
  /\ g2[Len(g) - 1].n = g[Len(g)].n /\ g2[Len(g) - 1].base = g[Len(g)].base
  /\ g2[Len(g) - 1].end = g[Len(g)].end
  /\ g2[Len(g) - 1].low = g[Len(g) - 1].low \union g[Len(g)].low

LEMMA FreedUnderLayout ==
  ASSUME NEW h, NEW g, Layout(h, g), NEW g2, FreedUnder(g, g2)
  PROVE  Layout(env_free(h, g[Len(g) - 1].end, g[Len(g) - 1].base), g2)
<1> DEFINE K == Len(g)
           h2 == env_free(h, g[K - 1].end, g[K - 1].base)
<1>1. /\ g2 \in Seq(SegmentRecord) /\ K > 1 /\ Len(g2) = K - 1
      /\ g[K].low \subseteq g[K - 1].low \union {NULL}
      /\ \A k \in 1 .. K - 2 : g2[k] = g[k]
      /\ g2[K - 1].n = g[K].n /\ g2[K - 1].base = g[K].base /\ g2[K - 1].end = g[K].end
      /\ g2[K - 1].low = g[K - 1].low \union g[K].low
  BY DEF FreedUnder
<1> HIDE DEF K, h2
<1>2. K = Len(g) /\ h2 = env_free(h, g[K - 1].end, g[K - 1].base)
  BY DEF K, h2
<1>3. Layout(h2, g2)
  BY <1>1, <1>2, FreeUnder
<1> QED
  BY <1>3 DEF h2, K

-----------------------------------------------------------------------------
\* The nodes of a heap are counted by its segments: total[k] of them belong to
\* the first k.
Counts(h, g, total) ==
  /\ total \in [0 .. Len(g) -> Nat]
  /\ total[0] = 0
  /\ \A k \in 1 .. Len(g) : total[k] = total[k - 1] + g[k].n
  /\ Cardinality(DOMAIN h) = total[Len(g)]

\* So the heap has as many nodes as its segments have bindings.
LEMMA SegmentsCount ==
  ASSUME NEW h, NEW g, Layout(h, g)
  PROVE  \E total : Counts(h, g, total)
<1>1. h \in Heaps /\ g \in Seq(SegmentRecord)
  BY DEF Layout
<1>2. PICK M, nodes, hi : Lists(h, M, nodes) /\ Divides(h, g, M, nodes, hi)
  BY DEF Layout
<1>3. Cardinality(DOMAIN h) = M
  BY <1>1, <1>2, Count
<1>4. M \in Nat /\ hi \in [0 .. Len(g) -> 0 .. M]
  BY <1>2 DEF Lists, Divides
<1>5. hi \in [0 .. Len(g) -> Nat]
  BY <1>4
<1>6. Counts(h, g, hi)
  BY <1>2, <1>3, <1>5 DEF Divides, Counts
<1> QED
  BY <1>6

-----------------------------------------------------------------------------
(* The inductive invariant: the types of the memory, whichever functions   *)
(* are in it, ...                                                          *)

LoopsOrNone == {e \in Exprs : e.t = "Loop"} \union {NoLoop}
Frames == [e : Exprs, env : Places, loop : LoopsOrNone, lenv : Places, i : Nat,
           old : Places, vals : Seq(Word)]
Results == {None} \union [k : {"result"}, i : Word, loop_env : Places]

MachineTyped ==
  /\ program.functions \in Seq(Definitions)
  /\ stack \in Seq(Frames)
  /\ res \in Results

(* ... how the frames on the C stack are related: how far each has come,   *)
(* whether it waits for the one above, and which loop a recur goes back to *)

Progress(f) ==
  /\ f.e.t \in {"Int", "Id"} => f.i = 0
  /\ f.e.t \in {"If", "Unary", "Binary", "Let", "Loop", "Recur"} => f.i <= Len(f.e.kids)
  /\ f.e.t = "Call" => f.i <= Len(f.e.kids) + 1
  /\ f.e.t = "Fun" => f.i <= Len(f.e.names) + 1 /\ f.old = NULL
  /\ f.e.t = "Binary" /\ f.i = 2 => Len(f.vals) = 1
  /\ f.e.t = "Recur" /\ f.i > 0 => f.loop.t = "Loop" /\ Len(f.e.kids) = Len(f.loop.names)

Starts(f) == IF f.e.t = "Fun" THEN f.i <= Len(f.e.names) ELSE f.i = 0
Waits(f)  == f.i > 0 /\ (f.e.t = "Fun" => f.i = Len(f.e.names) + 1)

\* The environment around the loop that a recur in f's operands goes to.
LoopEnvOf(f) == IF f.e.t = "Loop" THEN f.old ELSE f.lenv

\* g is an operand of f: if it may recur, f hands on its result.
Link(f, g) ==
  IF g.loop.t = "Loop"
  THEN /\ ~ ForInt(f) /\ g.loop = LoopOf(f)
       /\ g.e.t # "Recur" \/ g.i = 0 => g.lenv = LoopEnvOf(f)
  ELSE g.lenv = NULL

Control(s, r) ==
  /\ \A k \in 1 .. Len(s) : Progress(s[k])
  /\ \A k \in 1 .. Len(s) - 1 : Waits(s[k]) /\ Link(s[k], s[k + 1])
  /\ Len(s) > 0 => s[1].loop.t # "Loop" /\ s[1].lenv = NULL
  /\ Len(s) > 0 => IF r = None THEN Starts(s[Len(s)]) ELSE Waits(s[Len(s)])
  /\ r.loop_env # NULL =>
       Len(s) > 0 /\ ~ ForInt(s[Len(s)]) /\ LoopOf(s[Len(s)]).t = "Loop"

(* ... and the segment of the heap that belongs to each of them.  A recur  *)
(* binds above the environment around its loop; on its way to the loop the *)
(* bindings have a segment of their own, on top of all others.             *)

Seg(s, k) ==
  IF s[k].e.t = "Recur"
  THEN LET base == IF s[k].loop.t = "Loop" THEN LoopEnvOf(s[k - 1]) ELSE NULL
       IN  [n |-> Bindings(s[k]), low |-> {base, s[k].env, s[k].old},
            base |-> base, end |-> s[k].lenv]
  ELSE [n |-> Bindings(s[k]), low |-> {s[k].old, s[k].lenv},
        base |-> s[k].old, end |-> s[k].env]

Carried(f, r) ==
  [n |-> Len(LoopOf(f).names), low |-> {LoopEnvOf(f)},
   base |-> LoopEnvOf(f), end |-> r.loop_env]

Segs(s, r) ==
  [k \in 1 .. Len(s) + (IF r.loop_env = NULL THEN 0 ELSE 1) |->
     IF k <= Len(s) THEN Seg(s, k) ELSE Carried(s[Len(s)], r)]

IInv == MachineTyped /\ Control(stack, res) /\ Layout(heap, Segs(stack, res))

-----------------------------------------------------------------------------
(* The stack.                                                              *)

Popped(s, t) ==
  /\ t \in Seq(Frames) /\ Len(t) = Len(s) - 1
  /\ \A k \in 1 .. Len(s) - 1 : t[k] = s[k]

\* Front takes the last frame away.
LEMMA PopFrame ==
  ASSUME NEW s \in Seq(Frames), Len(s) > 0
  PROVE  Popped(s, Front(s))
<1> DEFINE n == Len(s) - 1
<1>1. n \in Nat /\ \A k \in 1 .. n : s[k] \in Frames
  OBVIOUS
<1> HIDE DEF n
<1>2. /\ SubSeq(s, 1, n) \in Seq(Frames)
      /\ Len(SubSeq(s, 1, n)) = IF 1 <= n THEN n - 1 + 1 ELSE 0
      /\ \A k \in 1 .. n - 1 + 1 : SubSeq(s, 1, n)[k] = s[1 + k - 1]
  BY <1>1, SubSeqProperties
<1>3. /\ SubSeq(s, 1, n) \in Seq(Frames) /\ Len(SubSeq(s, 1, n)) = n
      /\ \A k \in 1 .. n : SubSeq(s, 1, n)[k] = s[k]
  BY <1>1, <1>2
<1> QED
  BY <1>3 DEF Popped, Front, n

\* t is s with top in place of its last frame, and g above it.
Pushed(s, top, g, t) ==
  /\ t \in Seq(Frames) /\ Len(t) = Len(s) + 1
  /\ t[Len(s)] = top /\ t[Len(s) + 1] = g
  /\ \A k \in 1 .. Len(s) - 1 : t[k] = s[k]

\* A frame pushed on a changed one, as Push does.
LEMMA PushFrames ==
  ASSUME NEW s \in Seq(Frames), Len(s) > 0, NEW top \in Frames, NEW g \in Frames
  PROVE  Pushed(s, top, g, Front(s) \o <<top, g>>)
<1> DEFINE b == Front(s)
           u == <<top, g>>
<1>1. b \in Seq(Frames) /\ Len(b) = Len(s) - 1 /\ \A k \in 1 .. Len(s) - 1 : b[k] = s[k]
  BY PopFrame DEF Popped
<1>2. u \in Seq(Frames) /\ Len(u) = 2 /\ u[1] = top /\ u[2] = g
  OBVIOUS
<1> HIDE DEF b, u
<1>3. /\ b \o u \in Seq(Frames) /\ Len(b \o u) = Len(b) + Len(u)
      /\ \A k \in 1 .. Len(b) + Len(u) :
           (b \o u)[k] = IF k <= Len(b) THEN b[k] ELSE u[k - Len(b)]
  BY <1>1, <1>2, ConcatProperties
<1>4. (b \o u)[Len(s)] = top /\ (b \o u)[Len(s) + 1] = g
  BY <1>1, <1>2, <1>3
<1>5. Len(b \o u) = Len(s) + 1 /\ \A k \in 1 .. Len(s) - 1 : (b \o u)[k] = s[k]
  BY <1>1, <1>2, <1>3
<1> QED
  BY <1>3, <1>4, <1>5 DEF Pushed, b, u

\* t is s with top in place of its last frame.
Replaced(s, top, t) ==
  /\ t \in Seq(Frames) /\ Len(t) = Len(s)
  /\ t[Len(s)] = top
  /\ \A k \in 1 .. Len(s) - 1 : t[k] = s[k]

\* The last frame changed in place, as BindParameter does.
LEMMA ReplaceFrame ==
  ASSUME NEW s \in Seq(Frames), Len(s) > 0, NEW top \in Frames
  PROVE  Replaced(s, top, Front(s) \o <<top>>)
<1> DEFINE b == Front(s)
           u == <<top>>
<1>1. b \in Seq(Frames) /\ Len(b) = Len(s) - 1 /\ \A k \in 1 .. Len(s) - 1 : b[k] = s[k]
  BY PopFrame DEF Popped
<1>2. u \in Seq(Frames) /\ Len(u) = 1 /\ u[1] = top
  OBVIOUS
<1> HIDE DEF b, u
<1>3. /\ b \o u \in Seq(Frames) /\ Len(b \o u) = Len(b) + Len(u)
      /\ \A k \in 1 .. Len(b) + Len(u) :
           (b \o u)[k] = IF k <= Len(b) THEN b[k] ELSE u[k - Len(b)]
  BY <1>1, <1>2, ConcatProperties
<1>4. (b \o u)[Len(s)] = top
  BY <1>1, <1>2, <1>3
<1>5. Len(b \o u) = Len(s) /\ \A k \in 1 .. Len(s) - 1 : (b \o u)[k] = s[k]
  BY <1>1, <1>2, <1>3
<1> QED
  BY <1>3, <1>4, <1>5 DEF Replaced, b, u

\* What a frame holds.
LEMMA FrameType ==
  ASSUME NEW f \in Frames
  PROVE  /\ f.e \in Exprs /\ WellFormed(f.e)
         /\ f.env \in Places /\ f.lenv \in Places /\ f.old \in Places /\ f.i \in Nat
         /\ f.loop \in LoopsOrNone /\ f.vals \in Seq(Word)
         /\ f.e.names \in Seq(STRING) /\ f.e.kids \in Seq(Exprs)
         /\ Len(f.e.names) \in Nat /\ Len(f.e.kids) \in Nat
<1>1. f.e \in Exprs /\ WellFormed(f.e)
  BY ExprsAssumption DEF Frames
<1>2. f.e \in [t : Kinds, v : Word, id : STRING, names : Seq(STRING), kids : Seq(Exprs)]
  BY <1>1 DEF WellFormed, Shaped
<1>3. f.e.names \in Seq(STRING) /\ f.e.kids \in Seq(Exprs)
  BY <1>2
<1> QED
  BY <1>1, <1>3 DEF Frames

\* How a call of eval changes its own frame.
Grown(f, g) ==
  /\ g.e = f.e /\ g.loop = f.loop /\ g.old = f.old
  /\ IF f.e.t = "Recur" THEN g.i > 0 /\ g.loop.t = "Loop" ELSE g.lenv = f.lenv

\* A call of eval that goes on keeps its link to the frame that called it.
LEMMA GrownLinked ==
  ASSUME NEW f, NEW g, NEW g2, Link(f, g), Grown(g, g2)
  PROVE  Link(f, g2)
  BY DEF Link, Grown

\* A frame that has just been pushed fits the one below.
LEMMA PushControl ==
  ASSUME NEW s \in Seq(Frames), Len(s) > 0, NEW r, Control(s, r), NEW t, NEW top, NEW g,
         Pushed(s, top, g, t), Grown(s[Len(s)], top), Progress(top), Waits(top),
         Progress(g), Starts(g), Link(top, g)
  PROVE  Control(t, None)
<1> DEFINE n == Len(s)
<1>1. n \in Nat /\ n > 0
  OBVIOUS
<1>2. Len(t) = n + 1 /\ t[n] = top /\ t[n + 1] = g /\ \A k \in 1 .. n - 1 : t[k] = s[k]
  BY DEF Pushed
<1> HIDE DEF n
<1>3. \A k \in 1 .. Len(t) : Progress(t[k])
  <2>1. \A k \in 1 .. Len(t) : (k \in 1 .. n - 1 /\ k \in 1 .. n) \/ k = n \/ k = n + 1
    BY <1>1, <1>2
  <2> QED
    BY <1>2, <2>1 DEF Control, n
<1>4. ASSUME NEW k \in 1 .. Len(t) - 1 PROVE Waits(t[k]) /\ Link(t[k], t[k + 1])
  <2>1. CASE k = n
    BY <1>2, <2>1
  <2>2. CASE k # n
    <3>1. k \in 1 .. n - 1 /\ t[k] = s[k]
      BY <1>1, <1>2, <2>2
    <3>2. Waits(s[k]) /\ Link(s[k], s[k + 1])
      BY <3>1 DEF Control, n
    <3>3. CASE k + 1 = n
      <4>1. Link(s[k], s[n])
        BY <3>2, <3>3
      <4>2. Link(s[k], top)
        BY <4>1, GrownLinked DEF n
      <4> QED
        BY <1>2, <3>1, <3>2, <3>3, <4>2
    <3>4. CASE k + 1 # n
      <4>1. k + 1 \in 1 .. n - 1
        BY <1>1, <3>1, <3>4
      <4> QED
        BY <1>2, <3>1, <3>2, <4>1
    <3> QED
      BY <3>3, <3>4
  <2> QED
    BY <2>1, <2>2
<1>5. t[1].loop.t # "Loop" /\ t[1].lenv = NULL
  <2>1. s[1].loop.t # "Loop" /\ s[1].lenv = NULL
    BY DEF Control
  <2>2. CASE n = 1
    BY <1>2, <2>1, <2>2 DEF Grown, n
  <2>3. CASE n # 1
    <3>1. 1 \in 1 .. n - 1
      BY <1>1, <2>3
    <3> QED
      BY <1>2, <2>1, <3>1
  <2> QED
    BY <2>2, <2>3
<1>6. Starts(t[Len(t)])
  BY <1>2
<1>7. None.loop_env = NULL
  BY DEF None
<1> QED
  BY <1>3, <1>4, <1>5, <1>6, <1>7 DEF Control

\* The frames fit together without the last one, when its result is one that
\* the frame below expects.
LEMMA ReturnControl ==
  ASSUME NEW s \in Seq(Frames), Len(s) > 0, NEW r, Control(s, r), NEW t, Popped(s, t),
         NEW r2, r2 # None,
         r2.loop_env # NULL => /\ Len(s) > 1 /\ ~ ForInt(s[Len(s) - 1])
                               /\ LoopOf(s[Len(s) - 1]).t = "Loop"
  PROVE  Control(t, r2)
<1> DEFINE n == Len(s)
<1>1. n \in Nat /\ n > 0
  OBVIOUS
<1>2. Len(t) = n - 1 /\ \A k \in 1 .. n - 1 : t[k] = s[k]
  BY DEF Popped
<1> HIDE DEF n
<1>3. \A k \in 1 .. n - 1 : k \in 1 .. n
  BY <1>1
<1>4. \A k \in 1 .. Len(t) : Progress(t[k])
  BY <1>2, <1>3 DEF Control, n
<1>5. ASSUME NEW k \in 1 .. Len(t) - 1 PROVE Waits(t[k]) /\ Link(t[k], t[k + 1])
  <2>1. k \in 1 .. n - 1 /\ k + 1 \in 1 .. n - 1
    BY <1>1, <1>2
  <2> QED
    BY <1>2, <2>1 DEF Control, n
<1>6. ASSUME Len(t) > 0
      PROVE  /\ t[1].loop.t # "Loop" /\ t[1].lenv = NULL
             /\ Waits(t[Len(t)]) /\ t[Len(t)] = s[n - 1]
  <2>1. 1 \in 1 .. n - 1 /\ n - 1 \in 1 .. n - 1
    BY <1>1, <1>2, <1>6
  <2> QED
    BY <1>2, <2>1 DEF Control, n
<1>7. r2.loop_env # NULL =>
        Len(t) > 0 /\ ~ ForInt(t[Len(t)]) /\ LoopOf(t[Len(t)]).t = "Loop"
  BY <1>1, <1>2, <1>6 DEF n
<1> QED
  BY <1>4, <1>5, <1>6, <1>7 DEF Control

-----------------------------------------------------------------------------
(* The segments.                                                           *)

\* The segments of the first n frames.
SegsTo(s, n) == [k \in 1 .. n |-> Seg(s, k)]

\* A frame has a number of bindings.
LEMMA BindingsType ==
  ASSUME NEW f \in Frames PROVE Bindings(f) \in Nat
<1>1. f.i \in Nat /\ Len(f.e.names) \in Nat
  BY FrameType
<1> QED
  BY <1>1 DEF Bindings

\* No recur goes further down than the first frame.
InAFrame(s) == Len(s) > 0 => s[1].loop.t # "Loop"

\* An environment is an address or NULL.
LEMMA LoopEnvType ==
  ASSUME NEW f \in Frames PROVE LoopEnvOf(f) \in Places
  BY FrameType DEF LoopEnvOf

\* Each frame has a segment.
LEMMA SegType ==
  ASSUME NEW s \in Seq(Frames), InAFrame(s), NEW k \in 1 .. Len(s)
  PROVE  Seg(s, k) \in SegmentRecord
<1>1. s[k] \in Frames /\ NULL \in Places
  BY MaxNodesAssumption DEF NULL, Places
<1>2. /\ s[k].env \in Places /\ s[k].lenv \in Places /\ s[k].old \in Places
      /\ Bindings(s[k]) \in Nat
  BY <1>1, FrameType, BindingsType
<1>3. ASSUME s[k].loop.t = "Loop" PROVE LoopEnvOf(s[k - 1]) \in Places
  <2>1. k # 1
    BY <1>3 DEF InAFrame
  <2>2. s[k - 1] \in Frames
    BY <2>1
  <2> QED
    BY <2>2, LoopEnvType
<1> DEFINE base == IF s[k].loop.t = "Loop" THEN LoopEnvOf(s[k - 1]) ELSE NULL
<1>4. base \in Places
  BY <1>1, <1>3
<1> HIDE DEF base
<1>5. CASE s[k].e.t = "Recur"
  <2>1. Seg(s, k) = [n |-> Bindings(s[k]), low |-> {base, s[k].env, s[k].old},
                     base |-> base, end |-> s[k].lenv]
    BY <1>5 DEF Seg, base
  <2> QED
    BY <1>2, <1>4, <2>1 DEF SegmentRecord
<1>6. CASE s[k].e.t # "Recur"
  <2>1. Seg(s, k) = [n |-> Bindings(s[k]), low |-> {s[k].old, s[k].lenv},
                     base |-> s[k].old, end |-> s[k].env]
    BY <1>6 DEF Seg
  <2> QED
    BY <1>2, <2>1 DEF SegmentRecord
<1> QED
  BY <1>5, <1>6

\* The segments of the first frames.
LEMMA SegsToType ==
  ASSUME NEW s \in Seq(Frames), InAFrame(s), NEW n \in 0 .. Len(s)
  PROVE  /\ SegsTo(s, n) \in Seq(SegmentRecord) /\ Len(SegsTo(s, n)) = n
         /\ \A k \in 1 .. n : SegsTo(s, n)[k] = Seg(s, k)
<1>1. \A k \in 1 .. n : Seg(s, k) \in SegmentRecord
  BY SegType
<1>2. n \in Nat
  OBVIOUS
<1> QED
  BY <1>1, <1>2 DEF SegsTo

\* No recur on its way: a segment for each frame, and no other.
LEMMA SegsIsSegsTo ==
  ASSUME NEW s \in Seq(Frames), NEW r, r.loop_env = NULL
  PROVE  Segs(s, r) = SegsTo(s, Len(s))
<1>1. Len(s) + 0 = Len(s) /\ \A k \in 1 .. Len(s) : k <= Len(s)
  OBVIOUS
<1> QED
  BY <1>1 DEF Segs, SegsTo

\* A recur on its way has a segment.
LEMMA CarriedType ==
  ASSUME NEW f \in Frames, NEW r \in Results, LoopOf(f).t = "Loop"
  PROVE  Carried(f, r) \in SegmentRecord
<1>1. LoopOf(f) \in Exprs
  <2>1. NoLoop.t # "Loop"
    BY DEF NoLoop, Num, Node
  <2> QED
    BY <2>1, FrameType DEF LoopOf, LoopsOrNone
<1>2. WellFormed(LoopOf(f))
  BY <1>1, ExprsAssumption
<1>3. LoopOf(f).names \in Seq(STRING)
  BY <1>2 DEF WellFormed, Shaped
<1>4. Len(LoopOf(f).names) \in Nat
  BY <1>3
<1>5. r.loop_env \in Places
  BY MaxNodesAssumption DEF Results, None, NULL, Places
<1> QED
  BY <1>4, <1>5, LoopEnvType DEF Carried, SegmentRecord

\* It is the last one.
LEMMA SegsCarrying ==
  ASSUME NEW s \in Seq(Frames), NEW r \in Results, Control(s, r), r.loop_env # NULL
  PROVE  /\ Segs(s, r) \in Seq(SegmentRecord) /\ Len(Segs(s, r)) = Len(s) + 1
         /\ \A k \in 1 .. Len(s) : Segs(s, r)[k] = Seg(s, k)
         /\ Segs(s, r)[Len(s) + 1] = Carried(s[Len(s)], r)
<1>1. Len(s) > 0 /\ LoopOf(s[Len(s)]).t = "Loop" /\ InAFrame(s)
  BY DEF Control, InAFrame
<1>2. s[Len(s)] \in Frames
  BY <1>1
<1>3. Carried(s[Len(s)], r) \in SegmentRecord
  BY <1>1, <1>2, CarriedType
<1>4. \A k \in 1 .. Len(s) : Seg(s, k) \in SegmentRecord
  BY <1>1, SegType
<1> DEFINE N == Len(s) + 1
<1>5. N \in Nat /\ N > Len(s) /\ \A k \in 1 .. N : k \in 1 .. Len(s) \/ k = N
  OBVIOUS
<1>6. Segs(s, r) = [k \in 1 .. N |-> IF k <= Len(s) THEN Seg(s, k) ELSE Carried(s[Len(s)], r)]
  BY DEF Segs
<1> HIDE DEF N
<1>7. \A k \in 1 .. N : (IF k <= Len(s) THEN Seg(s, k) ELSE Carried(s[Len(s)], r)) \in SegmentRecord
  BY <1>3, <1>4, <1>5
<1>8. Segs(s, r) \in Seq(SegmentRecord) /\ Len(Segs(s, r)) = N
  BY <1>5, <1>6, <1>7
<1>9. \A k \in 1 .. Len(s) : k \in 1 .. N /\ k <= Len(s)
  BY DEF N
<1> QED
  BY <1>5, <1>6, <1>8, <1>9 DEF N

\* t begins with s, but for the last frame of s, which has become top.
Changed(s, top, t) ==
  /\ t \in Seq(Frames) /\ Len(t) >= Len(s)
  /\ t[Len(s)] = top
  /\ \A k \in 1 .. Len(s) - 1 : t[k] = s[k]

\* The change of the last frame leaves the segments below as they are.
LEMMA ChangedSegs ==
  ASSUME NEW s \in Seq(Frames), Len(s) > 0, InAFrame(s), NEW top, NEW t, Changed(s, top, t),
         Grown(s[Len(s)], top)
  PROVE  /\ InAFrame(t)
         /\ \A k \in 1 .. Len(s) - 1 : Seg(t, k) = Seg(s, k)
         /\ top.lenv = s[Len(s)].lenv /\ top.env = s[Len(s)].env
              /\ Bindings(top) = Bindings(s[Len(s)]) => Seg(t, Len(s)) = Seg(s, Len(s))
<1> DEFINE K == Len(s)
<1>1. K \in Nat /\ K > 0 /\ \A k \in 1 .. K - 1 : t[k] = s[k]
  BY DEF Changed
<1>2. s[1].loop.t # "Loop"
  BY DEF InAFrame
<1>3. t[K] = top /\ Len(t) > 0
  BY DEF Changed
<1>4. t[1].loop.t # "Loop"
  BY <1>1, <1>2, <1>3 DEF Grown
<1> HIDE DEF K
<1>5. ASSUME NEW k \in 1 .. K - 1 PROVE Seg(t, k) = Seg(s, k)
  <2>1. t[k] = s[k]
    BY <1>1
  <2>2. CASE k = 1
    BY <1>2, <2>1, <2>2 DEF Seg
  <2>3. CASE k # 1
    <3>1. t[k - 1] = s[k - 1]
      BY <1>1, <2>3
    <3> QED
      BY <2>1, <3>1 DEF Seg
  <2> QED
    BY <2>2, <2>3
<1>6. ASSUME top.lenv = s[K].lenv, top.env = s[K].env, Bindings(top) = Bindings(s[K])
      PROVE  Seg(t, K) = Seg(s, K)
  <2>1. t[K] = top /\ top.e = s[K].e /\ top.loop = s[K].loop /\ top.old = s[K].old
    BY <1>3 DEF Grown, K
  <2>2. CASE K = 1
    BY <1>2, <1>6, <2>1, <2>2 DEF Seg
  <2>3. CASE K # 1
    <3>1. t[K - 1] = s[K - 1]
      BY <1>1, <2>3
    <3> QED
      BY <1>6, <2>1, <3>1 DEF Seg
  <2> QED
    BY <2>2, <2>3
<1> QED
  BY <1>4, <1>5, <1>6 DEF InAFrame, K

\* A call of eval that binds nothing.
LEMMA KeepMemory ==
  ASSUME NEW s \in Seq(Frames), Len(s) > 0, NEW r, Control(s, r), r.loop_env = NULL,
         NEW h, Layout(h, Segs(s, r)), NEW top, NEW t, Changed(s, top, t),
         Grown(s[Len(s)], top), top.lenv = s[Len(s)].lenv, top.env = s[Len(s)].env,
         Bindings(top) = Bindings(s[Len(s)])
  PROVE  Layout(h, SegsTo(t, Len(s)))
<1>1. InAFrame(s)
  BY DEF Control, InAFrame
<1>2. \A k \in 1 .. Len(s) : Seg(t, k) = Seg(s, k)
  <2>1. \A k \in 1 .. Len(s) : k \in 1 .. Len(s) - 1 \/ k = Len(s)
    OBVIOUS
  <2> QED
    BY <1>1, <2>1, ChangedSegs
<1>3. SegsTo(t, Len(s)) = SegsTo(s, Len(s))
  BY <1>2 DEF SegsTo
<1> QED
  BY <1>3, SegsIsSegsTo

\* One that calls another.
LEMMA CallMemory ==
  ASSUME NEW h, NEW t \in Seq(Frames), NEW n \in Nat, n > 0, Len(t) = n + 1,
         Control(t, None), Layout(h, SegsTo(t, n)),
         t[n + 1].i = 0, t[n + 1].old = t[n + 1].env, t[n + 1].env \in {NULL, t[n].env}
  PROVE  Layout(h, Segs(t, None))
<1> DEFINE f == t[n]
           g == t[n + 1]
           new == Seg(t, n + 1)
           below == Seg(t, n)
<1>1. InAFrame(t) /\ None.loop_env = NULL /\ n \in 1 .. Len(t) - 1
  BY DEF Control, InAFrame, None
<1>2. Link(f, g) /\ f \in Frames /\ g \in Frames
  BY <1>1 DEF Control
<1>3. (n + 1) - 1 = n
  OBVIOUS
<1>4. Bindings(g) = 0
  BY FrameType, <1>2 DEF Bindings
<1>5. f.env \in below.low \union {below.end}
  BY DEF Seg
<1>6. g.loop.t = "Loop" => LoopEnvOf(f) \in below.low
  <2> SUFFICES ASSUME g.loop.t = "Loop" PROVE LoopEnvOf(f) \in below.low
    OBVIOUS
  <2>1. f.e.t # "Recur"
    BY <1>2 DEF Link, ForInt
  <2> QED
    BY <2>1 DEF Seg, LoopEnvOf
<1>7. g.lenv = IF g.loop.t = "Loop" THEN LoopEnvOf(f) ELSE NULL
  BY <1>2 DEF Link
<1> HIDE DEF f
<1>8. /\ new.n = 0 /\ new.base = new.end /\ new.base \in new.low
      /\ new.low \subseteq {g.env, NULL, IF g.loop.t = "Loop" THEN LoopEnvOf(f) ELSE NULL}
  <2>1. CASE g.e.t = "Recur"
    BY <1>3, <1>4, <1>7, <2>1 DEF Seg, f
  <2>2. CASE g.e.t # "Recur"
    BY <1>3, <1>4, <1>7, <2>2 DEF Seg, f
  <2> QED
    BY <2>1, <2>2
<1>9. \A a \in new.low : a = NULL \/ a \in below.low \union {below.end}
  <2>1. g.env = NULL \/ g.env = f.env
    BY DEF f
  <2> HIDE DEF g, new, below
  <2> QED
    BY <1>5, <1>6, <1>8, <2>1
<1> HIDE DEF f, g, new, below
<1> DEFINE g1 == SegsTo(t, n)
           g2 == SegsTo(t, n + 1)
<1>10. n \in 0 .. Len(t) /\ n + 1 \in 0 .. Len(t)
  OBVIOUS
<1>11. /\ g1 \in Seq(SegmentRecord) /\ Len(g1) = n /\ \A k \in 1 .. n : g1[k] = Seg(t, k)
       /\ g2 \in Seq(SegmentRecord) /\ Len(g2) = n + 1 /\ \A k \in 1 .. n + 1 : g2[k] = Seg(t, k)
  BY <1>1, <1>10, SegsToType
<1> HIDE DEF g1, g2
<1>12. Layout(h, g1)
  BY DEF g1
<1>13. /\ Len(g2) = Len(g1) + 1 /\ new = g2[Len(g1) + 1]
       /\ \A k \in 1 .. Len(g1) : g2[k] = g1[k]
       /\ \A a \in new.low : a = NULL \/ \E k \in 1 .. Len(g1) : a \in g1[k].low \union {g1[k].end}
  <2>1. n \in 1 .. Len(g1) /\ g1[n] = below
    BY <1>11 DEF below
  <2>2. \A k \in 1 .. n : k \in 1 .. n + 1
    OBVIOUS
  <2> QED
    BY <1>9, <1>11, <2>1, <2>2 DEF new
<1>14. Layout(h, g2)
  BY <1>8, <1>11, <1>12, <1>13, BeginSegment
<1> QED
  BY <1>1, <1>14, SegsIsSegsTo DEF g2

\* One that binds a value.
LEMMA BindMemory ==
  ASSUME NEW s \in Seq(Frames), Len(s) > 0, NEW r, Control(s, r), r.loop_env = NULL,
         NEW h, Layout(h, Segs(s, r)), NEW top, NEW t, Changed(s, top, t),
         NEW f, f = s[Len(s)], Grown(f, top), Bindings(top) = Bindings(f) + 1,
         IF f.e.t = "Recur" THEN top.env = f.env /\ top.lenv = NewNode(h)
                            ELSE top.env = NewNode(h),
         CanBind(h), NEW name \in STRING, NEW value \in Word,
         NEW h2, h2 = env_bind(h, IF f.e.t = "Recur" THEN f.lenv ELSE f.env, name, value)
  PROVE  Layout(h2, SegsTo(t, Len(s)))
<1> DEFINE K == Len(s)
           g1 == SegsTo(s, K)
           g2 == SegsTo(t, K)
<1>1. InAFrame(s) /\ InAFrame(t) /\ \A k \in 1 .. K - 1 : Seg(t, k) = Seg(s, k)
  <2>1. InAFrame(s)
    BY DEF Control, InAFrame
  <2> QED
    BY <2>1, ChangedSegs
<1>2. K \in Nat /\ K > 0 /\ K \in 0 .. Len(s) /\ K \in 0 .. Len(t) /\ t \in Seq(Frames)
  BY DEF Changed
<1>3. Layout(h, g1)
  BY SegsIsSegsTo
<1>4. /\ g1 \in Seq(SegmentRecord) /\ Len(g1) = K /\ \A k \in 1 .. K : g1[k] = Seg(s, k)
      /\ g2 \in Seq(SegmentRecord) /\ Len(g2) = K /\ \A k \in 1 .. K : g2[k] = Seg(t, k)
  BY <1>1, <1>2, SegsToType
<1>5. /\ Seg(t, K).n = Seg(s, K).n + 1 /\ Seg(t, K).base = Seg(s, K).base
      /\ Seg(t, K).low = Seg(s, K).low /\ Seg(t, K).end = NewNode(h)
      /\ Seg(s, K).end = IF f.e.t = "Recur" THEN f.lenv ELSE f.env
  <2>1. t[K] = top /\ top.e = f.e /\ top.loop = f.loop /\ top.old = f.old /\ s[K] = f
    BY DEF Changed, Grown
  <2>2. IF f.e.t = "Recur" THEN f.loop.t = "Loop" ELSE top.lenv = f.lenv
    BY DEF Grown
  <2>3. CASE f.e.t = "Recur"
    <3>1. K # 1
      BY <1>1, <2>1, <2>2, <2>3 DEF InAFrame
    <3>2. K - 1 \in 1 .. K - 1
      <4> HIDE DEF K
      <4> QED
        BY <1>2, <3>1
    <3>3. t[K - 1] = s[K - 1]
      BY <3>2 DEF Changed
    <3> HIDE DEF K
    <3> QED
      BY <2>1, <2>2, <2>3, <3>3 DEF Seg
  <2>4. CASE f.e.t # "Recur"
    <3> HIDE DEF K
    <3> QED
      BY <2>1, <2>2, <2>4 DEF Seg
  <2> QED
    BY <2>3, <2>4
<1> HIDE DEF K, g1, g2
<1>6. h2 = env_bind(h, g1[K].end, name, value) /\ K = Len(g1)
  BY <1>2, <1>4, <1>5
<1>7. /\ g2[K].n = g1[K].n + 1 /\ g2[K].low = g1[K].low /\ g2[K].base = g1[K].base
      /\ g2[K].end = NewNode(h) /\ \A k \in 1 .. K - 1 : g2[k] = g1[k]
  <2>1. \A k \in 1 .. K - 1 : k \in 1 .. K
    BY <1>2
  <2>2. K \in 1 .. K
    BY <1>2
  <2> QED
    BY <1>1, <1>4, <1>5, <2>1, <2>2
<1>8. Extended(h, g1, g2)
  BY <1>2, <1>4, <1>6, <1>7 DEF Extended
<1>9. Layout(h2, g2)
  BY <1>3, <1>6, <1>8, ExtendedLayout
<1> QED
  BY <1>9 DEF g2, K

\* A loop drops its bindings and continues with those of a recur.
LEMMA LoopMemory ==
  ASSUME NEW s \in Seq(Frames), Len(s) > 0, NEW r \in Results, Control(s, r), r.loop_env # NULL,
         NEW h, Layout(h, Segs(s, r)), NEW top, NEW t, Changed(s, top, t),
         NEW f, f = s[Len(s)], f.e.t = "Loop", Grown(f, top),
         Bindings(top) = Len(f.e.names), top.env = r.loop_env,
         NEW h2, h2 = env_free(h, f.env, f.old)
  PROVE  Layout(h2, SegsTo(t, Len(s)))
<1> DEFINE n == Len(s)
           K == n + 1
           g1 == Segs(s, r)
           g3 == SegsTo(t, n)
<1>1. InAFrame(s) /\ InAFrame(t) /\ \A k \in 1 .. n - 1 : Seg(t, k) = Seg(s, k)
  <2>1. InAFrame(s)
    BY DEF Control, InAFrame
  <2> QED
    BY <2>1, ChangedSegs
<1>2. n \in Nat /\ n > 0 /\ n \in 0 .. Len(t) /\ t \in Seq(Frames)
  BY DEF Changed
<1>3. /\ g1 \in Seq(SegmentRecord) /\ Len(g1) = K
      /\ \A k \in 1 .. n : g1[k] = Seg(s, k)
      /\ g1[K] = Carried(f, r)
  BY SegsCarrying
<1>4. g3 \in Seq(SegmentRecord) /\ Len(g3) = n /\ \A k \in 1 .. n : g3[k] = Seg(t, k)
  BY <1>1, <1>2, SegsToType
<1>5. /\ Seg(s, n) = [n |-> Bindings(f), low |-> {f.old, f.lenv}, base |-> f.old, end |-> f.env]
      /\ Seg(t, n) = [n |-> Len(f.e.names), low |-> {f.old, f.lenv}, base |-> f.old,
                      end |-> r.loop_env]
      /\ Carried(f, r) = [n |-> Len(f.e.names), low |-> {f.old}, base |-> f.old,
                          end |-> r.loop_env]
  BY DEF Seg, Carried, Grown, Changed, LoopOf, LoopEnvOf
<1>6. Layout(h, g1)
  OBVIOUS
<1> HIDE DEF g1, g3
<1>7. K > 1 /\ K - 1 = n /\ n \in 1 .. n /\ K - 2 = n - 1
  BY <1>2
<1> HIDE DEF n
<1>8. h2 = env_free(h, g1[K - 1].end, g1[K - 1].base)
  BY <1>3, <1>5, <1>7
<1>9. g1[K].low \subseteq g1[K - 1].low \union {NULL}
  BY <1>3, <1>5, <1>7
<1>10. \A k \in 1 .. n - 1 : k \in 1 .. n
  BY <1>2
<1>11. \A k \in 1 .. K - 2 : g3[k] = g1[k]
  BY <1>1, <1>3, <1>4, <1>7, <1>10
<1>12. /\ Len(g3) = K - 1 /\ g3[K - 1].n = g1[K].n /\ g3[K - 1].base = g1[K].base
       /\ g3[K - 1].end = g1[K].end /\ g3[K - 1].low = g1[K - 1].low \union g1[K].low
  BY <1>3, <1>4, <1>5, <1>7
<1> HIDE DEF K
<1>13. FreedUnder(g1, g3)
  BY <1>3, <1>4, <1>7, <1>9, <1>11, <1>12 DEF FreedUnder
<1>14. Layout(h2, g3)
  BY <1>3, <1>6, <1>8, <1>13, FreedUnderLayout
<1> QED
  BY <1>14 DEF g3, n

\* A call that frees its bindings and returns; a recur is handed on.
LEMMA ReturnMemory ==
  ASSUME NEW s \in Seq(Frames), Len(s) > 0, NEW r \in Results, Control(s, r),
         NEW h, Layout(h, Segs(s, r)), NEW t, Popped(s, t),
         NEW r2 \in Results, r2.loop_env = r.loop_env, Control(t, r2),
         NEW f, f = s[Len(s)], f.e.t # "Recur", r.loop_env # NULL => f.e.t # "Loop",
         NEW h2, h2 = env_free(h, f.env, f.old)
  PROVE  Layout(h2, Segs(t, r2))
<1> DEFINE n == Len(s)
           g1 == Segs(s, r)
           g2 == Segs(t, r2)
<1>1. /\ n \in Nat /\ n > 0 /\ Len(t) = n - 1 /\ t \in Seq(Frames)
      /\ \A k \in 1 .. n - 1 : t[k] = s[k] /\ k \in 1 .. n
  BY DEF Popped
<1>2. InAFrame(s) /\ InAFrame(t)
  BY DEF Control, InAFrame
<1>3. ASSUME NEW k \in 1 .. n - 1 PROVE Seg(t, k) = Seg(s, k)
  <2>1. t[k] = s[k]
    BY <1>1
  <2>2. CASE k = 1
    BY <1>2, <2>1, <2>2 DEF Seg, InAFrame
  <2>3. CASE k # 1
    <3>1. k - 1 \in 1 .. n - 1
      BY <1>1, <2>3
    <3>2. t[k - 1] = s[k - 1]
      BY <1>1, <3>1
    <3> QED
      BY <2>1, <3>2 DEF Seg
  <2> QED
    BY <2>2, <2>3
<1>4. Seg(s, n) = [n |-> Bindings(f), low |-> {f.old, f.lenv}, base |-> f.old, end |-> f.env]
  BY DEF Seg
<1>5. CASE r.loop_env = NULL
  <2>1. g1 = SegsTo(s, n) /\ g2 = SegsTo(t, n - 1)
    BY <1>1, <1>5, SegsIsSegsTo
  <2>2. n \in 0 .. Len(s) /\ n - 1 \in 0 .. Len(t)
    BY <1>1
  <2>3. /\ g1 \in Seq(SegmentRecord) /\ Len(g1) = n /\ \A k \in 1 .. n : g1[k] = Seg(s, k)
        /\ g2 \in Seq(SegmentRecord) /\ Len(g2) = n - 1 /\ \A k \in 1 .. n - 1 : g2[k] = Seg(t, k)
    BY <1>1, <1>2, <2>1, <2>2, SegsToType
  <2>4. Layout(h, g1)
    OBVIOUS
  <2> HIDE DEF n, g1, g2
  <2>5. \A k \in 1 .. n - 1 : g2[k] = g1[k]
    BY <1>1, <1>3, <2>3
  <2>6. h2 = env_free(h, g1[n].end, g1[n].base)
    BY <1>1, <1>4, <2>3
  <2>7. Layout(h2, g2)
    BY <1>1, <2>3, <2>4, <2>5, <2>6, FreeLast
  <2> QED
    BY <2>7 DEF g2
<1>6. CASE r.loop_env # NULL
  <2> DEFINE K == n + 1
             b == t[n - 1]
             last == [n |-> Carried(f, r).n, low |-> {f.old, f.lenv} \union {f.lenv},
                      base |-> f.lenv, end |-> r.loop_env]
             g3 == [k \in 1 .. n |-> IF k = n THEN last ELSE Seg(s, k)]
  <2>1. Len(t) > 0 /\ ~ ForInt(f) /\ LoopOf(f).t = "Loop" /\ f \in Frames
    BY <1>6 DEF Control
  <2>2. f.e.t # "Loop" /\ LoopOf(f) = f.loop /\ LoopEnvOf(f) = f.lenv /\ f.loop.t = "Loop"
    BY <1>6, <2>1 DEF LoopOf, LoopEnvOf
  <2>3. n - 1 \in 1 .. n - 1 /\ n > 1 /\ b = s[n - 1] /\ (n - 1) + 1 = n
    BY <1>1, <2>1
  <2>4. Link(b, f)
    BY <2>3 DEF Control
  <2>5. f.loop = LoopOf(b) /\ f.lenv = LoopEnvOf(b)
    BY <2>2, <2>4 DEF Link
  <2>6. /\ Carried(f, r) = [n |-> Len(f.loop.names), low |-> {f.lenv}, base |-> f.lenv,
                            end |-> r.loop_env]
        /\ Carried(b, r2) = Carried(f, r)
    BY <2>2, <2>5 DEF Carried
  <2>7. /\ g1 \in Seq(SegmentRecord) /\ Len(g1) = K
        /\ \A k \in 1 .. n : g1[k] = Seg(s, k)
        /\ g1[K] = Carried(f, r)
    BY <1>6, SegsCarrying
  <2>8. /\ g2 \in Seq(SegmentRecord) /\ Len(g2) = n
        /\ \A k \in 1 .. n - 1 : g2[k] = Seg(t, k)
        /\ g2[n] = Carried(b, r2)
    <3>1. r2.loop_env # NULL /\ Len(t) = n - 1 /\ Len(t) + 1 = n
      BY <1>1, <1>6
    <3>2. /\ g2 \in Seq(SegmentRecord) /\ Len(g2) = Len(t) + 1
          /\ \A k \in 1 .. Len(t) : g2[k] = Seg(t, k)
          /\ g2[Len(t) + 1] = Carried(t[Len(t)], r2)
      BY <1>1, <3>1, SegsCarrying
    <3> HIDE DEF n, g2
    <3> QED
      BY <3>1, <3>2
  <2>9. Layout(h, g1)
    OBVIOUS
  <2> HIDE DEF g1, g2, n, b
  <2>10. K > 1 /\ K - 1 = n /\ K - 2 = n - 1 /\ n \in 1 .. n
    BY <1>1, <2>3
  <2>11. g1[n] = [n |-> Bindings(f), low |-> {f.old, f.lenv}, base |-> f.old, end |-> f.env]
    BY <1>4, <2>7, <2>10
  <2>12. g3 \in Seq(SegmentRecord) /\ Len(g3) = n
    <3>1. g1[K] \in SegmentRecord /\ \A k \in 1 .. n : Seg(s, k) \in SegmentRecord
      <4>1. K \in 1 .. Len(g1) /\ \A k \in 1 .. n : k \in 1 .. Len(g1)
        BY <1>1, <2>7
      <4>2. \A k \in 1 .. Len(g1) : g1[k] \in SegmentRecord
        BY <2>7
      <4> QED
        BY <2>7, <4>1, <4>2
    <3>2. Carried(f, r).n \in Nat /\ r.loop_env \in Places
      BY <2>6, <2>7, <3>1 DEF SegmentRecord
    <3>3. f.old \in Places /\ f.lenv \in Places
      BY <2>1, FrameType
    <3>4. last \in SegmentRecord
      BY <3>2, <3>3 DEF SegmentRecord
    <3> HIDE DEF last
    <3>5. \A k \in 1 .. n : (IF k = n THEN last ELSE Seg(s, k)) \in SegmentRecord
      BY <3>1, <3>4
    <3>6. n \in Nat
      BY <1>1
    <3> QED
      BY <3>5, <3>6
  <2>13. \A k \in 1 .. n - 1 : g3[k] = Seg(s, k) /\ k \in 1 .. n
    BY <1>1
  <2>14. g3[n] = last
    BY <2>10
  <2> HIDE DEF g3, K
  <2>15. h2 = env_free(h, g1[K - 1].end, g1[K - 1].base)
    BY <2>10, <2>11
  <2>16. g1[K].low \subseteq g1[K - 1].low \union {NULL}
    BY <2>6, <2>7, <2>10, <2>11
  <2>17. \A k \in 1 .. K - 2 : g3[k] = g1[k]
    BY <2>7, <2>10, <2>13
  <2>18. /\ Len(g3) = K - 1 /\ g3[K - 1].n = g1[K].n /\ g3[K - 1].base = g1[K].base
         /\ g3[K - 1].end = g1[K].end /\ g3[K - 1].low = g1[K - 1].low \union g1[K].low
    BY <2>6, <2>7, <2>10, <2>11, <2>12, <2>14, SMTT(30)
  <2>19. Layout(h2, g3)
    <3>1. K = Len(g1) /\ K > 1 /\ g3 \in Seq(SegmentRecord)
      BY <2>7, <2>10, <2>12
    <3>2. FreedUnder(g1, g3)
      BY <2>16, <2>17, <2>18, <3>1 DEF FreedUnder
    <3> QED
      BY <2>9, <2>15, <3>1, <3>2, FreedUnderLayout
  <2>20. \A k \in 1 .. Len(g3) :
           /\ g2[k].n = g3[k].n /\ g2[k].base = g3[k].base /\ g2[k].end = g3[k].end
           /\ g2[k].base \in g2[k].low
           /\ g2[k].low \subseteq g3[k].low \union {NULL}
    <3> SUFFICES ASSUME NEW k \in 1 .. n
                 PROVE /\ g2[k].n = g3[k].n /\ g2[k].base = g3[k].base /\ g2[k].end = g3[k].end
                       /\ g2[k].base \in g2[k].low
                       /\ g2[k].low \subseteq g3[k].low \union {NULL}
      BY <2>12
    <3>1. CASE k = n
      BY <2>6, <2>8, <2>14, <3>1
    <3>2. CASE k # n
      <4>1. k \in 1 .. n - 1
        BY <1>1, <3>2
      <4>2. g2[k] = Seg(s, k) /\ g3[k] = Seg(s, k)
        BY <1>3, <2>8, <2>13, <4>1
      <4>3. Seg(s, k).base \in Seg(s, k).low
        BY DEF Seg
      <4> QED
        BY <4>2, <4>3
    <3> QED
      BY <3>1, <3>2
  <2>21. Len(g2) = Len(g3)
    BY <2>8, <2>12
  <2>22. Layout(h2, g2)
    BY <2>8, <2>19, <2>20, <2>21, ForgetLow
  <2> QED
    BY <2>22 DEF g2
<1> QED
  BY <1>5, <1>6

\* A recur that binds its last value and returns.
LEMMA RecurMemory ==
  ASSUME NEW s \in Seq(Frames), Len(s) > 0, NEW r, Control(s, r), r.loop_env = NULL,
         NEW h, Layout(h, Segs(s, r)), NEW t, Popped(s, t),
         NEW f, f = s[Len(s)], f.e.t = "Recur", f.i > 0, f.i = Len(f.e.kids),
         CanBind(h), NEW name \in STRING, NEW value \in Word,
         NEW r2 \in Results, r2.loop_env = NewNode(h), Control(t, r2),
         NEW h2, h2 = env_bind(h, f.lenv, name, value)
  PROVE  Layout(h2, Segs(t, r2))
<1> DEFINE n == Len(s)
           b == t[n - 1]
           new == NewNode(h)
           g1 == SegsTo(s, n)
           last == [n |-> Seg(s, n).n + 1, low |-> Seg(s, n).low, base |-> Seg(s, n).base,
                    end |-> new]
           g2 == [k \in 1 .. n |-> IF k = n THEN last ELSE Seg(s, k)]
           g3 == Segs(t, r2)
<1>1. /\ n \in Nat /\ n > 0 /\ Len(t) = n - 1 /\ t \in Seq(Frames)
      /\ \A k \in 1 .. n - 1 : t[k] = s[k] /\ k \in 1 .. n
  BY DEF Popped
<1>2. InAFrame(s) /\ InAFrame(t)
  BY DEF Control, InAFrame
<1>3. ASSUME NEW k \in 1 .. n - 1 PROVE Seg(t, k) = Seg(s, k)
  <2>1. t[k] = s[k]
    BY <1>1
  <2>2. CASE k = 1
    BY <1>2, <2>1, <2>2 DEF Seg, InAFrame
  <2>3. CASE k # 1
    <3>1. k - 1 \in 1 .. n - 1
      BY <1>1, <2>3
    <3>2. t[k - 1] = s[k - 1]
      BY <1>1, <3>1
    <3> QED
      BY <2>1, <3>2 DEF Seg
  <2> QED
    BY <2>2, <2>3
<1>4. Layout(h, g1)
  BY SegsIsSegsTo
<1>5. n \in 0 .. Len(s) /\ n \in 1 .. Len(s)
  BY <1>1
<1>6. g1 \in Seq(SegmentRecord) /\ Len(g1) = n /\ \A k \in 1 .. n : g1[k] = Seg(s, k)
  BY <1>2, <1>5, SegsToType
<1>7. new # NULL /\ new \in Places
  BY <1>4, NewNodeFree, MaxNodesAssumption DEF Layout, Addresses, NULL, Places
<1>8. \A k \in 1 .. n : Seg(s, k) \in SegmentRecord
  BY <1>2, SegType
<1>9. last \in SegmentRecord
  BY <1>5, <1>7, <1>8 DEF SegmentRecord
<1>10. f.loop.t = "Loop" /\ Len(f.e.kids) = Len(f.loop.names) /\ Bindings(f) = f.i - 1
  <2>1. Progress(f) /\ f \in Frames
    BY <1>5 DEF Control
  <2>2. f.i \in Nat
    BY <2>1, FrameType
  <2> QED
    BY <2>1, <2>2 DEF Progress, Bindings
<1>11. n > 1
  BY <1>1, <1>2, <1>10 DEF InAFrame
<1>12. n - 1 \in 1 .. n - 1 /\ (n - 1) + 1 = n
  BY <1>1, <1>11
<1>13. b = s[n - 1] /\ Link(b, f)
  BY <1>1, <1>12 DEF Control
<1>14. f.loop = LoopOf(b)
  BY <1>10, <1>13 DEF Link
<1>15. Seg(s, n) = [n |-> f.i - 1, low |-> {LoopEnvOf(b), f.env, f.old},
                    base |-> LoopEnvOf(b), end |-> f.lenv]
  BY <1>10, <1>13 DEF Seg
<1>16. /\ g3 \in Seq(SegmentRecord) /\ Len(g3) = n
       /\ \A k \in 1 .. n - 1 : g3[k] = Seg(t, k)
       /\ g3[n] = Carried(b, r2)
  <2>1. r2.loop_env # NULL /\ Len(t) = n - 1 /\ Len(t) + 1 = n
    BY <1>1, <1>7
  <2>2. /\ g3 \in Seq(SegmentRecord) /\ Len(g3) = Len(t) + 1
        /\ \A k \in 1 .. Len(t) : g3[k] = Seg(t, k)
        /\ g3[Len(t) + 1] = Carried(t[Len(t)], r2)
    BY <1>1, <2>1, SegsCarrying
  <2> HIDE DEF n, g3
  <2> QED
    BY <2>1, <2>2
<1>17. Carried(b, r2) = [n |-> Len(f.loop.names), low |-> {LoopEnvOf(b)}, base |-> LoopEnvOf(b),
                         end |-> new]
  BY <1>14 DEF Carried
<1>18. f.i \in Nat /\ f.i = Len(f.loop.names)
  BY <1>5, <1>10, FrameType
<1> HIDE DEF b, new, g1, g3
<1>19. /\ last.n = f.i /\ last.low = {LoopEnvOf(b), f.env, f.old}
       /\ last.base = LoopEnvOf(b) /\ last.end = new
  BY <1>15, <1>18
<1> HIDE DEF last, n
<1>20. /\ g2 \in Seq(SegmentRecord) /\ Len(g2) = n
       /\ \A k \in 1 .. n - 1 : g2[k] = Seg(s, k)
       /\ g2[n] = last
  <2>1. \A k \in 1 .. n : (IF k = n THEN last ELSE Seg(s, k)) \in SegmentRecord
    BY <1>8, <1>9
  <2>2. n \in Nat /\ n \in 1 .. n /\ \A k \in 1 .. n - 1 : k \in 1 .. n /\ k # n
    BY <1>1
  <2> QED
    BY <2>1, <2>2
<1> HIDE DEF g2
<1>21. /\ n = Len(g1) /\ n > 0 /\ h2 = env_bind(h, g1[n].end, name, value)
       /\ \A k \in 1 .. n - 1 : g2[k] = g1[k]
       /\ g2[n].n = g1[n].n + 1 /\ g2[n].low = g1[n].low /\ g2[n].base = g1[n].base
       /\ g2[n].end = NewNode(h)
  <2>1. n \in 1 .. n
    BY <1>1
  <2>2. g1[n] = Seg(s, n)
    BY <1>6, <2>1
  <2>3. f.i = (f.i - 1) + 1
    BY <1>18
  <2> QED
    BY <1>1, <1>6, <1>15, <1>19, <1>20, <2>2, <2>3 DEF new
<1>22. Layout(h2, g2)
  <2>1. Extended(h, g1, g2)
    BY <1>20, <1>21 DEF Extended
  <2> QED
    BY <1>4, <1>21, <2>1, ExtendedLayout
<1>23. Len(g3) = Len(g2) /\ \A k \in 1 .. Len(g2) :
         /\ g3[k].n = g2[k].n /\ g3[k].base = g2[k].base /\ g3[k].end = g2[k].end
         /\ g3[k].base \in g3[k].low
         /\ g3[k].low \subseteq g2[k].low \union {NULL}
  <2> SUFFICES ASSUME NEW k \in 1 .. n
               PROVE  /\ g3[k].n = g2[k].n /\ g3[k].base = g2[k].base /\ g3[k].end = g2[k].end
                      /\ g3[k].base \in g3[k].low
                      /\ g3[k].low \subseteq g2[k].low \union {NULL}
    BY <1>16, <1>20
  <2>1. CASE k = n
    BY <1>16, <1>17, <1>18, <1>19, <1>20, <2>1
  <2>2. CASE k # n
    <3>1. k \in 1 .. n - 1
      BY <1>1, <2>2
    <3>2. g3[k] = Seg(s, k) /\ g2[k] = Seg(s, k)
      BY <1>3, <1>16, <1>20, <3>1
    <3>3. Seg(s, k).base \in Seg(s, k).low
      BY DEF Seg
    <3> QED
      BY <3>2, <3>3
  <2> QED
    BY <2>1, <2>2
<1>24. Layout(h2, g3)
  BY <1>16, <1>22, <1>23, ForgetLow
<1> QED
  BY <1>24 DEF g3

-----------------------------------------------------------------------------
(* The steps.                                                              *)

\* The last frame, changed in place, still fits the one below.
LEMMA ReplaceControl ==
  ASSUME NEW s \in Seq(Frames), Len(s) > 0, Control(s, None), NEW t, NEW top,
         Replaced(s, top, t), Grown(s[Len(s)], top), Progress(top), Starts(top)
  PROVE  Control(t, None)
<1> DEFINE n == Len(s)
<1>1. n \in Nat /\ n > 0
  OBVIOUS
<1>2. Len(t) = n /\ t[n] = top /\ \A k \in 1 .. n - 1 : t[k] = s[k]
  BY DEF Replaced
<1> HIDE DEF n
<1>3. \A k \in 1 .. n : Progress(t[k])
  <2>1. \A k \in 1 .. n : k \in 1 .. n - 1 \/ k = n
    BY <1>1
  <2> QED
    BY <1>2, <2>1 DEF Control, n
<1>4. ASSUME NEW k \in 1 .. n - 1 PROVE Waits(t[k]) /\ Link(t[k], t[k + 1])
  <2>1. t[k] = s[k] /\ Waits(s[k]) /\ Link(s[k], s[k + 1])
    BY <1>2 DEF Control, n
  <2>2. CASE k + 1 = n
    <3>1. Link(s[k], top)
      BY <2>1, <2>2, GrownLinked DEF n
    <3> QED
      BY <1>2, <2>1, <2>2, <3>1
  <2>3. CASE k + 1 # n
    <3>1. k + 1 \in 1 .. n - 1
      BY <1>1, <2>3
    <3> QED
      BY <1>2, <2>1, <3>1
  <2> QED
    BY <2>2, <2>3
<1>5. t[1].loop.t # "Loop" /\ t[1].lenv = NULL
  <2>1. s[1].loop.t # "Loop" /\ s[1].lenv = NULL
    BY DEF Control
  <2>2. CASE n = 1
    BY <1>2, <2>1, <2>2 DEF Grown, n
  <2>3. CASE n # 1
    <3>1. 1 \in 1 .. n - 1
      BY <1>1, <2>3
    <3> QED
      BY <1>2, <2>1, <3>1
  <2> QED
    BY <2>2, <2>3
<1>6. None.loop_env = NULL
  BY DEF None
<1> QED
  BY <1>2, <1>3, <1>4, <1>5, <1>6 DEF Control

\* What IInv says of the frame that runs.
LEMMA TopType ==
  ASSUME IInv, Depth > 0
  PROVE  /\ stack \in Seq(Frames) /\ Depth \in Nat /\ Depth \in 1 .. Len(stack)
         /\ Top \in Frames /\ Progress(Top) /\ res \in Results
         /\ res.i \in Word /\ res.loop_env \in Places
         /\ IF res = None THEN Starts(Top) ELSE Waits(Top)
         /\ Top.loop.t # "Loop" => Top.lenv = NULL
         /\ Top.loop.t = "Loop" =>
              Depth > 1 /\ ~ ForInt(stack[Depth - 1]) /\ Top.loop = LoopOf(stack[Depth - 1])
<1>1. stack \in Seq(Frames) /\ res \in Results /\ Control(stack, res)
  BY DEF IInv, MachineTyped
<1>2. Depth \in Nat /\ Depth \in 1 .. Len(stack)
  BY <1>1 DEF Depth
<1>3. Top \in Frames /\ Progress(Top) /\ IF res = None THEN Starts(Top) ELSE Waits(Top)
  BY <1>1, <1>2 DEF Top, Depth, Control
<1>4. res.i \in Word /\ res.loop_env \in Places
  BY <1>1, HalfAssumption, MaxNodesAssumption DEF Results, None, NULL, Places, Word
<1>5. CASE Depth = 1
  <2>1. Top.loop.t # "Loop" /\ Top.lenv = NULL
    BY <1>1, <1>2, <1>5 DEF Top, Depth, Control
  <2> QED
    BY <1>1, <1>2, <1>3, <1>4, <2>1
<1>6. CASE Depth # 1
  <2>1. Depth - 1 \in 1 .. Len(stack) - 1 /\ (Depth - 1) + 1 = Depth /\ Depth > 1
    BY <1>2, <1>6, SMTT(30) DEF Depth
  <2>2. Link(stack[Depth - 1], Top)
    <3>1. Link(stack[Depth - 1], stack[(Depth - 1) + 1])
      BY <1>1, <2>1 DEF Control
    <3> QED
      BY <2>1, <3>1 DEF Top
  <2> QED
    BY <1>1, <1>2, <1>3, <1>4, <2>1, <2>2 DEF Link
<1> QED
  BY <1>5, <1>6

\* A step that pushes a frame keeps IInv if it keeps the memory of the frames
\* below the new one.
LEMMA PushStep ==
  ASSUME IInv, Depth > 0, NEW top \in Frames, NEW g \in Frames, Push(top, g),
         Grown(Top, top), Progress(top), Waits(top), Progress(g), Starts(g), Link(top, g),
         g.i = 0, g.old = g.env, g.env \in {NULL, top.env},
         UNCHANGED <<program, status, result>>
  PROVE  /\ Changed(stack, top, stack')
         /\ Layout(heap', SegsTo(stack', Depth)) => IInv'
<1>1. stack \in Seq(Frames) /\ Len(stack) > 0 /\ Depth \in Nat /\ Control(stack, res)
  BY TopType DEF Depth, IInv
<1>2. Pushed(stack, top, g, stack')
  BY <1>1, PushFrames DEF Push, Below
<1>3. Changed(stack, top, stack')
  BY <1>1, <1>2 DEF Pushed, Changed
<1>4. Control(stack', None)
  BY <1>1, <1>2, PushControl DEF Top, Depth
<1>5. ASSUME Layout(heap', SegsTo(stack', Depth)) PROVE IInv'
  <2>1. /\ stack' \in Seq(Frames) /\ Len(stack') = Depth + 1 /\ Depth > 0
        /\ stack'[Depth] = top /\ stack'[Depth + 1] = g
    BY <1>2 DEF Pushed, Depth
  <2>2. Layout(heap', Segs(stack', None))
    BY <1>1, <1>4, <1>5, <2>1, CallMemory
  <2>3. res' = None
    BY DEF Push
  <2>4. MachineTyped'
    BY <2>1, <2>3 DEF IInv, MachineTyped, Results
  <2> QED
    BY <1>4, <2>2, <2>3, <2>4 DEF IInv
<1> QED
  BY <1>3, <1>5

\* A frame for the evaluation of an operand.
LEMMA Operand ==
  ASSUME NEW e \in Exprs, e.t # "Fun", NEW env \in Places, NEW loop \in LoopsOrNone,
         NEW lenv \in Places, NEW g, g = Frame(e, env, loop, lenv)
  PROVE  /\ g \in Frames /\ Progress(g) /\ Starts(g) /\ g.i = 0 /\ g.old = g.env
         /\ g.env = env /\ g.loop = loop /\ g.lenv = lenv /\ g.e = e
<1>1. WellFormed(e)
  BY ExprsAssumption
<1>2. Len(e.kids) \in Nat /\ Len(e.names) \in Nat
  BY <1>1 DEF WellFormed, Shaped
<1>3. g \in Frames
  BY DEF Frame, Frames
<1>4. /\ g.i = 0 /\ g.old = g.env /\ g.env = env /\ g.loop = loop /\ g.lenv = lenv /\ g.e = e
  BY DEF Frame
<1>5. Progress(g) /\ Starts(g)
  BY <1>2, <1>4 DEF Progress, Starts
<1> QED
  BY <1>3, <1>4, <1>5

\* The operands of an expression are expressions, none of them a function.
LEMMA OperandOf ==
  ASSUME NEW e \in Exprs, NEW kid \in 1 .. Len(e.kids)
  PROVE  e.kids[kid] \in Exprs /\ e.kids[kid].t # "Fun"
<1>1. WellFormed(e)
  BY ExprsAssumption
<1>2. e.kids \in Seq(Exprs)
  BY <1>1 DEF WellFormed, Shaped
<1> QED
  BY <1>1, <1>2 DEF WellFormed, Shaped

\* Calling eval on an operand.
LEMMA CallStep ==
  ASSUME IInv, Depth > 0, NEW top \in Frames, NEW kid, NEW loop \in LoopsOrNone,
         NEW lenv \in Places, NEW top2, top2 = [top EXCEPT !.i = kid],
         CallEval(top, kid, loop, lenv),
         top.e = E, top.loop = Top.loop, top.old = Top.old,
         IF E.t = "Recur" THEN InLoop ELSE top.lenv = Top.lenv,
         E.t \notin {"Int", "Id", "Fun"}, kid \in 1 .. Len(E.kids),
         E.t = "Binary" /\ kid = 2 => Len(top.vals) = 1,
         IF loop.t = "Loop"
         THEN ~ ForInt(top2) /\ loop = LoopOf(top) /\ lenv = LoopEnvOf(top)
         ELSE lenv = NULL,
         UNCHANGED <<program, status, result>>
  PROVE  /\ Changed(stack, top2, stack') /\ Grown(Top, top2)
         /\ Layout(heap', SegsTo(stack', Depth)) => IInv'
<1> DEFINE g == Frame(top.e.kids[kid], top.env, loop, lenv)
<1>1. /\ top2 \in Frames /\ top2.i = kid /\ top2.e = top.e /\ top2.loop = top.loop
      /\ top2.old = top.old /\ top2.lenv = top.lenv /\ top2.env = top.env
      /\ top2.vals = top.vals
  BY DEF Frames
<1>2. Push(top2, g)
  BY DEF CallEval
<1>3. E \in Exprs /\ kid \in Nat /\ kid > 0 /\ Len(E.kids) \in Nat
  <2>1. Top \in Frames
    BY TopType
  <2>2. Top.e \in Exprs /\ Len(Top.e.kids) \in Nat
    BY <2>1, FrameType
  <2> QED
    BY <2>2 DEF E
<1>4. top.e.kids[kid] \in Exprs /\ top.e.kids[kid].t # "Fun"
  <2>1. E.kids[kid] \in Exprs /\ E.kids[kid].t # "Fun"
    BY <1>3, OperandOf
  <2> QED
    BY <2>1
<1>5. /\ g \in Frames /\ Progress(g) /\ Starts(g) /\ g.i = 0 /\ g.old = g.env
      /\ g.env = top.env /\ g.loop = loop /\ g.lenv = lenv
  <2>1. top.env \in Places
    BY FrameType
  <2> QED
    BY <1>4, <2>1, Operand
<1> HIDE DEF g
<1>6. Grown(Top, top2) /\ Waits(top2) /\ Progress(top2)
  BY <1>1, <1>3 DEF Grown, Waits, Progress, E, InLoop
<1>7. Link(top2, g)
  BY <1>1, <1>5 DEF Link, LoopOf, LoopEnvOf
<1>8. g.env \in {NULL, top2.env}
  BY <1>1, <1>5
<1> QED
  BY <1>1, <1>2, <1>5, <1>6, <1>7, <1>8, PushStep

\* The same for a call that binds nothing before.
LEMMA KeepStep ==
  ASSUME IInv, Depth > 0, NEW top2, Changed(stack, top2, stack'), Grown(Top, top2),
         res.loop_env = NULL, top2.env = Top.env, top2.lenv = Top.lenv,
         Bindings(top2) = Bindings(Top), UNCHANGED heap
  PROVE  Layout(heap', SegsTo(stack', Depth))
<1>1. stack \in Seq(Frames) /\ Len(stack) > 0 /\ Control(stack, res) /\ Layout(heap, Segs(stack, res))
  BY TopType DEF Depth, IInv
<1> QED
  BY <1>1, KeepMemory DEF Top, Depth

\* A call that frees its bindings and returns.
LEMMA ReturnStep ==
  ASSUME IInv, Depth > 0, NEW r \in Results, r # None, r.loop_env = res.loop_env, Return(r),
         E.t # "Recur", res.loop_env # NULL => E.t # "Loop",
         heap' = env_free(heap, Top.env, Top.old),
         UNCHANGED <<program, status, result>>
  PROVE  IInv'
<1>1. /\ stack \in Seq(Frames) /\ Len(stack) > 0 /\ Depth = Len(stack) /\ res \in Results
      /\ Control(stack, res) /\ Layout(heap, Segs(stack, res))
  BY TopType DEF Depth, IInv
<1>2. Popped(stack, stack')
  BY <1>1, PopFrame DEF Return, Below
<1>3. ASSUME res.loop_env # NULL
      PROVE  /\ Len(stack) > 1 /\ ~ ForInt(stack[Len(stack) - 1])
             /\ LoopOf(stack[Len(stack) - 1]).t = "Loop"
  <2>1. LoopOf(Top).t = "Loop"
    BY <1>1, <1>3 DEF Control, Top
  <2>2. Top.loop.t = "Loop"
    BY <1>3, <2>1 DEF LoopOf, E
  <2> QED
    BY <1>1, <2>2, TopType
<1>4. Control(stack', r)
  BY <1>1, <1>2, <1>3, ReturnControl
<1>5. Layout(heap', Segs(stack', r))
  <2>1. Top = stack[Len(stack)] /\ Top.e.t # "Recur" /\ (res.loop_env # NULL => Top.e.t # "Loop")
    BY <1>1 DEF Top, E
  <2> QED
    BY <1>1, <1>2, <1>4, <2>1, ReturnMemory
<1>6. MachineTyped'
  BY <1>2 DEF IInv, MachineTyped, Popped, Return
<1> QED
  BY <1>4, <1>5, <1>6 DEF IInv, Return

\* The same for a call that has bound nothing.
LEMMA NothingBound ==
  ASSUME IInv, Depth > 0, E.t # "Recur", Bindings(Top) = 0
  PROVE  env_free(heap, Top.env, Top.old) = heap
<1> DEFINE g == Segs(stack, res)
<1>1. /\ stack \in Seq(Frames) /\ Len(stack) > 0 /\ Depth = Len(stack) /\ Top \in Frames
      /\ Control(stack, res) /\ Layout(heap, g) /\ res \in Results
  BY TopType DEF Depth, IInv
<1>2. Depth \in 1 .. Len(g) /\ g[Depth] = Seg(stack, Depth)
  BY <1>1 DEF Segs
<1>3. g[Depth].n = 0 /\ g[Depth].end = Top.env /\ g[Depth].base = Top.old
  BY <1>2 DEF Seg, Top, E
<1> HIDE DEF g
<1>4. Top.env = Top.old
  BY <1>1, <1>2, <1>3, EmptySegment
<1>5. Top.env \in Places /\ heap \in Heaps
  BY <1>1, FrameType DEF Layout
<1> QED
  BY <1>4, <1>5, FreeNothing

\* make_int_result makes no recur.
LEMMA IntResultType ==
  ASSUME NEW v \in Word
  PROVE  IntResult(v) \in Results /\ IntResult(v) # None /\ IntResult(v).loop_env = NULL
  BY MaxNodesAssumption DEF IntResult, Results, None, NULL, Places

\* A call that has bound nothing returns an int.
LEMMA ReturnInt ==
  ASSUME IInv, Depth > 0, NEW v \in Word, Return(IntResult(v)), res.loop_env = NULL,
         E.t \notin {"Recur", "Loop", "Let", "Fun"}, UNCHANGED <<program, heap, status, result>>
  PROVE  IInv'
<1>1. IntResult(v) \in Results /\ IntResult(v) # None /\ IntResult(v).loop_env = NULL
  BY IntResultType
<1>2. Bindings(Top) = 0
  BY DEF Bindings, E
<1>3. heap' = env_free(heap, Top.env, Top.old)
  BY <1>2, NothingBound
<1> QED
  BY <1>1, <1>3, ReturnStep

\* A call that has bound nothing hands on the result of an operand.
LEMMA ReturnRes ==
  ASSUME IInv, Depth > 0, res # None, Return(res),
         E.t \notin {"Recur", "Loop", "Let", "Fun"}, UNCHANGED <<program, heap, status, result>>
  PROVE  IInv'
<1>1. res \in Results
  BY TopType
<1>2. Bindings(Top) = 0
  BY DEF Bindings, E
<1>3. heap' = env_free(heap, Top.env, Top.old)
  BY <1>2, NothingBound
<1> QED
  BY <1>1, <1>3, ReturnStep

\* No result on its way: no recur on its way.
LEMMA NoneCarriesNothing == None.loop_env = NULL
  BY DEF None

\* One lemma for each action: it keeps IInv.
LEMMA EvalIntegerKeepsIInv == ASSUME IInv, EvalInteger PROVE IInv'
<1>1. Depth > 0 /\ res = None /\ E.t = "Int" /\ UNCHANGED <<program, heap, status, result>>
  BY DEF EvalInteger, Enters
<1>2. E.v \in Word
  <2>1. Top.e \in Exprs
    BY <1>1, TopType, FrameType
  <2> QED
    BY <2>1, ExprsAssumption DEF E, WellFormed, Shaped
<1> QED
  BY <1>1, <1>2, ReturnInt, NoneCarriesNothing DEF EvalInteger

LEMMA EvalIdentKeepsIInv == ASSUME IInv, EvalIdent PROVE IInv'
<1> DEFINE node == FindNode(heap, Top.env, E.id)
<1>1. /\ Depth > 0 /\ res = None /\ E.t = "Id" /\ UNCHANGED <<program, heap, status, result>>
      /\ node \in DOMAIN heap /\ Return(IntResult(heap[node].value))
  BY DEF EvalIdent, Enters
<1> HIDE DEF node
<1>2. heap[node].value \in Word
  <2>1. heap \in [DOMAIN heap -> Cell]
    BY HeapType DEF IInv, Layout
  <2> QED
    BY <1>1, <2>1 DEF Cell
<1> QED
  BY <1>1, <1>2, ReturnInt, NoneCarriesNothing

\* Beginning with the first operand.
LEMMA FirstOperand ==
  ASSUME IInv, Depth > 0, res = None, CallEvalExpr(Top, 1), Len(E.kids) > 0,
         E.t \notin {"Int", "Id", "Fun"}, E.t = "Recur" => InLoop,
         UNCHANGED <<program, heap, status, result>>
  PROVE  IInv'
<1> DEFINE top2 == [Top EXCEPT !.i = 1]
<1>1. /\ Top \in Frames /\ Starts(Top) /\ Top.i = 0 /\ NoLoop \in LoopsOrNone /\ NULL \in Places
      /\ NoLoop.t # "Loop"
  BY TopType, MaxNodesAssumption DEF Starts, E, LoopsOrNone, NULL, Places, NoLoop, Num, Node
<1>2. 1 \in 1 .. Len(E.kids)
  <2>1. Len(Top.e.kids) \in Nat
    BY <1>1, FrameType
  <2> QED
    BY <2>1 DEF E
<1>3. CallEval(Top, 1, NoLoop, NULL)
  BY DEF CallEvalExpr, CallEval
<1>4. /\ top2.i = 1 /\ top2.e = Top.e /\ top2.env = Top.env /\ top2.lenv = Top.lenv
  BY <1>1 DEF Frames
<1>5. IF E.t = "Recur" THEN InLoop ELSE Top.lenv = Top.lenv
  OBVIOUS
<1>6. E.t = "Binary" /\ 1 = 2 => Len(Top.vals) = 1
  OBVIOUS
<1>7. Bindings(top2) = Bindings(Top)
  BY <1>1, <1>4 DEF Bindings, E
<1>8. /\ Changed(stack, top2, stack') /\ Grown(Top, top2)
      /\ Layout(heap', SegsTo(stack', Depth)) => IInv'
  <2>1. Top.e = E /\ top2 = [Top EXCEPT !.i = 1]
    BY DEF E
  <2>2. IF NoLoop.t = "Loop"
        THEN ~ ForInt(top2) /\ NoLoop = LoopOf(Top) /\ NULL = LoopEnvOf(Top)
        ELSE NULL = NULL
    BY <1>1
  <2> HIDE DEF top2
  <2> QED
    BY <1>1, <1>2, <1>3, <1>5, <1>6, <2>1, <2>2, CallStep
<1> HIDE DEF top2
<1>9. Layout(heap', SegsTo(stack', Depth))
  BY <1>4, <1>7, <1>8, KeepStep, NoneCarriesNothing
<1> QED
  BY <1>8, <1>9

\* What the running frame evaluates.
LEMMA ExprType ==
  ASSUME IInv, Depth > 0
  PROVE  /\ E \in Exprs /\ WellFormed(E)
         /\ Len(E.kids) \in Nat /\ Len(E.names) \in Nat /\ E.names \in Seq(STRING)
<1>1. Top \in Frames
  BY TopType
<1>2. Top.e \in Exprs /\ WellFormed(Top.e) /\ Len(Top.e.kids) \in Nat /\ Len(Top.e.names) \in Nat
      /\ Top.e.names \in Seq(STRING)
  BY <1>1, FrameType
<1> QED
  BY <1>2 DEF E

\* How many operands there are.
LEMMA OperandCount ==
  ASSUME IInv, Depth > 0
  PROVE  /\ E.t = "Unary" => Len(E.kids) = 1
         /\ E.t = "Binary" => Len(E.kids) = 2 /\ E.id \in BinaryOperators
         /\ E.t = "If" => Len(E.kids) = 3
         /\ E.t \in {"Let", "Loop"} => Len(E.names) > 0 /\ Len(E.kids) = Len(E.names) + 1
         /\ E.t = "Fun" => Len(E.kids) = 1
         /\ E.t \notin {"Int", "Id"} => Len(E.kids) > 0
<1>1. WellFormed(E) /\ Len(E.kids) \in Nat /\ Len(E.names) \in Nat
  BY ExprType
<1> DEFINE k == Len(E.kids)
           n == Len(E.names)
<1>2. /\ E.t = "Unary" => k = 1
      /\ E.t = "Binary" => k = 2 /\ E.id \in BinaryOperators
      /\ E.t = "If" => k = 3
      /\ E.t \in {"Let", "Loop"} => n > 0 /\ k = n + 1
      /\ E.t \in {"Recur", "Call"} => k > 0
      /\ E.t = "Fun" => k = 1
  BY <1>1 DEF WellFormed, Shaped
<1>3. E.t \in Kinds /\ k \in Nat /\ n \in Nat
  BY <1>1 DEF WellFormed, Shaped
<1> HIDE DEF k, n
<1>4. E.t \notin {"Int", "Id"} => k > 0
  BY <1>2, <1>3 DEF Kinds
<1> QED
  BY <1>2, <1>4 DEF k, n

LEMMA EvalOperandsKeepsIInv == ASSUME IInv, EvalOperands PROVE IInv'
<1>1. /\ Depth > 0 /\ res = None /\ E.t \in {"If", "Unary", "Binary", "Let", "Loop", "Call"}
      /\ CallEvalExpr(Top, 1) /\ UNCHANGED <<program, heap, status, result>>
  BY DEF EvalOperands, Enters
<1>2. Len(E.kids) > 0
  BY <1>1, OperandCount
<1> QED
  BY <1>1, <1>2, FirstOperand

LEMMA EvalRecurKeepsIInv == ASSUME IInv, EvalRecur PROVE IInv'
<1>1. /\ Depth > 0 /\ res = None /\ E.t = "Recur" /\ InLoop
      /\ CallEvalExpr(Top, 1) /\ UNCHANGED <<program, heap, status, result>>
  BY DEF EvalRecur, Enters
<1>2. Len(E.kids) > 0
  BY <1>1, OperandCount
<1> QED
  BY <1>1, <1>2, FirstOperand

\* NoLoop is no loop.
LEMMA NoLoopType ==
  NoLoop \in LoopsOrNone /\ NoLoop.t # "Loop" /\ NULL \in Places
  BY MaxNodesAssumption DEF LoopsOrNone, NULL, Places, NoLoop, Num, Node

\* eval_expr calls eval without a loop.
LEMMA CallEvalExprIsCallEval ==
  ASSUME NEW top, NEW kid
  PROVE  CallEvalExpr(top, kid) <=> CallEval(top, kid, NoLoop, NULL)
  BY DEF CallEvalExpr, CallEval

LEMMA ResumeIfKeepsIInv == ASSUME IInv, ResumeIf PROVE IInv'
<1>1. Depth > 0 /\ res # None /\ E.t = "If" /\ IsInt /\ UNCHANGED <<program, heap, status, result>>
  BY DEF ResumeIf, Resumes
<1>2. CASE Top.i = 1
  <2> DEFINE kid  == IF res.i # 0 THEN 2 ELSE 3
             top2 == [Top EXCEPT !.i = kid]
  <2>1. CallEval(Top, kid, Top.loop, Top.lenv)
    BY <1>2 DEF ResumeIf
  <2>2. /\ Top \in Frames /\ Top.loop \in LoopsOrNone /\ Top.lenv \in Places
        /\ Top.loop.t # "Loop" => Top.lenv = NULL
    <3>1. Top \in Frames /\ (Top.loop.t # "Loop" => Top.lenv = NULL)
      BY <1>1, TopType
    <3> QED
      BY <3>1, FrameType
  <2>3. res.loop_env = NULL
    BY <1>1, <1>2 DEF IsInt, ForInt, E
  <2>4. kid \in 1 .. Len(E.kids) /\ kid # 1
    <3>1. Len(E.kids) = 3
      BY <1>1, OperandCount
    <3>2. kid \in 1 .. 3 /\ kid # 1
      OBVIOUS
    <3> QED
      BY <3>1, <3>2
  <2>5. /\ top2.i = kid /\ top2.e = Top.e /\ top2.env = Top.env /\ top2.lenv = Top.lenv
    BY <2>2 DEF Frames
  <2>6. Bindings(top2) = Bindings(Top)
    BY <1>1, <2>5 DEF Bindings, E
  <2>7. IF Top.loop.t = "Loop"
        THEN ~ ForInt(top2) /\ Top.loop = LoopOf(Top) /\ Top.lenv = LoopEnvOf(Top)
        ELSE Top.lenv = NULL
    BY <1>1, <2>2, <2>4, <2>5 DEF ForInt, LoopOf, LoopEnvOf, E
  <2>8. Top.e = E /\ top2 = [Top EXCEPT !.i = kid]
    BY DEF E
  <2> HIDE DEF top2, kid
  <2>9. /\ Changed(stack, top2, stack') /\ Grown(Top, top2)
        /\ Layout(heap', SegsTo(stack', Depth)) => IInv'
    BY <1>1, <2>1, <2>2, <2>4, <2>7, <2>8, CallStep
  <2>10. Layout(heap', SegsTo(stack', Depth))
    BY <1>1, <2>3, <2>5, <2>6, <2>9, KeepStep
  <2> QED
    BY <2>9, <2>10
<1>3. CASE Top.i # 1
  BY <1>1, <1>3, ReturnRes DEF ResumeIf
<1> QED
  BY <1>2, <1>3

LEMMA ResumeUnaryKeepsIInv == ASSUME IInv, ResumeUnary PROVE IInv'
<1> DEFINE v == IF E.id = "!" THEN Truth(res.i = 0) ELSE Wrap(-res.i)
<1>1. /\ Depth > 0 /\ res # None /\ E.t = "Unary" /\ IsInt
      /\ Return(IntResult(v)) /\ UNCHANGED <<program, heap, status, result>>
  BY DEF ResumeUnary, Resumes
<1>2. res.loop_env = NULL
  BY <1>1 DEF IsInt, ForInt, E
<1>3. v \in Word
  <2>1. -res.i \in Int
    BY <1>1, TopType, HalfAssumption DEF Word
  <2>2. Truth(res.i = 0) \in Word /\ Wrap(-res.i) \in Word
    BY <2>1, TruthType, WrapType
  <2> QED
    BY <2>2
<1> HIDE DEF v
<1> QED
  BY <1>1, <1>2, <1>3, ReturnInt

\* An operator applied to two words yields a word.
LEMMA CombineType ==
  ASSUME NEW op \in BinaryOperators, NEW left \in Word, NEW right \in Word
  PROVE  Combine(op, left, right) \in Word
<1>1. left \in Int /\ right \in Int
  BY HalfAssumption DEF Word
<1>2. left + right \in Int /\ left * right \in Int
  BY <1>1
<1>3. /\ Truth(left < right) \in Word /\ Truth(left = right) \in Word
      /\ Truth(right # 0) \in Word
  BY HalfAssumption DEF Truth, Word
<1>4. Wrap(left + right) \in Word /\ Wrap(left * right) \in Word
  BY <1>2, WrapType
<1>5. op \in {"&&", "||", "<", "==", "+", "*"}
  BY DEF BinaryOperators
<1> QED
  BY <1>3, <1>4, <1>5 DEF Combine

LEMMA ResumeBinaryKeepsIInv == ASSUME IInv, ResumeBinary PROVE IInv'
<1>1. /\ Depth > 0 /\ res # None /\ E.t = "Binary" /\ IsInt
      /\ UNCHANGED <<program, heap, status, result>>
  BY DEF ResumeBinary, Resumes
<1>2. /\ res.loop_env = NULL /\ Top \in Frames /\ Progress(Top) /\ res.i \in Word
      /\ E.id \in BinaryOperators
  BY <1>1, TopType, OperandCount DEF IsInt, ForInt, E
<1>3. CASE Top.i = 1 /\ Return(IntResult(Truth(E.id = "||")))
  <2>1. Truth(E.id = "||") \in Word
    BY TruthType
  <2> QED
    BY <1>1, <1>2, <1>3, <2>1, ReturnInt
<1>4. CASE Top.i = 1 /\ CallEvalExpr([Top EXCEPT !.vals = <<res.i>>], 2)
  <2> DEFINE top  == [Top EXCEPT !.vals = <<res.i>>]
             top2 == [top EXCEPT !.i = 2]
  <2>1. CallEval(top, 2, NoLoop, NULL)
    BY <1>4, CallEvalExprIsCallEval
  <2>2. /\ top \in Frames /\ top.e = Top.e /\ top.env = Top.env /\ top.lenv = Top.lenv
        /\ top.loop = Top.loop /\ top.old = Top.old /\ top.vals = <<res.i>>
    <3>1. <<res.i>> \in Seq(Word)
      BY <1>2
    <3> QED
      BY <1>2, <3>1 DEF Frames
  <2>3. /\ top2.i = 2 /\ top2.e = Top.e /\ top2.env = Top.env /\ top2.lenv = Top.lenv
    BY <2>2 DEF Frames
  <2>4. Bindings(top2) = Bindings(Top)
    BY <1>1, <2>3 DEF Bindings, E
  <2>5. 2 \in 1 .. Len(E.kids)
    BY <1>1, OperandCount, SMTT(30)
  <2>6. Len(top.vals) = 1
    BY <2>2
  <2>7. top.e = E /\ top2 = [top EXCEPT !.i = 2]
    BY <2>2 DEF E
  <2> HIDE DEF top2, top
  <2>8. /\ Changed(stack, top2, stack') /\ Grown(Top, top2)
        /\ Layout(heap', SegsTo(stack', Depth)) => IInv'
    BY <1>1, <2>1, <2>2, <2>5, <2>6, <2>7, NoLoopType, CallStep
  <2>9. Layout(heap', SegsTo(stack', Depth))
    BY <1>1, <1>2, <2>3, <2>4, <2>8, KeepStep
  <2> QED
    BY <2>8, <2>9
<1>5. CASE Top.i = 2 /\ Return(IntResult(Combine(E.id, Top.vals[1], res.i)))
  <2>1. Len(Top.vals) = 1 /\ Top.vals \in Seq(Word)
    BY <1>1, <1>2, <1>5, FrameType DEF Progress, E
  <2>2. Top.vals[1] \in Word
    BY <2>1
  <2>3. Combine(E.id, Top.vals[1], res.i) \in Word
    BY <1>2, <2>2, CombineType
  <2> QED
    BY <1>1, <1>2, <1>5, <2>3, ReturnInt
<1> QED
  BY <1>3, <1>4, <1>5 DEF ResumeBinary

\* A step that binds a value.
LEMMA BindStep ==
  ASSUME IInv, Depth > 0, NEW top2, Changed(stack, top2, stack'), Grown(Top, top2),
         res.loop_env = NULL, Bindings(top2) = Bindings(Top) + 1,
         IF E.t = "Recur" THEN top2.env = Top.env /\ top2.lenv = NewNode(heap)
                          ELSE top2.env = NewNode(heap),
         CanBind(heap), NEW name \in STRING, NEW value \in Word,
         heap' = env_bind(heap, IF E.t = "Recur" THEN Top.lenv ELSE Top.env, name, value)
  PROVE  Layout(heap', SegsTo(stack', Depth))
<1>1. stack \in Seq(Frames) /\ Len(stack) > 0 /\ Control(stack, res) /\ Layout(heap, Segs(stack, res))
  BY TopType DEF Depth, IInv
<1>2. Top = stack[Len(stack)] /\ E = Top.e /\ Depth = Len(stack)
  BY DEF Top, Depth, E
<1> QED
  BY <1>1, <1>2, BindMemory

\* malloc returns an address that was free.
LEMMA NewNodeType ==
  ASSUME IInv, CanBind(heap)
  PROVE  NewNode(heap) \in Places /\ NewNode(heap) # NULL
<1>1. NewNode(heap) \in Addresses
  BY NewNodeFree DEF IInv, Layout
<1> QED
  BY <1>1, MaxNodesAssumption DEF Addresses, Places, NULL

\* let and loop bind the value of an operand, and go on with the next.
LEMMA BindAndCall ==
  ASSUME IInv, Depth > 0, E.t \in {"Let", "Loop"}, res.loop_env = NULL, Top.i > 0,
         Top.i <= Len(E.names), CanBind(heap),
         heap' = env_bind(heap, Top.env, E.names[Top.i], res.i),
         NEW loop \in LoopsOrNone, NEW lenv \in Places,
         CallEval([Top EXCEPT !.env = NewNode(heap)], Top.i + 1, loop, lenv),
         IF loop.t = "Loop"
         THEN Top.i = Len(E.names) /\ loop = LoopOf(Top) /\ lenv = LoopEnvOf(Top)
         ELSE lenv = NULL,
         UNCHANGED <<program, status, result>>
  PROVE  IInv'
<1> DEFINE top  == [Top EXCEPT !.env = NewNode(heap)]
           kid  == Top.i + 1
           top2 == [top EXCEPT !.i = kid]
<1>1. /\ Top \in Frames /\ Top.i \in Nat /\ res.i \in Word
      /\ Len(E.names) \in Nat /\ Len(E.kids) = Len(E.names) + 1 /\ E.names \in Seq(STRING)
  <2>1. Top \in Frames /\ res.i \in Word /\ Len(E.names) \in Nat /\ E.names \in Seq(STRING)
    BY TopType, ExprType
  <2>2. Top.i \in Nat /\ Len(E.kids) = Len(E.names) + 1
    BY <2>1, FrameType, OperandCount
  <2> QED
    BY <2>1, <2>2
<1>2. NewNode(heap) \in Places
  BY NewNodeType
<1>3. /\ top \in Frames /\ top.e = Top.e /\ top.env = NewNode(heap) /\ top.lenv = Top.lenv
      /\ top.loop = Top.loop /\ top.old = Top.old /\ top.vals = Top.vals
  BY <1>1, <1>2 DEF Frames
<1>4. /\ top2.i = kid /\ top2.e = Top.e /\ top2.env = NewNode(heap) /\ top2.lenv = Top.lenv
      /\ top2.loop = Top.loop
  BY <1>3 DEF Frames
<1>5. E.names[Top.i] \in STRING
  BY <1>1
<1>6. Bindings(top2) = Bindings(Top) + 1
  BY <1>1, <1>4 DEF Bindings, E
<1>7. kid \in 1 .. Len(E.kids)
  BY <1>1
<1>8. CallEval(top, kid, loop, lenv)
  OBVIOUS
<1>9. IF loop.t = "Loop"
      THEN ~ ForInt(top2) /\ loop = LoopOf(top) /\ lenv = LoopEnvOf(top)
      ELSE lenv = NULL
  BY <1>1, <1>3, <1>4 DEF ForInt, LoopOf, LoopEnvOf, E
<1>10. Top.e = E /\ top2 = [top EXCEPT !.i = kid]
  BY DEF E
<1> HIDE DEF top2, top, kid
<1>11. /\ Changed(stack, top2, stack') /\ Grown(Top, top2)
       /\ Layout(heap', SegsTo(stack', Depth)) => IInv'
  BY <1>3, <1>7, <1>8, <1>9, <1>10, CallStep
<1>12. Layout(heap', SegsTo(stack', Depth))
  BY <1>1, <1>4, <1>5, <1>6, <1>11, BindStep
<1> QED
  BY <1>11, <1>12

\* A binding step of let or loop.
LEMMA BindAndGoOnKeepsIInv ==
  ASSUME IInv, Depth > 0, res # None, E.t \in {"Let", "Loop"}, IsInt,
         NEW loop \in LoopsOrNone, NEW lenv \in Places, BindAndGoOn(loop, lenv),
         IF loop.t = "Loop" THEN loop = LoopOf(Top) /\ lenv = LoopEnvOf(Top) ELSE lenv = NULL,
         UNCHANGED <<program, status, result>>
  PROVE  IInv'
<1>1. /\ Top.i <= Len(E.names) /\ CanBind(heap)
      /\ heap' = env_bind(heap, Top.env, E.names[Top.i], res.i)
  BY DEF BindAndGoOn
<1>2. Top.i > 0 /\ Top.i \in Nat
  BY TopType, FrameType DEF Waits
<1>3. res.loop_env = NULL
  BY <1>1 DEF IsInt, ForInt, E
<1>4. CASE Top.i < Len(E.names)
  <2>1. CallEval([Top EXCEPT !.env = NewNode(heap)], Top.i + 1, NoLoop, NULL)
    BY <1>4 DEF BindAndGoOn, CallEvalExpr, CallEval
  <2> QED
    BY <1>1, <1>2, <1>3, <2>1, NoLoopType, BindAndCall
<1>5. CASE ~ (Top.i < Len(E.names))
  <2>1. CallEval([Top EXCEPT !.env = NewNode(heap)], Top.i + 1, loop, lenv)
    BY <1>5 DEF BindAndGoOn
  <2>2. Top.i = Len(E.names)
    <3>1. Len(E.names) \in Nat
      BY ExprType
    <3> QED
      BY <1>1, <1>2, <1>5, <3>1
  <2> QED
    BY <1>1, <1>2, <1>3, <2>1, <2>2, BindAndCall
<1> QED
  BY <1>4, <1>5

LEMMA ResumeLetKeepsIInv == ASSUME IInv, ResumeLet PROVE IInv'
<1>1. Depth > 0 /\ res # None /\ E.t = "Let" /\ IsInt /\ UNCHANGED <<program, status, result>>
  BY DEF ResumeLet, Resumes
<1>2. /\ Top.loop \in LoopsOrNone /\ Top.lenv \in Places /\ res \in Results
      /\ Top.loop.t # "Loop" => Top.lenv = NULL
  <2>1. Top \in Frames /\ res \in Results /\ (Top.loop.t # "Loop" => Top.lenv = NULL)
    BY <1>1, TopType
  <2> QED
    BY <2>1, FrameType
<1>3. CASE BindAndGoOn(Top.loop, Top.lenv)
  <2>1. IF Top.loop.t = "Loop"
        THEN Top.loop = LoopOf(Top) /\ Top.lenv = LoopEnvOf(Top) ELSE Top.lenv = NULL
    BY <1>1, <1>2 DEF LoopOf, LoopEnvOf, E
  <2> QED
    BY <1>1, <1>2, <1>3, <2>1, BindAndGoOnKeepsIInv
<1>4. CASE heap' = env_free(heap, Top.env, Top.old) /\ Return(res)
  BY <1>1, <1>2, <1>4, ReturnStep
<1> QED
  BY <1>3, <1>4 DEF ResumeLet

LEMMA ResumeLoopKeepsIInv == ASSUME IInv, ResumeLoop PROVE IInv'
<1>1. Depth > 0 /\ res # None /\ E.t = "Loop" /\ IsInt /\ UNCHANGED <<program, status, result>>
  BY DEF ResumeLoop, Resumes
<1>2. /\ Top \in Frames /\ res \in Results /\ Progress(Top) /\ res.loop_env \in Places
      /\ Waits(Top)
  BY <1>1, TopType
<1>3. /\ E \in LoopsOrNone /\ LoopEnv \in Places /\ Top.i \in Nat
      /\ E = LoopOf(Top) /\ LoopEnv = LoopEnvOf(Top)
  <2>1. Top.old \in Places /\ Top.i \in Nat
    BY <1>2, FrameType
  <2>2. E \in Exprs
    BY <1>1, ExprType
  <2> QED
    BY <1>1, <2>1, <2>2 DEF LoopsOrNone, LoopEnv, LoopOf, LoopEnvOf, E
<1>4. CASE BindAndGoOn(E, LoopEnv)
  BY <1>1, <1>3, <1>4, BindAndGoOnKeepsIInv
<1>5. CASE /\ heap' = env_free(heap, Top.env, Top.old)
           /\ res.loop_env = NULL /\ Return(res)
  BY <1>1, <1>2, <1>5, ReturnStep
<1>6. CASE /\ Top.i > Len(E.names)
           /\ heap' = env_free(heap, Top.env, Top.old)
           /\ res.loop_env # NULL
           /\ CallEval([Top EXCEPT !.env = res.loop_env], Top.i, E, LoopEnv)
  <2> DEFINE top  == [Top EXCEPT !.env = res.loop_env]
             kid  == Top.i
             top2 == [top EXCEPT !.i = kid]
  <2>1. CallEval(top, kid, E, LoopEnv)
    BY <1>6
  <2>2. /\ top \in Frames /\ top.e = Top.e /\ top.env = res.loop_env /\ top.lenv = Top.lenv
        /\ top.loop = Top.loop /\ top.old = Top.old /\ top.vals = Top.vals
    BY <1>2 DEF Frames
  <2>3. /\ top2.i = kid /\ top2.e = Top.e /\ top2.env = res.loop_env /\ top2.lenv = Top.lenv
    BY <2>2 DEF Frames
  <2>4. /\ Len(E.names) \in Nat /\ Len(E.kids) = Len(E.names) + 1 /\ Top.i <= Len(E.kids)
        /\ Top.i > 0
    <3>1. Len(E.names) \in Nat /\ Len(E.kids) = Len(E.names) + 1
      BY <1>1, ExprType, OperandCount
    <3> QED
      BY <1>1, <1>2, <3>1 DEF Progress, Waits, E
  <2>5. kid = Len(E.names) + 1 /\ kid \in 1 .. Len(E.kids)
    BY <1>3, <1>6, <2>4
  <2>6. Bindings(top2) = Len(E.names)
    BY <1>1, <2>3, <2>4, <2>5 DEF Bindings, E
  <2>7. IF E.t = "Loop"
        THEN ~ ForInt(top2) /\ E = LoopOf(top) /\ LoopEnv = LoopEnvOf(top)
        ELSE LoopEnv = NULL
    BY <1>1, <1>3, <1>6, <2>2, <2>3 DEF ForInt, LoopOf, LoopEnvOf, E
  <2>8. Top.e = E /\ top2 = [top EXCEPT !.i = kid]
    BY DEF E
  <2> HIDE DEF top2, top, kid
  <2>9. /\ Changed(stack, top2, stack') /\ Grown(Top, top2)
        /\ Layout(heap', SegsTo(stack', Depth)) => IInv'
    BY <1>1, <1>3, <2>1, <2>2, <2>5, <2>7, <2>8, CallStep
  <2>10. /\ stack \in Seq(Frames) /\ Len(stack) > 0 /\ Control(stack, res)
         /\ Layout(heap, Segs(stack, res))
    BY <1>1, TopType DEF Depth, IInv
  <2>11. Top = stack[Len(stack)] /\ Depth = Len(stack)
    BY DEF Top, Depth
  <2>12. Layout(heap', SegsTo(stack', Depth))
    BY <1>1, <1>2, <1>6, <2>3, <2>6, <2>8, <2>9, <2>10, <2>11, LoopMemory
  <2> QED
    BY <2>9, <2>12
<1> QED
  BY <1>4, <1>5, <1>6 DEF ResumeLoop

LEMMA ResumeRecurKeepsIInv == ASSUME IInv, ResumeRecur PROVE IInv'
<1>1. /\ Depth > 0 /\ res # None /\ E.t = "Recur" /\ IsInt /\ CanBind(heap)
      /\ heap' = env_bind(heap, Top.lenv, RecurName(Top.i), res.i)
      /\ UNCHANGED <<program, status, result>>
  BY DEF ResumeRecur, Resumes
<1>2. /\ Top \in Frames /\ res \in Results /\ Progress(Top) /\ Waits(Top) /\ res.i \in Word
  BY <1>1, TopType
<1>3. res.loop_env = NULL
  BY <1>1 DEF IsInt, ForInt, E
<1>4. /\ Top.i \in Nat /\ Top.i > 0 /\ Top.i <= Len(E.kids) /\ InLoop
      /\ Len(E.kids) \in Nat /\ Top.loop \in Exprs
  <2>1. Top.i \in Nat /\ Top.loop \in LoopsOrNone /\ Len(Top.e.kids) \in Nat
    BY <1>2, FrameType
  <2>2. Top.loop.t = "Loop"
    BY <1>1, <1>2 DEF Progress, Waits, E
  <2>3. Top.loop \in Exprs
    BY <2>1, <2>2, NoLoopType DEF LoopsOrNone
  <2> QED
    BY <1>1, <1>2, <2>1, <2>3 DEF Progress, Waits, E, InLoop
<1>5. RecurName(Top.i) \in STRING
  <2>1. Top.loop.names \in Seq(STRING)
    BY <1>4, ExprsAssumption DEF WellFormed, Shaped
  <2>2. Top.i \in 1 .. Len(Top.loop.names)
    BY <1>4 DEF InLoop
  <2> QED
    BY <2>1, <2>2 DEF RecurName
<1>6. NewNode(heap) \in Places
  BY <1>1, NewNodeType
<1>7. CASE Top.i < Len(E.kids) /\ CallEvalExpr([Top EXCEPT !.lenv = NewNode(heap)], Top.i + 1)
  <2> DEFINE top  == [Top EXCEPT !.lenv = NewNode(heap)]
             kid  == Top.i + 1
             top2 == [top EXCEPT !.i = kid]
  <2>1. CallEval(top, kid, NoLoop, NULL)
    BY <1>7, CallEvalExprIsCallEval
  <2>2. /\ top \in Frames /\ top.e = Top.e /\ top.env = Top.env /\ top.lenv = NewNode(heap)
        /\ top.loop = Top.loop /\ top.old = Top.old /\ top.vals = Top.vals
    BY <1>2, <1>6 DEF Frames
  <2>3. /\ top2.i = kid /\ top2.e = Top.e /\ top2.env = Top.env /\ top2.lenv = NewNode(heap)
    BY <2>2 DEF Frames
  <2>4. kid \in 1 .. Len(E.kids)
    BY <1>4, <1>7
  <2>5. Bindings(top2) = Bindings(Top) + 1
    BY <1>1, <1>4, <2>3 DEF Bindings, E
  <2>6. top.e = E /\ top2 = [top EXCEPT !.i = kid]
    BY <2>2 DEF E
  <2> HIDE DEF top2, top, kid
  <2>7. /\ Changed(stack, top2, stack') /\ Grown(Top, top2)
        /\ Layout(heap', SegsTo(stack', Depth)) => IInv'
    BY <1>1, <1>4, <2>1, <2>2, <2>4, <2>6, NoLoopType, CallStep
  <2>8. Layout(heap', SegsTo(stack', Depth))
    BY <1>1, <1>2, <1>3, <1>5, <2>3, <2>5, <2>7, BindStep
  <2> QED
    BY <2>7, <2>8
<1>8. CASE ~ (Top.i < Len(E.kids)) /\ Return(RecurResult(NewNode(heap)))
  <2> DEFINE r == RecurResult(NewNode(heap))
  <2>1. r \in Results /\ r # None /\ r.loop_env = NewNode(heap)
    BY <1>6, HalfAssumption DEF RecurResult, Results, None, Word
  <2> HIDE DEF r
  <2>2. /\ stack \in Seq(Frames) /\ Len(stack) > 0 /\ Control(stack, res)
        /\ Layout(heap, Segs(stack, res))
    BY <1>1, TopType DEF Depth, IInv
  <2>3. Top = stack[Len(stack)] /\ Depth = Len(stack) /\ E = Top.e
    BY DEF Top, Depth, E
  <2>4. Popped(stack, stack')
    BY <1>8, <2>2, PopFrame DEF Return, Below
  <2>5. /\ Len(stack) > 1 /\ ~ ForInt(stack[Len(stack) - 1])
        /\ LoopOf(stack[Len(stack) - 1]).t = "Loop"
    BY <1>1, <1>4, <2>3, TopType DEF InLoop
  <2>6. Control(stack', r)
    BY <2>1, <2>2, <2>4, <2>5, ReturnControl
  <2>7. Top.i = Len(E.kids)
    BY <1>4, <1>8
  <2>8. Layout(heap', Segs(stack', r))
    <3>1. Top.e.t = "Recur" /\ Top.i > 0 /\ Top.i = Len(Top.e.kids)
      BY <1>1, <1>4, <2>3, <2>7
    <3> DEFINE name == RecurName(Top.i)
    <3>2. name \in STRING /\ heap' = env_bind(heap, Top.lenv, name, res.i)
      BY <1>1, <1>5
    <3> HIDE DEF name
    <3>3. Top = stack[Len(stack)]
      BY <2>3
    <3> QED
      BY <1>1, <1>2, <1>3, <2>1, <2>2, <2>4, <2>6, <3>1, <3>2, <3>3, RecurMemory
  <2>9. MachineTyped'
    BY <1>1, <1>8, <2>1, <2>4 DEF IInv, MachineTyped, Popped, Return, r
  <2> QED
    BY <1>8, <2>6, <2>8, <2>9 DEF IInv, Return, r
<1> QED
  BY <1>7, <1>8 DEF ResumeRecur

-----------------------------------------------------------------------------
\* A program that defines a function has it.
LEMMA LookupType ==
  ASSUME NEW funs \in Seq(Definitions), NEW f, Defines(funs, f)
  PROVE  Lookup(funs, f) \in Definitions
<1> DEFINE T == { k \in 1 .. Len(funs) : funs[k].id = f }
           first == CHOOSE k \in 1 .. Len(funs) :
                      /\ funs[k].id = f
                      /\ \A j \in 1 .. k - 1 : funs[j].id # f
<1>1. T \subseteq Nat /\ T # {}
  BY DEF Defines
<1>2. PICK m \in T : \A k \in T : m <= k
  <2> HIDE DEF T
  <2> QED
    BY <1>1, Smallest
<1>3. /\ m \in 1 .. Len(funs) /\ funs[m].id = f
      /\ \A j \in 1 .. m - 1 : funs[j].id # f
  <2> SUFFICES ASSUME NEW j \in 1 .. m - 1, funs[j].id = f PROVE FALSE
    OBVIOUS
  <2>1. j \in T
    OBVIOUS
  <2> QED
    BY <1>2, <2>1
<1>4. first \in 1 .. Len(funs)
  BY <1>3
<1>5. Lookup(funs, f) = funs[first]
  BY DEF Lookup
<1> HIDE DEF first
<1> QED
  BY <1>4, <1>5

\* A frame for the call of a function.
FrameOfCall(e, vals) == [Frame(e, NULL, NoLoop, NULL) EXCEPT !.vals = vals]

\* The frame of a call of eval_function.
LEMMA FunctionFrame ==
  ASSUME NEW e \in Definitions, NEW vals \in Seq(Word), NEW g, g = FrameOfCall(e, vals)
  PROVE  /\ g \in Frames /\ Progress(g) /\ Starts(g) /\ g.i = 0 /\ g.old = NULL
         /\ g.env = NULL /\ g.loop = NoLoop /\ g.lenv = NULL /\ g.e = e
<1>1. e \in Exprs /\ e.t = "Fun"
  BY DEF Definitions
<1>2. WellFormed(e)
  BY <1>1, ExprsAssumption
<1>3. Len(e.kids) \in Nat /\ Len(e.names) \in Nat
  BY <1>2 DEF WellFormed, Shaped
<1>4. Frame(e, NULL, NoLoop, NULL) \in Frames
  BY <1>1, NoLoopType DEF Frame, Frames
<1>5. /\ g \in Frames /\ g.i = 0 /\ g.old = NULL /\ g.env = NULL /\ g.loop = NoLoop
      /\ g.lenv = NULL /\ g.e = e
  BY <1>4 DEF Frame, Frames, FrameOfCall
<1>6. Progress(g) /\ Starts(g)
  BY <1>1, <1>3, <1>5 DEF Progress, Starts
<1> QED
  BY <1>5, <1>6

LEMMA ResumeCallKeepsIInv == ASSUME IInv, ResumeCall PROVE IInv'
<1> DEFINE with == [Top EXCEPT !.vals = Append(@, res.i)]
<1>1. /\ Depth > 0 /\ res # None /\ E.t = "Call" /\ IsInt
      /\ UNCHANGED <<program, heap, status, result>>
  BY DEF ResumeCall, Resumes
<1>2. /\ Top \in Frames /\ res \in Results /\ Progress(Top) /\ Waits(Top) /\ res.i \in Word
  BY <1>1, TopType
<1>3. res.loop_env = NULL
  BY <1>1 DEF IsInt, ForInt, E
<1>4. Top.i \in Nat /\ Top.i > 0 /\ Len(E.kids) \in Nat
  BY <1>1, <1>2, FrameType, ExprType DEF Waits
<1>5. /\ with \in Frames /\ with.e = Top.e /\ with.env = Top.env /\ with.lenv = Top.lenv
      /\ with.loop = Top.loop /\ with.old = Top.old /\ with.vals \in Seq(Word)
  <2>1. Append(Top.vals, res.i) \in Seq(Word)
    BY <1>2, FrameType
  <2> QED
    BY <1>2, <2>1 DEF Frames
<1>6. CASE Top.i < Len(E.kids) /\ CallEvalExpr(with, Top.i + 1)
  <2> DEFINE kid  == Top.i + 1
             top2 == [with EXCEPT !.i = kid]
  <2>1. CallEval(with, kid, NoLoop, NULL)
    BY <1>6, CallEvalExprIsCallEval
  <2>2. /\ top2.i = kid /\ top2.e = Top.e /\ top2.env = Top.env /\ top2.lenv = Top.lenv
    BY <1>5 DEF Frames
  <2>3. Bindings(top2) = Bindings(Top)
    BY <1>1, <2>2 DEF Bindings, E
  <2>4. kid \in 1 .. Len(E.kids)
    BY <1>4, <1>6
  <2>5. with.e = E /\ top2 = [with EXCEPT !.i = kid]
    BY <1>5 DEF E
  <2> HIDE DEF top2, with, kid
  <2>6. /\ Changed(stack, top2, stack') /\ Grown(Top, top2)
        /\ Layout(heap', SegsTo(stack', Depth)) => IInv'
    BY <1>1, <1>5, <2>1, <2>4, <2>5, NoLoopType, CallStep
  <2>7. Layout(heap', SegsTo(stack', Depth))
    BY <1>1, <1>3, <2>2, <2>3, <2>6, KeepStep
  <2> QED
    BY <2>6, <2>7
<1>7. CASE /\ Top.i = Len(E.kids) /\ Defines(program.functions, E.id)
           /\ Push([with EXCEPT !.i = Top.i + 1],
                   [Frame(Lookup(program.functions, E.id), NULL, NoLoop, NULL)
                      EXCEPT !.vals = with.vals])
  <2> DEFINE top2 == [with EXCEPT !.i = Top.i + 1]
             g == [Frame(Lookup(program.functions, E.id), NULL, NoLoop, NULL)
                     EXCEPT !.vals = with.vals]
  <2>1. Lookup(program.functions, E.id) \in Definitions
    BY <1>7, LookupType DEF IInv, MachineTyped
  <2>2. /\ g \in Frames /\ Progress(g) /\ Starts(g) /\ g.i = 0 /\ g.old = NULL
        /\ g.env = NULL /\ g.loop = NoLoop /\ g.lenv = NULL
    <3> DEFINE f == Lookup(program.functions, E.id)
               vals == with.vals
    <3>1. f \in Definitions /\ vals \in Seq(Word)
      BY <1>5, <2>1
    <3>2. g = FrameOfCall(f, vals)
      BY DEF FrameOfCall
    <3> HIDE DEF f, vals, g
    <3> QED
      BY <3>1, <3>2, FunctionFrame
  <2>3. /\ top2 \in Frames /\ top2.i = Top.i + 1 /\ top2.e = Top.e /\ top2.env = Top.env
        /\ top2.lenv = Top.lenv /\ top2.loop = Top.loop /\ top2.old = Top.old
    <3> HIDE DEF with
    <3> QED
      BY <1>4, <1>5 DEF Frames
  <2>4. Push(top2, g)
    BY <1>7
  <2> HIDE DEF top2, g, with
  <2>5. /\ Grown(Top, top2) /\ Progress(top2) /\ Waits(top2) /\ Link(top2, g)
        /\ Bindings(top2) = Bindings(Top)
    BY <1>1, <1>4, <1>7, <2>2, <2>3, NoLoopType
       DEF Grown, Progress, Waits, Link, Bindings, E
  <2>6. /\ Changed(stack, top2, stack')
        /\ Layout(heap', SegsTo(stack', Depth)) => IInv'
    BY <1>1, <2>2, <2>3, <2>4, <2>5, PushStep
  <2>7. Layout(heap', SegsTo(stack', Depth))
    BY <1>1, <1>3, <2>3, <2>5, <2>6, KeepStep
  <2> QED
    BY <2>6, <2>7
<1>8. CASE Return(res)
  BY <1>1, <1>8, ReturnRes
<1> QED
  BY <1>6, <1>7, <1>8 DEF ResumeCall

LEMMA BindParameterKeepsIInv == ASSUME IInv, BindParameter PROVE IInv'
<1>1. /\ Depth > 0 /\ res = None /\ E.t = "Fun" /\ Top.i < Len(E.names) /\ CanBind(heap)
      /\ UNCHANGED <<program, res, status, result>>
  BY DEF BindParameter, Enters
<1> DEFINE top == [Top EXCEPT !.i = @ + 1, !.env = NewNode(heap)]
           name == E.names[Top.i + 1]
<1>2. PICK v \in IF Top.i < Len(Top.vals) THEN {Top.vals[Top.i + 1]} ELSE Word :
        heap' = env_bind(heap, Top.env, name, v)
  BY DEF BindParameter
<1>3. stack' = Below \o <<top>>
  BY DEF BindParameter
<1>4. /\ Top \in Frames /\ Progress(Top) /\ Top.i \in Nat /\ Top.vals \in Seq(Word)
      /\ Len(E.names) \in Nat /\ E.names \in Seq(STRING)
  <2>1. Top \in Frames /\ Progress(Top)
    BY <1>1, TopType
  <2>2. Top.i \in Nat /\ Top.vals \in Seq(Word)
    BY <2>1, FrameType
  <2>3. Len(E.names) \in Nat /\ E.names \in Seq(STRING)
    BY <2>1, FrameType DEF E
  <2> QED
    BY <2>1, <2>2, <2>3
<1>5. v \in Word
  BY <1>2, <1>4
<1>6. name \in STRING
  BY <1>1, <1>4
<1>7. NewNode(heap) \in Places
  BY <1>1, NewNodeType
<1>8. /\ top \in Frames /\ top.e = Top.e /\ top.env = NewNode(heap) /\ top.lenv = Top.lenv
      /\ top.loop = Top.loop /\ top.old = Top.old /\ top.i = Top.i + 1
  <2> DEFINE f == Top
             n == NewNode(heap)
  <2>1. f \in Frames /\ f.i + 1 \in Nat /\ n \in Places
    BY <1>4, <1>7
  <2> HIDE DEF f, n
  <2>2. [f EXCEPT !.i = @ + 1, !.env = n] \in Frames
    BY <2>1 DEF Frames
  <2>3. /\ [f EXCEPT !.i = @ + 1, !.env = n].e = f.e
        /\ [f EXCEPT !.i = @ + 1, !.env = n].env = n
        /\ [f EXCEPT !.i = @ + 1, !.env = n].lenv = f.lenv
        /\ [f EXCEPT !.i = @ + 1, !.env = n].loop = f.loop
        /\ [f EXCEPT !.i = @ + 1, !.env = n].old = f.old
        /\ [f EXCEPT !.i = @ + 1, !.env = n].i = f.i + 1
    BY <2>1 DEF Frames
  <2> QED
    BY <2>2, <2>3 DEF f, n
<1> HIDE DEF top, name
<1>9. /\ Grown(Top, top) /\ Progress(top) /\ Starts(top) /\ Bindings(top) = Bindings(Top) + 1
  BY <1>1, <1>4, <1>8 DEF Grown, Progress, Starts, Bindings, E
<1>10. /\ stack \in Seq(Frames) /\ Len(stack) > 0 /\ Control(stack, None) /\ Depth = Len(stack)
       /\ Top = stack[Len(stack)]
  BY <1>1, TopType DEF Depth, IInv, Top
<1>11. Replaced(stack, top, stack')
  BY <1>3, <1>8, <1>10, ReplaceFrame DEF Below
<1>12. Changed(stack, top, stack')
  BY <1>10, <1>11 DEF Replaced, Changed
<1>13. Control(stack', None)
  BY <1>9, <1>10, <1>11, ReplaceControl
<1>14. heap' = env_bind(heap, IF E.t = "Recur" THEN Top.lenv ELSE Top.env, name, v)
  BY <1>1, <1>2
<1>15. Layout(heap', SegsTo(stack', Depth))
  BY <1>1, <1>5, <1>6, <1>8, <1>9, <1>12, <1>14, NoneCarriesNothing, BindStep
<1>16. Layout(heap', Segs(stack', None))
  <2>1. stack' \in Seq(Frames) /\ Len(stack') = Depth
    BY <1>10, <1>11 DEF Replaced
  <2>2. Segs(stack', None) = SegsTo(stack', Len(stack'))
    BY <2>1, SegsIsSegsTo, NoneCarriesNothing
  <2> QED
    BY <1>15, <2>1, <2>2
<1>17. MachineTyped'
  BY <1>1, <1>11 DEF IInv, MachineTyped, Replaced
<1> QED
  BY <1>1, <1>13, <1>16, <1>17 DEF IInv

LEMMA EvalFunctionBodyKeepsIInv == ASSUME IInv, EvalFunctionBody PROVE IInv'
<1> DEFINE top2 == [Top EXCEPT !.i = @ + 1]
           g    == Frame(Body(E), Top.env, NoLoop, NULL)
<1>1. /\ Depth > 0 /\ res = None /\ E.t = "Fun" /\ Top.i = Len(E.names) /\ Push(top2, g)
      /\ UNCHANGED <<program, heap, status, result>>
  BY DEF EvalFunctionBody, Enters
<1>2. /\ Top \in Frames /\ Progress(Top) /\ Top.i \in Nat /\ Top.env \in Places
      /\ Len(E.names) \in Nat
  BY <1>1, TopType, FrameType, ExprType
<1>3. Body(E) \in Exprs /\ Body(E).t # "Fun"
  <2>1. Len(E.kids) = 1 /\ E \in Exprs
    BY <1>1, ExprType, OperandCount
  <2>2. 1 \in 1 .. Len(E.kids)
    BY <2>1
  <2>3. E.kids[1] \in Exprs /\ E.kids[1].t # "Fun"
    BY <2>1, <2>2, OperandOf
  <2> QED
    BY <2>1, <2>3 DEF Body
<1>4. /\ top2 \in Frames /\ top2.e = Top.e /\ top2.env = Top.env /\ top2.lenv = Top.lenv
      /\ top2.loop = Top.loop /\ top2.old = Top.old /\ top2.i = Top.i + 1
  BY <1>2 DEF Frames
<1>5. /\ g \in Frames /\ Progress(g) /\ Starts(g) /\ g.i = 0 /\ g.old = g.env
      /\ g.env = Top.env /\ g.loop = NoLoop /\ g.lenv = NULL
  BY <1>2, <1>3, NoLoopType, Operand
<1> HIDE DEF top2, g
<1>6. /\ Grown(Top, top2) /\ Progress(top2) /\ Waits(top2) /\ Link(top2, g)
      /\ Bindings(top2) = Bindings(Top)
  BY <1>1, <1>2, <1>4, <1>5, NoLoopType DEF Grown, Progress, Waits, Link, Bindings, E
<1>7. /\ Changed(stack, top2, stack')
      /\ Layout(heap', SegsTo(stack', Depth)) => IInv'
  BY <1>1, <1>4, <1>5, <1>6, PushStep
<1>8. Layout(heap', SegsTo(stack', Depth))
  BY <1>1, <1>4, <1>6, <1>7, KeepStep, NoneCarriesNothing
<1> QED
  BY <1>7, <1>8

LEMMA ResumeFunctionKeepsIInv == ASSUME IInv, ResumeFunction PROVE IInv'
<1>1. /\ Depth > 0 /\ res # None /\ E.t = "Fun" /\ IsInt
      /\ heap' = env_free(heap, Top.env, NULL) /\ Return(res)
      /\ UNCHANGED <<program, status, result>>
  BY DEF ResumeFunction, Resumes
<1>2. Top.old = NULL /\ res \in Results
  BY <1>1, TopType DEF Progress, E
<1> QED
  BY <1>1, <1>2, ReturnStep

\* eval_function returns to main, an assert fails, or the write through NULL
\* ends the process: nothing in memory changes.
LEMMA MemoryKeepsIInv ==
  ASSUME IInv, UNCHANGED <<program, stack, res, heap>>
  PROVE  IInv'
  BY DEF IInv, MachineTyped

(* At the start, eval_function is called for main, and nothing is          *)
(* allocated.                                                              *)
MainCalled ==
  /\ program.functions \in Seq(Definitions) /\ Defines(program.functions, "main")
  /\ program.args \in Seq(Word)
  /\ stack = << FrameOfCall(Lookup(program.functions, "main"), program.args) >>
  /\ res = None /\ heap = << >>

LEMMA MainCalledIInv == MainCalled => IInv
<1> SUFFICES ASSUME MainCalled PROVE IInv
  OBVIOUS
<1> DEFINE e == Lookup(program.functions, "main")
           f == FrameOfCall(e, program.args)
<1>1. stack = <<f>> /\ res = None /\ heap = << >>
  BY DEF MainCalled
<1>2. e \in Definitions /\ program.args \in Seq(Word)
  BY LookupType DEF MainCalled
<1> HIDE DEF e
<1>3. /\ f \in Frames /\ Progress(f) /\ Starts(f) /\ f.i = 0 /\ f.old = NULL
      /\ f.env = NULL /\ f.loop = NoLoop /\ f.lenv = NULL /\ f.e = e /\ e.t = "Fun"
  BY <1>2, FunctionFrame DEF Definitions
<1> HIDE DEF f
<1>4. MachineTyped
  BY <1>1, <1>3 DEF MachineTyped, Results, MainCalled
<1>5. Control(stack, res)
  <2>1. Len(stack) = 1 /\ stack[1] = f /\ \A k \in 1 .. Len(stack) : k = 1
    BY <1>1
  <2> QED
    BY <1>1, <1>3, <2>1, NoLoopType, NoneCarriesNothing DEF Control
<1>6. Layout(heap, Segs(stack, res))
  <2> DEFINE g == SegsTo(stack, 1)
  <2>1. stack \in Seq(Frames) /\ Len(stack) = 1 /\ stack[1] = f /\ InAFrame(stack)
    BY <1>1, <1>3, NoLoopType DEF InAFrame
  <2>2. g \in Seq(SegmentRecord) /\ Len(g) = 1 /\ g[1] = Seg(stack, 1)
    <3>1. 1 \in 0 .. Len(stack) /\ 1 \in 1 .. 1
      BY <2>1
    <3> QED
      BY <2>1, <3>1, SegsToType
  <2>3. Seg(stack, 1) = [n |-> 0, low |-> {NULL, NULL}, base |-> NULL, end |-> NULL]
    <3>1. f.e.t # "Recur" /\ Bindings(f) = 0
      BY <1>2, <1>3, FrameType DEF Bindings
    <3> QED
      BY <1>3, <2>1, <3>1 DEF Seg
  <2> HIDE DEF g
  <2>4. /\ g[1].n = 0 /\ g[1].base = g[1].end /\ g[1].base \in g[1].low
        /\ \A a \in g[1].low : a = NULL
    BY <2>2, <2>3
  <2>5. Layout(<< >>, g)
    BY <2>2, <2>4, NoSegments
  <2>6. Segs(stack, res) = g
    BY <1>1, <2>1, SegsIsSegsTo, NoneCarriesNothing DEF g
  <2> QED
    BY <1>1, <2>5, <2>6
<1> QED
  BY <1>4, <1>5, <1>6 DEF IInv

LEMMA InitIInv == ASSUME Init PROVE IInv
<1>1. MainCalled
  BY InvocationsAssumption DEF Init, MainCalled, FrameOfCall
<1> QED
  BY <1>1, MainCalledIInv

\* Every step keeps IInv.
LEMMA StepIInv == ASSUME IInv, [Next]_vars PROVE IInv'
<1>1. CASE EvalInteger      BY <1>1, EvalIntegerKeepsIInv
<1>2. CASE EvalIdent        BY <1>2, EvalIdentKeepsIInv
<1>3. CASE EvalOperands     BY <1>3, EvalOperandsKeepsIInv
<1>4. CASE ResumeIf         BY <1>4, ResumeIfKeepsIInv
<1>5. CASE ResumeUnary      BY <1>5, ResumeUnaryKeepsIInv
<1>6. CASE ResumeBinary     BY <1>6, ResumeBinaryKeepsIInv
<1>7. CASE ResumeLet        BY <1>7, ResumeLetKeepsIInv
<1>8. CASE ResumeLoop       BY <1>8, ResumeLoopKeepsIInv
<1>9. CASE EvalRecur        BY <1>9, EvalRecurKeepsIInv
<1>10. CASE ResumeRecur      BY <1>10, ResumeRecurKeepsIInv
<1>11. CASE ResumeCall       BY <1>11, ResumeCallKeepsIInv
<1>12. CASE BindParameter    BY <1>12, BindParameterKeepsIInv
<1>13. CASE EvalFunctionBody BY <1>13, EvalFunctionBodyKeepsIInv
<1>14. CASE ResumeFunction   BY <1>14, ResumeFunctionKeepsIInv
<1>15. CASE Finish \/ Abort \/ Crash
  BY <1>15, MemoryKeepsIInv DEF Finish, Abort, Crash
<1>16. CASE Halted \/ UNCHANGED vars
  BY <1>16, MemoryKeepsIInv DEF Halted, vars
<1> QED
  BY <1>1, <1>2, <1>3, <1>4, <1>5, <1>6, <1>7, <1>8, <1>9, <1>10, <1>11, <1>12, <1>13,
     <1>14, <1>15, <1>16 DEF Next

-----------------------------------------------------------------------------
(* The theorems.                                                           *)

\* The stack, the result on its way and the heap fit together, in every state
\* of a run: each call of eval owns the bindings it made, the recur on its
\* way owns its own, and an operand's value goes to where a value is expected.
THEOREM IInvAlways == Spec => []IInv
  BY InitIInv, StepIInv, PTL DEF Spec

\* eval and eval_function are called with expressions of the program, and an
\* int is a C int, whatever the program computes.
TypeOK ==
  /\ program \in Invocations
  /\ MachineTyped
  /\ status \in {"running"} \union Stopped
  /\ result \in Word

THEOREM TypeOKAlways == Spec => []TypeOK
<1> DEFINE Rest == /\ program \in Invocations
                   /\ status \in {"running"} \union Stopped
                   /\ result \in Word
<1>1. ASSUME Init PROVE Rest
  BY <1>1, HalfAssumption DEF Init, Word
<1>2. ASSUME IInv, Rest, [Next]_vars PROVE Rest'
  <2>1. CASE Finish
    <3>1. res.i \in Word
      BY <1>2, HalfAssumption DEF IInv, MachineTyped, Results, None, Word
    <3> QED
      BY <1>2, <2>1, <3>1 DEF Finish, Stopped
  <2>2. CASE Abort \/ Crash
    BY <1>2, <2>2 DEF Abort, Crash, Stopped
  <2>3. CASE UNCHANGED <<program, status, result>>
    BY <1>2, <2>3
  <2>4. Finish \/ Abort \/ Crash \/ UNCHANGED <<program, status, result>>
    BY <1>2 DEF Next, vars, EvalInteger, EvalIdent, EvalOperands, ResumeIf, ResumeUnary,
       ResumeBinary, ResumeLet, ResumeLoop, EvalRecur, ResumeRecur, ResumeCall,
       BindParameter, EvalFunctionBody, ResumeFunction, Halted
  <2> QED
    BY <2>1, <2>2, <2>3, <2>4
<1>3. IInv /\ Rest => TypeOK
  BY DEF IInv, TypeOK
<1> HIDE DEF Rest
<1> QED
  BY <1>1, <1>2, <1>3, InitIInv, StepIInv, PTL DEF Spec

LEMMA IntResultByIInv == IInv => IntResultNeverFails
BY DEF IInv, Control, IntResultNeverFails, IsInt, Top, Depth

\* The assert in int_result never fails: a recur never reaches an operand that
\* eval_expr evaluates.
THEOREM IntResultNeverFailsAlways == Spec => []IntResultNeverFails
BY IntResultByIInv, IInvAlways, PTL

\* The segments of the invariant, and the frames they belong to.
LEMMA SegmentOf ==
  ASSUME IInv, NEW k \in 1 .. Depth
  PROVE  /\ k \in 1 .. Len(Segs(stack, res))
         /\ Segs(stack, res)[k] = Seg(stack, k)
<1>1. Depth \in Nat /\ Depth = Len(stack)
  BY DEF IInv, MachineTyped, Depth
<1> DEFINE N == Depth + (IF res.loop_env = NULL THEN 0 ELSE 1)
<1>2. k \in 1 .. N /\ N \in Nat /\ k <= Depth
  BY <1>1
<1>3. Segs(stack, res) = [j \in 1 .. N |->
                            IF j <= Depth THEN Seg(stack, j) ELSE Carried(stack[Depth], res)]
  BY <1>1 DEF Segs
<1>4. Layout(heap, Segs(stack, res))
  BY DEF IInv
<1>5. Segs(stack, res) \in Seq(SegmentRecord)
  BY <1>4 DEF Layout
<1> HIDE DEF N
<1>6. Len(Segs(stack, res)) = N
  BY <1>2, <1>3, <1>5
<1> QED
  BY <1>2, <1>3, <1>6

\* The result on its way, if it is a recur, has the last segment.
LEMMA SegmentCarried ==
  ASSUME IInv, res.loop_env # NULL
  PROVE  /\ Depth > 0
         /\ Len(Segs(stack, res)) = Depth + 1
         /\ Segs(stack, res)[Depth + 1] = Carried(Top, res)
<1>1. stack \in Seq(Frames) /\ res \in Results /\ Control(stack, res)
  BY DEF IInv, MachineTyped
<1> QED
  BY <1>1, SegsCarrying DEF Depth, Top, Control

\* The empty environment is live.
LEMMA NullLive ==
  ASSUME NEW h, NEW g, Layout(h, g)
  PROVE  CanFree(h, NULL, NULL)
<1>1. h \in Heaps
  BY DEF Layout
<1>2. PICK M, nodes, hi : Lists(h, M, nodes) /\ Divides(h, g, M, nodes, hi)
  BY DEF Layout
<1>3. Low(nodes, M, NULL) /\ NULL \in Places
  BY MaxNodesAssumption DEF Low, Places, NULL
<1> QED
  BY <1>1, <1>2, <1>3, Live

LEMMA EnvironmentsLiveByIInv == IInv => EnvironmentsLive
<1>1. ASSUME IInv PROVE EnvironmentsLive
  <2> SUFFICES ASSUME NEW r \in Roots PROVE CanFree(heap, r, NULL)
    BY DEF EnvironmentsLive
  <2>1. Layout(heap, Segs(stack, res)) /\ stack \in Seq(Frames)
    BY <1>1 DEF IInv, MachineTyped
  <2>2. ASSUME NEW f \in ToSet(stack), r \in {f.env, f.lenv, f.old}
        PROVE  CanFree(heap, r, NULL)
    <3>1. PICK k \in 1 .. Depth : stack[k] = f
      BY <2>1 DEF ToSet, Depth
    <3>2. r \in Seg(stack, k).low \union {Seg(stack, k).end, NULL}
      <4>1. CASE f.e.t = "Recur"
        BY <2>2, <3>1, <4>1 DEF Seg
      <4>2. CASE f.e.t # "Recur"
        BY <2>2, <3>1, <4>2 DEF Seg
      <4> QED
        BY <4>1, <4>2
    <3>3. /\ k \in 1 .. Len(Segs(stack, res))
          /\ Segs(stack, res)[k] = Seg(stack, k)
      BY <1>1, SegmentOf
    <3> QED
      BY <2>1, <3>2, <3>3, SegmentsLive
  <2>3. CASE r = res.loop_env /\ r # NULL
    <3>1. /\ Depth > 0 /\ Len(Segs(stack, res)) = Depth + 1
          /\ Segs(stack, res)[Depth + 1] = Carried(Top, res)
      BY <1>1, <2>3, SegmentCarried
    <3>2. Depth + 1 \in 1 .. Len(Segs(stack, res))
      BY <2>1, <3>1 DEF Depth
    <3>3. Carried(Top, res).end = r
      BY <2>3 DEF Carried
    <3> QED
      BY <2>1, <3>1, <3>2, <3>3, SegmentsLive
  <2>4. CASE r = NULL
    BY <2>1, <2>4, NullLive
  <2>5. r = res.loop_env \/ \E f \in ToSet(stack) : r \in {f.env, f.lenv, f.old}
    BY DEF Roots
  <2> QED
    BY <2>2, <2>3, <2>4, <2>5
<1> QED
  BY <1>1

\* No frame, and no recur on its way, holds an environment that has been
\* freed: from each, the list goes down to NULL through allocated nodes.
THEOREM EnvironmentsLiveAlways == Spec => []EnvironmentsLive
BY EnvironmentsLiveByIInv, IInvAlways, PTL

LEMMA HeapAccountedForByIInv == IInv => HeapAccountedFor
<1>1. ASSUME IInv PROVE HeapAccountedFor
  <2> DEFINE g == Segs(stack, res)
             step == [k \in 1 .. Depth |-> [v \in Nat |-> v + Bindings(stack[k])]]
             Held(f) == f = [k \in 0 .. Depth |->
                               IF k = 0 THEN 0 ELSE f[k - 1] + Bindings(stack[k])]
             held == CHOOSE f : Held(f)
  <2>1. stack \in Seq(Frames) /\ Depth = Len(stack) /\ Depth \in Nat
    BY <1>1 DEF IInv, MachineTyped, Depth
  <2>2. \A k \in 1 .. Depth : Bindings(stack[k]) \in Nat
    BY <2>1, BindingsType
  <2>3. PICK f \in [0 .. Depth -> Nat] :
          \A n \in 0 .. Depth : f[n] = IF n = 0 THEN 0 ELSE step[n][f[n - 1]]
    <3>1. step \in [1 .. Depth -> [Nat -> Nat]]
      BY <2>2
    <3> HIDE DEF step
    <3>2. RecursiveFunctionExists(Nat, 0, Depth, step)
      BY <2>1, <3>1, Recursion
    <3> QED
      BY <3>2, Zenon DEF RecursiveFunctionExists
  <2>4. Held(f)
    <3>1. ASSUME NEW n \in 0 .. Depth
          PROVE  f[n] = IF n = 0 THEN 0 ELSE f[n - 1] + Bindings(stack[n])
      <4>1. CASE n = 0
        BY <2>3, <4>1
      <4>2. CASE n # 0
        <5>1. n \in 1 .. Depth /\ n - 1 \in 0 .. Depth
          BY <2>1, <4>2
        <5>2. f[n] = step[n][f[n - 1]] /\ f[n - 1] \in Nat
          BY <2>3, <4>2, <5>1
        <5> QED
          BY <4>2, <5>1, <5>2
      <4> QED
        BY <4>1, <4>2
    <3>2. f = [n \in 0 .. Depth |-> f[n]]
      BY <2>3
    <3> HIDE DEF step
    <3> QED
      BY <3>1, <3>2
  <2>5. Held(held)
    <3> HIDE DEF Held
    <3> QED
      BY <2>4
  <2>6. PICK total : Counts(heap, g, total)
    BY <1>1, SegmentsCount DEF IInv
  <2> HIDE DEF step, held
  <2>7. \A k \in 0 .. Depth : held[k] = IF k = 0 THEN 0 ELSE held[k - 1] + Bindings(stack[k])
    BY <2>5
  <2> HIDE DEF Held, g
  <2>8. ASSUME NEW k \in 1 .. Depth
        PROVE  k \in 1 .. Len(g) /\ g[k].n = Bindings(stack[k])
    <3>1. k \in 1 .. Len(g) /\ g[k] = Seg(stack, k)
      BY <1>1, SegmentOf DEF g
    <3> QED
      BY <3>1 DEF Seg
  <2>9. total[Depth] = held[Depth]
    <3> DEFINE S == { k \in Nat : k <= Depth => total[k] = held[k] }
    <3>1. 0 \in S
      BY <2>1, <2>6, <2>7 DEF Counts
    <3>2. ASSUME NEW k \in Nat, k \in S PROVE k + 1 \in S
      <4> SUFFICES ASSUME k + 1 <= Depth PROVE total[k + 1] = held[k + 1]
        OBVIOUS
      <4>1. k + 1 \in 1 .. Depth /\ k + 1 \in 0 .. Depth /\ (k + 1) - 1 = k /\ k <= Depth
        BY <2>1
      <4>2. total[k + 1] = total[k] + Bindings(stack[k + 1])
        <5>1. total[k + 1] = total[(k + 1) - 1] + g[k + 1].n
          BY <2>6, <2>8, <4>1 DEF Counts
        <5> QED
          BY <2>8, <4>1, <5>1
      <4>3. held[k + 1] = held[k] + Bindings(stack[k + 1])
        <5>1. held[k + 1] = held[(k + 1) - 1] + Bindings(stack[k + 1])
          BY <2>7, <4>1
        <5> QED
          BY <4>1, <5>1
      <4> QED
        BY <3>2, <4>1, <4>2, <4>3
    <3>3. \A k \in Nat : k \in S
      <4> HIDE DEF S
      <4> QED
        BY <3>1, <3>2, Induct
    <3> QED
      BY <2>1, <3>3
  <2>10. Cardinality(DOMAIN heap) =
           held[Depth] + IF res.loop_env = NULL THEN 0 ELSE Len(LoopOf(Top).names)
    <3>1. CASE res.loop_env = NULL
      <4>1. g = SegsTo(stack, Len(stack))
        BY <2>1, <3>1, SegsIsSegsTo DEF g
      <4>2. Len(g) = Depth
        BY <2>1, <4>1 DEF SegsTo
      <4>3. Cardinality(DOMAIN heap) = total[Depth] /\ total[Depth] \in Nat
        BY <2>1, <2>6, <4>2 DEF Counts
      <4> QED
        BY <2>9, <3>1, <4>3
    <3>2. CASE res.loop_env # NULL
      <4>1. Len(g) = Depth + 1 /\ g[Depth + 1] = Carried(Top, res)
        BY <1>1, <3>2, SegmentCarried DEF g
      <4>2. Depth + 1 \in 1 .. Len(g) /\ (Depth + 1) - 1 = Depth
        BY <2>1, <4>1
      <4>3. total[Depth + 1] = total[Depth] + g[Depth + 1].n
        <5>1. total[Depth + 1] = total[(Depth + 1) - 1] + g[Depth + 1].n
          BY <2>6, <4>2 DEF Counts
        <5> QED
          BY <4>2, <5>1
      <4>4. Cardinality(DOMAIN heap) = total[Depth + 1]
        BY <2>6, <4>1 DEF Counts
      <4>5. g[Depth + 1].n = Len(LoopOf(Top).names)
        BY <4>1 DEF Carried
      <4> QED
        BY <2>9, <3>2, <4>3, <4>4, <4>5
    <3> QED
      BY <3>1, <3>2
  <2> QED
    BY <2>10 DEF HeapAccountedFor, held, Held
<1> QED
  BY <1>1

\* The heap holds exactly the bindings in force: what the frames have bound,
\* and what a recur on its way has.  So nothing leaks, and when main returns
\* nothing is left.
THEOREM HeapAccountedForAlways == Spec => []HeapAccountedFor
BY HeapAccountedForByIInv, IInvAlways, PTL

-----------------------------------------------------------------------------
(***************************************************************************)
(* The trees the parser makes.  Exprs is any set of trees that the         *)
(* constructors of the language do not lead out of.  What parse_primary    *)
(* returns and parse_expr collects are expressions in it, an activation    *)
(* that waits has a node of its place with the operands it has got so far, *)
(* and the functions parsed are definitions as the interpreter expects     *)
(* them.                                                                   *)
(***************************************************************************)
Nodes == [t : Kinds, v : Word, id : STRING, names : Seq(STRING), kids : Seq(Exprs)]
AllTrees == \A e \in Nodes : Shaped(e) => e \in Exprs

Operable == Exprs \ Definitions
Token    == [type : STRING, v : Word, name : STRING]
Partial  == [t : Kinds, v : {0}, id : STRING, names : Seq(STRING), kids : Seq(Operable)]

\* The node of an activation of which the operands up to here are parsed.
Unfinished(place, node) ==
  /\ place # "paren"    => node \in Partial
  /\ place = "function" => node.t = "Fun" /\ Len(node.kids) = 0
  /\ place = "args"     => node.t \in {"Recur", "Call"}
  /\ place = "if"       => node.t = "If"
  /\ place = "bindings" => node.t \in {"Let", "Loop"} /\ Len(node.names) = Len(node.kids) + 1
  /\ place = "body"     => /\ node.t \in {"Let", "Loop"}
                           /\ Len(node.names) = Len(node.kids) /\ Len(node.names) > 0
  /\ place = "unary"    => node.t = "Unary" /\ node.id \in {"!", "-"}

Collected(arr) == \A k \in 1 .. Len(arr) : arr[k] \in Operable
WaitingOK(cs)  == \A k \in 1 .. Len(cs) : /\ Unfinished(cs[k].place, cs[k].node)
                                          /\ Collected(cs[k].exprs)

TreesInv ==
  /\ input \in Seq(Token)
  /\ WaitingOK(callers)
  /\ Collected(expr_arr)
  /\ at = "returned" => ret \in Operable
  /\ functions \in Seq(Definitions)

Finished == [t : Kinds, v : Word, id : STRING, names : Seq(STRING), kids : Seq(Operable)]

\* A node of the right shape is an expression, and if it is no definition it
\* may be an operand.
LEMMA ShapedIsTree ==
  ASSUME AllTrees, NEW n \in Finished,
         n.t \in {"Unary", "Fun"}   => Len(n.kids) = 1,
         n.t = "Unary"              => n.id \in {"!", "-"},
         n.t = "Binary"             => Len(n.kids) = 2 /\ n.id \in BinaryOperators,
         n.t = "If"                 => Len(n.kids) = 3,
         n.t \in {"Let", "Loop"}    => Len(n.names) > 0 /\ Len(n.kids) = Len(n.names) + 1,
         n.t \in {"Recur", "Call"}  => Len(n.kids) > 0
  PROVE  n \in Exprs /\ (n.t # "Fun" => n \in Operable)
<1>1. n.kids \in Seq(Exprs) /\ \A k \in 1 .. Len(n.kids) : n.kids[k].t # "Fun"
  <2> n.kids \in Seq(Operable)
    BY DEF Finished
  <2>1. Operable \subseteq Exprs /\ \A e \in Operable : e.t # "Fun"
    BY DEF Operable, Definitions
  <2> QED
    BY <2>1
<1>2. n \in Nodes
  BY <1>1 DEF Nodes, Finished
<1>3. Shaped(n)
  BY <1>1 DEF Shaped
<1> QED
  BY <1>2, <1>3 DEF AllTrees, Operable, Definitions

\* What nodes are made of.
LEMMA NodeParts ==
  /\ 0 \in Word
  /\ {"", "!", "-"} \subseteq STRING /\ BinaryOperators \subseteq STRING
  /\ {"Int", "Id", "If", "Let", "Loop", "Recur", "Unary", "Binary", "Call", "Fun"} \subseteq Kinds
<1>1. 0 \in Word
  BY HalfAssumption DEF Word
<1>2. {"", "!", "-"} \subseteq STRING /\ BinaryOperators \subseteq STRING
  BY LiteralsAssumption
<1> QED
  BY <1>1, <1>2 DEF Kinds

\* A node without operands.
LEMMA LeafNode ==
  ASSUME NEW kind \in Kinds, NEW v \in Word, NEW id \in STRING,
         NEW n, n = P!Node(kind, v, id, << >>, << >>)
  PROVE  n \in Finished /\ n.t = kind
<1>1. << >> \in Seq(Operable) /\ << >> \in Seq(STRING)
  OBVIOUS
<1> QED
  BY <1>1 DEF P!Node, Finished

\* A node as an activation begins with it.
LEMMA BeginNode ==
  ASSUME NEW kind \in Kinds, NEW id \in STRING, NEW names \in Seq(STRING),
         NEW n, n = P!Node(kind, 0, id, names, << >>)
  PROVE  /\ n \in Partial /\ n.t = kind /\ n.id = id /\ n.names = names
         /\ Len(n.kids) = 0
<1>1. << >> \in Seq(Operable) /\ Len(<< >>) = 0
  OBVIOUS
<1> QED
  BY <1>1 DEF P!Node, Partial

LEMMA BeginBare ==
  ASSUME NEW kind \in Kinds, NEW id \in STRING,
         NEW n, n = P!Node(kind, 0, id, << >>, << >>)
  PROVE  /\ n \in Partial /\ n.t = kind /\ n.id = id /\ Len(n.kids) = 0
<1>1. << >> \in Seq(Operable) /\ << >> \in Seq(STRING) /\ Len(<< >>) = 0
  OBVIOUS
<1> QED
  BY <1>1 DEF P!Node, Partial

\* One operand more.
LEMMA OneMoreKid ==
  ASSUME NEW node \in Partial, NEW x \in Operable,
         NEW n, n = [node EXCEPT !.kids = Append(@, x)]
  PROVE  /\ n \in Partial /\ n.t = node.t /\ n.id = node.id /\ n.names = node.names
         /\ Len(n.kids) = Len(node.kids) + 1 /\ Len(node.kids) \in Nat
<1>1. node.kids \in Seq(Operable)
  BY DEF Partial
<1>2. Append(node.kids, x) \in Seq(Operable) /\ Len(Append(node.kids, x)) = Len(node.kids) + 1
  BY <1>1
<1>3. n \in Partial /\ n.t = node.t /\ n.id = node.id /\ n.names = node.names
      /\ n.kids = Append(node.kids, x)
  BY <1>2 DEF Partial
<1> QED
  BY <1>1, <1>2, <1>3

\* An activation waits on top of others, or goes on.
LEMMA PushWaiting ==
  ASSUME NEW cs, IsSeq(cs), WaitingOK(cs), NEW place, NEW node, Unfinished(place, node),
         NEW exprs, NEW ops, Collected(exprs),
         NEW cs2, cs2 = Append(cs, P!Activation(place, node, exprs, ops))
  PROVE  WaitingOK(cs2)
<1> DEFINE act == P!Activation(place, node, exprs, ops)
<1>1. act.place = place /\ act.node = node /\ act.exprs = exprs
  BY DEF P!Activation
<1> HIDE DEF act
<1>2. /\ Len(cs) \in Nat /\ Len(cs2) = Len(cs) + 1
      /\ \A k \in 1 .. Len(cs) : cs2[k] = cs[k]
      /\ cs2[Len(cs) + 1] = act
  BY AppendIsSeq DEF act
<1> SUFFICES ASSUME NEW k \in 1 .. Len(cs2)
             PROVE  Unfinished(cs2[k].place, cs2[k].node) /\ Collected(cs2[k].exprs)
  BY DEF WaitingOK
<1>3. CASE k \in 1 .. Len(cs)
  BY <1>2, <1>3 DEF WaitingOK
<1>4. CASE k = Len(cs) + 1
  BY <1>1, <1>2, <1>4
<1> QED
  BY <1>2, <1>3, <1>4

LEMMA PopWaiting ==
  ASSUME NEW cs, IsSeq(cs), WaitingOK(cs), cs # << >>,
         NEW cs2, cs2 = SubSeq(cs, 1, Len(cs) - 1)
  PROVE  /\ IsSeq(cs2) /\ WaitingOK(cs2)
         /\ Unfinished(cs[Len(cs)].place, cs[Len(cs)].node) /\ Collected(cs[Len(cs)].exprs)
<1>1. /\ IsSeq(cs2) /\ Len(cs) \in Nat \ {0} /\ Len(cs2) = Len(cs) - 1
      /\ \A k \in 1 .. Len(cs) - 1 : cs2[k] = cs[k]
  BY FrontIsSeq
<1>2. Len(cs) \in 1 .. Len(cs) /\ \A k \in 1 .. Len(cs2) : k \in 1 .. Len(cs) /\ cs2[k] = cs[k]
  BY <1>1
<1> QED
  BY <1>1, <1>2 DEF WaitingOK

\* Tokens are consumed.
LEMMA ConsumeKeepsTokens ==
  ASSUME input \in Seq(Token), NEW n \in Nat, P!Consume(n)
  PROVE  input' \in Seq(Token)
<1>1. Len(input) \in Nat /\ \A k \in n + 1 .. Len(input) : input[k] \in Token
  OBVIOUS
<1>2. SubSeq(input, n + 1, Len(input)) \in Seq(Token)
  BY <1>1, SubSeqProperties
<1> QED
  BY <1>2 DEF P!Consume

\* What the next tokens are.
LEMMA NextTokens ==
  ASSUME input \in Seq(Token), NEW n \in Nat, NEW types, Len(types) = n, P!Follows(types)
  PROVE  /\ n <= Len(input) /\ Len(input) \in Nat
         /\ \A k \in 1 .. n : /\ input[k].type = types[k] /\ input[k].type \in STRING
                              /\ input[k].v \in Word /\ input[k].name \in STRING
<1>1. n <= Len(input) /\ Len(input) \in Nat /\ \A k \in 1 .. n : input[k].type = types[k]
  BY DEF P!Follows
<1>2. \A k \in 1 .. n : input[k] \in Token
  BY <1>1
<1> QED
  BY <1>1, <1>2 DEF Token

\* parse_primary returns an integer or an identifier.
LEMMA LeafKeepsTrees ==
  ASSUME AllTrees, TreesInv, P!PrimaryInteger \/ P!PrimaryIdent
  PROVE  TreesInv'
<1>1. input \in Seq(Token) /\ 1 \in Nat
  BY DEF TreesInv
<1>2. Len(<<"integer">>) = 1 /\ Len(<<"identifier">>) = 1 /\ 1 \in 1 .. 1
  OBVIOUS
<1>3. "Int" \in Kinds /\ "Id" \in Kinds /\ 0 \in Word /\ "" \in STRING
  BY NodeParts
<1>4. ASSUME P!PrimaryInteger PROVE ret' \in Finished /\ ret'.t = "Int"
  <2>1. P!Follows(<<"integer">>) /\ ret' = P!Node("Int", input[1].v, "", << >>, << >>)
    BY <1>4 DEF P!PrimaryInteger, P!Leaf, P!Num
  <2>2. input[1].v \in Word
    BY ONLY <1>1, <1>2, <2>1, NextTokens
  <2>3. PICK v \in Word : ret' = P!Node("Int", v, "", << >>, << >>)
    BY <2>1, <2>2
  <2> QED
    BY ONLY <1>3, <2>3, LeafNode
<1>5. ASSUME P!PrimaryIdent PROVE ret' \in Finished /\ ret'.t = "Id"
  <2>1. P!Follows(<<"identifier">>) /\ ret' = P!Node("Id", 0, input[1].name, << >>, << >>)
    BY <1>5 DEF P!PrimaryIdent, P!Leaf, P!Var
  <2>2. input[1].name \in STRING
    BY ONLY <1>1, <1>2, <2>1, NextTokens
  <2> QED
    BY ONLY <1>3, <2>1, <2>2, LeafNode
<1>6. ret' \in Operable
  <2>1. ret' \in Finished /\ ret'.t \in {"Int", "Id"}
    BY <1>4, <1>5
  <2> QED
    BY <2>1, ShapedIsTree
<1>7. /\ P!Consume(1) /\ callers' = callers /\ expr_arr' = expr_arr /\ functions' = functions
  BY DEF P!PrimaryInteger, P!PrimaryIdent, P!Leaf, P!arrays
<1>8. input' \in Seq(Token)
  BY ONLY <1>1, <1>7, ConsumeKeepsTokens
<1> QED
  BY <1>6, <1>7, <1>8 DEF TreesInv

\* parse_expr is called.
LEMMA CallKeepsTrees ==
  ASSUME TreesInv, input' \in Seq(Token), NEW others, IsSeq(others), WaitingOK(others),
         NEW place, NEW node, Unfinished(place, node), NEW exprs, Collected(exprs), NEW ops,
         P!CallParseExpr(others, P!Activation(place, node, exprs, ops))
  PROVE  TreesInv'
<1>1. WaitingOK(callers')
  BY PushWaiting DEF P!CallParseExpr
<1>2. /\ expr_arr' = << >> /\ at' = "primary" /\ functions' = functions
  BY DEF P!CallParseExpr
<1>3. Collected(expr_arr')
  BY <1>2 DEF Collected
<1> QED
  BY <1>1, <1>2, <1>3 DEF TreesInv

\* parse_primary reads the tokens before its first operand.
LEMMA OpensKeepsTrees ==
  ASSUME ParserInv, TreesInv, NEW types, Len(types) \in Nat,
         NEW place, NEW node, Unfinished(place, node), P!Opens(types, place, node)
  PROVE  TreesInv'
<1>1. /\ input \in Seq(Token) /\ WaitingOK(callers) /\ Collected(expr_arr) /\ IsSeq(callers)
  BY DEF TreesInv, ParserInv, StackOK
<1>2. /\ P!CallParseExpr(callers, P!Activation(place, node, expr_arr, op_arr))
      /\ P!Consume(Len(types))
  BY DEF P!Opens
<1>3. input' \in Seq(Token)
  BY ONLY <1>1, <1>2, Len(types) \in Nat, ConsumeKeepsTokens
<1> QED
  BY <1>1, <1>2, <1>3, CallKeepsTrees

LEMMA BindingsKeepTrees ==
  ASSUME ParserInv, TreesInv, NEW kind \in {"Let", "Loop"}, NEW types, Len(types) = 3,
         NEW id \in STRING, NEW names, names = <<input[2].name>>,
         P!Opens(types, "bindings", P!Node(kind, 0, id, names, << >>))
  PROVE  TreesInv'
<1>1. input \in Seq(Token) /\ 3 \in Nat /\ 2 \in 1 .. 3 /\ P!Follows(types)
  BY DEF TreesInv, P!Opens
<1>2. input[2].name \in STRING
  BY ONLY <1>1, Len(types) = 3, NextTokens
<1>3. names \in Seq(STRING) /\ Len(names) = 1
  BY <1>2
<1> DEFINE node == P!Node(kind, 0, id, names, << >>)
<1>4. P!Opens(types, "bindings", node) /\ node = P!Node(kind, 0, id, names, << >>)
  OBVIOUS
<1> HIDE DEF node
<1>5. kind \in Kinds
  BY NodeParts
<1>6. node \in Partial /\ node.t = kind /\ node.names = names /\ Len(node.kids) = 0
  BY ONLY id \in STRING, <1>3, <1>4, <1>5, BeginNode
<1>7. node.t \in {"Let", "Loop"} /\ Len(node.names) = Len(node.kids) + 1
  BY <1>3, <1>6
<1>8. Unfinished("bindings", node)
  BY <1>6, <1>7 DEF Unfinished
<1>9. Len(types) \in Nat
  OBVIOUS
<1> QED
  BY <1>4, <1>8, <1>9, OpensKeepsTrees

LEMMA PrimaryKeepsTrees ==
  ASSUME ParserInv, TreesInv,
         \/ P!PrimaryCall \/ P!PrimaryRecur \/ P!PrimaryIf
         \/ P!PrimaryLet \/ P!PrimaryLoop \/ P!PrimaryParen
  PROVE  TreesInv'
<1>1. input \in Seq(Token) /\ << >> \in Seq(STRING) /\ 1 \in 1 .. 2 /\ 2 \in 1 .. 3
      /\ 2 \in Nat /\ 3 \in Nat
  BY DEF TreesInv
<1>0. /\ "Call" \in Kinds /\ "Recur" \in Kinds /\ "If" \in Kinds /\ "Let" \in Kinds
      /\ "Loop" \in Kinds /\ "" \in STRING
  BY NodeParts
<1>2. /\ Len(<<"identifier", "(">>) = 2 /\ Len(<<"recur", "(">>) = 2 /\ Len(<<"if">>) = 1
      /\ Len(<<"let", "identifier", "=">>) = 3 /\ Len(<<"loop", "identifier", "=">>) = 3
      /\ Len(<<"(">>) = 1
  OBVIOUS
<1>3. CASE P!PrimaryCall
  <2> DEFINE node == P!Node("Call", 0, input[1].name, << >>, << >>)
  <2>1. P!Opens(<<"identifier", "(">>, "args", node) /\ P!Follows(<<"identifier", "(">>)
    BY <1>3 DEF P!PrimaryCall, P!Opens
  <2>2. input[1].name \in STRING
    BY ONLY <1>1, <1>2, <2>1, NextTokens
  <2>k. PICK kind \in Kinds : kind = "Call"
    BY <1>0
  <2>n. PICK id \in STRING : node = P!Node(kind, 0, id, << >>, << >>)
    BY <2>2, <2>k
  <2> HIDE DEF node
  <2>3. node \in Partial /\ node.t = kind
    BY ONLY <2>n, kind \in Kinds, id \in STRING, BeginBare
  <2>4. Unfinished("args", node)
    BY <2>k, <2>3 DEF Unfinished
  <2> QED
    BY <1>2, <2>1, <2>4, OpensKeepsTrees
<1>4. CASE P!PrimaryRecur
  <2> DEFINE node == P!Node("Recur", 0, "", << >>, << >>)
  <2>1. P!Opens(<<"recur", "(">>, "args", node)
    BY <1>4 DEF P!PrimaryRecur
  <2>k. PICK kind \in Kinds : kind = "Recur"
    BY <1>0
  <2>n. PICK id \in STRING : node = P!Node(kind, 0, id, << >>, << >>)
    BY <1>0, <2>k
  <2> HIDE DEF node
  <2>2. node \in Partial /\ node.t = kind
    BY ONLY <2>n, kind \in Kinds, id \in STRING, BeginBare
  <2>3. Unfinished("args", node)
    BY <2>k, <2>2 DEF Unfinished
  <2> QED
    BY <1>2, <2>1, <2>3, OpensKeepsTrees
<1>5. CASE P!PrimaryIf
  <2> DEFINE node == P!Node("If", 0, "", << >>, << >>)
  <2>1. P!Opens(<<"if">>, "if", node)
    BY <1>5 DEF P!PrimaryIf
  <2>k. PICK kind \in Kinds : kind = "If"
    BY <1>0
  <2>n. PICK id \in STRING : node = P!Node(kind, 0, id, << >>, << >>)
    BY <1>0, <2>k
  <2> HIDE DEF node
  <2>2. node \in Partial /\ node.t = kind
    BY ONLY <2>n, kind \in Kinds, id \in STRING, BeginBare
  <2>3. Unfinished("if", node)
    BY <2>k, <2>2 DEF Unfinished
  <2> QED
    BY <1>2, <2>1, <2>3, OpensKeepsTrees
<1>7. CASE P!PrimaryLet
  <2>1. PICK types : types = <<"let", "identifier", "=">>
    OBVIOUS
  <2>2. PICK kind \in {"Let", "Loop"} : kind = "Let"
    OBVIOUS
  <2>3. PICK id \in STRING : id = ""
    BY <1>0
  <2>4. PICK names : names = <<input[2].name>>
    OBVIOUS
  <2>5. P!Opens(types, "bindings", P!Node(kind, 0, id, names, << >>))
    BY <1>7, <2>1, <2>2, <2>3, <2>4 DEF P!PrimaryLet
  <2>6. Len(types) = 3
    BY <2>1
  <2> QED
    BY ONLY ParserInv, TreesInv, <2>4, <2>5, <2>6, kind \in {"Let", "Loop"}, id \in STRING,
       BindingsKeepTrees
<1>8. CASE P!PrimaryLoop
  <2>1. PICK types : types = <<"loop", "identifier", "=">>
    OBVIOUS
  <2>2. PICK kind \in {"Let", "Loop"} : kind = "Loop"
    OBVIOUS
  <2>3. PICK id \in STRING : id = ""
    BY <1>0
  <2>4. PICK names : names = <<input[2].name>>
    OBVIOUS
  <2>5. P!Opens(types, "bindings", P!Node(kind, 0, id, names, << >>))
    BY <1>8, <2>1, <2>2, <2>3, <2>4 DEF P!PrimaryLoop
  <2>6. Len(types) = 3
    BY <2>1
  <2> QED
    BY ONLY ParserInv, TreesInv, <2>4, <2>5, <2>6, kind \in {"Let", "Loop"}, id \in STRING,
       BindingsKeepTrees
<1>9. CASE P!PrimaryParen
  <2>1. P!Opens(<<"(">>, "paren", << >>) /\ Unfinished("paren", << >>)
    BY <1>9 DEF P!PrimaryParen, Unfinished
  <2> QED
    BY <1>2, <2>1, OpensKeepsTrees
<1> QED
  BY <1>3, <1>4, <1>5, <1>7, <1>8, <1>9

\* How long the head of a function definition is.
LEMMA HeadLength ==
  ASSUME NEW S, NEW n \in Nat, NEW a \in Seq(S), NEW b \in Seq(S), NEW c \in Seq(S),
         Len(a) = 2, Len(b) = n, Len(c) = 1
  PROVE  Len(a \o b \o c) = n + 3
<1>1. a \o b \in Seq(S) /\ Len(a \o b) = Len(a) + Len(b)
  BY ConcatProperties
<1> DEFINE ab == a \o b
<1> HIDE DEF ab
<1>2. ab \in Seq(S) /\ Len(ab) = Len(a) + Len(b)
  BY <1>1 DEF ab
<1>3. Len(ab \o c) = Len(ab) + Len(c)
  BY <1>2, ConcatProperties
<1>4. Len(ab \o c) = n + 3
  BY <1>2, <1>3
<1> QED
  BY <1>4 DEF ab

LEMMA HeadTokens ==
  ASSUME NEW n \in Nat, NEW types,
         types = <<"let", "identifier">> \o [k \in 1 .. n |-> "identifier"] \o <<"=">>
  PROVE  Len(types) = n + 3
<1> DEFINE S == {"let", "identifier", "="}
           b == [k \in 1 .. n |-> "identifier"]
<1>1. <<"let", "identifier">> \in Seq(S) /\ <<"=">> \in Seq(S)
      /\ Len(<<"let", "identifier">>) = 2 /\ Len(<<"=">>) = 1
  OBVIOUS
<1>2. b \in Seq(S) /\ Len(b) = n
  OBVIOUS
<1>3. types = <<"let", "identifier">> \o b \o <<"=">>
  OBVIOUS
<1> HIDE DEF S, b
<1> QED
  BY <1>1, <1>2, <1>3, HeadLength

\* parse_function reads the head of a definition.
LEMMA FunctionKeepsTrees == ASSUME TreesInv, P!parse_function PROVE TreesInv'
<1> DEFINE types(n) == <<"let", "identifier">> \o [k \in 1 .. n |-> "identifier"] \o <<"=">>
           names(n) == [k \in 1 .. n |-> input[k + 2].name]
           fun(n)   == P!Node("Fun", 0, input[2].name, names(n), << >>)
<1>1. PICK n \in 1 .. Len(input) :
        /\ P!Follows(types(n)) /\ P!Consume(n + 3)
        /\ P!CallParseExpr(<< >>, P!Activation("function", fun(n), << >>, << >>))
  BY DEF P!parse_function
<1>2. input \in Seq(Token) /\ n \in Nat /\ n + 3 \in Nat
  BY DEF TreesInv
<1>3. PICK ts : ts = types(n)
  OBVIOUS
<1>4. Len(ts) = n + 3
  BY <1>2, <1>3, HeadTokens
<1>5. P!Follows(ts)
  BY <1>1, <1>3
<1> HIDE DEF types
<1>6. \A k \in 1 .. n + 3 : input[k].name \in STRING
  BY ONLY <1>2, <1>4, <1>5, NextTokens
<1>7. names(n) \in Seq(STRING)
  <2>1. \A k \in 1 .. n : k + 2 \in 1 .. n + 3
    BY <1>2
  <2> QED
    BY <1>2, <1>6, <2>1
<1>8. PICK id \in STRING : id = input[2].name
  <2>1. 2 \in 1 .. n + 3
    BY <1>2
  <2> QED
    BY <1>6, <2>1
<1>9. PICK kind \in Kinds : kind = "Fun"
  BY NodeParts
<1>10. PICK ns \in Seq(STRING) : ns = names(n)
  BY <1>7
<1>11. fun(n) = P!Node(kind, 0, id, ns, << >>)
  BY <1>8, <1>9, <1>10
<1> HIDE DEF names, fun
<1>12. PICK node : node = fun(n)
  OBVIOUS
<1>13. node = P!Node(kind, 0, id, ns, << >>)
  BY <1>11, <1>12
<1>14. node \in Partial /\ node.t = kind /\ Len(node.kids) = 0
  BY ONLY <1>13, kind \in Kinds, id \in STRING, ns \in Seq(STRING), BeginNode
<1>15. Unfinished("function", node)
  BY <1>9, <1>14 DEF Unfinished
<1>16. input' \in Seq(Token)
  BY ONLY <1>1, <1>2, ConsumeKeepsTokens
<1>17. /\ WaitingOK(<< >>) /\ Collected(<< >>) /\ IsSeq(<< >>)
  BY DEF WaitingOK, Collected, IsSeq
<1>18. P!CallParseExpr(<< >>, P!Activation("function", node, << >>, << >>))
  BY <1>1, <1>12
<1> QED
  BY ONLY TreesInv, <1>15, <1>16, <1>17, <1>18, CallKeepsTrees

\* parse_primary calls itself.
LEMMA UnaryKeepsTrees == ASSUME ParserInv, TreesInv, P!PrimaryUnary PROVE TreesInv'
<1>1. /\ at = "primary" /\ at' = at /\ expr_arr' = expr_arr /\ functions' = functions
      /\ ret' = ret /\ P!lookahead \in {"!", "-"} /\ P!Consume(1)
  BY DEF P!PrimaryUnary, P!arrays
<1>2. PICK kind \in Kinds : kind = "Unary"
  BY NodeParts
<1>3. PICK id \in STRING : id = P!lookahead
  BY <1>1, NodeParts
<1>4. PICK node : /\ node = P!Node(kind, 0, id, << >>, << >>)
                  /\ callers' = Append(callers, P!Activation("unary", node, << >>, << >>))
  BY <1>2, <1>3 DEF P!PrimaryUnary
<1>5. node \in Partial /\ node.t = kind /\ node.id = id
  BY ONLY <1>4, kind \in Kinds, id \in STRING, BeginBare
<1>6. Unfinished("unary", node)
  BY <1>1, <1>2, <1>3, <1>5 DEF Unfinished
<1>7. IsSeq(callers) /\ WaitingOK(callers) /\ Collected(<< >>)
  BY DEF ParserInv, StackOK, TreesInv, Collected
<1>8. WaitingOK(callers')
  BY ONLY <1>4, <1>6, <1>7, PushWaiting
<1>9. input \in Seq(Token) /\ 1 \in Nat
  BY DEF TreesInv
<1>10. input' \in Seq(Token)
  BY ONLY <1>1, <1>9, ConsumeKeepsTokens
<1> QED
  BY <1>1, <1>8, <1>10 DEF TreesInv

\* And returns to itself.
LEMMA ReturnToUnaryKeepsTrees ==
  ASSUME AllTrees, ParserInv, TreesInv, P!ReturnToUnary PROVE TreesInv'
<1>1. /\ at = "returned" /\ callers # << >> /\ P!Top.place = "unary"
      /\ callers' = SubSeq(callers, 1, Len(callers) - 1)
      /\ ret' = [P!Top.node EXCEPT !.kids = <<ret>>]
      /\ expr_arr' = expr_arr /\ functions' = functions /\ input' = input
  BY DEF P!ReturnToUnary, P!ToUnary, P!Others, P!arrays
<1>2. /\ WaitingOK(callers') /\ Unfinished(P!Top.place, P!Top.node)
  BY <1>1, PopWaiting DEF P!Top, ParserInv, StackOK, TreesInv
<1>3. PICK node \in Partial : node = P!Top.node /\ node.t = "Unary" /\ node.id \in {"!", "-"}
  BY <1>1, <1>2 DEF Unfinished
<1>4. ret \in Operable
  BY <1>1 DEF TreesInv
<1>5. PICK n : n = ret' /\ n = [node EXCEPT !.kids = <<ret>>]
  BY <1>1, <1>3
<1>6. <<ret>> \in Seq(Operable) /\ Len(<<ret>>) = 1
  BY <1>4
<1>7. n \in Finished /\ n.t = "Unary" /\ n.id \in {"!", "-"} /\ Len(n.kids) = 1
  BY <1>3, <1>5, <1>6, NodeParts DEF Partial, Finished
<1>8. n \in Operable
  BY <1>7, ShapedIsTree
<1> QED
  BY <1>1, <1>2, <1>5, <1>8 DEF TreesInv

\* An operand is collected.
LEMMA ReturnToExprKeepsTrees == ASSUME ParserInv, TreesInv, P!ReturnToExpr PROVE TreesInv'
<1>1. /\ at = "returned" /\ expr_arr' = Append(expr_arr, ret) /\ callers' = callers
      /\ functions' = functions /\ at' \in {"primary", "join"}
      /\ P!Consume(1) \/ input' = input
  BY DEF P!ReturnToExpr
<1>2. IsSeq(expr_arr) /\ Collected(expr_arr) /\ ret \in Operable
  BY <1>1 DEF ParserInv, Collecting, InStep, TreesInv
<1>3. /\ Len(expr_arr) \in Nat /\ Len(expr_arr') = Len(expr_arr) + 1
      /\ \A k \in 1 .. Len(expr_arr) : expr_arr'[k] = expr_arr[k]
      /\ expr_arr'[Len(expr_arr) + 1] = ret
  BY <1>1, <1>2, AppendIsSeq
<1>4. Collected(expr_arr')
  <2> SUFFICES ASSUME NEW k \in 1 .. Len(expr_arr') PROVE expr_arr'[k] \in Operable
    BY DEF Collected
  <2>1. k \in 1 .. Len(expr_arr) \/ k = Len(expr_arr) + 1
    BY <1>3
  <2> QED
    BY <1>2, <1>3, <2>1 DEF Collected
<1>5. input' \in Seq(Token)
  <2>1. input \in Seq(Token) /\ 1 \in Nat
    BY DEF TreesInv
  <2> QED
    BY ONLY <1>1, <2>1, ConsumeKeepsTokens
<1> QED
  BY <1>1, <1>4, <1>5 DEF TreesInv

\* One turn of the loops of parse_expr.
LEMMA JoinedOperable ==
  ASSUME AllTrees, NEW op \in BinaryOperators, NEW x \in Operable, NEW y \in Operable
  PROVE  OP!Bin(op, x, y) \in Operable
<1> DEFINE n == OP!Bin(op, x, y)
<1>1. op \in STRING /\ "Binary" \in Kinds /\ 0 \in Word
  BY NodeParts
<1>2. <<x, y>> \in Seq(Operable) /\ Len(<<x, y>>) = 2 /\ << >> \in Seq(STRING)
  OBVIOUS
<1>3. n \in Finished /\ n.t = "Binary" /\ n.id = op /\ n.kids = <<x, y>>
  BY <1>1, <1>2 DEF OP!Bin, OP!Node, Finished
<1> HIDE DEF n
<1>4. Len(n.kids) = 2 /\ n.id \in BinaryOperators
  BY <1>2, <1>3
<1>5. n \in Operable
  BY <1>3, <1>4, ShapedIsTree
<1> QED
  BY <1>5 DEF n

LEMMA LoopsKeepTrees == ASSUME AllTrees, ParserInv, TreesInv, P!JoinLoops PROVE TreesInv'
<1>1. /\ at = "join" /\ at' = at /\ callers' = callers /\ functions' = functions
      /\ input' = input
  BY DEF P!JoinLoops
<1>2. OP!Skip \/ OP!Join \/ OP!NextLevel
  BY DEF P!JoinLoops, P!Op!Skip, OP!Skip, P!Op!Join, OP!Join, P!Op!NextLevel, OP!NextLevel,
         P!Op!Looks, OP!Looks, P!Op!Levels, OP!Levels, P!Op!dynarr_remove, OP!dynarr_remove,
         P!Op!operator_precedence, OP!operator_precedence, P!Op!BinaryOperators,
         OP!BinaryOperators, P!Op!Bin, OP!Bin, P!Op!Node, OP!Node
<1>3. Collected(expr_arr) /\ OP!PInv
  BY <1>1 DEF TreesInv, ParserInv, Joining
<1>4. Collected(expr_arr')
  <2>1. CASE OP!Skip \/ OP!NextLevel
    BY <1>3, <2>1 DEF OP!Skip, OP!NextLevel
  <2>2. CASE OP!Join
    <3>1. /\ op_arr \in Seq(BinaryOperators) /\ Len(op_arr) \in Nat
          /\ Len(expr_arr) = Len(op_arr) + 1
      BY <1>3, JoiningLengths
    <3>2. i \in 0 .. Len(op_arr) - 1
      BY <1>3, <2>2 DEF OP!PInv, OP!TypeOK, OP!Join, OP!Looks
    <3>3. op_arr[i + 1] \in BinaryOperators
      BY <3>1, <3>2
    <3>4. i + 1 \in 1 .. Len(expr_arr) /\ i + 2 \in 1 .. Len(expr_arr)
      BY <3>1, <3>2
    <3>5. PICK x \in Operable : x = OP!Bin(op_arr[i + 1], expr_arr[i + 1], expr_arr[i + 2])
      BY <1>3, <3>3, <3>4, JoinedOperable DEF Collected
    <3>6. PICK arr : arr = OP!dynarr_remove(expr_arr, i)
      OBVIOUS
    <3>7. expr_arr' = [arr EXCEPT ![i + 1] = x]
      BY <2>2, <3>5, <3>6 DEF OP!Join
    <3>8. \A j \in 1 .. Len(op_arr) : j \in 1 .. Len(expr_arr) /\ j + 1 \in 1 .. Len(expr_arr)
      BY <3>1
    <3>9. arr \in [1 .. Len(op_arr) -> Operable]
      <4>1. Len(expr_arr) - 1 = Len(op_arr)
        BY <3>1
      <4> QED
        BY <1>3, <3>6, <3>8, <4>1 DEF OP!dynarr_remove, Collected
    <3>10. expr_arr' \in [1 .. Len(op_arr) -> Operable]
      BY <3>7, <3>9
    <3>11. PICK new : new = expr_arr'
      OBVIOUS
    <3>12. new \in Seq(Operable)
      BY <3>1, <3>10, <3>11, OP!LengthByDomain
    <3>13. \A k \in 1 .. Len(new) : new[k] \in Operable
      BY <3>12
    <3> QED
      BY <3>11, <3>13 DEF Collected
  <2> QED
    BY <1>2, <2>1, <2>2
<1> QED
  BY <1>1, <1>4 DEF TreesInv

-----------------------------------------------------------------------------
(* parse_expr returns.                                                     *)

\* The operand that is left, the activation it goes to, and the tokens.
LEMMA ReturnedParts ==
  ASSUME ParserInv, TreesInv, NEW place, NEW types, Len(types) \in Nat, P!Resumes(place, types)
  PROVE  /\ expr_arr[1] \in Operable
         /\ IsSeq(P!Others) /\ WaitingOK(P!Others)
         /\ Unfinished(place, P!Top.node) /\ Collected(P!Top.exprs)
         /\ input' \in Seq(Token) /\ input \in Seq(Token)
<1>1. P!Returns /\ P!Top.place = place /\ P!Consume(Len(types)) /\ at = "join"
  BY DEF P!Resumes, P!Returns
<1>2. Len(expr_arr) = 1 /\ Collected(expr_arr) /\ 1 \in 1 .. 1
  BY <1>1, ReturnsOne DEF TreesInv
<1>3. callers # << >> /\ IsSeq(callers) /\ WaitingOK(callers)
  BY <1>1 DEF ParserInv, Nested, StackOK, TreesInv
<1>4. /\ IsSeq(P!Others) /\ WaitingOK(P!Others)
      /\ Unfinished(P!Top.place, P!Top.node) /\ Collected(P!Top.exprs)
  BY <1>3, PopWaiting DEF P!Others, P!Top
<1>5. input \in Seq(Token)
  BY DEF TreesInv
<1>6. input' \in Seq(Token)
  BY ONLY <1>1, <1>5, Len(types) \in Nat, ConsumeKeepsTokens
<1> QED
  BY <1>1, <1>2, <1>4, <1>5, <1>6 DEF Collected

\* It has one operand more.
LEMMA Node1Parts ==
  ASSUME ParserInv, TreesInv, NEW place, place # "paren", NEW types, Len(types) \in Nat,
         P!Resumes(place, types)
  PROVE  /\ P!Top.node \in Partial /\ P!Node1 \in Partial /\ P!Node1.t = P!Top.node.t
         /\ P!Node1.id = P!Top.node.id /\ P!Node1.names = P!Top.node.names
         /\ Len(P!Node1.kids) = Len(P!Top.node.kids) + 1 /\ Len(P!Top.node.kids) \in Nat
<1>1. PICK x \in Operable : x = expr_arr[1]
  BY ReturnedParts
<1>2. PICK node \in Partial : node = P!Top.node
  BY ReturnedParts DEF Unfinished
<1>3. PICK n : n = P!Node1 /\ n = [node EXCEPT !.kids = Append(@, x)]
  BY <1>1, <1>2 DEF P!Node1
<1>4. /\ n \in Partial /\ n.t = node.t /\ n.id = node.id /\ n.names = node.names
      /\ Len(n.kids) = Len(node.kids) + 1 /\ Len(node.kids) \in Nat
  BY ONLY x \in Operable, node \in Partial, <1>3, OneMoreKid
<1> QED
  BY <1>2, <1>3, <1>4

\* An activation calls parse_expr again.
LEMMA AgainKeepsTrees ==
  ASSUME ParserInv, TreesInv, NEW place, NEW types, Len(types) \in Nat,
         P!Resumes(place, types), NEW place2, NEW node, Unfinished(place2, node),
         P!Again(node, place2)
  PROVE  TreesInv'
<1>1. /\ IsSeq(P!Others) /\ WaitingOK(P!Others) /\ Collected(P!Top.exprs)
      /\ input' \in Seq(Token)
  BY ReturnedParts
<1>2. P!CallParseExpr(P!Others, P!Activation(place2, node, P!Top.exprs, P!Top.ops))
  BY DEF P!Again
<1>3. PICK others, exprs, ops : others = P!Others /\ exprs = P!Top.exprs /\ ops = P!Top.ops
  OBVIOUS
<1>4. /\ IsSeq(others) /\ WaitingOK(others) /\ Collected(exprs)
      /\ P!CallParseExpr(others, P!Activation(place2, node, exprs, ops))
  BY <1>1, <1>2, <1>3
<1> QED
  BY <1>1, <1>4, CallKeepsTrees

\* parse_primary returns.
LEMMA PrimaryReturnsKeepsTrees ==
  ASSUME ParserInv, TreesInv, NEW place, NEW types, Len(types) \in Nat,
         P!Resumes(place, types), NEW node, node \in Operable, P!PrimaryReturns(node)
  PROVE  TreesInv'
<1>1. WaitingOK(P!Others) /\ Collected(P!Top.exprs) /\ input' \in Seq(Token)
  BY ReturnedParts
<1>2. /\ callers' = P!Others /\ ret' = node /\ expr_arr' = P!Top.exprs
      /\ functions' = functions
  BY DEF P!PrimaryReturns
<1> QED
  BY <1>1, <1>2 DEF TreesInv

\* What is no longer unfinished.
LEMMA PartialFinished ==
  ASSUME NEW n \in Partial
  PROVE  n \in Finished
  BY NodeParts DEF Partial, Finished

\* parse_primary goes on with the conditional.
LEMMA ResumeIfKeepsTrees ==
  ASSUME AllTrees, ParserInv, TreesInv, P!ResumeIf
  PROVE  TreesInv'
<1>1. PICK types : /\ Len(types) = 1 /\ P!Resumes("if", types)
                   /\ \/ P!Again(P!Node1, "if")
                      \/ Len(P!Node1.kids) = 3 /\ P!PrimaryReturns(P!Node1)
  <2>1. Len(<<"then">>) = 1 /\ Len(<<"else">>) = 1 /\ Len(<<"end">>) = 1
    OBVIOUS
  <2> QED
    BY <2>1 DEF P!ResumeIf, P!Operands
<1>2. PICK place : place = "if"
  OBVIOUS
<1>3. P!Resumes(place, types) /\ place # "paren" /\ Len(types) \in Nat
  BY <1>1, <1>2
<1>4. P!Top.node.t = "If"
  BY <1>2, <1>3, ReturnedParts DEF Unfinished
<1>5. PICK n : n = P!Node1
  OBVIOUS
<1>6. n \in Partial /\ n.t = "If"
  BY <1>3, <1>4, <1>5, Node1Parts
<1>7. CASE P!Again(P!Node1, "if")
  <2>1. Unfinished(place, n) /\ P!Again(n, place)
    BY <1>2, <1>5, <1>6, <1>7 DEF Unfinished
  <2> QED
    BY <1>3, <2>1, AgainKeepsTrees
<1>8. CASE Len(P!Node1.kids) = 3 /\ P!PrimaryReturns(P!Node1)
  <2>1. n \in Finished
    BY <1>6, PartialFinished
  <2>2. n \in Operable
    BY <1>5, <1>6, <1>8, <2>1, ShapedIsTree
  <2> QED
    BY <1>3, <1>5, <1>8, <2>2, PrimaryReturnsKeepsTrees
<1> QED
  BY <1>1, <1>7, <1>8

\* With the bindings of let and loop.
LEMMA ResumeBindingsKeepsTrees ==
  ASSUME ParserInv, TreesInv, P!ResumeBindings
  PROVE  TreesInv'
<1>1. PICK types :
        /\ P!Resumes("bindings", types)
        /\ \/ /\ Len(types) = 3
              /\ P!Again([P!Node1 EXCEPT !.names = Append(@, input[2].name)], "bindings")
           \/ Len(types) = 1 /\ P!Again(P!Node1, "body")
  <2>1. Len(<<"and", "identifier", "=">>) = 3 /\ Len(<<"in">>) = 1
    OBVIOUS
  <2> QED
    BY <2>1 DEF P!ResumeBindings
<1>2. PICK place : place = "bindings"
  OBVIOUS
<1>3. P!Resumes(place, types) /\ place # "paren" /\ Len(types) \in Nat
  BY <1>1, <1>2
<1>4. /\ P!Top.node.t \in {"Let", "Loop"}
      /\ Len(P!Top.node.names) = Len(P!Top.node.kids) + 1
  BY <1>2, <1>3, ReturnedParts DEF Unfinished
<1>5. PICK n : n = P!Node1
  OBVIOUS
<1>6. /\ n \in Partial /\ n.t \in {"Let", "Loop"} /\ Len(n.names) = Len(n.kids)
      /\ Len(n.kids) \in Nat /\ Len(n.kids) > 0
  <2>1. /\ n \in Partial /\ n.t = P!Top.node.t /\ n.names = P!Top.node.names
        /\ Len(n.kids) = Len(P!Top.node.kids) + 1 /\ Len(P!Top.node.kids) \in Nat
    BY <1>3, <1>5, Node1Parts
  <2> QED
    BY <1>4, <2>1
<1>7. CASE Len(types) = 3 /\ P!Again([P!Node1 EXCEPT !.names = Append(@, input[2].name)], "bindings")
  <2>1. input \in Seq(Token) /\ P!Follows(types) /\ 3 \in Nat /\ 2 \in 1 .. 3
    BY <1>3, ReturnedParts DEF P!Resumes
  <2>2. input[2].name \in STRING
    BY ONLY <1>7, <2>1, NextTokens
  <2>3. PICK name \in STRING : name = input[2].name
    BY <2>2
  <2>4. PICK n2 : n2 = [n EXCEPT !.names = Append(@, name)] /\ P!Again(n2, place)
    BY <1>2, <1>5, <1>7, <2>3
  <2>5. n.names \in Seq(STRING)
    BY <1>6 DEF Partial
  <2>6. Append(n.names, name) \in Seq(STRING) /\ Len(Append(n.names, name)) = Len(n.names) + 1
    BY <2>5
  <2>7. n2 \in Partial /\ n2.t = n.t /\ n2.names = Append(n.names, name) /\ n2.kids = n.kids
    BY <1>6, <2>4, <2>6 DEF Partial
  <2>8. n2.t \in {"Let", "Loop"} /\ Len(n2.names) = Len(n2.kids) + 1
    BY <1>6, <2>6, <2>7
  <2>9. Unfinished(place, n2)
    BY <1>2, <2>7, <2>8 DEF Unfinished
  <2> QED
    BY <1>3, <2>4, <2>9, AgainKeepsTrees
<1>8. CASE P!Again(P!Node1, "body")
  <2>1. PICK place2 : place2 = "body"
    OBVIOUS
  <2>2. P!Again(n, place2)
    BY <1>5, <1>8, <2>1
  <2>3. Len(n.names) > 0
    BY <1>6
  <2>4. Unfinished(place2, n)
    BY <1>6, <2>1, <2>3 DEF Unfinished
  <2> QED
    BY <1>3, <2>2, <2>4, AgainKeepsTrees
<1> QED
  BY <1>1, <1>7, <1>8

\* With the body.
LEMMA ResumeBodyKeepsTrees ==
  ASSUME AllTrees, ParserInv, TreesInv, P!ResumeBody
  PROVE  TreesInv'
<1>1. PICK types : Len(types) = 1 /\ P!Resumes("body", types)
  <2>1. Len(<<"end">>) = 1
    OBVIOUS
  <2> QED
    BY <2>1 DEF P!ResumeBody
<1>2. PICK place : place = "body"
  OBVIOUS
<1>3. P!Resumes(place, types) /\ place # "paren" /\ Len(types) \in Nat
  BY <1>1, <1>2
<1>4. /\ P!Top.node.t \in {"Let", "Loop"} /\ Len(P!Top.node.names) > 0
      /\ Len(P!Top.node.names) = Len(P!Top.node.kids)
  BY <1>2, <1>3, ReturnedParts DEF Unfinished
<1>5. PICK n : n = P!Node1 /\ P!PrimaryReturns(n)
  BY DEF P!ResumeBody
<1>6. /\ n \in Partial /\ n.t = P!Top.node.t /\ n.names = P!Top.node.names
      /\ Len(n.kids) = Len(P!Top.node.kids) + 1
  BY <1>3, <1>5, Node1Parts
<1>7. n \in Finished /\ n.t \in {"Let", "Loop"} /\ Len(n.names) > 0 /\ Len(n.kids) = Len(n.names) + 1
  BY <1>4, <1>6, PartialFinished
<1>8. n \in Operable
  BY <1>7, ShapedIsTree
<1> QED
  BY <1>3, <1>5, <1>8, PrimaryReturnsKeepsTrees

\* parse_args goes on or returns.
LEMMA ResumeArgsKeepsTrees ==
  ASSUME AllTrees, ParserInv, TreesInv, P!ResumeArgs
  PROVE  TreesInv'
<1>1. PICK types : /\ Len(types) \in Nat /\ P!Resumes("args", types)
                   /\ P!Again(P!Node1, "args") \/ P!PrimaryReturns(P!Node1)
  <2>1. Len(<<")", "(">>) \in Nat /\ Len(<<")">>) \in Nat
    OBVIOUS
  <2> QED
    BY <2>1 DEF P!ResumeArgs
<1>2. PICK place : place = "args"
  OBVIOUS
<1>3. P!Resumes(place, types) /\ place # "paren" /\ Len(types) \in Nat
  BY <1>1, <1>2
<1>4. P!Top.node.t \in {"Recur", "Call"}
  BY <1>2, <1>3, ReturnedParts DEF Unfinished
<1>5. PICK n : n = P!Node1
  OBVIOUS
<1>6. n \in Partial /\ n.t \in {"Recur", "Call"} /\ Len(n.kids) > 0
  <2>1. /\ n \in Partial /\ n.t = P!Top.node.t
        /\ Len(n.kids) = Len(P!Top.node.kids) + 1 /\ Len(P!Top.node.kids) \in Nat
    BY <1>3, <1>5, Node1Parts
  <2> QED
    BY <1>4, <2>1
<1>7. CASE P!Again(P!Node1, "args")
  <2>1. Unfinished(place, n) /\ P!Again(n, place)
    BY <1>2, <1>5, <1>6, <1>7 DEF Unfinished
  <2> QED
    BY <1>3, <2>1, AgainKeepsTrees
<1>8. CASE P!PrimaryReturns(P!Node1)
  <2>1. n \in Finished
    BY <1>6, PartialFinished
  <2>2. n \in Operable
    BY <1>6, <2>1, ShapedIsTree
  <2> QED
    BY <1>3, <1>5, <1>8, <2>2, PrimaryReturnsKeepsTrees
<1> QED
  BY <1>1, <1>7, <1>8

\* The parenthesis is closed.
LEMMA ResumeParenKeepsTrees ==
  ASSUME ParserInv, TreesInv, P!ResumeParen
  PROVE  TreesInv'
<1>1. PICK types, place : Len(types) = 1 /\ P!Resumes(place, types)
  <2>1. Len(<<")">>) = 1
    OBVIOUS
  <2> QED
    BY <2>1 DEF P!ResumeParen
<1>2. Len(types) \in Nat
  BY <1>1
<1>3. PICK n : n = expr_arr[1] /\ P!PrimaryReturns(n)
  BY DEF P!ResumeParen
<1>4. n \in Operable
  BY <1>1, <1>2, <1>3, ReturnedParts
<1> QED
  BY <1>1, <1>2, <1>3, <1>4, PrimaryReturnsKeepsTrees

\* parse_function returns.
LEMMA ResumeFunctionKeepsTrees ==
  ASSUME AllTrees, ParserInv, TreesInv, P!ResumeFunction
  PROVE  TreesInv'
<1>1. PICK types : Len(types) = 1 /\ P!Resumes("function", types)
  <2>1. Len(<<"end">>) = 1
    OBVIOUS
  <2> QED
    BY <2>1 DEF P!ResumeFunction
<1>2. PICK place : place = "function"
  OBVIOUS
<1>3. P!Resumes(place, types) /\ place # "paren" /\ Len(types) \in Nat
  BY <1>1, <1>2
<1>4. P!Top.node.t = "Fun" /\ Len(P!Top.node.kids) = 0
  BY <1>2, <1>3, ReturnedParts DEF Unfinished
<1>5. PICK n : n = P!Node1 /\ functions' = Append(functions, n)
  BY DEF P!ResumeFunction
<1>6. n \in Partial /\ n.t = P!Top.node.t /\ Len(n.kids) = Len(P!Top.node.kids) + 1
  BY <1>3, <1>5, Node1Parts
<1>7. n \in Finished /\ n.t = "Fun" /\ Len(n.kids) = 1
  BY <1>4, <1>6, PartialFinished
<1>8. n \in Definitions
  <2>1. n \in Exprs
    BY <1>7, ShapedIsTree
  <2> QED
    BY <1>7, <2>1 DEF Definitions
<1>9. functions' \in Seq(Definitions)
  <2>1. functions \in Seq(Definitions)
    BY DEF TreesInv
  <2> QED
    BY <1>5, <1>8, <2>1
<1>10. WaitingOK(P!Others) /\ input' \in Seq(Token)
  BY <1>3, ReturnedParts
<1>11. callers' = P!Others /\ expr_arr' = expr_arr /\ at' \in {"function", "parsed"}
  BY DEF P!ResumeFunction, P!arrays
<1> QED
  BY <1>9, <1>10, <1>11 DEF TreesInv

\* Every step of the parser.
LEMMA TreesInvStep ==
  ASSUME AllTrees, ParserInv, TreesInv, [P!Next]_parser
  PROVE  TreesInv'
<1>1. CASE P!Abort \/ UNCHANGED parser
  BY <1>1 DEF P!Abort, P!arrays, parser, TreesInv
<1> QED
  BY <1>1, FunctionKeepsTrees, LeafKeepsTrees, PrimaryKeepsTrees, UnaryKeepsTrees,
     ReturnToUnaryKeepsTrees, ReturnToExprKeepsTrees, LoopsKeepTrees, ResumeIfKeepsTrees,
     ResumeBindingsKeepsTrees, ResumeBodyKeepsTrees, ResumeArgsKeepsTrees,
     ResumeParenKeepsTrees, ResumeFunctionKeepsTrees DEF P!Next

-----------------------------------------------------------------------------
(***************************************************************************)
(* The whole program: until main is called, nothing is evaluated, and then *)
(* the functions are those that parse_program made.                        *)
(***************************************************************************)
NotCalled ==
  /\ program \in [functions : {<< >>}, args : {<< >>}, line : CommandLines]
  /\ stack = << >> /\ res = None /\ heap = << >>

MainInv ==
  /\ ParserInv /\ TreesInv /\ IInv
  /\ status = "parsing" => NotCalled

LEMMA LayoutOfNothing == Layout(<< >>, << >>)
<1>1. << >> \in Heaps
  <2>1. << >> \in [{} -> Cell]
    OBVIOUS
  <2> QED
    BY <2>1 DEF Heaps
<1> DEFINE hi == [k \in 0 .. 0 |-> 0]
<1>2. Lists(<< >>, 0, << >>)
  BY DEF Lists
<1>3. Divides(<< >>, << >>, 0, << >>, hi)
  BY DEF Divides, Chain, Low
<1>4. << >> \in Seq(SegmentRecord)
  OBVIOUS
<1> HIDE DEF hi
<1> QED
  BY <1>1, <1>2, <1>3, <1>4 DEF Layout

LEMMA NotCalledIInv == NotCalled => IInv
<1> SUFFICES ASSUME NotCalled PROVE IInv
  OBVIOUS
<1>1. stack = << >> /\ res = None /\ heap = << >> /\ program.functions = << >>
  BY DEF NotCalled
<1>2. MachineTyped
  BY <1>1 DEF MachineTyped, Results
<1>3. Control(stack, res)
  BY <1>1, NoneCarriesNothing DEF Control
<1>4. Segs(stack, res) = << >>
  <2>1. << >> \in Seq(Frames) /\ Len(<< >>) = 0
    OBVIOUS
  <2>2. Segs(<< >>, None) = SegsTo(<< >>, 0)
    BY <2>1, SegsIsSegsTo, NoneCarriesNothing
  <2>3. SegsTo(<< >>, 0) = << >>
    BY DEF SegsTo
  <2> QED
    BY <1>1, <2>2, <2>3
<1>5. Layout(heap, Segs(stack, res))
  BY <1>1, <1>4, LayoutOfNothing
<1> QED
  BY <1>2, <1>3, <1>5 DEF IInv

LEMMA MainInitInv == MainInit => MainInv
<1> SUFFICES ASSUME MainInit PROVE MainInv
  OBVIOUS
<1>1. PICK line \in CommandLines : /\ program = [functions |-> << >>, args |-> << >>, line |-> line]
                                   /\ input = line.tokens
  BY DEF MainInit
<1>2. NotCalled
  BY <1>1 DEF MainInit, NotCalled
<1>3. ParserInv
  BY ParserInvInit DEF MainInit
<1>4. TreesInv
  <2>1. input \in Seq(Token)
    BY <1>1, CommandLinesAssumption DEF Token
  <2>2. callers = << >> /\ expr_arr = << >> /\ at = "function" /\ functions = << >>
    BY DEF MainInit, P!parser_init
  <2> QED
    BY <2>1, <2>2 DEF TreesInv, WaitingOK, Collected
<1> QED
  BY <1>2, <1>3, <1>4, NotCalledIInv DEF MainInv

\* main is called with what is on the command line.
LEMMA MainIsCalled == ASSUME MainInv, eval_function PROVE MainCalled'
<1> DEFINE args == parse_cmdline_args(Argv)
<1>1. /\ status = "parsing" /\ Defines(functions, "main")
      /\ program' = [program EXCEPT !.functions = functions, !.args = args]
      /\ stack' = << [Frame(main_function, NULL, NoLoop, NULL) EXCEPT !.vals = args] >>
      /\ res' = res /\ heap' = heap
  BY DEF eval_function, Parsed
<1>2. NotCalled /\ functions \in Seq(Definitions)
  BY <1>1 DEF MainInv, TreesInv
<1>3. args \in Seq(Word)
  <2>1. program.line \in CommandLines
    BY <1>2 DEF NotCalled
  <2>2. Argv \in Seq(Int)
    BY <2>1, CommandLinesAssumption DEF Argv
  <2>3. \A n \in Int : strtoll(n) \in Word
    BY HalfAssumption DEF strtoll, Word
  <2>4. Len(Argv) \in Nat /\ \A k \in 1 .. Len(Argv) : strtoll(Argv[k]) \in Word
    BY <2>2, <2>3
  <2> QED
    BY <2>4 DEF parse_cmdline_args
<1> HIDE DEF args
<1>4. program'.functions = functions /\ program'.args = args
  BY <1>1, <1>2 DEF NotCalled
<1>5. stack' = << FrameOfCall(Lookup(program'.functions, "main"), program'.args) >>
  BY <1>1, <1>4 DEF main_function, FrameOfCall
<1>6. res' = None /\ heap' = << >>
  BY <1>1, <1>2 DEF NotCalled
<1> QED
  BY <1>1, <1>2, <1>3, <1>4, <1>5, <1>6 DEF MainCalled

LEMMA EvaluationStatus ==
  ASSUME Next
  PROVE  status # "parsing" /\ status' # "parsing"
<1>1. CASE Finish \/ Abort \/ Crash
  BY <1>1 DEF Finish, Abort, Crash, AssertFails, Binds, Enters, Resumes
<1>2. CASE Halted
  BY <1>2 DEF Halted, Stopped, vars
<1> QED
  BY <1>1, <1>2 DEF Next, Enters, Resumes, EvalInteger, EvalIdent, EvalOperands, ResumeIf,
     ResumeUnary, ResumeBinary, ResumeLet, ResumeLoop, EvalRecur, ResumeRecur, ResumeCall,
     BindParameter, EvalFunctionBody, ResumeFunction

LEMMA MainInvStep == ASSUME AllTrees, MainInv, [MainNext]_evars PROVE MainInv'
<1>1. ParserInv'
  <2>1. [P!Next]_parser
    BY DEF MainNext, evars, Parse, Refuse, eval_function, Evaluate, Exited
  <2> QED
    BY <2>1, ParserInvStep DEF MainInv
<1>2. TreesInv'
  <2>1. [P!Next]_parser
    BY DEF MainNext, evars, Parse, Refuse, eval_function, Evaluate, Exited
  <2> QED
    BY <2>1, TreesInvStep DEF MainInv
<1>3. CASE Parse \/ Refuse \/ Exited \/ UNCHANGED evars
  <2>1. UNCHANGED <<program, stack, res, heap>>
    BY <1>3 DEF Parse, Refuse, Exited, evars, vars
  <2>2. status' = "parsing" => status = "parsing"
    BY <1>3 DEF Parse, Refuse, Exited, evars, vars
  <2>3. IInv'
    BY <2>1, MemoryKeepsIInv DEF MainInv
  <2> QED
    BY <1>1, <1>2, <2>1, <2>2, <2>3 DEF MainInv, NotCalled
<1>4. CASE eval_function
  <2>1. IInv'
    <3>1. MainCalled'
      BY <1>4, MainIsCalled
    <3> QED
      BY <3>1, MainCalledIInv, PTL
  <2>2. status' = "running"
    BY <1>4 DEF eval_function
  <2> QED
    BY <1>1, <1>2, <2>1, <2>2 DEF MainInv
<1>5. CASE Evaluate
  <2>1. Next /\ status' # "parsing"
    BY <1>5, EvaluationStatus DEF Evaluate
  <2>2. IInv'
    BY <2>1, StepIInv DEF MainInv
  <2> QED
    BY <1>1, <1>2, <2>1, <2>2 DEF MainInv
<1> QED
  BY <1>3, <1>4, <1>5 DEF MainNext

LEMMA MainInvAlways == ASSUME AllTrees PROVE MainSpec => []MainInv
<1>1. MainInv /\ [MainNext]_evars => MainInv'
  BY MainInvStep
<1> QED
  BY <1>1, MainInitInv, PTL DEF MainSpec

-----------------------------------------------------------------------------
(* The theorems.                                                           *)

\* What parse_program hands to eval_function are definitions as the
\* interpreter expects them: every node has the operands and names its kind
\* needs, and the numbers are words, whatever the tokens.
MakesDefinitions == functions \in Seq(Definitions)

THEOREM MakesDefinitionsAlways == ASSUME AllTrees PROVE MainSpec => []MakesDefinitions
<1>1. MainInv => MakesDefinitions
  BY DEF MainInv, TreesInv, MakesDefinitions
<1> QED
  BY <1>1, MainInvAlways, PTL

\* No recur reaches the assert in int_result, in any program that is parsed
\* from a file and called with the arguments of a command line.
THEOREM MainIntResultNeverFails == ASSUME AllTrees PROVE MainSpec => []IntResultNeverFails
<1>1. MainInv => IntResultNeverFails
  BY IntResultByIInv DEF MainInv
<1> QED
  BY <1>1, MainInvAlways, PTL

\* Nobody holds a freed environment while such a program is evaluated.
THEOREM MainEnvironmentsLive == ASSUME AllTrees PROVE MainSpec => []EnvironmentsLive
<1>1. MainInv => EnvironmentsLive
  BY EnvironmentsLiveByIInv DEF MainInv
<1> QED
  BY <1>1, MainInvAlways, PTL

\* Every environment node that such a program allocates is a binding in force.
THEOREM MainHeapAccountedFor == ASSUME AllTrees PROVE MainSpec => []HeapAccountedFor
<1>1. MainInv => HeapAccountedFor
  BY HeapAccountedForByIInv DEF MainInv
<1> QED
  BY <1>1, MainInvAlways, PTL
=============================================================================
