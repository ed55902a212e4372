--------------------------- MODULE SwiftMain_proofs ---------------------------
(***************************************************************************)
(* The Swift program.  Its parser: whatever the tokens, there is a scope   *)
(* for every open parseBinaryExpression, and no forced pop of parser.swift *)
(* finds a stack empty; and the functions it makes are well formed.  Its   *)
(* interpreter: whatever the program, every function being run has a       *)
(* dictionary with one value for every binding in force.  Together: the    *)
(* same of the interpreter in the whole program, run on what was parsed.   *)
(***************************************************************************)
EXTENDS SwiftMain, Basics_proofs

-----------------------------------------------------------------------------
(***************************************************************************)
(* The inductive invariant.  The stack of activations begins with that of  *)
(* parseFunction, the only one; those that have called                     *)
(* parseBinaryExpression are counted, and there are as many scopes.        *)
(***************************************************************************)
Inner == {"unary", "params"}
Open(cs) == { k \in 1 .. Len(cs) : cs[k].place \notin Inner }

Counted(cs, n) ==
  /\ IsSeq(cs)
  /\ \A k \in 1 .. Len(cs) : cs[k].place = "function" <=> k = 1
  /\ n \in Nat /\ n = Cardinality(Open(cs))

InStep(results, operators) ==
  IsSeq(results) /\ IsSeq(operators) /\ Len(results) = Len(operators)
ScopesOK(ss) ==
  IsSeq(ss) /\ \A k \in 1 .. Len(ss) : InStep(ss[k].results, ss[k].operators)

Stacks ==
  /\ at \in {"function", "primary", "returned"} => InStep(resultStack, operatorStack)
  /\ at \in {"operator", "join"} =>
       IsSeq(resultStack) /\ IsSeq(operatorStack) /\ Len(resultStack) = Len(operatorStack) + 1
Waiting ==
  /\ at \in {"primary", "returned", "operator", "join"} => callers # << >>
  /\ at = "function" => callers = << >>

ParserInv == Counted(callers, Len(scopes)) /\ ScopesOK(scopes) /\ Stacks /\ Waiting

-----------------------------------------------------------------------------
(* Activations come and go.                                                *)

\* cs2 is cs and one activation more.
Longer(cs, cs2) ==
  Len(cs) \in Nat /\ Len(cs2) = Len(cs) + 1 /\ \A k \in 1 .. Len(cs) : cs2[k] = cs[k]

LEMMA OpenOneMore ==
  ASSUME NEW cs, NEW cs2, Longer(cs, cs2)
  PROVE  /\ Cardinality(Open(cs)) \in Nat
         /\ Cardinality(Open(cs2)) =
              Cardinality(Open(cs)) + (IF cs2[Len(cs2)].place \in Inner THEN 0 ELSE 1)
<1> DEFINE n == Len(cs)
<1>1. n \in Nat /\ Len(cs2) = n + 1 /\ \A k \in 1 .. n : cs2[k] = cs[k]
  BY DEF Longer
<1>2. IsFiniteSet(Open(cs)) /\ Cardinality(Open(cs)) \in Nat
  <2>1. IsFiniteSet(1 .. n)
    BY <1>1, FS_Interval
  <2>2. Open(cs) \subseteq 1 .. n
    BY DEF Open
  <2>3. IsFiniteSet(Open(cs))
    BY <2>1, <2>2, FS_Subset
  <2> QED
    BY <2>3, FS_CardinalityType
<1>3. \A k \in 1 .. n + 1 : k \in 1 .. n \/ k = n + 1
  BY <1>1
<1>4. n + 1 \in 1 .. n + 1 /\ n + 1 \notin 1 .. n /\ \A k \in 1 .. n : k \in 1 .. n + 1
  BY <1>1
<1>5. CASE cs2[n + 1].place \in Inner
  <2>1. Open(cs2) = Open(cs)
    BY <1>1, <1>3, <1>4, <1>5 DEF Open
  <2> QED
    BY <1>1, <1>2, <1>5, <2>1
<1>6. CASE cs2[n + 1].place \notin Inner
  <2>1. Open(cs2) = Open(cs) \union {n + 1}
    BY <1>1, <1>3, <1>4, <1>6 DEF Open
  <2>2. n + 1 \notin Open(cs)
    BY <1>4 DEF Open
  <2> QED
    BY <1>1, <1>2, <1>6, <2>1, <2>2, FS_AddElement
<1> QED
  BY <1>5, <1>6

\* An activation waits on top of the others; only the first is of
\* parseFunction.
LEMMA PushOK ==
  ASSUME NEW cs, NEW n, Counted(cs, n), NEW place, cs = << >> <=> place = "function",
         NEW node, NEW cs2, cs2 = Append(cs, P!Activation(place, node))
  PROVE  Counted(cs2, IF place \in Inner THEN n ELSE n + 1) /\ cs2 # << >>
<1> DEFINE act == P!Activation(place, node)
<1>1. act.place = place
  BY DEF P!Activation
<1> HIDE DEF act
<1>2. /\ IsSeq(cs2) /\ cs2 # << >>
      /\ Len(cs) \in Nat /\ Len(cs2) = Len(cs) + 1
      /\ \A k \in 1 .. Len(cs) : cs2[k] = cs[k]
      /\ cs2[Len(cs) + 1] = act
  <2>1. IsSeq(cs)
    BY DEF Counted
  <2> QED
    BY <2>1, AppendIsSeq DEF act
<1>3. cs = << >> <=> Len(cs) = 0
  BY DEF Counted, IsSeq
<1>4. ASSUME NEW k \in 1 .. Len(cs2)
      PROVE  cs2[k].place = "function" <=> k = 1
  <2>1. CASE k \in 1 .. Len(cs)
    BY <1>2, <2>1 DEF Counted
  <2>2. CASE k = Len(cs) + 1
    <3>1. cs2[k].place = place
      BY <1>1, <1>2, <2>2
    <3>2. k = 1 <=> place = "function"
      BY <1>2, <1>3, <2>2
    <3> QED
      BY <3>1, <3>2
  <2>3. k \in 1 .. Len(cs) \/ k = Len(cs) + 1
    BY <1>2
  <2> QED
    BY <2>1, <2>2, <2>3
<1>5. Cardinality(Open(cs2)) = Cardinality(Open(cs)) + (IF place \in Inner THEN 0 ELSE 1)
  <2>1. Longer(cs, cs2) /\ cs2[Len(cs2)].place = place
    BY <1>1, <1>2 DEF Longer
  <2> QED
    BY <2>1, OpenOneMore
<1> QED
  BY <1>2, <1>4, <1>5 DEF Counted

\* The activation on top goes on; only that of parseFunction is the last.
LEMMA PopOK ==
  ASSUME NEW cs, NEW n, Counted(cs, n), cs # << >>,
         NEW cs2, cs2 = Front(cs), NEW place, place = Last(cs).place
  PROVE  /\ Counted(cs2, IF place \in Inner THEN n ELSE n - 1)
         /\ place \notin Inner => n > 0
         /\ cs2 = << >> <=> place = "function"
<1>1. /\ IsSeq(cs2) /\ Len(cs) \in Nat \ {0} /\ Len(cs2) = Len(cs) - 1
      /\ \A k \in 1 .. Len(cs) - 1 : cs2[k] = cs[k]
  <2>1. IsSeq(cs) /\ cs2 = SubSeq(cs, 1, Len(cs) - 1)
    BY DEF Counted, Front
  <2> QED
    BY <2>1, FrontIsSeq
<1>2. cs2 = << >> <=> Len(cs) = 1
  <2>1. cs2 = << >> <=> Len(cs2) = 0
    BY <1>1 DEF IsSeq
  <2> QED
    BY <1>1, <2>1
<1>3. Len(cs) \in 1 .. Len(cs) /\ \A k \in 1 .. Len(cs) - 1 : k \in 1 .. Len(cs)
  BY <1>1
<1>4. place = cs[Len(cs)].place
  BY DEF Last
<1>5. /\ Cardinality(Open(cs)) = Cardinality(Open(cs2)) + (IF place \in Inner THEN 0 ELSE 1)
      /\ Cardinality(Open(cs2)) \in Nat
  <2>1. Longer(cs2, cs)
    BY <1>1 DEF Longer
  <2> QED
    BY <1>4, <2>1, OpenOneMore
<1>6. \A k \in 1 .. Len(cs2) : cs2[k].place = "function" <=> k = 1
  BY <1>1, <1>3 DEF Counted
<1>7. place = "function" <=> Len(cs) = 1
  BY <1>3, <1>4 DEF Counted
<1>8. n \in Nat /\ n = Cardinality(Open(cs))
  BY DEF Counted
<1> QED
  BY <1>1, <1>2, <1>5, <1>6, <1>7, <1>8 DEF Counted

\* A scope is entered, or left.
LEMMA EnterOK ==
  ASSUME NEW ss, ScopesOK(ss), NEW r, NEW o, InStep(r, o),
         NEW ss2, ss2 = Append(ss, [results |-> r, operators |-> o])
  PROVE  ScopesOK(ss2) /\ Len(ss2) = Len(ss) + 1
<1> DEFINE scope == [results |-> r, operators |-> o]
<1>1. scope.results = r /\ scope.operators = o
  OBVIOUS
<1> HIDE DEF scope
<1>2. /\ IsSeq(ss2) /\ Len(ss) \in Nat /\ Len(ss2) = Len(ss) + 1
      /\ \A k \in 1 .. Len(ss) : ss2[k] = ss[k]
      /\ ss2[Len(ss) + 1] = scope
  <2>1. IsSeq(ss)
    BY DEF ScopesOK
  <2> QED
    BY <2>1, AppendIsSeq DEF scope
<1>3. \A k \in 1 .. Len(ss2) : k \in 1 .. Len(ss) \/ k = Len(ss) + 1
  BY <1>2
<1> QED
  BY <1>1, <1>2, <1>3 DEF ScopesOK

LEMMA LeaveOK ==
  ASSUME NEW ss, ScopesOK(ss), Len(ss) > 0, NEW ss2, ss2 = Front(ss)
  PROVE  ScopesOK(ss2) /\ Len(ss2) = Len(ss) - 1 /\ InStep(Last(ss).results, Last(ss).operators)
<1>1. IsSeq(ss) /\ ss # << >> /\ ss2 = SubSeq(ss, 1, Len(ss) - 1)
  BY DEF ScopesOK, Front
<1>2. /\ IsSeq(ss2) /\ Len(ss) \in Nat \ {0} /\ Len(ss2) = Len(ss) - 1
      /\ \A k \in 1 .. Len(ss) - 1 : ss2[k] = ss[k]
  BY <1>1, FrontIsSeq
<1>3. Len(ss) \in 1 .. Len(ss) /\ \A k \in 1 .. Len(ss2) : k \in 1 .. Len(ss) /\ ss2[k] = ss[k]
  BY <1>2
<1> QED
  BY <1>2, <1>3 DEF ScopesOK, Last

LEMMA EmptyOK == IsSeq(<< >>) /\ InStep(<< >>, << >>) /\ ScopesOK(<< >>) /\ Counted(<< >>, 0)
<1>1. IsSeq(<< >>)
  <2>1. << >> \in Seq({0})
    OBVIOUS
  <2> QED
    BY <2>1, SeqIsSeq
<1>2. Cardinality(Open(<< >>)) = 0
  <2>1. Open(<< >>) = {}
    BY DEF Open
  <2> QED
    BY <2>1, FS_EmptySet
<1> QED
  BY <1>1, <1>2 DEF InStep, ScopesOK, Counted

\* An expression is made of the two operands on top.
LEMMA JoinOK ==
  ASSUME NEW r, NEW o, IsSeq(r), IsSeq(o), Len(r) = Len(o) + 1, o # << >>,
         NEW e
  PROVE  /\ IsSeq(Append(SubSeq(r, 1, Len(r) - 2), e)) /\ IsSeq(Front(o))
         /\ Len(Append(SubSeq(r, 1, Len(r) - 2), e)) = Len(Front(o)) + 1
<1>1. IsSeq(Front(o)) /\ Len(o) \in Nat \ {0} /\ Len(Front(o)) = Len(o) - 1
  <2>1. Front(o) = SubSeq(o, 1, Len(o) - 1)
    BY DEF Front
  <2> QED
    BY <2>1, FrontIsSeq
<1>2. IsSeq(SubSeq(r, 1, Len(r) - 2)) /\ Len(SubSeq(r, 1, Len(r) - 2)) = Len(r) - 2
  <2> DEFINE S == { r[k] : k \in DOMAIN r }
             n == Len(r) - 2
             front == SubSeq(r, 1, n)
  <2>1. r \in Seq(S)
    BY DEF IsSeq
  <2> HIDE DEF S
  <2>2. n \in Nat /\ Len(r) = n + 2
    BY <1>1
  <2>3. \A k \in 1 .. n : r[k] \in S
    BY <2>1, <2>2
  <2> HIDE DEF n
  <2>4. front \in Seq(S) /\ Len(front) = IF 1 <= n THEN n - 1 + 1 ELSE 0
    BY <2>2, <2>3, SubSeqProperties
  <2> HIDE DEF front
  <2>5. IsSeq(front)
    BY <2>4, SeqIsSeq
  <2>6. Len(front) = n
    BY <2>2, <2>4
  <2> QED
    BY <2>5, <2>6 DEF front, n
<1> DEFINE front == SubSeq(r, 1, Len(r) - 2)
<1>3. IsSeq(front) /\ Len(front) = Len(r) - 2
  BY <1>2
<1> HIDE DEF front
<1>4. IsSeq(Append(front, e)) /\ Len(Append(front, e)) = Len(r) - 2 + 1
  BY <1>3, AppendIsSeq
<1>5. Len(Append(front, e)) = Len(Front(o)) + 1
  BY <1>1, <1>4
<1> QED
  BY <1>1, <1>4, <1>5 DEF front

\* Where something waits there is a scope: the one parseFunction entered.
LEMMA SomeOpen == ASSUME NEW cs, NEW n, Counted(cs, n), cs # << >> PROVE n > 0
<1>1. IsSeq(cs) /\ n \in Nat /\ n = Cardinality(Open(cs))
  BY DEF Counted
<1>2. Len(cs) \in Nat /\ 1 \in 1 .. Len(cs)
  BY <1>1 DEF IsSeq
<1>3. 1 \in Open(cs)
  BY <1>2 DEF Counted, Open, Inner
<1>4. IsFiniteSet(Open(cs))
  <2>1. IsFiniteSet(1 .. Len(cs)) /\ Open(cs) \subseteq 1 .. Len(cs)
    BY <1>2, FS_Interval DEF Open
  <2> QED
    BY <2>1, FS_Subset
<1>5. Cardinality(Open(cs)) # 0
  BY <1>3, <1>4, FS_EmptySet
<1> QED
  BY <1>1, <1>5

-----------------------------------------------------------------------------
(* The steps of the parser, one kind after the other.                      *)

\* The ends of sequences are those of the instances, too.
LEMMA SameEnds ==
  ASSUME NEW s
  PROVE  P!Front(s) = Front(s) /\ P!Last(s) = Last(s) /\ P!SY!Front(s) = Front(s)
BY DEF P!Front, P!Last, P!SY!Front, Front, Last
LEMMA SameCardinality == ASSUME NEW S PROVE P!Cardinality(S) = Cardinality(S)
BY DEF P!Cardinality, Cardinality

\* parseBinaryExpression is called in a new scope: by parseFunction, or by
\* the beginning of an expression in parsePrimaryExpression.
LEMMA CallKeepsParserInv ==
  ASSUME ParserInv, NEW place, place \notin Inner, NEW node,
         \/ at = "function" /\ place = "function"
         \/ at = "primary" /\ place # "function",
         P!ParseBinary(callers, P!Activation(place, node)), P!enterNewScope
  PROVE  ParserInv'
<1>1. callers' = Append(callers, P!Activation(place, node)) /\ at' = "primary"
  BY DEF P!ParseBinary
<1>2. /\ scopes' = Append(scopes, [results |-> resultStack, operators |-> operatorStack])
      /\ resultStack' = << >> /\ operatorStack' = << >>
  BY DEF P!enterNewScope
<1>3. /\ Counted(callers, Len(scopes)) /\ ScopesOK(scopes)
      /\ InStep(resultStack, operatorStack)
      /\ callers = << >> <=> place = "function"
  BY DEF ParserInv, Stacks, Waiting
<1>4. ScopesOK(scopes') /\ Len(scopes') = Len(scopes) + 1
  BY <1>2, <1>3, EnterOK
<1>5. Counted(callers', Len(scopes) + 1) /\ callers' # << >>
  BY <1>1, <1>3, PushOK
<1>6. InStep(resultStack', operatorStack')
  BY <1>2, EmptyOK
<1> QED
  BY <1>1, <1>4, <1>5, <1>6 DEF ParserInv, Stacks, Waiting

LEMMA FunctionKeepsParserInv == ASSUME ParserInv, P!parseFunction PROVE ParserInv'
<1>1. at = "function" /\ P!enterNewScope
  BY DEF P!parseFunction
<1>2. PICK node : P!ParseBinary(<< >>, P!Activation("function", node))
  BY DEF P!parseFunction
<1>3. callers = << >>
  BY <1>1 DEF ParserInv, Waiting
<1> QED
  BY <1>1, <1>2, <1>3, CallKeepsParserInv DEF Inner

LEMMA OpensKeepsParserInv ==
  ASSUME ParserInv, NEW types, NEW place, place \notin Inner, place # "function", NEW node,
         P!Opens(types, place, node)
  PROVE  ParserInv'
BY CallKeepsParserInv DEF P!Opens

\* parsePrimaryExpression calls itself or parseParams, in the same scope.
LEMMA NestedKeepsParserInv ==
  ASSUME ParserInv, at = "primary", NEW place, place \in Inner, NEW node,
         P!Nested(place, node)
  PROVE  ParserInv'
<1>1. /\ callers' = Append(callers, P!Activation(place, node)) /\ at' = at
      /\ scopes' = scopes /\ resultStack' = resultStack /\ operatorStack' = operatorStack
  BY DEF P!Nested, P!stacks
<1>2. Counted(callers, Len(scopes)) /\ callers # << >> /\ place # "function"
  BY DEF ParserInv, Waiting, Inner
<1>3. Counted(callers', Len(scopes)) /\ callers' # << >>
  BY <1>1, <1>2, PushOK
<1> QED
  BY <1>1, <1>3 DEF ParserInv, Stacks, Waiting

LEMMA PrimaryKeepsParserInv ==
  ASSUME ParserInv,
         \/ P!PrimaryInteger \/ P!PrimaryIdentifier \/ P!PrimaryInvocation \/ P!PrimaryRecur
         \/ P!PrimaryUnary \/ P!PrimaryIf \/ P!PrimaryLet \/ P!PrimaryLoop \/ P!PrimaryParen
  PROVE  ParserInv'
<1>1. CASE P!PrimaryInteger \/ P!PrimaryIdentifier
  <2>1. /\ at = "primary" /\ at' = "returned" /\ callers' = callers
        /\ scopes' = scopes /\ resultStack' = resultStack /\ operatorStack' = operatorStack
    BY <1>1 DEF P!PrimaryInteger, P!PrimaryIdentifier, P!Enters, P!Leaf, P!stacks
  <2> QED
    BY <2>1 DEF ParserInv, Stacks, Waiting
<1>2. CASE P!PrimaryInvocation \/ P!PrimaryRecur \/ P!PrimaryUnary
  BY <1>2, NestedKeepsParserInv
     DEF P!PrimaryInvocation, P!PrimaryRecur, P!PrimaryUnary, P!Enters, Inner
<1>3. CASE P!PrimaryIf \/ P!PrimaryLet \/ P!PrimaryLoop \/ P!PrimaryParen
  BY <1>3, OpensKeepsParserInv DEF P!PrimaryIf, P!PrimaryLet, P!PrimaryLoop, P!PrimaryParen, Inner
<1> QED
  BY <1>1, <1>2, <1>3

\* parsePrimaryExpression returns to itself or to parseParams.
LEMMA ReturnKeepsParserInv ==
  ASSUME ParserInv, P!ReturnToUnary \/ P!ReturnToParams
  PROVE  ParserInv'
<1>1. /\ at = "returned" /\ Last(callers).place \in Inner
      /\ scopes' = scopes /\ resultStack' = resultStack /\ operatorStack' = operatorStack
  BY SameEnds DEF P!ReturnToUnary, P!ReturnToParams, P!ReturnsTo, P!Top, Inner, P!stacks
<1>2. Counted(callers, Len(scopes)) /\ callers # << >> /\ Last(callers).place # "function"
  BY <1>1 DEF ParserInv, Waiting, Inner
<1>3. Counted(Front(callers), Len(scopes)) /\ Front(callers) # << >>
  BY <1>1, <1>2, PopOK
<1>4. CASE callers' = P!Others /\ at' = at
  BY <1>1, <1>3, <1>4, SameEnds DEF ParserInv, Stacks, Waiting, P!Others
<1>5. ASSUME NEW node, callers' = Append(P!Others, P!Activation("params", node)),
             at' = "primary"
      PROVE  ParserInv'
  <2>1. Counted(callers', Len(scopes)) /\ callers' # << >>
    <3>1. callers' = Append(Front(callers), P!Activation("params", node))
      BY <1>5, SameEnds DEF P!Others
    <3> QED
      BY <1>3, <3>1, PushOK DEF Inner
  <2> QED
    BY <1>1, <1>5, <2>1 DEF ParserInv, Stacks, Waiting
<1> QED
  BY <1>4, <1>5 DEF P!ReturnToUnary, P!ReturnToParams

\* The loop of parseBinaryExpression.
LEMMA ShuntingKeepsParserInv ==
  ASSUME ParserInv, P!PushOperand \/ P!MakeExpression \/ P!PushOperator
  PROVE  ParserInv'
<1>1. CASE P!PushOperand
  <2>1. /\ at = "returned" /\ at' \in {"operator", "join"} /\ callers' = callers
        /\ scopes' = scopes /\ operatorStack' = operatorStack
        /\ resultStack' = Append(resultStack, ret.node)
    BY <1>1 DEF P!PushOperand
  <2>2. InStep(resultStack, operatorStack) /\ callers # << >>
    BY <2>1 DEF ParserInv, Stacks, Waiting
  <2>3. IsSeq(resultStack') /\ Len(resultStack') = Len(operatorStack) + 1
    BY <2>1, <2>2, AppendIsSeq DEF InStep
  <2> QED
    BY <2>1, <2>2, <2>3 DEF ParserInv, Stacks, Waiting, InStep
<1>2. CASE P!MakeExpression
  <2>1. /\ at \in {"operator", "join"} /\ at' = at /\ callers' = callers /\ scopes' = scopes
        /\ operatorStack # << >> /\ P!SY!createBinaryExpression
    BY <1>2 DEF P!MakeExpression, P!SY!MustWait
  <2>2. PICK e : resultStack' = Append(SubSeq(resultStack, 1, Len(resultStack) - 2), e)
    BY <2>1 DEF P!SY!createBinaryExpression
  <2>3. operatorStack' = Front(operatorStack)
    BY <2>1, SameEnds DEF P!SY!createBinaryExpression
  <2>4. /\ IsSeq(resultStack) /\ IsSeq(operatorStack)
        /\ Len(resultStack) = Len(operatorStack) + 1
    BY <2>1 DEF ParserInv, Stacks
  <2>5. /\ IsSeq(resultStack') /\ IsSeq(operatorStack')
        /\ Len(resultStack') = Len(operatorStack') + 1
    BY <2>1, <2>2, <2>3, <2>4, JoinOK
  <2> QED
    BY <2>1, <2>5 DEF ParserInv, Stacks, Waiting
<1>3. CASE P!PushOperator
  <2>1. /\ at = "operator" /\ at' = "primary" /\ callers' = callers /\ scopes' = scopes
        /\ operatorStack' = Append(operatorStack, P!peekNextToken)
        /\ resultStack' = resultStack
    BY <1>3 DEF P!PushOperator
  <2>2. /\ IsSeq(resultStack) /\ IsSeq(operatorStack)
        /\ Len(resultStack) = Len(operatorStack) + 1 /\ callers # << >>
    BY <2>1 DEF ParserInv, Stacks, Waiting
  <2>3. IsSeq(operatorStack') /\ Len(operatorStack') = Len(operatorStack) + 1
    BY <2>1, <2>2, AppendIsSeq
  <2> QED
    BY <2>1, <2>2, <2>3 DEF ParserInv, Stacks, Waiting, InStep
<1> QED
  BY <1>1, <1>2, <1>3

\* parseBinaryExpression returns to an activation that calls it again.
LEMMA AgainKeepsParserInv ==
  ASSUME ParserInv, at = "join", Last(callers).place \notin Inner \union {"function"},
         NEW node, NEW place, place \notin Inner \union {"function"}, P!Again(node, place)
  PROVE  ParserInv'
<1>1. /\ callers' = Append(Front(callers), P!Activation(place, node)) /\ at' = "primary"
      /\ scopes' = scopes /\ resultStack' = << >> /\ operatorStack' = << >>
  BY SameEnds DEF P!Again, P!ParseBinary, P!Others
<1>2. Counted(callers, Len(scopes)) /\ callers # << >>
  BY DEF ParserInv, Waiting
<1>3. /\ Counted(Front(callers), Len(scopes) - 1) /\ Len(scopes) > 0
      /\ Front(callers) # << >>
  BY <1>2, PopOK
<1>4. Counted(callers', Len(scopes) - 1 + 1) /\ callers' # << >>
  BY <1>1, <1>3, PushOK
<1>5. Len(scopes) - 1 + 1 = Len(scopes)
  BY <1>2 DEF Counted
<1>6. InStep(resultStack', operatorStack')
  BY <1>1, EmptyOK
<1> QED
  BY <1>1, <1>4, <1>5, <1>6 DEF ParserInv, Stacks, Waiting

\* The activation on top returns, and its scope is left.
LEMMA LeaveKeepsParserInv ==
  ASSUME ParserInv, at = "join", Last(callers).place \notin Inner,
         callers' = Front(callers), P!leaveScope,
         \/ at' = "returned" /\ Last(callers).place # "function"
         \/ at' \in {"function", "parsed"} /\ Last(callers).place = "function"
  PROVE  ParserInv'
<1>1. /\ scopes' = Front(scopes)
      /\ resultStack' = Last(scopes).results /\ operatorStack' = Last(scopes).operators
  BY SameEnds DEF P!leaveScope
<1>2. Counted(callers, Len(scopes)) /\ callers # << >> /\ ScopesOK(scopes)
  BY DEF ParserInv, Waiting
<1>3. /\ Counted(callers', Len(scopes) - 1) /\ Len(scopes) > 0
      /\ callers' = << >> <=> Last(callers).place = "function"
  BY <1>2, PopOK
<1>4. /\ ScopesOK(scopes') /\ Len(scopes') = Len(scopes) - 1
      /\ InStep(resultStack', operatorStack')
  BY <1>1, <1>2, <1>3, LeaveOK
<1> QED
  BY <1>3, <1>4 DEF ParserInv, Stacks, Waiting

LEMMA ResumeKeepsParserInv ==
  ASSUME ParserInv,
         P!ResumeIf \/ P!parseBindings \/ P!ResumeBody \/ P!ResumeParen \/ P!ResumeFunction
  PROVE  ParserInv'
<1>1. at = "join"
  BY DEF P!ResumeIf, P!parseBindings, P!ResumeBody, P!ResumeParen, P!ResumeFunction,
         P!Resumes, P!Returns
<1>2. ASSUME NEW place, place \notin Inner \union {"function"}, NEW types, NEW node, NEW next,
             next \notin Inner \union {"function"},
             P!Resumes(place, types), P!Again(node, next)
      PROVE  ParserInv'
  <2>1. Last(callers).place = place
    BY <1>2, SameEnds DEF P!Resumes, P!Top
  <2> QED
    BY <1>1, <1>2, <2>1, AgainKeepsParserInv
<1>3. ASSUME NEW place, place \notin Inner \union {"function"}, NEW types, NEW node, NEW paren,
             P!Resumes(place, types), P!PrimaryReturns(node, paren)
      PROVE  ParserInv'
  <2>1. /\ Last(callers).place = place
        /\ callers' = Front(callers) /\ at' = "returned" /\ P!leaveScope
    BY <1>3, SameEnds DEF P!Resumes, P!Top, P!PrimaryReturns, P!Others
  <2> QED
    BY <1>1, <1>3, <2>1, LeaveKeepsParserInv
<1>4. \A place \in {"if", "bindings", "body", "paren"} : place \notin Inner \union {"function"}
  BY DEF Inner
<1>5. CASE P!ResumeIf
  BY <1>2, <1>3, <1>4, <1>5 DEF P!ResumeIf
<1>6. CASE P!parseBindings
  BY <1>2, <1>4, <1>6 DEF P!parseBindings
<1>7. CASE P!ResumeBody
  BY <1>3, <1>4, <1>7 DEF P!ResumeBody
<1>8. CASE P!ResumeParen
  BY <1>3, <1>4, <1>8 DEF P!ResumeParen
<1>9. CASE P!ResumeFunction
  <2>1. /\ Last(callers).place = "function" /\ callers' = Front(callers)
        /\ at' \in {"function", "parsed"} /\ P!leaveScope
    BY <1>9, SameEnds DEF P!ResumeFunction, P!Resumes, P!Top, P!Others
  <2> QED
    BY <1>1, <2>1, LeaveKeepsParserInv DEF Inner
<1> QED
  BY <1>5, <1>6, <1>7, <1>8, <1>9

LEMMA TrapKeepsParserInv == ASSUME ParserInv, P!Trap PROVE ParserInv'
BY DEF P!Trap, P!stacks, ParserInv, Stacks, Waiting

\* Every step of the parser.
LEMMA ParserInvStep == ParserInv /\ [P!Next]_parser => ParserInv'
<1> SUFFICES ASSUME ParserInv, [P!Next]_parser PROVE ParserInv'
  OBVIOUS
<1>1. CASE P!Next
  BY <1>1, FunctionKeepsParserInv, PrimaryKeepsParserInv, ReturnKeepsParserInv,
     ShuntingKeepsParserInv, ResumeKeepsParserInv, TrapKeepsParserInv DEF P!Next
<1>2. CASE UNCHANGED parser
  BY <1>2 DEF parser, ParserInv, Stacks, Waiting
<1> QED
  BY <1>1, <1>2

\* And its beginning.
LEMMA ParserInvInit == P!parser_init => ParserInv
BY EmptyOK DEF P!parser_init, ParserInv, Stacks, Waiting

-----------------------------------------------------------------------------
\* The driver leaves the parser alone while it evaluates.
LEMMA ParserInvAlways == MainSpec => []ParserInv
<1>1. MainInit => ParserInv
  BY ParserInvInit DEF MainInit
<1>2. [MainNext]_mvars => [P!Next]_parser
  BY DEF MainNext, mvars, Parse, Refuse, EvalMain, Interpret, Exited
<1> QED
  BY <1>1, <1>2, ParserInvStep, PTL DEF MainSpec

(* Whatever the tokens and however deep the nesting, there is a scope for  *)
(* every parseBinaryExpression that is open, those that wait have as many  *)
(* operands as operators, and the innermost has one operand more in its    *)
(* loops (parser.swift:463-489).                                           *)
THEOREM StacksInStepAlways == MainSpec => []StacksInStep
<1>1. ParserInv => StacksInStep
  <2> SUFFICES ASSUME ParserInv PROVE P!StacksInStep
    BY DEF StacksInStep
  <2>1. Len(scopes) = Cardinality({ k \in 1 .. Len(callers) : callers[k].place \notin {"unary", "params"} })
    BY DEF ParserInv, Counted, Open, Inner
  <2>2. \A k \in 1 .. Len(scopes) : Len(scopes[k].results) = Len(scopes[k].operators)
    BY DEF ParserInv, ScopesOK, InStep
  <2>3. at \in {"primary", "returned"} => Len(resultStack) = Len(operatorStack)
    BY DEF ParserInv, Stacks, InStep
  <2>4. at \in {"operator", "join"} => Len(resultStack) = Len(operatorStack) + 1
    BY DEF ParserInv, Stacks
  <2> QED
    BY <2>1, <2>2, <2>3, <2>4, SameCardinality DEF P!StacksInStep
<1> QED
  BY <1>1, ParserInvAlways, PTL

(* None of the forced unwraps of parser.swift traps: whenever an           *)
(* expression is made there are two operands for its operator, and what    *)
(* parseBinaryExpression returns is the one operand that is left           *)
(* (parser.swift:463-489, 576-579); a scope is there to be left.           *)
PopsFindOperands ==
  /\ at \in {"operator", "join"} /\ operatorStack # << >> => Len(resultStack) >= 2
  /\ P!Returns => Len(resultStack) = 1
  /\ P!Returns => scopes # << >> /\ callers # << >>

THEOREM PopsFindOperandsAlways == MainSpec => []PopsFindOperands
<1>1. ParserInv => PopsFindOperands
  <2> SUFFICES ASSUME ParserInv PROVE PopsFindOperands
    OBVIOUS
  <2>1. at \in {"operator", "join"} =>
          /\ IsSeq(resultStack) /\ IsSeq(operatorStack)
          /\ Len(resultStack) = Len(operatorStack) + 1
    BY DEF ParserInv, Stacks
  <2>2. IsSeq(operatorStack) =>
          Len(operatorStack) \in Nat /\ (operatorStack = << >> <=> Len(operatorStack) = 0)
    BY DEF IsSeq
  <2>3. ASSUME P!Returns PROVE scopes # << >> /\ callers # << >>
    <3>1. at = "join" /\ callers # << >> /\ Counted(callers, Len(scopes))
      BY <2>3 DEF ParserInv, Waiting, P!Returns
    <3>2. Len(scopes) > 0
      BY <3>1, SomeOpen
    <3> QED
      BY <3>1, <3>2
  <2>4. at \in {"operator", "join"} /\ operatorStack # << >> => Len(resultStack) >= 2
    <3> SUFFICES ASSUME at \in {"operator", "join"}, operatorStack # << >>
                 PROVE  Len(resultStack) >= 2
      OBVIOUS
    <3>1. Len(resultStack) = Len(operatorStack) + 1 /\ Len(operatorStack) \in Nat \ {0}
      BY <2>1, <2>2
    <3> QED
      BY <3>1
  <2>5. P!Returns => Len(resultStack) = 1
    <3> SUFFICES ASSUME P!Returns PROVE Len(resultStack) = 1
      OBVIOUS
    <3>1. at = "join" /\ operatorStack = << >>
      BY DEF P!Returns
    <3>2. Len(resultStack) = Len(operatorStack) + 1 /\ Len(operatorStack) = 0
      BY <2>1, <3>1
    <3> QED
      BY <3>2
  <2> QED
    BY <2>3, <2>4, <2>5 DEF PopsFindOperands
<1> QED
  BY <1>1, ParserInvAlways, PTL

-----------------------------------------------------------------------------
(***************************************************************************)
(* The inductive invariant of the interpreter: types, how far each eval    *)
(* has come, and the sizes of the stacks of values.  The operators with a  *)
(* program for a parameter are those of SwiftInterp for that program.      *)
(***************************************************************************)
Frames       == [e : Exprs, i : Nat, vals : Seq(Word)]
Results      == {None} \union [k : {"result"}, value : Word, newValues : Seq(Word)]
Dictionaries == [Identifiers -> Seq(Word)]

FunctionIn(prog, f) ==
  LET fs == prog.functions IN
  fs[CHOOSE k \in 1 .. Len(fs) : fs[k].id = f /\ \A j \in k + 1 .. Len(fs) : fs[j].id # f]
ParametersIn(prog, f) ==
  IF f.e.t = "Fun" THEN SubSeq(f.e.names, 1, Len(prog.args)) ELSE FunctionIn(prog, f.e.id).names

Progress(prog, f) ==
  /\ f.e.t \in {"Let", "Loop"} => f.i <= Len(f.e.kids)
  /\ f.e.t = "Fun" => f.i <= 1
  /\ f.e.t = "Binary" /\ f.i = 2 => Len(f.vals) = 1
  /\ f.e.t = "Call" => f.i <= Len(f.e.kids) + 1
  /\ f.e.t = "Call" /\ f.i > 0 =>
       Defines(prog.functions, f.e.id) /\ Len(f.e.kids) = Len(FunctionIn(prog, f.e.id).names)
  /\ f.e.t = "Call" /\ f.i = 0 => f.vals = << >>
  /\ f.e.t = "Call" /\ f.i \in 1 .. Len(f.e.kids) => Len(f.vals) = f.i - 1

Control(prog, s, r) ==
  /\ \A k \in 1 .. Len(s) : Progress(prog, s[k])
  /\ \A k \in 1 .. Len(s) : s[k].e.t = "Fun" <=> k = 1
  /\ \A k \in 1 .. Len(s) - 1 : s[k].i > 0
  /\ Len(s) > 0 => (s[Len(s)].i = 0 <=> r = None)

\* The number of functions run by the first k frames of s; what a frame has
\* bound, and what the frames of the a-th function have.
Count1(b) == IF b THEN 1 ELSE 0
CountTo(s, k) == Cardinality({ j \in 1 .. k : RunsFunction(s[j]) })
BindsIn(prog, f, x) ==
  IF f.e.t \in {"Let", "Loop"} THEN { j \in Places(f.e.names, x) : j < f.i }
  ELSE IF RunsFunction(f) /\ Places(ParametersIn(prog, f), x) # {} THEN {0} ELSE {}
ForceIn(prog, s, a, x) ==
  UNION { {k} \X BindsIn(prog, s[k], x) : k \in {j \in 1 .. Len(s) : CountTo(s, j) = a} }

Balanced(prog, s, vs) ==
  /\ Len(vs) = CountTo(s, Len(s))
  /\ \A a \in 1 .. Len(vs), x \in Identifiers :
       Len(vs[a][x]) = Cardinality(ForceIn(prog, s, a, x))

Machine(prog, s, r, vs) ==
  /\ s \in Seq(Frames) /\ r \in Results /\ vs \in Seq(Dictionaries)
  /\ Control(prog, s, r)
  /\ Balanced(prog, s, vs)

\* What createSyntaxTree makes, with a main.
GoodProgram(prog) ==
  /\ prog.functions \in Seq(Definitions) /\ Defines(prog.functions, "main")
  /\ prog.args \in Seq(Word)

IInv ==
  /\ GoodProgram(program)
  /\ Machine(program, stack, res, variableStacks)
  /\ invocations \in 0 .. MaxInvocations /\ currentDepth = Len(variableStacks)
  /\ status \in {"running"} \union Stopped
  /\ result \in Word

-----------------------------------------------------------------------------
(* Sequences.                                                              *)

\* The first n elements.
LEMMA PrefixOf ==
  ASSUME NEW S, NEW s \in Seq(S), NEW n \in 0 .. Len(s)
  PROVE  /\ SubSeq(s, 1, n) \in Seq(S) /\ Len(SubSeq(s, 1, n)) = n
         /\ \A k \in 1 .. n : SubSeq(s, 1, n)[k] = s[k]
<1>1. Len(s) \in Nat /\ n \in Nat /\ n \in Int /\ 1 \in Int /\ \A k \in 1 .. n : k \in 1 .. Len(s)
  OBVIOUS
<1>2. \A k \in 1 .. n : s[k] \in S
  BY <1>1
<1>3. /\ SubSeq(s, 1, n) \in Seq(S)
      /\ Len(SubSeq(s, 1, n)) = IF 1 <= n THEN n - 1 + 1 ELSE 0
      /\ \A k \in 1 .. n - 1 + 1 : SubSeq(s, 1, n)[k] = s[1 + k - 1]
  BY <1>1, <1>2, SubSeqProperties
<1> QED
  BY <1>1, <1>3

\* All but the last one.
LEMMA FrontOf ==
  ASSUME NEW S, NEW s \in Seq(S), Len(s) > 0
  PROVE  /\ Front(s) \in Seq(S) /\ Len(Front(s)) = Len(s) - 1 /\ Len(s) \in Nat \ {0}
         /\ \A k \in 1 .. Len(s) - 1 : Front(s)[k] = s[k]
         /\ Last(s) = s[Len(s)] /\ Last(s) \in S
<1> DEFINE n == Len(s) - 1
<1>1. Len(s) \in Nat \ {0} /\ n \in 0 .. Len(s) /\ Last(s) = s[Len(s)] /\ Last(s) \in S
  BY DEF Last
<1>2. Front(s) = SubSeq(s, 1, n)
  BY DEF Front
<1> HIDE DEF n
<1>3. Front(s) \in Seq(S) /\ Len(Front(s)) = n /\ \A k \in 1 .. n : Front(s)[k] = s[k]
  BY <1>1, <1>2, PrefixOf
<1> QED
  BY <1>1, <1>3 DEF n

\* The last one replaced.
LEMMA UpdateOf ==
  ASSUME NEW S, NEW s \in Seq(S), Len(s) > 0, NEW e \in S
  PROVE  /\ Update(s, e) \in Seq(S) /\ Len(Update(s, e)) = Len(s)
         /\ Update(s, e)[Len(s)] = e
         /\ \A k \in 1 .. Len(s) - 1 : Update(s, e)[k] = s[k]
<1>1. /\ Front(s) \in Seq(S) /\ Len(Front(s)) = Len(s) - 1 /\ Len(s) \in Nat \ {0}
      /\ \A k \in 1 .. Len(s) - 1 : Front(s)[k] = s[k]
  BY FrontOf
<1> DEFINE t == Front(s)
<1> HIDE DEF t
<1>2. t \in Seq(S) /\ Len(t) = Len(s) - 1 /\ \A k \in 1 .. Len(s) - 1 : t[k] = s[k]
  BY <1>1 DEF t
<1>3. /\ Append(t, e) \in Seq(S) /\ Len(Append(t, e)) = Len(t) + 1 /\ Append(t, e)[Len(t) + 1] = e
      /\ \A k \in 1 .. Len(t) : Append(t, e)[k] = t[k]
  BY <1>2
<1>4. Len(t) + 1 = Len(s)
  BY <1>1, <1>2
<1>5. Update(s, e) = Append(t, e)
  BY DEF Update, t
<1> QED
  BY <1>2, <1>3, <1>4, <1>5

LEMMA MaxOf ==
  ASSUME NEW n \in Nat, NEW S, S \subseteq 1 .. n, S # {}
  PROVE  Max(S) \in S
<1>1. \E m \in S : \A k \in S : m >= k
  <2>1. S \subseteq 0 .. n
    OBVIOUS
  <2> QED
    BY <2>1, Greatest
<1> QED
  BY <1>1 DEF Max

-----------------------------------------------------------------------------
(* Frames and what they bind.                                              *)

\* What a frame holds.
LEMMA FrameType ==
  ASSUME NEW f \in Frames
  PROVE  /\ f.e \in Exprs /\ WellFormed(f.e) /\ f.i \in Nat /\ f.vals \in Seq(Word)
         /\ f.e.names \in Seq(Identifiers) /\ f.e.kids \in Seq(Exprs)
         /\ Len(f.e.names) \in Nat /\ Len(f.e.kids) \in Nat
<1>1. f.e \in Exprs /\ WellFormed(f.e)
  BY ExprsAssumption DEF Frames
<1>2. f.e.names \in Seq(Identifiers) /\ f.e.kids \in Seq(Exprs)
  BY <1>1 DEF WellFormed
<1> QED
  BY <1>1, <1>2 DEF Frames

\* The places of a name are finitely many.
LEMMA PlacesFinite ==
  ASSUME NEW names, Len(names) \in Nat, NEW x
  PROVE  IsFiniteSet(Places(names, x)) /\ Cardinality(Places(names, x)) \in Nat
<1>1. IsFiniteSet(1 .. Len(names)) /\ Places(names, x) \subseteq 1 .. Len(names)
  BY FS_Interval DEF Places
<1>2. IsFiniteSet(Places(names, x))
  BY <1>1, FS_Subset
<1> QED
  BY <1>2, FS_CardinalityType

Own(prog, f, x) == Cardinality(BindsIn(prog, f, x))
OwnAt(prog, f, x, a, k) == IF a = k THEN Own(prog, f, x) ELSE 0

LEMMA BindsFinite ==
  ASSUME NEW prog, NEW f \in Frames, NEW x
  PROVE  IsFiniteSet(BindsIn(prog, f, x)) /\ Own(prog, f, x) \in Nat
<1>1. IsFiniteSet(Places(f.e.names, x))
  BY FrameType, PlacesFinite
<1>2. IsFiniteSet({0}) /\ IsFiniteSet({})
  BY FS_Singleton, FS_EmptySet
<1>3. { j \in Places(f.e.names, x) : j < f.i } \subseteq Places(f.e.names, x)
  OBVIOUS
<1>4. IsFiniteSet({ j \in Places(f.e.names, x) : j < f.i })
  BY <1>1, <1>3, FS_Subset
<1>5. IsFiniteSet(BindsIn(prog, f, x))
  BY <1>2, <1>4 DEF BindsIn
<1> QED
  BY <1>5, FS_CardinalityType DEF Own

\* t is s with the frame g on top.
Above(s, g, t) ==
  /\ Len(s) \in Nat /\ Len(t) = Len(s) + 1 /\ t[Len(t)] = g
  /\ \A k \in 1 .. Len(s) : t[k] = s[k]

\* The frames under the last one run as many functions with it as without it.
LEMMA CountAbove ==
  ASSUME NEW s, NEW g, NEW t, Above(s, g, t)
  PROVE  /\ \A k \in 0 .. Len(s) : /\ CountTo(t, k) = CountTo(s, k) /\ CountTo(s, k) \in Nat
                                   /\ CountTo(s, k) <= CountTo(s, Len(s))
         /\ CountTo(t, Len(t)) = CountTo(s, Len(s)) + Count1(RunsFunction(g))
<1> DEFINE n == Len(s)
           Run(r, k) == { j \in 1 .. k : RunsFunction(r[j]) }
<1>1. n \in Nat /\ Len(t) = n + 1 /\ t[n + 1] = g /\ \A k \in 1 .. n : t[k] = s[k]
  BY DEF Above
<1>2. ASSUME NEW k \in 0 .. n
      PROVE  /\ IsFiniteSet(Run(s, k)) /\ Cardinality(Run(s, k)) \in Nat
             /\ Run(t, k) = Run(s, k)
             /\ Cardinality(Run(s, k)) <= Cardinality(Run(s, n))
  <2>1. \A j \in 1 .. k : j \in 1 .. n
    BY <1>1
  <2>2. Run(s, n) \subseteq 1 .. n /\ Run(s, k) \subseteq Run(s, n)
    BY <2>1
  <2>0. IsFiniteSet(1 .. n)
    BY <1>1, FS_Interval
  <2>3. IsFiniteSet(Run(s, n))
    BY <2>0, <2>2, FS_Subset
  <2>4. IsFiniteSet(Run(s, k)) /\ Cardinality(Run(s, k)) <= Cardinality(Run(s, n))
    BY <2>2, <2>3, FS_Subset
  <2>5. Run(t, k) = Run(s, k)
    BY <1>1, <2>1
  <2> QED
    BY <2>4, <2>5, FS_CardinalityType
<1>3. Cardinality(Run(t, n + 1)) = Cardinality(Run(s, n)) + Count1(RunsFunction(g))
  <2>1. /\ \A k \in 1 .. n + 1 : k \in 1 .. n \/ k = n + 1
        /\ n + 1 \in 1 .. n + 1 /\ n + 1 \notin 1 .. n /\ n \in 0 .. n
        /\ \A k \in 1 .. n : k \in 1 .. n + 1
    BY <1>1
  <2>2. IsFiniteSet(Run(s, n)) /\ n + 1 \notin Run(s, n) /\ Cardinality(Run(s, n)) \in Nat
    BY <1>2, <2>1
  <2>3. CASE RunsFunction(g)
    <3>1. Run(t, n + 1) = Run(s, n) \union {n + 1}
      BY <1>1, <2>1, <2>3
    <3> QED
      BY <2>2, <2>3, <3>1, FS_AddElement DEF Count1
  <2>4. CASE ~ RunsFunction(g)
    <3>1. Run(t, n + 1) = Run(s, n)
      BY <1>1, <2>1, <2>4
    <3> HIDE DEF Run
    <3>2. Cardinality(Run(t, n + 1)) = Cardinality(Run(s, n)) + 0
      BY <2>2, <3>1
    <3> QED
      BY <2>4, <3>2 DEF Count1
  <2> QED
    BY <2>3, <2>4
<1> QED
  BY <1>1, <1>2, <1>3 DEF CountTo

\* And its bindings are those of the function it is in.
LEMMA ForceAbove ==
  ASSUME NEW prog, NEW s \in Seq(Frames), NEW g \in Frames, NEW t, Above(s, g, t), NEW a, NEW x
  PROVE  /\ Cardinality(ForceIn(prog, s, a, x)) \in Nat
         /\ Cardinality(ForceIn(prog, t, a, x)) =
              Cardinality(ForceIn(prog, s, a, x)) + OwnAt(prog, g, x, a, CountTo(t, Len(t)))
<1> DEFINE n == Len(s)
           In(r, m) == { j \in 1 .. m : CountTo(r, j) = a }
           B == BindsIn(prog, g, x)
<1>1. n \in Nat /\ Len(t) = n + 1 /\ t[n + 1] = g /\ \A k \in 1 .. n : t[k] = s[k]
  BY DEF Above
<1>2. \A k \in 1 .. n : CountTo(t, k) = CountTo(s, k)
  BY <1>1, CountAbove
<1>3. IsFiniteSet(ForceIn(prog, s, a, x)) /\ Cardinality(ForceIn(prog, s, a, x)) \in Nat
  <2> DEFINE Pair(k) == {k} \X BindsIn(prog, s[k], x)
             Pairs == { Pair(k) : k \in In(s, n) }
             f == [k \in In(s, n) |-> Pair(k)]
  <2>1. \A k \in In(s, n) : IsFiniteSet(Pair(k))
    <3>1. ASSUME NEW k \in In(s, n) PROVE IsFiniteSet(Pair(k))
      <4>1. s[k] \in Frames
        BY <1>1
      <4>2. IsFiniteSet({k}) /\ IsFiniteSet(BindsIn(prog, s[k], x))
        BY <4>1, FS_Singleton, BindsFinite
      <4> QED
        BY <4>2, FS_Product
    <3> QED
      BY <3>1
  <2>2. IsFiniteSet(In(s, n))
    <3>1. IsFiniteSet(1 .. n) /\ In(s, n) \subseteq 1 .. n
      BY <1>1, FS_Interval
    <3> QED
      BY <3>1, FS_Subset
  <2>3. IsFiniteSet(Pairs)
    <3> HIDE DEF In, Pair
    <3>1. f \in Surjection(In(s, n), Pairs)
      BY DEF Surjection
    <3> QED
      BY <2>2, <3>1, FS_Surjection
  <2>4. IsFiniteSet(UNION Pairs)
    <3> HIDE DEF In, Pair
    <3>1. \A T \in Pairs : IsFiniteSet(T)
      BY <2>1
    <3> HIDE DEF Pairs
    <3> QED
      BY <2>3, <3>1, FS_UNION
  <2>5. UNION Pairs = ForceIn(prog, s, a, x)
    BY DEF ForceIn
  <2> QED
    BY <2>4, <2>5, FS_CardinalityType
<1>4. /\ \A k \in 1 .. n + 1 : k \in 1 .. n \/ k = n + 1
      /\ n + 1 \in 1 .. n + 1 /\ n + 1 \notin 1 .. n
      /\ \A k \in 1 .. n : k \in 1 .. n + 1
  BY <1>1
<1>5. CASE a # CountTo(t, Len(t))
  <2>1. In(t, n + 1) = In(s, n)
    BY <1>1, <1>2, <1>4, <1>5
  <2>2. ForceIn(prog, t, a, x) = ForceIn(prog, s, a, x)
    BY <1>1, <2>1 DEF ForceIn
  <2> QED
    BY <1>3, <1>5, <2>2 DEF OwnAt
<1>6. CASE a = CountTo(t, Len(t))
  <2> DEFINE F == ForceIn(prog, s, a, x)
             G == {n + 1} \X B
  <2>1. In(t, n + 1) = In(s, n) \union {n + 1}
    BY <1>1, <1>2, <1>4, <1>6
  <2>2. ForceIn(prog, t, a, x) = F \union G
    <3>1. { {k} \X BindsIn(prog, t[k], x) : k \in In(t, n + 1) } =
            { {k} \X BindsIn(prog, s[k], x) : k \in In(s, n) } \union { G }
      BY <1>1, <2>1
    <3> QED
      BY <1>1, <3>1 DEF ForceIn
  <2>3. F \intersect G = {}
    <3>1. \A p \in F : p[1] \in 1 .. n
      BY DEF ForceIn
    <3>2. \A p \in G : p[1] = n + 1
      OBVIOUS
    <3> HIDE DEF F, G
    <3> QED
      BY <1>4, <3>1, <3>2
  <2>4. IsFiniteSet(G) /\ Cardinality(G) = Own(prog, g, x)
    <3>1. IsFiniteSet({n + 1}) /\ Cardinality({n + 1}) = 1
      BY FS_Singleton
    <3>2. IsFiniteSet(B) /\ Own(prog, g, x) \in Nat /\ Cardinality(B) = Own(prog, g, x)
      BY BindsFinite DEF Own
    <3> QED
      BY <3>1, <3>2, FS_Product
  <2>5. Cardinality(F \union G) = Cardinality(F) + Cardinality(G) - Cardinality(F \intersect G)
    BY <1>3, <2>4, FS_Union
  <2>6. Cardinality(F \intersect G) = 0
    BY <2>3, FS_EmptySet
  <2>7. Own(prog, g, x) \in Nat
    BY BindsFinite
  <2> HIDE DEF F, G
  <2>8. Cardinality(F \union G) = Cardinality(F) + Own(prog, g, x)
    BY <1>3, <2>4, <2>5, <2>6, <2>7 DEF F
  <2> QED
    BY <1>3, <1>6, <2>2, <2>8 DEF F, OwnAt
<1> QED
  BY <1>3, <1>5, <1>6

-----------------------------------------------------------------------------
(* Values and bindings stay in step.                                       *)

\* vs2 has for the frame g what vs has without it.
Grows(prog, g, vs, vs2) ==
  /\ Len(vs2) = Len(vs) + Count1(RunsFunction(g))
  /\ \A a \in 1 .. Len(vs), x \in Identifiers :
       Len(vs2[a][x]) = Len(vs[a][x]) + OwnAt(prog, g, x, a, Len(vs2))
  /\ RunsFunction(g) => \A x \in Identifiers : Len(vs2[Len(vs2)][x]) = Own(prog, g, x)

LEMMA SizesType ==
  ASSUME NEW vs \in Seq(Dictionaries)
  PROVE  /\ Len(vs) \in Nat
         /\ \A a \in 1 .. Len(vs), x \in Identifiers :
              vs[a][x] \in Seq(Word) /\ Len(vs[a][x]) \in Nat
<1>1. \A a \in 1 .. Len(vs) : vs[a] \in Dictionaries
  OBVIOUS
<1> QED
  BY <1>1 DEF Dictionaries

\* A frame that is put on top.
LEMMA AddBalanced ==
  ASSUME NEW prog, NEW s \in Seq(Frames), NEW g \in Frames, NEW t, Above(s, g, t),
         NEW vs \in Seq(Dictionaries), NEW vs2 \in Seq(Dictionaries),
         Balanced(prog, s, vs), Grows(prog, g, vs, vs2)
  PROVE  Balanced(prog, t, vs2)
<1> DEFINE n == CountTo(s, Len(s))
<1>1. Len(vs) = n /\ n \in Nat /\ Len(s) \in Nat
  BY SizesType DEF Balanced
<1>2. CountTo(t, Len(t)) = n + Count1(RunsFunction(g))
  BY CountAbove
<1>3. Len(vs2) = CountTo(t, Len(t))
  BY <1>1, <1>2 DEF Grows
<1>4. ASSUME NEW a \in 1 .. Len(vs2), NEW x \in Identifiers
      PROVE  Len(vs2[a][x]) = Cardinality(ForceIn(prog, t, a, x))
  <2> DEFINE z == Cardinality(ForceIn(prog, s, a, x))
  <2>1. /\ z \in Nat
        /\ Cardinality(ForceIn(prog, t, a, x)) = z + OwnAt(prog, g, x, a, Len(vs2))
    BY <1>3, ForceAbove
  <2>2. CASE a \in 1 .. Len(vs)
    BY <2>1, <2>2 DEF Balanced, Grows
  <2>3. CASE a \notin 1 .. Len(vs)
    <3>1. RunsFunction(g) /\ a = n + 1 /\ a = Len(vs2)
      BY <1>1, <1>2, <1>3, <2>3 DEF Count1
    <3>2. z = 0
      <4>1. \A j \in 1 .. Len(s) : j \in 0 .. Len(s)
        OBVIOUS
      <4>2. \A j \in 1 .. Len(s) : CountTo(s, j) \in Nat /\ CountTo(s, j) <= n
        BY <4>1, CountAbove
      <4>3. \A j \in 1 .. Len(s) : CountTo(s, j) # a
        BY <1>1, <3>1, <4>2
      <4>4. ForceIn(prog, s, a, x) = {}
        BY <4>3 DEF ForceIn
      <4> QED
        BY <4>4, FS_EmptySet
    <3>3. Own(prog, g, x) \in Nat
      BY BindsFinite
    <3>4. OwnAt(prog, g, x, a, Len(vs2)) = Own(prog, g, x)
      BY <3>1 DEF OwnAt
    <3>5. Len(vs2[a][x]) = Own(prog, g, x)
      BY <3>1 DEF Grows
    <3> HIDE DEF z
    <3> QED
      BY <2>1, <3>2, <3>3, <3>4, <3>5
  <2> QED
    BY <2>2, <2>3
<1> QED
  BY <1>3, <1>4 DEF Balanced

\* A frame that is taken away.
LEMMA RemoveBalanced ==
  ASSUME NEW prog, NEW s \in Seq(Frames), NEW g \in Frames, NEW t, Above(s, g, t),
         NEW vs \in Seq(Dictionaries), NEW vs2 \in Seq(Dictionaries),
         Balanced(prog, t, vs2), Grows(prog, g, vs, vs2)
  PROVE  Balanced(prog, s, vs)
<1> DEFINE n == CountTo(s, Len(s))
<1>1. Len(vs) \in Nat /\ n \in Nat /\ Len(s) \in Nat
  <2>1. Len(s) \in Nat /\ Len(s) \in 0 .. Len(s)
    OBVIOUS
  <2> QED
    BY <2>1, SizesType, CountAbove
<1>2. CountTo(t, Len(t)) = n + Count1(RunsFunction(g))
  BY CountAbove
<1>3. Len(vs2) = CountTo(t, Len(t)) /\ Len(vs2) = Len(vs) + Count1(RunsFunction(g))
  BY DEF Balanced, Grows
<1>4. Len(vs) = n
  BY <1>1, <1>2, <1>3 DEF Count1
<1>5. ASSUME NEW a \in 1 .. Len(vs), NEW x \in Identifiers
      PROVE  Len(vs[a][x]) = Cardinality(ForceIn(prog, s, a, x))
  <2> DEFINE z == Cardinality(ForceIn(prog, s, a, x))
             d == OwnAt(prog, g, x, a, Len(vs2))
  <2>1. z \in Nat /\ Cardinality(ForceIn(prog, t, a, x)) = z + d
    <3>1. /\ z \in Nat
          /\ Cardinality(ForceIn(prog, t, a, x)) = z + OwnAt(prog, g, x, a, CountTo(t, Len(t)))
      BY ForceAbove
    <3> HIDE DEF z
    <3> QED
      BY <1>3, <3>1
  <2>2. a \in 1 .. Len(vs2)
    BY <1>1, <1>3 DEF Count1
  <2>3. Len(vs2[a][x]) = z + d
    BY <2>1, <2>2 DEF Balanced
  <2>4. Len(vs2[a][x]) = Len(vs[a][x]) + d
    BY DEF Grows
  <2>5. Len(vs[a][x]) \in Nat /\ Own(prog, g, x) \in Nat
    BY SizesType, BindsFinite
  <2>6. d \in Nat
    BY <2>5 DEF OwnAt
  <2> HIDE DEF z, d
  <2>7. Len(vs[a][x]) = z
    BY <2>1, <2>3, <2>4, <2>5, <2>6
  <2> QED
    BY <2>7 DEF z
<1> QED
  BY <1>4, <1>5 DEF Balanced

\* A frame that has bound more, or nothing more, than before.
Regrows(prog, f, g, vs, vs2) ==
  /\ RunsFunction(g) <=> RunsFunction(f)
  /\ Len(vs2) = Len(vs)
  /\ \A a \in 1 .. Len(vs) - 1, x \in Identifiers : Len(vs2[a][x]) = Len(vs[a][x])
  /\ Len(vs) > 0 =>
       \A x \in Identifiers :
         Len(vs2[Len(vs)][x]) + Own(prog, f, x) = Len(vs[Len(vs)][x]) + Own(prog, g, x)

LEMMA ChangeBalanced ==
  ASSUME NEW prog, NEW s \in Seq(Frames), NEW f \in Frames, NEW g \in Frames,
         NEW t, Above(s, f, t), NEW u, Above(s, g, u),
         NEW vs \in Seq(Dictionaries), NEW vs2 \in Seq(Dictionaries),
         Balanced(prog, t, vs), Regrows(prog, f, g, vs, vs2)
  PROVE  Balanced(prog, u, vs2)
<1>1. Len(vs) \in Nat /\ Len(vs2) = Len(vs) /\ Len(vs) = CountTo(t, Len(t))
  BY SizesType DEF Balanced, Regrows
<1>2. CountTo(u, Len(u)) = CountTo(t, Len(t))
  <2>1. CountTo(t, Len(t)) = CountTo(s, Len(s)) + Count1(RunsFunction(f))
    BY CountAbove
  <2>2. CountTo(u, Len(u)) = CountTo(s, Len(s)) + Count1(RunsFunction(g))
    BY CountAbove
  <2>3. Count1(RunsFunction(f)) = Count1(RunsFunction(g))
    BY DEF Regrows, Count1
  <2> QED
    BY <2>1, <2>2, <2>3
<1>3. ASSUME NEW a \in 1 .. Len(vs2), NEW x \in Identifiers
      PROVE  Len(vs2[a][x]) = Cardinality(ForceIn(prog, u, a, x))
  <2> DEFINE z == Cardinality(ForceIn(prog, s, a, x))
  <2>1. /\ z \in Nat
        /\ Cardinality(ForceIn(prog, t, a, x)) = z + OwnAt(prog, f, x, a, Len(vs))
        /\ Cardinality(ForceIn(prog, u, a, x)) = z + OwnAt(prog, g, x, a, Len(vs))
    BY <1>1, <1>2, ForceAbove
  <2>2. Len(vs[a][x]) = z + OwnAt(prog, f, x, a, Len(vs))
    BY <1>1, <2>1 DEF Balanced
  <2>3. /\ Own(prog, f, x) \in Nat /\ Own(prog, g, x) \in Nat
        /\ Len(vs[a][x]) \in Nat /\ Len(vs2[a][x]) \in Nat
    BY <1>1, BindsFinite, SizesType
  <2> HIDE DEF z
  <2>4. CASE a = Len(vs)
    <3>1. Len(vs2[a][x]) + Own(prog, f, x) = Len(vs[a][x]) + Own(prog, g, x)
      BY <1>1, <2>4 DEF Regrows
    <3>2. /\ OwnAt(prog, f, x, a, Len(vs)) = Own(prog, f, x)
          /\ OwnAt(prog, g, x, a, Len(vs)) = Own(prog, g, x)
      BY <2>4 DEF OwnAt
    <3>3. /\ Len(vs[a][x]) = z + Own(prog, f, x)
          /\ Cardinality(ForceIn(prog, u, a, x)) = z + Own(prog, g, x)
      BY <2>1, <2>2, <3>2
    <3> DEFINE o == Own(prog, f, x)
               o2 == Own(prog, g, x)
               l == Len(vs[a][x])
               l2 == Len(vs2[a][x])
    <3>4. l2 = z + o2
      <4>1. /\ z \in Nat /\ o \in Nat /\ o2 \in Nat /\ l \in Nat /\ l2 \in Nat
            /\ l = z + o /\ l2 + o = l + o2
        BY <2>1, <2>3, <3>1, <3>3
      <4> HIDE DEF o, o2, l, l2
      <4> QED
        BY <4>1
    <3> QED
      BY <3>3, <3>4
  <2>5. CASE a # Len(vs)
    <3>1. a \in 1 .. Len(vs) - 1
      BY <1>1, <2>5
    <3>2. Len(vs2[a][x]) = Len(vs[a][x])
      BY <3>1 DEF Regrows
    <3> QED
      BY <2>1, <2>2, <2>3, <2>5, <3>2 DEF OwnAt
  <2> QED
    BY <2>4, <2>5
<1> QED
  BY <1>1, <1>2, <1>3 DEF Balanced

\* A frame that binds nothing now.
Quiet(prog, f) == ~RunsFunction(f) /\ \A x \in Identifiers : Own(prog, f, x) = 0

LEMMA QuietFrames ==
  ASSUME NEW prog, NEW f \in Frames,
         f.e.t \in {"Let", "Loop"} => f.i <= 1,
         f.e.t = "Fun" => f.i = 0,
         f.e.t = "Call" => f.i <= Len(f.e.kids)
  PROVE  Quiet(prog, f)
<1>1. f.i \in Nat /\ Len(f.e.kids) \in Nat /\ Len(f.e.names) \in Nat
  BY FrameType
<1>2. ~RunsFunction(f)
  BY <1>1 DEF RunsFunction
<1>3. ASSUME NEW x PROVE BindsIn(prog, f, x) = {}
  <2>1. CASE f.e.t \in {"Let", "Loop"}
    <3>1. { j \in Places(f.e.names, x) : j < f.i } = {}
      BY <1>1, <2>1 DEF Places
    <3> QED
      BY <2>1, <3>1 DEF BindsIn
  <2>2. CASE f.e.t \notin {"Let", "Loop"}
    BY <1>2, <2>2 DEF BindsIn
  <2> QED
    BY <2>1, <2>2
<1>4. \A x : Own(prog, f, x) = 0
  BY <1>3, FS_EmptySet DEF Own
<1> QED
  BY <1>2, <1>4 DEF Quiet

\* A frame that has just been made.
LEMMA NewFrame ==
  ASSUME NEW prog, NEW e \in Exprs
  PROVE  /\ Frame(e) \in Frames /\ Frame(e).e = e /\ Frame(e).i = 0 /\ Frame(e).vals = << >>
         /\ Quiet(prog, Frame(e)) /\ Progress(prog, Frame(e))
<1>1. << >> \in Seq(Word) /\ 0 \in Nat
  OBVIOUS
<1>2. Frame(e) \in Frames /\ Frame(e).e = e /\ Frame(e).i = 0 /\ Frame(e).vals = << >>
  BY <1>1 DEF Frame, Frames
<1> HIDE DEF Frame
<1>3. Len(e.kids) \in Nat
  BY <1>2, FrameType
<1>4. Progress(prog, Frame(e))
  BY <1>2, <1>3 DEF Progress
<1> QED
  BY <1>2, <1>3, <1>4, QuietFrames

LEMMA QuietGrows ==
  ASSUME NEW prog, NEW g \in Frames, Quiet(prog, g), NEW vs \in Seq(Dictionaries)
  PROVE  Grows(prog, g, vs, vs)
<1>1. \A a \in 1 .. Len(vs), x \in Identifiers :
        Len(vs[a][x]) \in Nat /\ OwnAt(prog, g, x, a, Len(vs)) = 0
  BY SizesType DEF Quiet, OwnAt
<1>2. Len(vs) \in Nat /\ Count1(RunsFunction(g)) = 0 /\ ~RunsFunction(g)
  BY SizesType DEF Quiet, Count1
<1> QED
  BY <1>1, <1>2 DEF Grows

\* A stack, its last frame and those under it.
LEMMA TopOfStack ==
  ASSUME NEW s \in Seq(Frames), Len(s) > 0
  PROVE  /\ Front(s) \in Seq(Frames) /\ Last(s) \in Frames /\ Last(s) = s[Len(s)]
         /\ Len(s) \in Nat \ {0} /\ Len(Front(s)) = Len(s) - 1
         /\ Above(Front(s), Last(s), s)
<1>1. /\ Front(s) \in Seq(Frames) /\ Len(Front(s)) = Len(s) - 1 /\ Len(s) \in Nat \ {0}
      /\ \A k \in 1 .. Len(s) - 1 : Front(s)[k] = s[k]
      /\ Last(s) = s[Len(s)] /\ Last(s) \in Frames
  BY FrontOf
<1> QED
  BY <1>1 DEF Above

LEMMA OnTop ==
  ASSUME NEW s \in Seq(Frames), NEW g \in Frames
  PROVE  Append(s, g) \in Seq(Frames) /\ Above(s, g, Append(s, g))
BY DEF Above

LEMMA TwoOnTop ==
  ASSUME NEW s \in Seq(Frames), NEW g \in Frames, NEW h \in Frames
  PROVE  s \o << g, h >> = Append(Append(s, g), h)
<1>1. Append(Append(s, g), h) \in Seq(Frames) /\ s \o << g, h >> \in Seq(Frames)
  OBVIOUS
<1>2. Len(s \o << g, h >>) = Len(Append(Append(s, g), h))
  OBVIOUS
<1>3. ASSUME NEW k \in 1 .. Len(s) + 2
      PROVE  (s \o << g, h >>)[k] = Append(Append(s, g), h)[k]
  OBVIOUS
<1>4. Len(s \o << g, h >>) = Len(s) + 2
  OBVIOUS
<1> QED
  BY <1>1, <1>2, <1>3, <1>4, SeqEqual

-----------------------------------------------------------------------------
(* Steps of the machine: a frame goes on to its next operand, or returns.  *)

LEMMA PushMachine ==
  ASSUME NEW prog, NEW s, NEW r, NEW vs, Machine(prog, s, r, vs), Len(s) > 0,
         NEW g \in Frames, g.e = Last(s).e, g.i > 0, Progress(prog, g),
         NEW e \in Exprs, e.t # "Fun",
         NEW vs2 \in Seq(Dictionaries), Balanced(prog, Append(Front(s), g), vs2)
  PROVE  Machine(prog, Front(s) \o << g, Frame(e) >>, None, vs2)
<1> DEFINE n == Len(s)
           t == Append(Front(s), g)
           u == Front(s) \o << g, Frame(e) >>
<1>1. s \in Seq(Frames) /\ Control(prog, s, r)
  BY DEF Machine
<1>2. /\ n \in Nat \ {0} /\ Front(s) \in Seq(Frames) /\ Len(Front(s)) = n - 1
      /\ Last(s) = s[n] /\ Above(Front(s), Last(s), s)
  BY <1>1, TopOfStack
<1>3. /\ Frame(e) \in Frames /\ Frame(e).e = e /\ Frame(e).i = 0
      /\ Quiet(prog, Frame(e)) /\ Progress(prog, Frame(e))
  BY NewFrame
<1>4. t \in Seq(Frames) /\ Above(Front(s), g, t)
  BY <1>2, OnTop
<1>5. u = Append(t, Frame(e))
  BY <1>2, <1>3, TwoOnTop
<1> HIDE DEF u, t
<1>6. u \in Seq(Frames) /\ Above(t, Frame(e), u)
  BY <1>3, <1>4, <1>5, OnTop
<1>7. Balanced(prog, u, vs2)
  <2>1. Balanced(prog, t, vs2)
    BY DEF t
  <2> QED
    BY <1>3, <1>4, <1>6, <2>1, QuietGrows, AddBalanced
<1>8. Control(prog, u, None)
  <2>1. /\ Len(u) = n + 1 /\ u[n + 1] = Frame(e) /\ u[n] = g
        /\ \A k \in 1 .. n - 1 : u[k] = s[k]
    <3>1. /\ Len(t) = n /\ t[n] = g /\ \A k \in 1 .. n - 1 : t[k] = Front(s)[k]
          /\ \A k \in 1 .. n - 1 : s[k] = Front(s)[k]
      BY <1>2, <1>4 DEF Above
    <3>2. Len(u) = n + 1 /\ u[n + 1] = Frame(e) /\ \A k \in 1 .. n : u[k] = t[k]
      BY <1>2, <1>6, <3>1 DEF Above
    <3>3. n \in 1 .. n /\ \A k \in 1 .. n - 1 : k \in 1 .. n
      BY <1>2
    <3> QED
      BY <3>1, <3>2, <3>3
  <2>2. \A k \in 1 .. n + 1 : k \in 1 .. n - 1 \/ k = n \/ k = n + 1
    BY <1>2
  <2>3. \A k \in 1 .. n - 1 : k \in 1 .. n /\ k # n + 1
    BY <1>2
  <2>4. n \in 1 .. n /\ n + 1 # 1 /\ n # n + 1
    BY <1>2
  <2>5. /\ \A k \in 1 .. n : Progress(prog, s[k]) /\ (s[k].e.t = "Fun" <=> k = 1)
        /\ \A k \in 1 .. n - 1 : s[k].i > 0
    BY <1>1 DEF Control
  <2>6. ASSUME NEW k \in 1 .. n + 1
        PROVE  /\ Progress(prog, u[k]) /\ (u[k].e.t = "Fun" <=> k = 1)
               /\ k # n + 1 => u[k].i > 0
    <3>1. CASE k \in 1 .. n - 1
      <4>1. u[k] = s[k] /\ k \in 1 .. n
        BY <2>1, <2>3, <3>1
      <4> QED
        BY <2>5, <3>1, <4>1
    <3>2. CASE k = n
      <4>1. u[k] = g /\ (s[n].e.t = "Fun" <=> k = 1) /\ g.e = s[n].e
        BY <1>2, <2>1, <2>4, <2>5, <3>2
      <4> QED
        BY <4>1
    <3>3. CASE k = n + 1
      <4>1. u[k] = Frame(e) /\ k # 1
        BY <2>1, <2>4, <3>3
      <4> QED
        BY <1>3, <3>3, <4>1
    <3> QED
      BY <2>2, <3>1, <3>2, <3>3
  <2>7. \A k \in 1 .. n : k \in 1 .. n + 1 /\ k # n + 1
    BY <1>2
  <2>8. Len(u) = n + 1 /\ Len(u) - 1 = n /\ u[Len(u)].i = 0
    BY <1>2, <1>3, <2>1
  <2>9. \A k \in 1 .. Len(u) - 1 : u[k].i > 0
    BY <2>6, <2>7, <2>8
  <2> QED
    BY <2>6, <2>8, <2>9 DEF Control
<1>9. None \in Results
  BY DEF Results
<1> QED
  BY <1>6, <1>7, <1>8, <1>9 DEF Machine, u

LEMMA ReturnMachine ==
  ASSUME NEW prog, NEW s, NEW r, NEW vs, Machine(prog, s, r, vs), Len(s) > 0,
         NEW r2 \in Results, r2 # None,
         NEW vs2 \in Seq(Dictionaries), Balanced(prog, Front(s), vs2)
  PROVE  Machine(prog, Front(s), r2, vs2)
<1> DEFINE n == Len(s)
           t == Front(s)
<1>1. s \in Seq(Frames) /\ Control(prog, s, r)
  BY DEF Machine
<1>2. n \in Nat \ {0} /\ t \in Seq(Frames) /\ Len(t) = n - 1 /\ \A k \in 1 .. n - 1 : t[k] = s[k]
  BY <1>1, TopOfStack DEF Above
<1>3. /\ \A k \in 1 .. n - 1 : k \in 1 .. n
      /\ \A k \in 1 .. (n - 1) - 1 : k \in 1 .. n - 1
      /\ n - 1 > 0 => n - 1 \in 1 .. n - 1
  BY <1>2
<1>4. /\ \A k \in 1 .. n : Progress(prog, s[k])
      /\ \A k \in 1 .. n : s[k].e.t = "Fun" <=> k = 1
      /\ \A k \in 1 .. n - 1 : s[k].i > 0
  BY <1>1 DEF Control
<1> HIDE DEF t
<1>5. \A k \in 1 .. n - 1 : /\ Progress(prog, t[k]) /\ (t[k].e.t = "Fun" <=> k = 1)
                            /\ t[k].i > 0
  BY <1>2, <1>3, <1>4
<1>6. Control(prog, t, r2)
  <2>1. n - 1 > 0 => t[n - 1].i # 0
    BY <1>3, <1>5
  <2> QED
    BY <1>2, <1>3, <1>5, <2>1 DEF Control
<1> QED
  BY <1>2, <1>6 DEF Machine, t

-----------------------------------------------------------------------------
(* The dictionary of the function being run.                               *)

\* There is one as soon as main has been entered.
LEMMA HasDictionary ==
  ASSUME NEW prog, NEW s, NEW r, NEW vs, Machine(prog, s, r, vs), Len(s) > 0,
         s[Len(s)].e.t # "Fun" \/ r # None
  PROVE  Len(vs) > 0 /\ Len(vs) \in Nat \ {0} /\ Last(vs) = vs[Len(vs)] /\ Last(vs) \in Dictionaries
<1> DEFINE n == Len(s)
           Run == { j \in 1 .. n : RunsFunction(s[j]) }
<1>1. /\ s \in Seq(Frames) /\ vs \in Seq(Dictionaries) /\ Control(prog, s, r)
      /\ Len(vs) = Cardinality(Run)
  BY DEF Machine, Balanced, CountTo
<1>2. n \in Nat \ {0} /\ 1 \in 1 .. n /\ n \in 1 .. n /\ s[1] \in Frames
  BY <1>1
<1>3. s[1].e.t = "Fun" /\ s[1].i \in Nat /\ s[1].i <= 1
  BY <1>1, <1>2, FrameType DEF Control, Progress
<1>4. s[1].i > 0
  <2>1. CASE n = 1
    BY <1>1, <1>2, <1>3, <2>1 DEF Control
  <2>2. CASE n # 1
    <3>1. 1 \in 1 .. n - 1
      BY <1>2, <2>2
    <3> QED
      BY <1>1, <3>1 DEF Control
  <2> QED
    BY <2>1, <2>2
<1>5. 1 \in Run
  BY <1>2, <1>3, <1>4 DEF RunsFunction
<1>6. IsFiniteSet(Run)
  <2>1. IsFiniteSet(1 .. n) /\ Run \subseteq 1 .. n
    BY <1>2, FS_Interval
  <2> QED
    BY <2>1, FS_Subset
<1>7. Cardinality(Run) \in Nat /\ Cardinality(Run) # 0
  <2> HIDE DEF Run
  <2> QED
    BY <1>5, <1>6, FS_CardinalityType, FS_EmptySet
<1> HIDE DEF Run
<1>8. Len(vs) > 0
  BY <1>1, <1>7
<1> QED
  BY <1>1, <1>8, FrontOf

\* The last frame's bindings are among the values of the function it is in,
\* and are all of them if it is the one that runs it.
LEMMA TopOwns ==
  ASSUME NEW prog, NEW s \in Seq(Frames), NEW g \in Frames, NEW t, Above(s, g, t),
         NEW vs \in Seq(Dictionaries), Balanced(prog, t, vs), Len(vs) > 0, NEW x \in Identifiers
  PROVE  /\ Own(prog, g, x) \in Nat /\ Len(vs[Len(vs)][x]) \in Nat
         /\ Own(prog, g, x) <= Len(vs[Len(vs)][x])
         /\ RunsFunction(g) => Len(vs[Len(vs)][x]) = Own(prog, g, x)
<1> DEFINE m == Len(vs)
           z == Cardinality(ForceIn(prog, s, m, x))
<1>1. m \in Nat \ {0} /\ m = CountTo(t, Len(t)) /\ m \in 1 .. m
  BY SizesType DEF Balanced
<1>2. /\ z \in Nat
      /\ Cardinality(ForceIn(prog, t, m, x)) = z + OwnAt(prog, g, x, m, CountTo(t, Len(t)))
  BY ForceAbove
<1>3. Len(vs[m][x]) = Cardinality(ForceIn(prog, t, m, x))
  BY <1>1 DEF Balanced
<1>4. OwnAt(prog, g, x, m, CountTo(t, Len(t))) = Own(prog, g, x) /\ Own(prog, g, x) \in Nat
  BY <1>1, BindsFinite DEF OwnAt
<1>5. RunsFunction(g) => z = 0
  <2> SUFFICES ASSUME RunsFunction(g) PROVE z = 0
    OBVIOUS
  <2>1. Len(s) \in Nat /\ \A j \in 1 .. Len(s) : j \in 0 .. Len(s)
    OBVIOUS
  <2>2. Len(s) \in 0 .. Len(s)
    BY <2>1
  <2>3. CountTo(t, Len(t)) = CountTo(s, Len(s)) + Count1(RunsFunction(g))
    BY CountAbove
  <2>4. Count1(RunsFunction(g)) = 1
    BY DEF Count1
  <2>5. \A j \in 0 .. Len(s) : CountTo(s, j) \in Nat /\ CountTo(s, j) <= CountTo(s, Len(s))
    BY CountAbove
  <2>6. \A j \in 1 .. Len(s) : CountTo(s, j) # m
    <3>1. CountTo(s, Len(s)) \in Nat
      BY <2>2, <2>5
    <3>2. m = CountTo(s, Len(s)) + 1
      BY <1>1, <2>3, <2>4
    <3> HIDE DEF m
    <3>3. ASSUME NEW j \in 1 .. Len(s) PROVE CountTo(s, j) # m
      <4>1. CountTo(s, j) \in Nat /\ CountTo(s, j) <= CountTo(s, Len(s))
        BY <2>1, <2>5
      <4> QED
        BY <3>1, <3>2, <4>1
    <3> QED
      BY <3>3
  <2>7. ForceIn(prog, s, m, x) = {}
    BY <2>6 DEF ForceIn
  <2> QED
    BY <2>7, FS_EmptySet
<1> DEFINE l == Len(vs[m][x])
           o == Own(prog, g, x)
<1>6. l = z + o
  BY <1>2, <1>3, <1>4
<1> HIDE DEF l, o, z
<1>7. z \in Nat /\ o \in Nat
  BY <1>2, <1>4 DEF z, o
<1>8. o \in Nat /\ l \in Nat /\ o <= l
  BY <1>6, <1>7
<1>9. RunsFunction(g) => l = o
  BY <1>5, <1>6, <1>7 DEF z
<1> QED
  BY <1>8, <1>9 DEF l, o

\* What let and loop have bound, and a function's parameters.
LEMMA OwnBindings ==
  ASSUME NEW prog, NEW f \in Frames, f.e.t \in {"Let", "Loop"}, NEW x
  PROVE  /\ f.i > Len(f.e.names) => Own(prog, f, x) = Cardinality(Places(f.e.names, x))
         /\ ~RunsFunction(f)
<1>1. f.i \in Nat /\ Len(f.e.names) \in Nat
  BY FrameType
<1>2. ~RunsFunction(f)
  BY DEF RunsFunction
<1>3. ASSUME f.i > Len(f.e.names)
      PROVE  BindsIn(prog, f, x) = Places(f.e.names, x)
  <2>1. \A j \in Places(f.e.names, x) : j < f.i
    BY <1>1, <1>3 DEF Places
  <2> QED
    BY <2>1 DEF BindsIn
<1> QED
  BY <1>2, <1>3 DEF Own

LEMMA OwnNext ==
  ASSUME NEW prog, NEW f \in Frames, NEW g \in Frames, f.e.t \in {"Let", "Loop"},
         g.e = f.e, g.i = f.i + 1, f.i \in 1 .. Len(f.e.names), NEW x
  PROVE  Own(prog, g, x) = Own(prog, f, x) + (IF f.e.names[f.i] = x THEN 1 ELSE 0)
<1> DEFINE Spots == Places(f.e.names, x)
           B(n) == { j \in Spots : j < n }
           i == f.i
<1>1. i \in Nat /\ Len(f.e.names) \in Nat /\ i \in 1 .. Len(f.e.names)
  BY FrameType
<1>2. BindsIn(prog, f, x) = B(i) /\ BindsIn(prog, g, x) = B(i + 1)
  BY DEF BindsIn
<1>3. IsFiniteSet(B(i)) /\ Own(prog, f, x) \in Nat
  <2>1. IsFiniteSet(Spots) /\ B(i) \subseteq Spots
    BY <1>1, PlacesFinite
  <2>2. IsFiniteSet(B(i))
    BY <2>1, FS_Subset
  <2> QED
    BY <2>2, BindsFinite
<1>4. \A j \in Spots : j \in Nat
  BY <1>1 DEF Places
<1>5. CASE f.e.names[i] = x
  <2>1. i \in Spots
    BY <1>1, <1>5 DEF Places
  <2>2. B(i + 1) = B(i) \union {i} /\ i \notin B(i)
    <3>1. \A j \in Spots : j < i + 1 <=> (j < i \/ j = i)
      BY <1>1, <1>4
    <3> QED
      BY <1>1, <2>1, <3>1
  <2>3. Cardinality(B(i + 1)) = Cardinality(B(i)) + 1
    <3> HIDE DEF B
    <3> QED
      BY <1>3, <2>2, FS_AddElement
  <2> QED
    BY <1>2, <1>5, <2>3 DEF Own
<1>6. CASE f.e.names[i] # x
  <2>1. i \notin Spots
    BY <1>6 DEF Places
  <2>2. B(i + 1) = B(i)
    <3>1. \A j \in Spots : j < i + 1 <=> j < i
      BY <1>1, <1>4, <2>1
    <3> QED
      BY <3>1
  <2>3. Own(prog, g, x) = Own(prog, f, x)
    BY <1>2, <2>2 DEF Own
  <2> QED
    BY <1>3, <1>6, <2>3
<1> QED
  BY <1>5, <1>6

-----------------------------------------------------------------------------
(* What the changes of Memory do to the sizes.                             *)

\* A dictionary for a function that begins, and one that is dropped.
LEMMA EnterGrows ==
  ASSUME NEW prog, NEW g \in Frames, RunsFunction(g), NEW vs \in Seq(Dictionaries),
         NEW d \in Dictionaries, \A x \in Identifiers : Len(d[x]) = Own(prog, g, x)
  PROVE  Append(vs, d) \in Seq(Dictionaries) /\ Grows(prog, g, vs, Append(vs, d))
<1> DEFINE n == Len(vs)
           vs2 == Append(vs, d)
<1>1. /\ n \in Nat /\ vs2 \in Seq(Dictionaries) /\ Len(vs2) = n + 1 /\ vs2[n + 1] = d
      /\ \A a \in 1 .. n : vs2[a] = vs[a]
  OBVIOUS
<1>2. Count1(RunsFunction(g)) = 1
  BY DEF Count1
<1> HIDE DEF vs2
<1>3. ASSUME NEW a \in 1 .. n, NEW x \in Identifiers
      PROVE  Len(vs2[a][x]) = Len(vs[a][x]) + OwnAt(prog, g, x, a, Len(vs2))
  <2>1. a # Len(vs2)
    BY <1>1
  <2>2. OwnAt(prog, g, x, a, Len(vs2)) = 0
    BY <2>1 DEF OwnAt
  <2>3. Len(vs[a][x]) \in Nat /\ vs2[a] = vs[a]
    BY <1>1, SizesType
  <2> QED
    BY <2>2, <2>3
<1>4. \A x \in Identifiers : Len(vs2[Len(vs2)][x]) = Own(prog, g, x)
  BY <1>1
<1> QED
  BY <1>1, <1>2, <1>3, <1>4 DEF Grows, vs2

LEMMA LeaveGrows ==
  ASSUME NEW prog, NEW s \in Seq(Frames), NEW g \in Frames, NEW t, Above(s, g, t),
         RunsFunction(g), NEW vs \in Seq(Dictionaries), Balanced(prog, t, vs), Len(vs) > 0
  PROVE  Front(vs) \in Seq(Dictionaries) /\ Balanced(prog, s, Front(vs))
<1> DEFINE n == Len(vs)
           vs2 == Front(vs)
<1>1. /\ n \in Nat \ {0} /\ vs2 \in Seq(Dictionaries) /\ Len(vs2) = n - 1
      /\ \A a \in 1 .. n - 1 : vs2[a] = vs[a]
  BY FrontOf
<1>2. Count1(RunsFunction(g)) = 1
  BY DEF Count1
<1>3. \A x \in Identifiers : Len(vs[n][x]) = Own(prog, g, x)
  BY TopOwns
<1> HIDE DEF vs2
<1>4. ASSUME NEW a \in 1 .. n - 1, NEW x \in Identifiers
      PROVE  Len(vs[a][x]) = Len(vs2[a][x]) + OwnAt(prog, g, x, a, n)
  <2>1. a # n /\ a \in 1 .. n
    BY <1>1
  <2>2. OwnAt(prog, g, x, a, n) = 0
    BY <2>1 DEF OwnAt
  <2>3. Len(vs[a][x]) \in Nat /\ vs2[a] = vs[a]
    BY <1>1, <2>1, SizesType
  <2> QED
    BY <2>2, <2>3
<1>5. Grows(prog, g, vs2, vs)
  <2>1. n = Len(vs2) + Count1(RunsFunction(g))
    <3>1. n = Len(vs2) + 1
      BY <1>1
    <3> QED
      BY <1>2, <3>1
  <2>2. \A a \in 1 .. Len(vs2), x \in Identifiers :
          Len(vs[a][x]) = Len(vs2[a][x]) + OwnAt(prog, g, x, a, n)
    BY <1>1, <1>4
  <2> QED
    BY <1>3, <2>1, <2>2 DEF Grows
<1>6. Balanced(prog, s, vs2)
  BY <1>1, <1>5, RemoveBalanced
<1> QED
  BY <1>1, <1>6 DEF vs2

\* The dictionary on top replaced, when the last frame goes and when it stays.
LEMMA UpdateGrows ==
  ASSUME NEW prog, NEW g \in Frames, ~RunsFunction(g), NEW vs \in Seq(Dictionaries), Len(vs) > 0,
         NEW d \in Dictionaries,
         \A x \in Identifiers : Len(vs[Len(vs)][x]) = Len(d[x]) + Own(prog, g, x)
  PROVE  Update(vs, d) \in Seq(Dictionaries) /\ Grows(prog, g, Update(vs, d), vs)
<1> DEFINE n == Len(vs)
           vs2 == Update(vs, d)
<1>1. /\ vs2 \in Seq(Dictionaries) /\ Len(vs2) = n /\ vs2[n] = d
      /\ \A a \in 1 .. n - 1 : vs2[a] = vs[a]
  BY UpdateOf
<1>2. n \in Nat \ {0} /\ Count1(RunsFunction(g)) = 0
  BY DEF Count1
<1> HIDE DEF vs2
<1>3. ASSUME NEW a \in 1 .. n, NEW x \in Identifiers
      PROVE  Len(vs[a][x]) = Len(vs2[a][x]) + OwnAt(prog, g, x, a, n)
  <2>1. CASE a = n
    BY <1>1, <2>1 DEF OwnAt
  <2>2. CASE a # n
    <3>1. a \in 1 .. n - 1
      BY <1>2, <2>2
    <3>2. OwnAt(prog, g, x, a, n) = 0
      BY <2>2 DEF OwnAt
    <3>3. Len(vs[a][x]) \in Nat /\ vs2[a] = vs[a]
      BY <1>1, <3>1, SizesType
    <3> QED
      BY <3>2, <3>3
  <2> QED
    BY <2>1, <2>2
<1> QED
  BY <1>1, <1>2, <1>3 DEF Grows, vs2

LEMMA UpdateRegrows ==
  ASSUME NEW prog, NEW f \in Frames, NEW g \in Frames, ~RunsFunction(f), ~RunsFunction(g),
         NEW vs \in Seq(Dictionaries), Len(vs) > 0, NEW d \in Dictionaries,
         \A x \in Identifiers : Len(d[x]) + Own(prog, f, x) = Len(vs[Len(vs)][x]) + Own(prog, g, x)
  PROVE  Update(vs, d) \in Seq(Dictionaries) /\ Regrows(prog, f, g, vs, Update(vs, d))
<1> DEFINE n == Len(vs)
           vs2 == Update(vs, d)
<1>1. /\ vs2 \in Seq(Dictionaries) /\ Len(vs2) = n /\ vs2[n] = d
      /\ \A a \in 1 .. n - 1 : vs2[a] = vs[a]
  BY UpdateOf
<1> HIDE DEF vs2
<1>2. \A a \in 1 .. n - 1, x \in Identifiers : Len(vs2[a][x]) = Len(vs[a][x])
  BY <1>1
<1>3. \A x \in Identifiers : Len(vs2[n][x]) + Own(prog, f, x) = Len(vs[n][x]) + Own(prog, g, x)
  BY <1>1
<1> QED
  BY <1>1, <1>2, <1>3 DEF Regrows, vs2

\* The arguments of a call.
LEMMA PlacesPrefix ==
  ASSUME NEW names \in Seq(Identifiers), NEW n \in 0 .. Len(names), NEW x
  PROVE  Places(SubSeq(names, 1, n), x) = Places(names, x) \intersect 1 .. n
<1>1. /\ SubSeq(names, 1, n) \in Seq(Identifiers) /\ Len(SubSeq(names, 1, n)) = n
      /\ \A k \in 1 .. n : SubSeq(names, 1, n)[k] = names[k]
  BY PrefixOf
<1>2. \A k \in 1 .. n : k \in 1 .. Len(names)
  OBVIOUS
<1> QED
  BY <1>1, <1>2 DEF Places

LEMMA FunctionStackType ==
  ASSUME NEW params \in Seq(Identifiers), NEW args \in Seq(Word), Len(args) <= Len(params)
  PROVE  /\ functionStack(params, args) \in Dictionaries
         /\ \A x \in Identifiers :
              Len(functionStack(params, args)[x]) =
                IF Places(SubSeq(params, 1, Len(args)), x) = {} THEN 0 ELSE 1
<1> DEFINE Spots(x) == Places(params, x) \intersect DOMAIN args
           d(x) == IF Spots(x) = {} THEN << >> ELSE << args[Max(Spots(x))] >>
<1>1. functionStack(params, args) = [x \in Identifiers |-> d(x)]
  BY DEF functionStack
<1>2. Len(args) \in Nat /\ DOMAIN args = 1 .. Len(args) /\ Len(args) \in 0 .. Len(params)
  OBVIOUS
<1>3. \A x : Places(SubSeq(params, 1, Len(args)), x) = Spots(x)
  BY <1>2, PlacesPrefix
<1>4. ASSUME NEW x \in Identifiers
      PROVE  d(x) \in Seq(Word) /\ Len(d(x)) = IF Spots(x) = {} THEN 0 ELSE 1
  <2>1. CASE Spots(x) = {}
    BY <2>1
  <2>2. CASE Spots(x) # {}
    <3>1. Spots(x) \subseteq 1 .. Len(args)
      BY <1>2
    <3> HIDE DEF Spots
    <3>2. Max(Spots(x)) \in Spots(x)
      BY <1>2, <2>2, <3>1, MaxOf
    <3>3. args[Max(Spots(x))] \in Word
      BY <1>2, <3>1, <3>2
    <3> QED
      BY <2>2, <3>3
  <2> QED
    BY <2>1, <2>2
<1> HIDE DEF d, Spots
<1> QED
  BY <1>1, <1>3, <1>4 DEF Dictionaries

\* The values of a frame that runs a function.
LEMMA OwnParameters ==
  ASSUME NEW prog, NEW g \in Frames, RunsFunction(g), NEW x
  PROVE  Own(prog, g, x) = IF Places(ParametersIn(prog, g), x) = {} THEN 0 ELSE 1
<1>1. g.e.t \notin {"Let", "Loop"}
  BY DEF RunsFunction
<1>2. BindsIn(prog, g, x) = IF Places(ParametersIn(prog, g), x) # {} THEN {0} ELSE {}
  BY <1>1 DEF BindsIn
<1>3. Cardinality({0}) = 1 /\ Cardinality({}) = 0
  BY FS_Singleton, FS_EmptySet
<1>4. CASE Places(ParametersIn(prog, g), x) = {}
  BY <1>2, <1>3, <1>4 DEF Own
<1>5. CASE Places(ParametersIn(prog, g), x) # {}
  BY <1>2, <1>3, <1>5 DEF Own
<1> QED
  BY <1>4, <1>5

-----------------------------------------------------------------------------
(* The actions.                                                            *)

LEMMA Functions ==
  /\ \A f : Function(f) = FunctionIn(program, f)
  /\ \A f : Parameters(f) = ParametersIn(program, f)
BY DEF Function, FunctionIn, Parameters, ParametersIn

\* Of the definitions of a name there is a last one.
LEMMA FunctionDefined ==
  ASSUME NEW prog, GoodProgram(prog), NEW f, Defines(prog.functions, f)
  PROVE  /\ FunctionIn(prog, f) \in Exprs /\ FunctionIn(prog, f).t = "Fun"
         /\ FunctionIn(prog, f).names \in Seq(Identifiers)
         /\ Body(FunctionIn(prog, f)) \in Exprs /\ Body(FunctionIn(prog, f)).t # "Fun"
<1> DEFINE fs == prog.functions
           S  == { k \in 1 .. Len(fs) : fs[k].id = f }
           Q(k) == fs[k].id = f /\ \A j \in k + 1 .. Len(fs) : fs[j].id # f
<1>1. fs \in Seq(Definitions) /\ Len(fs) \in Nat
  BY DEF GoodProgram
<1>2. S # {} /\ S \subseteq 1 .. Len(fs)
  BY DEF Defines
<1>3. PICK m \in S : \A k \in S : m >= k
  <2>1. S \subseteq 0 .. Len(fs)
    BY <1>1, <1>2
  <2> HIDE DEF S
  <2> QED
    BY <1>1, <1>2, <2>1, Greatest
<1>4. \A j \in m + 1 .. Len(fs) : fs[j].id # f
  <2>1. ASSUME NEW j \in m + 1 .. Len(fs), fs[j].id = f PROVE FALSE
    <3>1. m \in 1 .. Len(fs)
      BY <1>2
    <3>2. j \in 1 .. Len(fs) /\ j > m
      BY <1>1, <3>1
    <3> QED
      BY <1>3, <2>1, <3>1, <3>2
  <2> QED
    BY <2>1
<1>5. m \in 1 .. Len(fs) /\ Q(m)
  BY <1>2, <1>4
<1> DEFINE c == CHOOSE k \in 1 .. Len(fs) : Q(k)
<1>6. c \in 1 .. Len(fs)
  <2> HIDE DEF Q
  <2> QED
    BY <1>5
<1>7. FunctionIn(prog, f) = fs[c]
  BY DEF FunctionIn
<1> DEFINE e == fs[c]
<1> HIDE DEF c
<1>8. e \in Exprs /\ e.t = "Fun"
  BY <1>1, <1>6 DEF Definitions
<1> HIDE DEF e
<1>9. WellFormed(e)
  BY <1>8, ExprsAssumption
<1>10. /\ e.names \in Seq(Identifiers) /\ e.kids \in Seq(Exprs) /\ Len(e.kids) = 1
       /\ \A k \in 1 .. Len(e.kids) : e.kids[k].t # "Fun"
  BY <1>8, <1>9 DEF WellFormed, Shaped
<1>11. Body(e) \in Exprs /\ Body(e).t # "Fun"
  BY <1>10 DEF Body
<1> QED
  BY <1>7, <1>8, <1>10, <1>11 DEF e

\* The frame on top while the program runs.
AtWork ==
  /\ Machine(program, stack, res, variableStacks)
  /\ stack \in Seq(Frames) /\ variableStacks \in Seq(Dictionaries) /\ GoodProgram(program)
  /\ Len(stack) > 0 /\ Len(stack) \in Nat \ {0}
  /\ Top \in Frames /\ Top = stack[Len(stack)] /\ Above(Front(stack), Top, stack)
  /\ Front(stack) \in Seq(Frames)
  /\ E = Top.e /\ E \in Exprs /\ WellFormed(E) /\ Shaped(E)
  /\ E.names \in Seq(Identifiers) /\ E.kids \in Seq(Exprs)
  /\ Len(E.names) \in Nat /\ Len(E.kids) \in Nat
  /\ \A k \in 1 .. Len(E.kids) : E.kids[k] \in Exprs /\ E.kids[k].t # "Fun"
  /\ Top.i \in Nat /\ Top.vals \in Seq(Word) /\ Progress(program, Top)
  /\ Balanced(program, stack, variableStacks)
  /\ Top.i = 0 <=> res = None
  /\ res # None => /\ res \in Results /\ res.value \in Word /\ res.newValues \in Seq(Word)
  /\ res # None \/ E.t # "Fun" =>
       /\ Len(variableStacks) > 0 /\ Len(variableStacks) \in Nat \ {0}
       /\ variableStack = variableStacks[Len(variableStacks)] /\ variableStack \in Dictionaries

LEMMA RunningAtWork ==
  ASSUME IInv, Running
  PROVE  AtWork
<1>1. /\ Machine(program, stack, res, variableStacks) /\ GoodProgram(program)
      /\ stack \in Seq(Frames) /\ variableStacks \in Seq(Dictionaries) /\ res \in Results
      /\ Control(program, stack, res) /\ Balanced(program, stack, variableStacks)
  BY DEF IInv, Machine
<1>2. Len(stack) > 0
  BY DEF Running, Depth
<1>3. /\ Len(stack) \in Nat \ {0} /\ Top \in Frames /\ Top = stack[Len(stack)]
      /\ Above(Front(stack), Top, stack) /\ Front(stack) \in Seq(Frames)
  BY <1>1, <1>2, TopOfStack DEF Top
<1>4. E = Top.e
  BY DEF E
<1> DEFINE top == Top
<1> HIDE DEF top
<1>5. /\ top.e \in Exprs /\ WellFormed(top.e) /\ top.i \in Nat /\ top.vals \in Seq(Word)
      /\ top.e.names \in Seq(Identifiers) /\ top.e.kids \in Seq(Exprs)
      /\ Len(top.e.names) \in Nat /\ Len(top.e.kids) \in Nat
  <2>1. top \in Frames
    BY <1>3 DEF top
  <2> QED
    BY <2>1, FrameType
<1>6. Shaped(top.e)
  BY <1>5 DEF WellFormed
<1>7. \A k \in 1 .. Len(top.e.kids) : top.e.kids[k] \in Exprs /\ top.e.kids[k].t # "Fun"
  BY <1>5, <1>6 DEF Shaped
<1>8. Progress(program, top) /\ (top.i = 0 <=> res = None)
  <2>1. Len(stack) \in 1 .. Len(stack) /\ top = stack[Len(stack)]
    BY <1>3 DEF top
  <2> QED
    BY <1>1, <1>2, <2>1 DEF Control
<1>9. res # None => /\ res \in Results /\ res.value \in Word /\ res.newValues \in Seq(Word)
  BY <1>1 DEF Results
<1>10. ASSUME res # None \/ top.e.t # "Fun"
       PROVE  /\ Len(variableStacks) > 0 /\ Len(variableStacks) \in Nat \ {0}
              /\ Last(variableStacks) = variableStacks[Len(variableStacks)]
              /\ Last(variableStacks) \in Dictionaries
  <2>1. stack[Len(stack)].e.t # "Fun" \/ res # None
    BY <1>3, <1>10 DEF top
  <2> QED
    BY <1>1, <1>2, <2>1, HasDictionary
<1> QED
  BY <1>1, <1>2, <1>3, <1>4, <1>5, <1>6, <1>7, <1>8, <1>9, <1>10 DEF AtWork, top, variableStack

LEMMA FrameAt ==
  ASSUME NEW f \in Frames, NEW k \in Nat
  PROVE  /\ [f EXCEPT !.i = k] \in Frames
         /\ [f EXCEPT !.i = k].e = f.e /\ [f EXCEPT !.i = k].i = k
         /\ [f EXCEPT !.i = k].vals = f.vals
BY DEF Frames

LEMMA FrameWith ==
  ASSUME NEW f \in Frames, NEW vl \in Seq(Word)
  PROVE  /\ [f EXCEPT !.vals = vl] \in Frames
         /\ [f EXCEPT !.vals = vl].e = f.e /\ [f EXCEPT !.vals = vl].i = f.i
         /\ [f EXCEPT !.vals = vl].vals = vl
BY DEF Frames

\* An operand is begun.
LEMMA Evaluates ==
  ASSUME AtWork, NEW f \in Frames, f.e = E, NEW k \in 1 .. Len(E.kids), Evaluate(f, k),
         NEW vs2 \in Seq(Dictionaries),
         Progress(program, [f EXCEPT !.i = k]),
         Balanced(program, Append(Front(stack), [f EXCEPT !.i = k]), vs2)
  PROVE  Machine(program, stack', res', vs2)
<1> DEFINE g == [f EXCEPT !.i = k]
<1>1. k \in Nat /\ k > 0
  BY DEF AtWork
<1>2. g \in Frames /\ g.e = f.e /\ g.i = k
  BY <1>1, FrameAt
<1>3. g.e = Last(stack).e
  BY <1>2 DEF AtWork, E, Top
<1>4. f.e.kids[k] \in Exprs /\ f.e.kids[k].t # "Fun"
  BY DEF AtWork
<1>5. stack' = Front(stack) \o << g, Frame(f.e.kids[k]) >> /\ res' = None
  BY DEF Evaluate, Below
<1>6. Machine(program, stack, res, variableStacks) /\ Len(stack) > 0
  BY DEF AtWork
<1>7. Progress(program, g) /\ Balanced(program, Append(Front(stack), g), vs2)
  OBVIOUS
<1> HIDE DEF g
<1>8. Machine(program, Front(stack) \o << g, Frame(f.e.kids[k]) >>, None, vs2)
  BY <1>1, <1>2, <1>3, <1>4, <1>6, <1>7, PushMachine
<1> QED
  BY <1>5, <1>8

\* By a frame that binds nothing.
LEMMA EvaluatesQuietly ==
  ASSUME AtWork, NEW f \in Frames, f.e = E, NEW k \in 1 .. Len(E.kids), Evaluate(f, k),
         E.t # "Fun",
         E.t \in {"Let", "Loop"} => Top.i <= 1 /\ k = 1,
         E.t = "Binary" /\ k = 2 => Len(f.vals) = 1,
         E.t = "Call" => /\ Defines(program.functions, E.id) /\ Len(f.vals) = k - 1
                         /\ Len(E.kids) = Len(Function(E.id).names)
                         /\ Top.i <= Len(E.kids)
  PROVE  Machine(program, stack', res', variableStacks)
<1> DEFINE g == [f EXCEPT !.i = k]
<1>1. k \in Nat /\ k > 0 /\ Len(E.kids) \in Nat
  BY DEF AtWork
<1>2. g \in Frames /\ g.e = E /\ g.i = k /\ g.vals = f.vals
  BY <1>1, FrameAt
<1>3. Top.e = E /\ Top \in Frames /\ Top.i \in Nat
  BY DEF AtWork
<1> HIDE DEF g
<1>4. Progress(program, g)
  BY <1>1, <1>2, Functions DEF Progress
<1>5. Quiet(program, g)
  BY <1>1, <1>2, QuietFrames
<1>6. Quiet(program, Top)
  BY <1>1, <1>3, QuietFrames
<1>7. Balanced(program, Front(stack), variableStacks)
  <2>1. Grows(program, Top, variableStacks, variableStacks)
    BY <1>3, <1>6, QuietGrows DEF AtWork
  <2> QED
    BY <1>3, <2>1, RemoveBalanced DEF AtWork
<1>8. Balanced(program, Append(Front(stack), g), variableStacks)
  <2>1. /\ Grows(program, g, variableStacks, variableStacks)
        /\ Above(Front(stack), g, Append(Front(stack), g))
    BY <1>2, <1>5, QuietGrows, OnTop DEF AtWork
  <2> QED
    BY <1>2, <1>7, <2>1, AddBalanced DEF AtWork
<1>9. variableStacks \in Seq(Dictionaries)
  BY DEF AtWork
<1> QED
  BY <1>4, <1>8, <1>9, Evaluates DEF g

\* A result is returned.
LEMMA Returns ==
  ASSUME AtWork, NEW r \in Results, r # None, Return(r),
         NEW vs2 \in Seq(Dictionaries), Balanced(program, Front(stack), vs2)
  PROVE  Machine(program, stack', res', vs2)
<1>1. stack' = Front(stack) /\ res' = r
  BY DEF Return, Below
<1>2. Machine(program, stack, res, variableStacks) /\ Len(stack) > 0
  BY DEF AtWork
<1>3. Machine(program, Front(stack), r, vs2)
  BY <1>2, ReturnMachine
<1> QED
  BY <1>1, <1>3

LEMMA ReturnsQuietly ==
  ASSUME AtWork, NEW r \in Results, r # None, Return(r),
         E.t \notin {"Fun", "Let", "Loop"}, E.t = "Call" => Top.i <= Len(E.kids)
  PROVE  Machine(program, stack', res', variableStacks)
<1>1. Top.e = E /\ Top \in Frames /\ Top.i \in Nat
  BY DEF AtWork
<1>2. Quiet(program, Top)
  BY <1>1, QuietFrames
<1>3. Balanced(program, Front(stack), variableStacks)
  <2>1. Grows(program, Top, variableStacks, variableStacks)
    BY <1>1, <1>2, QuietGrows DEF AtWork
  <2> QED
    BY <1>1, <2>1, RemoveBalanced DEF AtWork
<1>4. variableStacks \in Seq(Dictionaries)
  BY DEF AtWork
<1> QED
  BY <1>3, <1>4, Returns

LEMMA ResultTypes ==
  /\ \A n \in Word : Value(n) \in Results /\ Value(n) # None
  /\ \A vl \in Seq(Word) : NewValues(vl) \in Results /\ NewValues(vl) # None
<1>1. 0 \in Word /\ << >> \in Seq(Word)
  BY HalfAssumption DEF Word
<1> QED
  BY <1>1 DEF Value, NewValues, Results, None

\* What every step keeps of the machine.
Stepped ==
  /\ Machine(program, stack', res', variableStacks')
  /\ currentDepth' = Len(variableStacks')

LEMMA LeafSteps ==
  ASSUME IInv, EvalInteger \/ EvalIdentifier
  PROVE  Stepped
<1>1. AtWork /\ currentDepth = Len(variableStacks)
  BY RunningAtWork DEF EvalInteger, EvalIdentifier, Enters, IInv
<1>2. CASE EvalInteger
  <2>1. E.v \in Word
    BY <1>1 DEF AtWork, WellFormed
  <2>2. E.t = "Int" /\ Return(Value(E.v)) /\ UNCHANGED <<variableStacks, debug>>
    BY <1>2 DEF EvalInteger, Enters
  <2>3. Machine(program, stack', res', variableStacks)
    BY <1>1, <2>1, <2>2, ResultTypes, ReturnsQuietly
  <2> QED
    BY <1>1, <2>2, <2>3 DEF Stepped, debug
<1>3. CASE EvalIdentifier
  <2>1. /\ E.t = "Id" /\ variableStack[E.id] # << >> /\ Return(Value(Last(variableStack[E.id])))
        /\ UNCHANGED <<variableStacks, debug>>
    BY <1>3 DEF EvalIdentifier, Enters
  <2>2. E.id \in Identifiers /\ variableStack \in Dictionaries
    BY <1>1, <2>1 DEF AtWork, WellFormed
  <2> DEFINE vl == variableStack[E.id]
  <2>3. vl \in Seq(Word) /\ vl # << >>
    BY <2>1, <2>2 DEF Dictionaries
  <2> HIDE DEF vl
  <2>4. Last(vl) \in Word
    BY <2>3, FrontOf
  <2>5. Machine(program, stack', res', variableStacks)
    BY <1>1, <2>1, <2>4, ResultTypes, ReturnsQuietly DEF vl
  <2> QED
    BY <1>1, <2>1, <2>5 DEF Stepped, debug
<1> QED
  BY <1>2, <1>3

LEMMA OperandsStep ==
  ASSUME IInv, EvalOperands
  PROVE  Stepped
<1>1. /\ \/ \E kind \in {"If", "Unary", "Binary", "Let", "Loop", "Recur"} : Enters(kind)
         \/ Enters("Call") /\ TakesArguments
      /\ Evaluate(Top, 1) /\ UNCHANGED <<variableStacks, debug>>
  BY DEF EvalOperands
<1>2. Running /\ res = None
  BY <1>1 DEF Enters
<1>3. AtWork /\ currentDepth = Len(variableStacks) /\ Machine(program, stack, res, variableStacks)
  BY <1>2, RunningAtWork DEF IInv
<1>4. E.t \in {"If", "Unary", "Binary", "Let", "Loop", "Recur", "Call"}
  BY <1>1 DEF Enters
<1>5. 1 \in 1 .. Len(E.kids)
  <2>1. Shaped(E) /\ Len(E.kids) \in Nat /\ Len(E.names) \in Nat
    BY <1>3 DEF AtWork
  <2>2. E.t \in {"Let", "Loop"} => Len(E.kids) = Len(E.names) + 1
    BY <2>1 DEF Shaped
  <2> DEFINE n == Len(E.kids)
  <2>3. \/ n = 1 \/ n = 2 \/ n = 3 \/ n > 0 \/ n = Len(E.names) + 1
    BY <1>4, <2>1, <2>2 DEF Shaped
  <2>4. n \in Nat
    BY <2>1
  <2> HIDE DEF n
  <2>5. n > 0
    BY <2>1, <2>3, <2>4
  <2> QED
    BY <2>4, <2>5 DEF n
<1>6. Top.i = 0 /\ Top \in Frames /\ Top.e = E /\ Len(E.kids) \in Nat
  BY <1>2, <1>3 DEF AtWork
<1>7. ASSUME E.t = "Call"
      PROVE  /\ Defines(program.functions, E.id) /\ Len(Top.vals) = 1 - 1
             /\ Len(E.kids) = Len(Function(E.id).names) /\ Top.i <= Len(E.kids)
  <2>1. TakesArguments
    BY <1>1, <1>7 DEF Enters
  <2>2. Top.vals = << >>
    BY <1>3, <1>6, <1>7 DEF AtWork, Progress
  <2> QED
    BY <1>6, <2>1, <2>2 DEF TakesArguments
<1>8. Machine(program, stack', res', variableStacks)
  BY <1>1, <1>3, <1>4, <1>5, <1>6, <1>7, EvaluatesQuietly
<1> QED
  BY <1>1, <1>3, <1>8 DEF Stepped, debug

LEMMA IfStep ==
  ASSUME IInv, ResumeIf
  PROVE  Stepped
<1>1. /\ Running /\ res # None /\ E.t = "If" /\ UNCHANGED <<variableStacks, debug>>
      /\ IF Top.i = 1 THEN Evaluate(Top, IF res.value = 0 THEN 3 ELSE 2) ELSE Return(res)
  BY DEF ResumeIf, Resumes
<1>2. AtWork /\ currentDepth = Len(variableStacks)
  BY <1>1, RunningAtWork DEF IInv
<1>3. res \in Results /\ Top \in Frames /\ Top.e = E
  BY <1>1, <1>2 DEF AtWork
<1>4. Machine(program, stack', res', variableStacks)
  <2>1. CASE Top.i = 1
    <3> DEFINE k == IF res.value = 0 THEN 3 ELSE 2
    <3>1. Len(E.kids) = 3
      BY <1>1, <1>2 DEF AtWork, Shaped
    <3>2. k \in 1 .. Len(E.kids) /\ Evaluate(Top, k)
      BY <1>1, <2>1, <3>1
    <3> HIDE DEF k
    <3> QED
      BY <1>1, <1>2, <1>3, <3>2, EvaluatesQuietly
  <2>2. CASE Top.i # 1
    <3>1. Return(res)
      BY <1>1, <2>2
    <3> QED
      BY <1>1, <1>2, <1>3, <3>1, ReturnsQuietly
  <2> QED
    BY <2>1, <2>2
<1> QED
  BY <1>1, <1>2, <1>4 DEF Stepped, debug

LEMMA UnaryStep ==
  ASSUME IInv, ResumeUnary
  PROVE  Stepped
<1> DEFINE v == IF E.id = "!" THEN Truth(res.value = 0) ELSE -res.value
<1>1. /\ Running /\ res # None /\ E.t = "Unary" /\ ~Overflows /\ Return(Value(v))
      /\ UNCHANGED <<variableStacks, debug>>
  BY DEF ResumeUnary, Resumes
<1>2. AtWork /\ currentDepth = Len(variableStacks)
  BY <1>1, RunningAtWork DEF IInv
<1>3. v \in Word
  <2>1. E.id \in {"!", "-"}
    BY <1>1, <1>2 DEF AtWork, Shaped
  <2>2. E.id = "-" => -res.value \in Word
    BY <1>1 DEF Overflows, Resumes
  <2>3. Truth(res.value = 0) \in Word
    BY TruthType
  <2> QED
    BY <2>1, <2>2, <2>3
<1> HIDE DEF v
<1>4. Machine(program, stack', res', variableStacks)
  BY <1>1, <1>2, <1>3, ResultTypes, ReturnsQuietly
<1> QED
  BY <1>1, <1>2, <1>4 DEF Stepped, debug

LEMMA CombineType ==
  ASSUME NEW op \in BinaryOperators, NEW left \in Word, NEW right \in Word
  PROVE  Combine(op, left, right) \in Word
<1>1. Wrap(left + right) \in Word /\ Wrap(left * right) \in Word
  <2>1. left + right \in Int /\ left * right \in Int
    BY HalfAssumption DEF Word
  <2> QED
    BY <2>1, WrapType
<1>2. Truth(left < right) \in Word /\ Truth(left = right) \in Word /\ Truth(right # 0) \in Word
  BY TruthType, HalfAssumption DEF Truth, Word
<1> QED
  BY <1>1, <1>2 DEF Combine, BinaryOperators

LEMMA BinaryStep ==
  ASSUME IInv, ResumeBinary
  PROVE  Stepped
<1>1. /\ Running /\ res # None /\ E.t = "Binary" /\ UNCHANGED <<variableStacks, debug>>
      /\ \/ Top.i = 1 /\ ShortCut /\ Return(Value(Truth(E.id = "||")))
         \/ Top.i = 1 /\ ~ShortCut /\ Evaluate([Top EXCEPT !.vals = <<res.value>>], 2)
         \/ Top.i = 2 /\ Return(Value(Combine(E.id, Top.vals[1], res.value)))
  BY DEF ResumeBinary, Resumes
<1>2. AtWork /\ currentDepth = Len(variableStacks)
  BY <1>1, RunningAtWork DEF IInv
<1>3. /\ Len(E.kids) = 2 /\ E.id \in BinaryOperators /\ res.value \in Word
      /\ Top \in Frames /\ Top.e = E
  BY <1>1, <1>2 DEF AtWork, Shaped
<1>4. Machine(program, stack', res', variableStacks)
  <2>1. CASE Return(Value(Truth(E.id = "||")))
    <3>1. Truth(E.id = "||") \in Word
      BY TruthType
    <3> QED
      BY <1>1, <1>2, <2>1, <3>1, ResultTypes, ReturnsQuietly
  <2>2. CASE Evaluate([Top EXCEPT !.vals = <<res.value>>], 2)
    <3> DEFINE f == [Top EXCEPT !.vals = <<res.value>>]
    <3>1. <<res.value>> \in Seq(Word) /\ Len(<<res.value>>) = 1
      BY <1>3
    <3>2. f \in Frames /\ f.e = E /\ f.vals = <<res.value>>
      BY <1>3, <3>1, FrameWith
    <3>3. 2 \in 1 .. Len(E.kids) /\ Evaluate(f, 2)
      BY <1>3, <2>2
    <3> HIDE DEF f
    <3> QED
      BY <1>1, <1>2, <3>1, <3>2, <3>3, EvaluatesQuietly
  <2>3. CASE Top.i = 2 /\ Return(Value(Combine(E.id, Top.vals[1], res.value)))
    <3>1. Top.vals \in Seq(Word) /\ Len(Top.vals) = 1
      BY <1>1, <1>2, <1>3, <2>3 DEF AtWork, Progress
    <3>2. Top.vals[1] \in Word
      BY <3>1
    <3>3. Combine(E.id, Top.vals[1], res.value) \in Word
      BY <1>3, <3>2, CombineType
    <3> QED
      BY <1>1, <1>2, <2>3, <3>3, ResultTypes, ReturnsQuietly
  <2> QED
    BY <1>1, <2>1, <2>2, <2>3
<1> QED
  BY <1>1, <1>2, <1>4 DEF Stepped, debug

LEMMA RecurStep ==
  ASSUME IInv, ResumeRecur
  PROVE  Stepped
<1> DEFINE vl   == Append(Top.vals, res.value)
           with == [Top EXCEPT !.vals = vl]
<1>1. /\ Running /\ res # None /\ E.t = "Recur" /\ UNCHANGED <<variableStacks, debug>>
      /\ IF Top.i < Len(E.kids) THEN Evaluate(with, Top.i + 1) ELSE Return(NewValues(with.vals))
  BY DEF ResumeRecur, Resumes
<1>2. AtWork /\ currentDepth = Len(variableStacks)
  BY <1>1, RunningAtWork DEF IInv
<1>3. /\ res.value \in Word /\ Top \in Frames /\ Top.e = E /\ Top.vals \in Seq(Word)
      /\ Top.i \in Nat /\ Len(E.kids) \in Nat
  BY <1>1, <1>2 DEF AtWork
<1>4. vl \in Seq(Word)
  BY <1>3
<1> HIDE DEF vl
<1>5. with \in Frames /\ with.e = E /\ with.vals = vl
  BY <1>3, <1>4, FrameWith
<1> HIDE DEF with
<1>6. Machine(program, stack', res', variableStacks)
  <2>1. CASE Top.i < Len(E.kids)
    <3>1. Top.i + 1 \in 1 .. Len(E.kids) /\ Evaluate(with, Top.i + 1)
      BY <1>1, <1>3, <2>1
    <3> QED
      BY <1>1, <1>2, <1>5, <3>1, EvaluatesQuietly
  <2>2. CASE ~(Top.i < Len(E.kids))
    BY <1>1, <1>2, <1>4, <1>5, <2>2, ResultTypes, ReturnsQuietly
  <2> QED
    BY <2>1, <2>2
<1> QED
  BY <1>1, <1>2, <1>6 DEF Stepped, debug

LEMMA ArgumentStep ==
  ASSUME IInv, EvalArgument
  PROVE  Stepped
<1> DEFINE vl   == Append(Top.vals, res.value)
           with == [Top EXCEPT !.vals = vl]
<1>1. /\ Running /\ res # None /\ E.t = "Call" /\ UNCHANGED <<variableStacks, debug>>
      /\ Top.i < Len(E.kids) /\ Evaluate(with, Top.i + 1)
  BY DEF EvalArgument, Resumes
<1>2. AtWork /\ currentDepth = Len(variableStacks)
  BY <1>1, RunningAtWork DEF IInv
<1>3. /\ res.value \in Word /\ Top \in Frames /\ Top.e = E /\ Top.vals \in Seq(Word)
      /\ Top.i \in Nat /\ Top.i # 0 /\ Len(E.kids) \in Nat /\ Progress(program, Top)
  BY <1>1, <1>2 DEF AtWork
<1>4. /\ Defines(program.functions, E.id) /\ Len(E.kids) = Len(FunctionIn(program, E.id).names)
      /\ Len(Top.vals) = Top.i - 1
  <2>1. Top.i > 0 /\ Top.i \in 1 .. Len(E.kids)
    BY <1>1, <1>3
  <2> QED
    BY <1>1, <1>3, <2>1 DEF Progress
<1>5. vl \in Seq(Word) /\ Len(vl) = (Top.i + 1) - 1
  BY <1>3, <1>4
<1> HIDE DEF vl
<1>6. with \in Frames /\ with.e = E /\ with.vals = vl
  BY <1>3, <1>5, FrameWith
<1> HIDE DEF with
<1>7. /\ Top.i + 1 \in 1 .. Len(E.kids) /\ Top.i <= Len(E.kids)
      /\ Len(E.kids) = Len(Function(E.id).names)
  BY <1>1, <1>3, <1>4, Functions
<1>8. Machine(program, stack', res', variableStacks)
  BY <1>1, <1>2, <1>4, <1>5, <1>6, <1>7, EvaluatesQuietly
<1> QED
  BY <1>1, <1>2, <1>8 DEF Stepped, debug

\* let and loop: a binding is pushed.
LEMMA BindingStep ==
  ASSUME IInv, PushBinding
  PROVE  Stepped
<1> DEFINE name == E.names[Top.i]
           d    == Pushed(name, res.value)
           g    == [Top EXCEPT !.i = Top.i + 1]
<1>1. /\ Running /\ res # None /\ E.t \in {"Let", "Loop"} /\ UNCHANGED debug
      /\ Top.i <= Len(E.names) /\ variableStacks' = Update(variableStacks, d)
      /\ Evaluate(Top, Top.i + 1)
  BY DEF PushBinding, Resumes, Becomes
<1>2. AtWork /\ currentDepth = Len(variableStacks)
  BY <1>1, RunningAtWork DEF IInv
<1>3. /\ res.value \in Word /\ Top \in Frames /\ Top.e = E /\ Top.i \in Nat /\ Top.i # 0
      /\ Len(E.kids) \in Nat /\ Len(E.names) \in Nat /\ E.names \in Seq(Identifiers)
      /\ Len(E.kids) = Len(E.names) + 1
      /\ Len(variableStacks) > 0 /\ variableStacks \in Seq(Dictionaries)
      /\ variableStack = variableStacks[Len(variableStacks)] /\ variableStack \in Dictionaries
      /\ Balanced(program, stack, variableStacks) /\ Above(Front(stack), Top, stack)
      /\ Front(stack) \in Seq(Frames)
  BY <1>1, <1>2 DEF AtWork, Shaped
<1>4. Top.i \in 1 .. Len(E.names) /\ Top.i + 1 \in 1 .. Len(E.kids) /\ Top.i + 1 \in Nat
  BY <1>1, <1>3
<1>5. g \in Frames /\ g.e = E /\ g.i = Top.i + 1
  BY <1>3, <1>4, FrameAt
<1>6. name \in Identifiers
  BY <1>3, <1>4
<1>7. /\ d \in Dictionaries
      /\ \A x \in Identifiers :
           /\ Len(variableStack[x]) \in Nat
           /\ Len(d[x]) = Len(variableStack[x]) + (IF name = x THEN 1 ELSE 0)
  <2> HIDE DEF name
  <2>1. \A x \in Identifiers : variableStack[x] \in Seq(Word)
    BY <1>3 DEF Dictionaries
  <2>2. d = [variableStack EXCEPT ![name] = Append(variableStack[name], res.value)]
    BY DEF Pushed
  <2>3. /\ Append(variableStack[name], res.value) \in Seq(Word)
        /\ Len(Append(variableStack[name], res.value)) = Len(variableStack[name]) + 1
    BY <1>3, <1>6, <2>1
  <2>4. d \in Dictionaries
    BY <1>3, <1>6, <2>2, <2>3 DEF Dictionaries
  <2>5. ASSUME NEW x \in Identifiers
        PROVE  /\ Len(variableStack[x]) \in Nat
               /\ Len(d[x]) = Len(variableStack[x]) + (IF name = x THEN 1 ELSE 0)
    <3>1. Len(variableStack[x]) \in Nat
      BY <2>1
    <3>2. CASE name = x
      <4>1. d[x] = Append(variableStack[name], res.value)
        BY <1>3, <2>2, <3>2 DEF Dictionaries
      <4> QED
        BY <2>3, <3>1, <3>2, <4>1
    <3>3. CASE name # x
      <4>1. d[x] = variableStack[x]
        BY <1>3, <2>2, <3>3 DEF Dictionaries
      <4> QED
        BY <3>1, <3>3, <4>1
    <3> QED
      BY <3>2, <3>3
  <2> QED
    BY <2>4, <2>5
<1> HIDE DEF g, d
<1>8. ~RunsFunction(Top) /\ ~RunsFunction(g)
  BY <1>1, <1>3, <1>5, OwnBindings
<1>9. ASSUME NEW x \in Identifiers
      PROVE  Len(d[x]) + Own(program, Top, x) =
               Len(variableStacks[Len(variableStacks)][x]) + Own(program, g, x)
  <2>1. Own(program, Top, x) \in Nat
    BY <1>3, BindsFinite
  <2>2. Own(program, g, x) = Own(program, Top, x) + (IF name = x THEN 1 ELSE 0)
    BY <1>1, <1>3, <1>4, <1>5, OwnNext
  <2> DEFINE one == IF name = x THEN 1 ELSE 0
             o == Own(program, Top, x)
             l == Len(variableStack[x])
  <2>3. /\ o \in Nat /\ l \in Nat /\ one \in Nat /\ Len(d[x]) = l + one
        /\ Own(program, g, x) = o + one
    BY <1>7, <2>1, <2>2
  <2> HIDE DEF one, o, l
  <2>4. Len(d[x]) + o = l + Own(program, g, x)
    BY <2>3
  <2> QED
    BY <1>3, <2>4 DEF o, l
<1>10. /\ Update(variableStacks, d) \in Seq(Dictionaries)
       /\ Regrows(program, Top, g, variableStacks, Update(variableStacks, d))
  BY <1>3, <1>5, <1>7, <1>8, <1>9, UpdateRegrows
<1>11. Above(Front(stack), g, Append(Front(stack), g))
  BY <1>3, <1>5, OnTop
<1>12. Balanced(program, Append(Front(stack), g), Update(variableStacks, d))
  BY <1>3, <1>5, <1>10, <1>11, ChangeBalanced
<1>13. Progress(program, g)
  BY <1>1, <1>4, <1>5 DEF Progress
<1>14. Machine(program, stack', res', variableStacks')
  BY <1>1, <1>2, <1>3, <1>4, <1>10, <1>12, <1>13, Evaluates DEF g
<1>15. Len(variableStacks') = Len(variableStacks)
  BY <1>1, <1>10 DEF Regrows
<1> QED
  BY <1>1, <1>2, <1>14, <1>15 DEF Stepped, debug

\* A let or loop ends: one value is popped for each of its bindings.
LEMMA ScopeEndStep ==
  ASSUME IInv, ResumeLet \/ LeaveLoop
  PROVE  Stepped
<1> DEFINE d == popBindingScope(E.names)
           c(x) == Cardinality(Places(E.names, x))
<1>1. /\ Running /\ res # None /\ E.t \in {"Let", "Loop"} /\ UNCHANGED debug
      /\ Top.i > Len(E.names) /\ variableStacks' = Update(variableStacks, d) /\ Return(res)
  BY DEF ResumeLet, LeaveLoop, Resumes, Becomes
<1>2. AtWork /\ currentDepth = Len(variableStacks)
  BY <1>1, RunningAtWork DEF IInv
<1>3. /\ res \in Results /\ Top \in Frames /\ Top.e = E
      /\ Len(variableStacks) > 0 /\ variableStacks \in Seq(Dictionaries)
      /\ variableStack = variableStacks[Len(variableStacks)] /\ variableStack \in Dictionaries
      /\ Balanced(program, stack, variableStacks) /\ Above(Front(stack), Top, stack)
      /\ Front(stack) \in Seq(Frames)
  BY <1>1, <1>2 DEF AtWork
<1>4. d = [x \in Identifiers |-> SubSeq(variableStack[x], 1, Len(variableStack[x]) - c(x))]
  BY DEF popBindingScope
<1>5. ASSUME NEW x \in Identifiers
      PROVE  /\ d[x] \in Seq(Word)
             /\ Len(variableStack[x]) = Len(d[x]) + Own(program, Top, x)
  <2>1. Own(program, Top, x) = c(x)
    BY <1>1, <1>3, OwnBindings
  <2>2. /\ Own(program, Top, x) \in Nat /\ Len(variableStack[x]) \in Nat
        /\ Own(program, Top, x) <= Len(variableStack[x])
    BY <1>3, TopOwns
  <2>3. variableStack[x] \in Seq(Word) /\ d[x] = SubSeq(variableStack[x], 1, Len(variableStack[x]) - c(x))
    BY <1>3, <1>4 DEF Dictionaries
  <2> DEFINE n == Len(variableStack[x]) - c(x)
             l == Len(variableStack[x])
             o == Own(program, Top, x)
  <2> HIDE DEF c, d
  <2>4. n \in 0 .. Len(variableStack[x]) /\ l = n + o
    <3>1. o \in Nat /\ l \in Nat /\ o <= l /\ n = l - o
      BY <2>1, <2>2
    <3> HIDE DEF o, l, n
    <3>2. n \in 0 .. l /\ l = n + o
      BY <3>1
    <3> QED
      BY <3>2 DEF l
  <2> HIDE DEF n
  <2>5. SubSeq(variableStack[x], 1, n) \in Seq(Word) /\ Len(SubSeq(variableStack[x], 1, n)) = n
    BY <2>3, <2>4, PrefixOf
  <2>6. d[x] = SubSeq(variableStack[x], 1, n)
    BY <2>3 DEF n
  <2> QED
    BY <2>4, <2>5, <2>6
<1>6. d \in Dictionaries
  <2>1. \A x \in Identifiers : d[x] \in Seq(Word)
    BY <1>5
  <2>2. d = [x \in Identifiers |-> d[x]]
    BY <1>4
  <2> HIDE DEF d
  <2> QED
    BY <2>1, <2>2 DEF Dictionaries
<1> HIDE DEF d
<1>7. ~RunsFunction(Top)
  BY <1>1, <1>3, OwnBindings
<1>8. /\ Update(variableStacks, d) \in Seq(Dictionaries)
      /\ Grows(program, Top, Update(variableStacks, d), variableStacks)
  BY <1>3, <1>5, <1>6, <1>7, UpdateGrows
<1>9. Balanced(program, Front(stack), Update(variableStacks, d))
  BY <1>3, <1>8, RemoveBalanced
<1>10. Machine(program, stack', res', variableStacks')
  BY <1>1, <1>2, <1>3, <1>8, <1>9, Returns
<1>11. Len(variableStacks') = Len(variableStacks)
  BY <1>1, <1>3, <1>6, UpdateOf
<1> QED
  BY <1>1, <1>2, <1>10, <1>11 DEF Stepped, debug

\* A loop goes round: the values on top are replaced.
LEMMA LoopStep ==
  ASSUME IInv, LoopAgain
  PROVE  Stepped
<1> DEFINE d == Updated(E.names, res.newValues)
           g == [Top EXCEPT !.i = Top.i]
           Spots(x) == Places(E.names, x)
           new(x) == IF Spots(x) = {} THEN variableStack[x]
                     ELSE Update(variableStack[x], res.newValues[Max(Spots(x))])
<1>1. /\ Running /\ res # None /\ E.t \in {"Let", "Loop"} /\ UNCHANGED debug
      /\ Top.i > Len(E.names) /\ Len(res.newValues) >= Len(E.names)
      /\ variableStacks' = Update(variableStacks, d) /\ Evaluate(Top, Top.i)
  BY DEF LoopAgain, Resumes, Becomes
<1>2. AtWork /\ currentDepth = Len(variableStacks)
  BY <1>1, RunningAtWork DEF IInv
<1>3. /\ res.newValues \in Seq(Word) /\ Top \in Frames /\ Top.e = E /\ Top.i \in Nat
      /\ Len(E.kids) \in Nat /\ Len(E.names) \in Nat /\ Progress(program, Top)
      /\ Len(variableStacks) > 0 /\ variableStacks \in Seq(Dictionaries)
      /\ variableStack = variableStacks[Len(variableStacks)] /\ variableStack \in Dictionaries
      /\ Balanced(program, stack, variableStacks) /\ Above(Front(stack), Top, stack)
      /\ Front(stack) \in Seq(Frames)
  BY <1>1, <1>2 DEF AtWork
<1>4. Top.i \in 1 .. Len(E.kids)
  <2>1. Top.i <= Len(E.kids)
    BY <1>1, <1>3 DEF Progress
  <2> QED
    BY <1>1, <1>3, <2>1
<1>5. g \in Frames /\ g.e = E /\ g.i = Top.i
  BY <1>3, FrameAt
<1>6. d = [x \in Identifiers |-> new(x)]
  BY DEF Updated
<1>7. ASSUME NEW x \in Identifiers
      PROVE  /\ new(x) \in Seq(Word) /\ Len(new(x)) = Len(variableStack[x])
             /\ Len(variableStack[x]) \in Nat
  <2>1. variableStack[x] \in Seq(Word) /\ Len(variableStack[x]) \in Nat
    BY <1>3 DEF Dictionaries
  <2>2. CASE Spots(x) = {}
    BY <2>1, <2>2
  <2>3. CASE Spots(x) # {}
    <3>1. Own(program, Top, x) = Cardinality(Spots(x))
      BY <1>1, <1>3, OwnBindings
    <3>2. /\ Own(program, Top, x) \in Nat
          /\ Own(program, Top, x) <= Len(variableStack[x])
      BY <1>3, TopOwns
    <3>3. IsFiniteSet(Spots(x)) /\ Spots(x) \subseteq 1 .. Len(E.names)
      BY <1>3, PlacesFinite DEF Places
    <3> HIDE DEF Spots
    <3>4. Cardinality(Spots(x)) # 0
      BY <2>3, <3>3, FS_EmptySet
    <3>5. Len(variableStack[x]) > 0
      BY <2>1, <3>1, <3>2, <3>4
    <3>6. Max(Spots(x)) \in Spots(x)
      BY <1>3, <2>3, <3>3, MaxOf
    <3>7. Max(Spots(x)) \in 1 .. Len(res.newValues)
      BY <1>1, <1>3, <3>3, <3>6
    <3>8. res.newValues[Max(Spots(x))] \in Word
      BY <1>3, <3>7
    <3> QED
      <4>1. new(x) = Update(variableStack[x], res.newValues[Max(Spots(x))])
        BY <2>3
      <4> DEFINE old == variableStack[x]
                 v   == res.newValues[Max(Spots(x))]
      <4>2. old \in Seq(Word) /\ Len(old) > 0 /\ v \in Word
        BY <2>1, <3>5, <3>8
      <4> HIDE DEF old, v
      <4>3. Update(old, v) \in Seq(Word) /\ Len(Update(old, v)) = Len(old)
        BY <4>2, UpdateOf
      <4> HIDE DEF new
      <4> QED
        BY <2>1, <4>1, <4>3 DEF old, v
  <2> QED
    BY <2>2, <2>3
<1> HIDE DEF new
<1>8. d \in Dictionaries /\ \A x \in Identifiers : d[x] = new(x)
  BY <1>6, <1>7 DEF Dictionaries
<1> HIDE DEF d, g
<1>9. ~RunsFunction(Top) /\ ~RunsFunction(g)
  BY <1>1, <1>3, <1>5, OwnBindings
<1>10. ASSUME NEW x \in Identifiers
       PROVE  Len(d[x]) + Own(program, Top, x) =
                Len(variableStacks[Len(variableStacks)][x]) + Own(program, g, x)
  <2>1. Own(program, Top, x) = Own(program, g, x)
    BY <1>1, <1>3, <1>5, OwnBindings
  <2>2. Len(d[x]) = Len(variableStacks[Len(variableStacks)][x])
    BY <1>3, <1>7, <1>8
  <2> QED
    BY <2>1, <2>2
<1>11. /\ Update(variableStacks, d) \in Seq(Dictionaries)
       /\ Regrows(program, Top, g, variableStacks, Update(variableStacks, d))
  BY <1>3, <1>5, <1>8, <1>9, <1>10, UpdateRegrows
<1>12. Above(Front(stack), g, Append(Front(stack), g))
  BY <1>3, <1>5, OnTop
<1>13. Balanced(program, Append(Front(stack), g), Update(variableStacks, d))
  BY <1>3, <1>5, <1>11, <1>12, ChangeBalanced
<1>14. Progress(program, g)
  BY <1>1, <1>4, <1>5 DEF Progress
<1>15. Machine(program, stack', res', variableStacks')
  BY <1>1, <1>2, <1>3, <1>4, <1>11, <1>13, <1>14, Evaluates DEF g
<1>16. Len(variableStacks') = Len(variableStacks)
  BY <1>1, <1>11 DEF Regrows
<1> QED
  BY <1>1, <1>2, <1>15, <1>16 DEF Stepped, debug

-----------------------------------------------------------------------------
(* Functions begin and end.                                                *)

\* A frame that comes to run a function that has just been called.
LEMMA Begins ==
  ASSUME AtWork, Quiet(program, Top), NEW g \in Frames, RunsFunction(g),
         NEW params \in Seq(Identifiers), NEW args \in Seq(Word), Len(args) <= Len(params),
         ParametersIn(program, g) = SubSeq(params, 1, Len(args))
  PROVE  /\ Append(variableStacks, functionStack(params, args)) \in Seq(Dictionaries)
         /\ Balanced(program, Append(Front(stack), g),
                     Append(variableStacks, functionStack(params, args)))
<1> DEFINE d == functionStack(params, args)
<1>1. /\ variableStacks \in Seq(Dictionaries) /\ Balanced(program, stack, variableStacks)
      /\ Above(Front(stack), Top, stack) /\ Front(stack) \in Seq(Frames) /\ Top \in Frames
  BY DEF AtWork
<1>2. /\ d \in Dictionaries
      /\ \A x \in Identifiers :
           Len(d[x]) = IF Places(SubSeq(params, 1, Len(args)), x) = {} THEN 0 ELSE 1
  BY FunctionStackType
<1> HIDE DEF d
<1>3. \A x \in Identifiers : Len(d[x]) = Own(program, g, x)
  BY <1>2, OwnParameters
<1>4. /\ Append(variableStacks, d) \in Seq(Dictionaries)
      /\ Grows(program, g, variableStacks, Append(variableStacks, d))
  BY <1>1, <1>2, <1>3, EnterGrows
<1>5. Balanced(program, Front(stack), variableStacks)
  <2>1. Grows(program, Top, variableStacks, variableStacks)
    BY <1>1, QuietGrows
  <2> QED
    BY <1>1, <2>1, RemoveBalanced
<1>6. Above(Front(stack), g, Append(Front(stack), g))
  BY <1>1, OnTop
<1>7. Balanced(program, Append(Front(stack), g), Append(variableStacks, d))
  BY <1>1, <1>4, <1>5, <1>6, AddBalanced
<1> QED
  BY <1>4, <1>7 DEF d

LEMMA MainBegins ==
  ASSUME IInv, EvalWithParams
  PROVE  Stepped
<1> DEFINE g == [Top EXCEPT !.i = 1]
           vs2 == Append(variableStacks, functionStack(E.names, program.args))
<1>1. /\ Running /\ res = None /\ E.t = "Fun" /\ Len(program.args) <= Len(E.names)
      /\ variableStacks' = vs2 /\ currentDepth' = currentDepth + 1 /\ Evaluate(Top, 1)
  BY DEF EvalWithParams, Enters, Enter
<1>2. AtWork /\ currentDepth = Len(variableStacks)
  BY <1>1, RunningAtWork DEF IInv
<1>3. /\ Top \in Frames /\ Top.e = E /\ Top.i = 0 /\ Len(E.kids) = 1
      /\ E.names \in Seq(Identifiers) /\ GoodProgram(program)
      /\ variableStacks \in Seq(Dictionaries) /\ Len(E.names) \in Nat
  BY <1>1, <1>2 DEF AtWork, Shaped
<1>4. program.args \in Seq(Word)
  BY <1>3 DEF GoodProgram
<1>5. g \in Frames /\ g.e = E /\ g.i = 1
  BY <1>3, FrameAt
<1> HIDE DEF g
<1>6. RunsFunction(g) /\ Progress(program, g)
  BY <1>1, <1>3, <1>5 DEF RunsFunction, Progress
<1>7. ParametersIn(program, g) = SubSeq(E.names, 1, Len(program.args))
  BY <1>1, <1>5 DEF ParametersIn
<1>8. Quiet(program, Top)
  BY <1>1, <1>3, QuietFrames
<1>9. vs2 \in Seq(Dictionaries) /\ Balanced(program, Append(Front(stack), g), vs2)
  BY <1>1, <1>2, <1>3, <1>4, <1>5, <1>6, <1>7, <1>8, Begins
<1>10. Len(vs2) = Len(variableStacks) + 1
  BY <1>3
<1> HIDE DEF vs2
<1>11. 1 \in 1 .. Len(E.kids)
  BY <1>3
<1>12. Machine(program, stack', res', vs2)
  BY <1>1, <1>2, <1>3, <1>6, <1>9, <1>11, Evaluates DEF g
<1> QED
  BY <1>1, <1>2, <1>10, <1>12 DEF Stepped

LEMMA FunctionBegins ==
  ASSUME IInv, EnterFunction
  PROVE  Stepped
<1> DEFINE f   == Function(E.id)
           g   == [Top EXCEPT !.i = Top.i + 1]
           args == Append(Top.vals, res.value)
           vs2 == Append(variableStacks, functionStack(f.names, args))
<1>1. /\ Running /\ res # None /\ E.t = "Call" /\ Top.i = Len(E.kids)
      /\ variableStacks' = vs2 /\ currentDepth' = currentDepth + 1
      /\ stack' = Below \o << g, Frame(Body(f)) >> /\ res' = None
  BY DEF EnterFunction, Resumes, Enter
<1>2. AtWork /\ currentDepth = Len(variableStacks)
  BY <1>1, RunningAtWork DEF IInv
<1>3. /\ Top \in Frames /\ Top.e = E /\ Top.i \in Nat /\ Top.i # 0 /\ Len(E.kids) \in Nat
      /\ Top.vals \in Seq(Word) /\ res.value \in Word /\ GoodProgram(program)
      /\ variableStacks \in Seq(Dictionaries) /\ Progress(program, Top)
      /\ Machine(program, stack, res, variableStacks) /\ Len(stack) > 0
  BY <1>1, <1>2 DEF AtWork
<1>4. /\ Defines(program.functions, E.id) /\ Len(E.kids) = Len(FunctionIn(program, E.id).names)
      /\ Len(Top.vals) = Top.i - 1
  <2>1. Top.i > 0 /\ Top.i \in 1 .. Len(E.kids)
    BY <1>1, <1>3
  <2> QED
    BY <1>1, <1>3, <2>1 DEF Progress
<1>5. f = FunctionIn(program, E.id)
  BY Functions
<1>6. f.names \in Seq(Identifiers) /\ Body(f) \in Exprs /\ Body(f).t # "Fun"
  BY <1>3, <1>4, <1>5, FunctionDefined
<1>7. Len(E.kids) = Len(f.names)
  BY <1>4, <1>5
<1>8. args \in Seq(Word) /\ Len(args) = Len(f.names) /\ Len(args) <= Len(f.names)
  BY <1>1, <1>3, <1>4, <1>7
<1>9. g \in Frames /\ g.e = E /\ g.i = Top.i + 1 /\ g.i > Len(E.kids) /\ g.i > 0
  <2>1. Top.i + 1 \in Nat /\ Top.i + 1 > Len(E.kids) /\ Top.i + 1 > 0
    BY <1>1, <1>3
  <2> QED
    BY <1>3, <2>1, FrameAt
<1> HIDE DEF f, g, args
<1>10. RunsFunction(g)
  BY <1>1, <1>9 DEF RunsFunction
<1>11. Progress(program, g)
  BY <1>1, <1>3, <1>4, <1>9 DEF Progress
<1>12. ParametersIn(program, g) = SubSeq(f.names, 1, Len(args))
  <2>1. ParametersIn(program, g) = f.names
    BY <1>1, <1>5, <1>9 DEF ParametersIn
  <2>2. SubSeq(f.names, 1, Len(f.names)) = f.names
    BY <1>6
  <2> QED
    BY <1>8, <2>1, <2>2
<1>13. Quiet(program, Top)
  <2>1. Top.e.t = "Call" /\ Top.i <= Len(Top.e.kids)
    BY <1>1, <1>3
  <2> QED
    BY <1>3, <2>1, QuietFrames
<1>14. vs2 \in Seq(Dictionaries) /\ Balanced(program, Append(Front(stack), g), vs2)
  BY <1>2, <1>6, <1>8, <1>9, <1>10, <1>12, <1>13, Begins
<1>15. Len(vs2) = Len(variableStacks) + 1
  BY <1>3
<1> HIDE DEF vs2
<1>16. g.e = Last(stack).e
  BY <1>3, <1>9 DEF Top
<1>17. Machine(program, Front(stack) \o << g, Frame(Body(f)) >>, None, vs2)
  BY <1>3, <1>6, <1>9, <1>11, <1>14, <1>16, PushMachine
<1> QED
  BY <1>1, <1>2, <1>15, <1>17 DEF Stepped, Below

LEMMA FunctionEnds ==
  ASSUME IInv, ReturnFromMain \/ LeaveFunction
  PROVE  Stepped
<1>1. /\ Running /\ res # None /\ E.t \in {"Fun", "Call"}
      /\ variableStacks' = Front(variableStacks) /\ currentDepth' = currentDepth - 1
  BY DEF ReturnFromMain, LeaveFunction, Resumes, Leave
<1>2. AtWork /\ currentDepth = Len(variableStacks)
  BY <1>1, RunningAtWork DEF IInv
<1>3. /\ Top \in Frames /\ Top.e = E /\ Top.i \in Nat /\ Top.i # 0
      /\ res \in Results /\ res.value \in Word
      /\ variableStacks \in Seq(Dictionaries) /\ Progress(program, Top) /\ Len(variableStacks) > 0
      /\ Balanced(program, stack, variableStacks)
      /\ Above(Front(stack), Top, stack) /\ Front(stack) \in Seq(Frames)
  BY <1>1, <1>2 DEF AtWork
<1>4. RunsFunction(Top)
  <2>1. CASE ReturnFromMain
    <3>1. E.t = "Fun" /\ Top.i <= 1
      BY <1>3, <2>1 DEF ReturnFromMain, Resumes, Progress
    <3> QED
      BY <1>3, <3>1 DEF RunsFunction
  <2>2. CASE LeaveFunction
    BY <1>3, <2>2 DEF LeaveFunction, Resumes, RunsFunction
  <2> QED
    BY <2>1, <2>2
<1>5. Front(variableStacks) \in Seq(Dictionaries) /\ Balanced(program, Front(stack), Front(variableStacks))
  BY <1>3, <1>4, LeaveGrows
<1>6. Len(Front(variableStacks)) = Len(variableStacks) - 1
  BY <1>3, FrontOf
<1>7. CASE LeaveFunction
  <2>1. Return(Value(res.value))
    BY <1>7 DEF LeaveFunction
  <2>2. Machine(program, stack', res', variableStacks')
    BY <1>1, <1>2, <1>3, <1>5, <2>1, ResultTypes, Returns
  <2> QED
    BY <1>1, <1>2, <1>6, <2>2 DEF Stepped
<1>8. CASE ReturnFromMain
  <2>1. stack' = << >> /\ res' = res /\ E.t = "Fun"
    BY <1>8 DEF ReturnFromMain, Resumes
  <2>2. stack' = Front(stack)
    <3>1. Control(program, stack, res) /\ Len(stack) \in Nat \ {0} /\ Top = stack[Len(stack)]
      BY <1>2 DEF AtWork, Machine
    <3>2. Len(stack) \in 1 .. Len(stack)
      BY <3>1
    <3>3. Len(stack) = 1
      BY <1>3, <2>1, <3>1, <3>2 DEF Control
    <3> DEFINE t == Front(stack)
               n == Len(t)
    <3>4. t \in Seq(Frames) /\ n \in Nat /\ 1 = n + 1
      BY <1>3, <3>3 DEF Above
    <3> HIDE DEF n
    <3>5. n = 0
      BY <3>4
    <3> HIDE DEF t
    <3>6. t = << >>
      BY <3>4, <3>5, EmptySeq DEF n
    <3> QED
      BY <2>1, <3>6 DEF t
  <2>3. Machine(program, stack, res, variableStacks) /\ Len(stack) > 0
    BY <1>2 DEF AtWork
  <2>4. Machine(program, Front(stack), res, Front(variableStacks))
    BY <1>1, <1>3, <1>5, <2>3, ReturnMachine
  <2>5. Machine(program, stack', res', variableStacks')
    BY <1>1, <2>1, <2>2, <2>4
  <2> QED
    BY <1>1, <1>2, <1>6, <2>5 DEF Stepped
<1> QED
  BY <1>7, <1>8

-----------------------------------------------------------------------------
(* The specification keeps the invariant.                                  *)

\* A step of the machine, with its lines of Debug.invocations and its result.
LEMMA SteppedKeeps ==
  ASSUME IInv, Stepped, UNCHANGED program,
         invocations' = invocations \/ invocations' = Logged(invocations),
         status' \in {"running"} \union Stopped, result' \in Word
  PROVE  IInv'
<1>1. invocations' \in 0 .. MaxInvocations
  BY MaxInvocationsAssumption DEF IInv, Logged
<1>2. GoodProgram(program)
  BY DEF IInv
<1> QED
  BY <1>1, <1>2 DEF IInv, Stepped, Machine, Control, Balanced, Progress

\* eval of main is called, and nothing has been evaluated.
MainCalled ==
  /\ GoodProgram(program)
  /\ stack = << Frame(Function("main")) >> /\ res = None /\ variableStacks = << >>
  /\ invocations = 0 /\ currentDepth = 0
  /\ status = "running" /\ result = 0

LEMMA MainCalledIInv == MainCalled => IInv
<1> SUFFICES ASSUME MainCalled PROVE IInv
  OBVIOUS
<1> DEFINE main == Function("main")
<1>1. GoodProgram(program) /\ stack = << Frame(main) >> /\ res = None /\ variableStacks = << >>
  BY DEF MainCalled
<1>2. main \in Exprs /\ main.t = "Fun"
  <2>1. Defines(program.functions, "main")
    BY <1>1 DEF GoodProgram
  <2> QED
    BY <1>1, <2>1, Functions, FunctionDefined
<1> HIDE DEF main
<1>3. /\ Frame(main) \in Frames /\ Frame(main).e = main /\ Frame(main).i = 0
      /\ Quiet(program, Frame(main)) /\ Progress(program, Frame(main))
  BY <1>2, NewFrame
<1> DEFINE f == Frame(main)
<1> HIDE DEF f
<1>4. << >> \in Seq(Frames) /\ << >> \in Seq(Dictionaries) /\ None \in Results
  BY DEF Results
<1>5. << f >> = Append(<< >>, f) /\ << f >> \in Seq(Frames) /\ Len(<< f >>) = 1 /\ << f >>[1] = f
  BY <1>3 DEF f
<1>6. Balanced(program, << >>, << >>)
  <2>1. CountTo(<< >>, Len(<< >>)) = 0
    <3>1. { j \in 1 .. Len(<< >>) : RunsFunction(<< >>[j]) } = {}
      OBVIOUS
    <3> QED
      BY <3>1, FS_EmptySet DEF CountTo
  <2> QED
    BY <2>1 DEF Balanced
<1>7. Balanced(program, << f >>, << >>)
  <2>1. Above(<< >>, f, << f >>)
    BY <1>5 DEF Above
  <2>2. Grows(program, f, << >>, << >>)
    BY <1>3, <1>4, QuietGrows DEF f
  <2> QED
    BY <1>3, <1>4, <1>6, <2>1, <2>2, AddBalanced DEF f
<1>8. Control(program, << f >>, None)
  <2>1. Progress(program, f) /\ f.e.t = "Fun" /\ f.i = 0
    BY <1>2, <1>3 DEF f
  <2>2. /\ \A k \in 1 .. Len(<< f >>) : k = 1
        /\ \A k \in 1 .. Len(<< f >>) - 1 : FALSE
    BY <1>5
  <2> QED
    BY <1>5, <2>1, <2>2 DEF Control
<1>9. Machine(program, stack, res, variableStacks)
  BY <1>1, <1>4, <1>5, <1>7, <1>8 DEF Machine, f
<1>10. 0 \in 0 .. MaxInvocations /\ 0 \in Word /\ Len(<< >>) = 0
  BY MaxInvocationsAssumption, HalfAssumption DEF Word
<1> QED
  BY <1>1, <1>9, <1>10 DEF MainCalled, IInv

LEMMA InitInvariant == Init => IInv
<1>1. Init => MainCalled
  BY InvocationsAssumption DEF Init, MainCalled, GoodProgram
<1> QED
  BY <1>1, MainCalledIInv

LEMMA NextKeeps == IInv /\ [Next]_vars => IInv'
<1> SUFFICES ASSUME IInv, [Next]_vars PROVE IInv'
  OBVIOUS
<1>0. GoodProgram(program) /\ status \in {"running"} \union Stopped /\ result \in Word
  BY DEF IInv
<1>1. CASE UNCHANGED vars
  BY <1>1 DEF IInv, vars, debug, Machine, Control, Progress, Balanced
<1>2. CASE EvalWithParams
  BY <1>0, <1>2, MainBegins, SteppedKeeps DEF EvalWithParams, Enter
<1>3. CASE ReturnFromMain
  <2>1. res.value \in Word
    BY <1>3, RunningAtWork DEF ReturnFromMain, Resumes, AtWork
  <2>2. UNCHANGED program /\ invocations' = Logged(invocations) /\ status' = "returned" /\ result' = res.value
    BY <1>3 DEF ReturnFromMain, Leave
  <2> QED
    BY <1>3, <2>1, <2>2, FunctionEnds, SteppedKeeps DEF Stopped
<1>4. CASE EvalInteger \/ EvalIdentifier
  BY <1>0, <1>4, LeafSteps, SteppedKeeps DEF EvalInteger, EvalIdentifier, debug
<1>5. CASE EvalOperands
  BY <1>0, <1>5, OperandsStep, SteppedKeeps DEF EvalOperands, debug
<1>6. CASE ResumeIf
  BY <1>0, <1>6, IfStep, SteppedKeeps DEF ResumeIf, debug
<1>7. CASE ResumeUnary
  BY <1>0, <1>7, UnaryStep, SteppedKeeps DEF ResumeUnary, debug
<1>8. CASE ResumeBinary
  BY <1>0, <1>8, BinaryStep, SteppedKeeps DEF ResumeBinary, debug
<1>9. CASE PushBinding
  BY <1>0, <1>9, BindingStep, SteppedKeeps DEF PushBinding, debug
<1>10. CASE ResumeLet \/ LeaveLoop
  BY <1>0, <1>10, ScopeEndStep, SteppedKeeps DEF ResumeLet, LeaveLoop, debug
<1>11. CASE LoopAgain
  BY <1>0, <1>11, LoopStep, SteppedKeeps DEF LoopAgain, debug
<1>12. CASE ResumeRecur
  BY <1>0, <1>12, RecurStep, SteppedKeeps DEF ResumeRecur, debug
<1>13. CASE EvalArgument
  BY <1>0, <1>13, ArgumentStep, SteppedKeeps DEF EvalArgument, debug
<1>14. CASE EnterFunction
  BY <1>0, <1>14, FunctionBegins, SteppedKeeps DEF EnterFunction, Enter
<1>15. CASE LeaveFunction
  BY <1>0, <1>15, FunctionEnds, SteppedKeeps DEF LeaveFunction, Leave
<1>16. CASE Trap
  BY <1>16 DEF Trap, IInv, debug, Machine, Control, Progress, Balanced, Stopped
<1>17. CASE Halted
  BY <1>17 DEF Halted, IInv, vars, debug, Machine, Control, Progress, Balanced
<1> QED
  BY <1>1, <1>2, <1>3, <1>4, <1>5, <1>6, <1>7, <1>8, <1>9, <1>10, <1>11, <1>12, <1>13, <1>14,
     <1>15, <1>16, <1>17 DEF Next

\* Whatever the program and the arguments, the interpreter's locals have the
\* types and the progress its code counts on (that of a call: one value for
\* each operand evaluated), and its dictionaries the sizes they should have.
THEOREM InterpreterInvariantAlways == Spec => []IInv
BY InitInvariant, NextKeeps, PTL DEF Spec

LEMMA BalancedStacks ==
  ASSUME Balanced(program, stack, variableStacks), currentDepth = Len(variableStacks)
  PROVE  ScopesBalanced
<1>1. \A k : Activation(k) = CountTo(stack, k)
  BY DEF Activation, CountTo
<1>2. ASSUME NEW f, NEW x PROVE Binds(f, x) = BindsIn(program, f, x)
  BY Functions DEF Binds, BindsIn
<1>3. ASSUME NEW a, NEW x PROVE InForce(FramesOf(a), x) = ForceIn(program, stack, a, x)
  <2>1. FramesOf(a) = {j \in 1 .. Len(stack) : CountTo(stack, j) = a}
    BY <1>1 DEF FramesOf, Depth
  <2> QED
    BY <1>2, <2>1 DEF InForce, FramesOf, ForceIn
<1> QED
  BY <1>1, <1>3 DEF ScopesBalanced, Balanced, Depth

LEMMA BalancedHere == IInv => ScopesBalanced
BY BalancedStacks DEF IInv, Machine

\* Every function being run has a dictionary of its own with one value for
\* every binding in force, whatever ends a let, a loop or a function and
\* however often a loop goes round (pushBindingScope, popBindingScope and the
\* eval methods of LoopExpression, Invocation and Function in parser.swift).
THEOREM ScopesBalancedAlways == Spec => []ScopesBalanced
BY InterpreterInvariantAlways, BalancedHere, PTL

-----------------------------------------------------------------------------
(***************************************************************************)
(* The trees the parser makes.  Exprs is any set of trees that the         *)
(* constructors of the language do not lead out of.  What                  *)
(* parsePrimaryExpression returns and parseBinaryExpression collects are   *)
(* expressions in it, an activation that waits has a node of its place     *)
(* with the operands it has got so far, and the functions parsed are       *)
(* definitions as the interpreter expects them.                            *)
(***************************************************************************)
Nodes == [t : Kinds, v : Word, id : STRING, names : Seq(Identifiers), kids : Seq(Exprs)]
AllTrees ==
  \A e \in Nodes : Shaped(e) /\ (e.t = "Id" => e.id \in Identifiers) => e \in Exprs

Operable == Exprs \ Definitions
Token    == [type : STRING, v : Word, name : STRING]
Partial  ==
  [t : Kinds \ {"Id"}, v : {0}, id : STRING, names : Seq(Identifiers), kids : Seq(Operable)]

\* The node of an activation of which the operands up to here are parsed.
Unfinished(place, node) ==
  /\ place # "paren"    => node \in Partial
  /\ place = "function" => node.t = "Fun" /\ Len(node.kids) = 0
  /\ place = "params"   => node.t \in {"Recur", "Call"}
  /\ place = "if"       => node.t = "If"
  /\ place = "bindings" => node.t \in {"Let", "Loop"} /\ Len(node.names) = Len(node.kids) + 1
  /\ place = "body"     => /\ node.t \in {"Let", "Loop"}
                           /\ Len(node.names) = Len(node.kids) /\ Len(node.names) > 0
  /\ place = "unary"    => /\ node.t = "Unary" /\ node.id \in {"!", "-"}
                           /\ Len(node.kids) = 0

TokensOK(tokens) ==
  /\ tokens \in Seq(Token)
  /\ \A k \in 1 .. Len(tokens) : tokens[k].type = "identifier" => tokens[k].name \in Identifiers

\* The operands and the operators of a scope.
Collected(operands) == \A k \in 1 .. Len(operands) : operands[k] \in Operable
OperatorsOK(operators) == \A k \in 1 .. Len(operators) : operators[k] \in BinaryOperators
Filled(operands, operators) == Collected(operands) /\ OperatorsOK(operators)

WaitingOK(cs) == \A k \in 1 .. Len(cs) : Unfinished(cs[k].place, cs[k].node)
FilledAll(ss) == \A k \in 1 .. Len(ss) : Filled(ss[k].results, ss[k].operators)

TreesInv ==
  /\ TokensOK(input)
  /\ WaitingOK(callers)
  /\ FilledAll(scopes) /\ Filled(resultStack, operatorStack)
  /\ at = "returned" => ret.node \in Operable
  /\ at = "operator" => P!peekNextToken \in BinaryOperators
  /\ functions \in Seq(Definitions)

Finished ==
  [t : Kinds, v : Word, id : STRING, names : Seq(Identifiers), kids : Seq(Operable)]

\* A node of the right shape is an expression, and if it is no definition it
\* may be an operand.
LEMMA ShapedIsTree ==
  ASSUME AllTrees, NEW n \in Finished,
         n.t = "Id"                 => n.id \in Identifiers,
         n.t \in {"Unary", "Fun"}   => Len(n.kids) = 1,
         n.t = "Unary"              => n.id \in {"!", "-"},
         n.t = "Binary"             => Len(n.kids) = 2 /\ n.id \in BinaryOperators,
         n.t = "If"                 => Len(n.kids) = 3,
         n.t \in {"Let", "Loop"}    => Len(n.names) > 0 /\ Len(n.kids) = Len(n.names) + 1,
         n.t \in {"Recur", "Call"}  => Len(n.kids) > 0
  PROVE  n \in Exprs /\ (n.t # "Fun" => n \in Operable)
<1>1. n.kids \in Seq(Exprs) /\ \A k \in 1 .. Len(n.kids) : n.kids[k].t # "Fun"
  <2> n.kids \in Seq(Operable)
    BY DEF Finished
  <2>1. Operable \subseteq Exprs /\ \A e \in Operable : e.t # "Fun"
    BY DEF Operable, Definitions
  <2> QED
    BY <2>1
<1>2. n \in Nodes
  BY <1>1 DEF Nodes, Finished
<1>3. Shaped(n)
  BY <1>1 DEF Shaped
<1> QED
  BY <1>2, <1>3 DEF AllTrees, Operable, Definitions

\* What nodes are made of.
LEMMA NodeParts ==
  /\ 0 \in Word
  /\ {"", "!", "-"} \subseteq STRING /\ BinaryOperators \subseteq STRING
  /\ {"Int", "Id", "If", "Let", "Loop", "Recur", "Unary", "Binary", "Call", "Fun"} \subseteq Kinds
  /\ {"If", "Let", "Loop", "Recur", "Unary", "Call", "Fun"} \subseteq Kinds \ {"Id"}
<1>1. 0 \in Word
  BY HalfAssumption DEF Word
<1>2. {"", "!", "-"} \subseteq STRING /\ BinaryOperators \subseteq STRING
  BY LiteralsAssumption
<1> QED
  BY <1>1, <1>2 DEF Kinds

\* A node without operands.
LEMMA LeafNode ==
  ASSUME NEW kind \in Kinds, NEW v \in Word, NEW id \in STRING,
         NEW n, n = P!Node(kind, v, id, << >>, << >>)
  PROVE  n \in Finished /\ n.t = kind /\ n.id = id
<1>1. << >> \in Seq(Operable) /\ << >> \in Seq(Identifiers)
  OBVIOUS
<1> QED
  BY <1>1 DEF P!Node, Finished

\* A node as an activation begins with it.
LEMMA BeginNode ==
  ASSUME NEW kind \in Kinds \ {"Id"}, NEW id \in STRING, NEW names \in Seq(Identifiers),
         NEW n, n = P!Node(kind, 0, id, names, << >>)
  PROVE  /\ n \in Partial /\ n.t = kind /\ n.id = id /\ n.names = names
         /\ Len(n.kids) = 0
<1>1. << >> \in Seq(Operable) /\ Len(<< >>) = 0
  OBVIOUS
<1> QED
  BY <1>1 DEF P!Node, Partial

LEMMA BeginBare ==
  ASSUME NEW kind \in Kinds \ {"Id"}, NEW id \in STRING,
         NEW n, n = P!Node(kind, 0, id, << >>, << >>)
  PROVE  /\ n \in Partial /\ n.t = kind /\ n.id = id /\ Len(n.kids) = 0
<1>1. << >> \in Seq(Operable) /\ << >> \in Seq(Identifiers) /\ Len(<< >>) = 0
  OBVIOUS
<1> QED
  BY <1>1 DEF P!Node, Partial

\* One operand more.
LEMMA OneMoreKid ==
  ASSUME NEW node \in Partial, NEW x \in Operable,
         NEW n, n = [node EXCEPT !.kids = Append(@, x)]
  PROVE  /\ n \in Partial /\ n.t = node.t /\ n.id = node.id /\ n.names = node.names
         /\ Len(n.kids) = Len(node.kids) + 1 /\ Len(node.kids) \in Nat
<1>1. node.kids \in Seq(Operable)
  BY DEF Partial
<1>2. Append(node.kids, x) \in Seq(Operable) /\ Len(Append(node.kids, x)) = Len(node.kids) + 1
  BY <1>1
<1>3. n \in Partial /\ n.t = node.t /\ n.id = node.id /\ n.names = node.names
      /\ n.kids = Append(node.kids, x)
  BY <1>2 DEF Partial
<1> QED
  BY <1>1, <1>2, <1>3

\* What is no longer unfinished.
LEMMA PartialFinished ==
  ASSUME NEW n \in Partial
  PROVE  n \in Finished /\ n.t # "Id"
  BY NodeParts DEF Partial, Finished

\* An activation waits on top of others, or goes on.
LEMMA PushWaiting ==
  ASSUME NEW cs, IsSeq(cs), WaitingOK(cs), NEW place, NEW node, Unfinished(place, node),
         NEW cs2, cs2 = Append(cs, P!Activation(place, node))
  PROVE  WaitingOK(cs2)
<1> DEFINE act == P!Activation(place, node)
<1>1. act.place = place /\ act.node = node
  BY DEF P!Activation
<1> HIDE DEF act
<1>2. /\ Len(cs) \in Nat /\ Len(cs2) = Len(cs) + 1
      /\ \A k \in 1 .. Len(cs) : cs2[k] = cs[k]
      /\ cs2[Len(cs) + 1] = act
  BY AppendIsSeq DEF act
<1> SUFFICES ASSUME NEW k \in 1 .. Len(cs2) PROVE Unfinished(cs2[k].place, cs2[k].node)
  BY DEF WaitingOK
<1>3. CASE k \in 1 .. Len(cs)
  BY <1>2, <1>3 DEF WaitingOK
<1>4. CASE k = Len(cs) + 1
  BY <1>1, <1>2, <1>4
<1> QED
  BY <1>2, <1>3, <1>4

LEMMA PopWaiting ==
  ASSUME NEW cs, IsSeq(cs), WaitingOK(cs), cs # << >>, NEW cs2, cs2 = Front(cs)
  PROVE  IsSeq(cs2) /\ WaitingOK(cs2) /\ Unfinished(Last(cs).place, Last(cs).node)
<1>1. /\ IsSeq(cs2) /\ Len(cs) \in Nat \ {0} /\ Len(cs2) = Len(cs) - 1
      /\ \A k \in 1 .. Len(cs) - 1 : cs2[k] = cs[k]
  <2>1. cs2 = SubSeq(cs, 1, Len(cs) - 1)
    BY DEF Front
  <2> QED
    BY <2>1, FrontIsSeq
<1>2. Len(cs) \in 1 .. Len(cs) /\ \A k \in 1 .. Len(cs2) : k \in 1 .. Len(cs) /\ cs2[k] = cs[k]
  BY <1>1
<1> QED
  BY <1>1, <1>2 DEF WaitingOK, Last

\* A scope is entered, or left.
LEMMA EnterFilled ==
  ASSUME NEW ss, IsSeq(ss), FilledAll(ss), NEW r, NEW o, Filled(r, o),
         NEW ss2, ss2 = Append(ss, [results |-> r, operators |-> o])
  PROVE  FilledAll(ss2)
<1> DEFINE scope == [results |-> r, operators |-> o]
<1>1. scope.results = r /\ scope.operators = o
  OBVIOUS
<1> HIDE DEF scope
<1>2. /\ Len(ss) \in Nat /\ Len(ss2) = Len(ss) + 1
      /\ \A k \in 1 .. Len(ss) : ss2[k] = ss[k]
      /\ ss2[Len(ss) + 1] = scope
  BY AppendIsSeq DEF scope
<1> SUFFICES ASSUME NEW k \in 1 .. Len(ss2) PROVE Filled(ss2[k].results, ss2[k].operators)
  BY DEF FilledAll
<1>3. CASE k \in 1 .. Len(ss)
  BY <1>2, <1>3 DEF FilledAll
<1>4. CASE k = Len(ss) + 1
  BY <1>1, <1>2, <1>4
<1> QED
  BY <1>2, <1>3, <1>4

LEMMA LeaveFilled ==
  ASSUME NEW ss, IsSeq(ss), FilledAll(ss), ss # << >>, NEW ss2, ss2 = Front(ss)
  PROVE  FilledAll(ss2) /\ Filled(Last(ss).results, Last(ss).operators)
<1>1. /\ Len(ss) \in Nat \ {0} /\ Len(ss2) = Len(ss) - 1
      /\ \A k \in 1 .. Len(ss) - 1 : ss2[k] = ss[k]
  <2>1. ss2 = SubSeq(ss, 1, Len(ss) - 1)
    BY DEF Front
  <2> QED
    BY <2>1, FrontIsSeq
<1>2. Len(ss) \in 1 .. Len(ss) /\ \A k \in 1 .. Len(ss2) : k \in 1 .. Len(ss) /\ ss2[k] = ss[k]
  BY <1>1
<1> QED
  BY <1>1, <1>2 DEF FilledAll, Last

LEMMA NothingFilled == Filled(<< >>, << >>) /\ FilledAll(<< >>) /\ WaitingOK(<< >>) /\ IsSeq(<< >>)
<1>1. IsSeq(<< >>)
  BY EmptyOK
<1> QED
  BY <1>1 DEF Filled, Collected, OperatorsOK, FilledAll, WaitingOK

\* A member more of a set.
LEMMA AppendAll ==
  ASSUME NEW S, NEW s, IsSeq(s), \A k \in 1 .. Len(s) : s[k] \in S, NEW x \in S,
         NEW s2, s2 = Append(s, x)
  PROVE  \A k \in 1 .. Len(s2) : s2[k] \in S
<1>1. /\ Len(s) \in Nat /\ Len(s2) = Len(s) + 1
      /\ \A k \in 1 .. Len(s) : s2[k] = s[k]
      /\ s2[Len(s) + 1] = x
  BY AppendIsSeq
<1> SUFFICES ASSUME NEW k \in 1 .. Len(s2) PROVE s2[k] \in S
  OBVIOUS
<1>2. k \in 1 .. Len(s) \/ k = Len(s) + 1
  BY <1>1
<1> QED
  BY <1>1, <1>2

\* Tokens are consumed.
LEMMA ConsumeKeepsTokens ==
  ASSUME TokensOK(input), NEW n \in Nat, n <= Len(input), P!nextTokens(n)
  PROVE  TokensOK(input')
<1> DEFINE rest == SubSeq(input, n + 1, Len(input))
<1>1. input \in Seq(Token) /\ Len(input) \in Nat /\ \A k \in n + 1 .. Len(input) : input[k] \in Token
  BY DEF TokensOK
<1>2. /\ rest \in Seq(Token) /\ Len(rest) = Len(input) - n
      /\ \A k \in 1 .. Len(input) - n : rest[k] = input[n + k]
  <2>1. PICK S : S = Token
    OBVIOUS
  <2>2. \A k \in n + 1 .. Len(input) : input[k] \in S
    BY <1>1, <2>1
  <2>3. /\ rest \in Seq(S)
        /\ Len(rest) = IF n + 1 <= Len(input) THEN Len(input) - (n + 1) + 1 ELSE 0
        /\ \A k \in 1 .. Len(input) - (n + 1) + 1 : rest[k] = input[(n + 1) + k - 1]
    BY <1>1, <2>1, <2>2, SubSeqProperties
  <2> QED
    BY <1>1, <2>1, <2>3
<1>3. input' = rest
  BY DEF P!nextTokens
<1> HIDE DEF rest
<1>4. \A k \in 1 .. Len(rest) : n + k \in 1 .. Len(input) /\ rest[k] = input[n + k]
  BY <1>1, <1>2
<1>5. \A k \in 1 .. Len(rest) : rest[k].type = "identifier" => rest[k].name \in Identifiers
  BY <1>4 DEF TokensOK
<1> QED
  BY <1>2, <1>3, <1>5 DEF TokensOK

\* What the next tokens are.
LEMMA NextTokens ==
  ASSUME TokensOK(input), NEW n \in Nat, NEW types, Len(types) = n, P!Follows(types)
  PROVE  /\ n <= Len(input) /\ Len(input) \in Nat
         /\ \A k \in 1 .. n : /\ input[k].type = types[k] /\ input[k].type \in STRING
                              /\ input[k].v \in Word /\ input[k].name \in STRING
                              /\ types[k] = "identifier" => input[k].name \in Identifiers
<1>1. n <= Len(input) /\ Len(input) \in Nat /\ \A k \in 1 .. n : input[k].type = types[k]
  BY DEF P!Follows, TokensOK
<1>2. \A k \in 1 .. n : k \in 1 .. Len(input) /\ input[k] \in Token
  BY <1>1 DEF TokensOK
<1> QED
  BY <1>1, <1>2 DEF Token, TokensOK

\* A leaf is returned.
LEMMA LeafKeepsTrees ==
  ASSUME AllTrees, TreesInv, P!PrimaryInteger \/ P!PrimaryIdentifier
  PROVE  TreesInv'
<1>1. TokensOK(input) /\ 1 \in Nat
  BY DEF TreesInv
<1>2. Len(<<"integer">>) = 1 /\ Len(<<"identifier">>) = 1 /\ 1 \in 1 .. 1
      /\ <<"identifier">>[1] = "identifier"
  OBVIOUS
<1>3. "Int" \in Kinds /\ "Id" \in Kinds /\ 0 \in Word /\ "" \in STRING
  BY NodeParts
<1>4. PICK types : /\ Len(types) = 1 /\ P!Follows(types)
                   /\ \/ P!PrimaryInteger
                      \/ P!PrimaryIdentifier /\ types[1] = "identifier"
  BY <1>2 DEF P!PrimaryInteger, P!PrimaryIdentifier, P!Enters
<1>5. /\ 1 <= Len(input)
      /\ input[1].v \in Word /\ input[1].name \in STRING
      /\ types[1] = "identifier" => input[1].name \in Identifiers
  BY ONLY <1>1, <1>2, <1>4, NextTokens
<1>6. PICK n : /\ ret' = P!Expression(n, FALSE)
               /\ \/ n = P!Node("Int", input[1].v, "", << >>, << >>)
                  \/ /\ n = P!Node("Id", 0, input[1].name, << >>, << >>)
                     /\ input[1].name \in Identifiers
  BY <1>4, <1>5 DEF P!PrimaryInteger, P!PrimaryIdentifier, P!Leaf, P!Num, P!Var
<1>7. n \in Finished /\ n.t \in {"Int", "Id"} /\ (n.t = "Id" => n.id \in Identifiers)
  <2>1. CASE n = P!Node("Int", input[1].v, "", << >>, << >>)
    <3>1. PICK kind \in Kinds, id \in STRING : kind = "Int" /\ id = ""
      BY <1>3
    <3>2. PICK v \in Word : n = P!Node(kind, v, id, << >>, << >>)
      BY <1>5, <2>1, <3>1
    <3>3. n \in Finished /\ n.t = kind
      BY ONLY kind \in Kinds, id \in STRING, v \in Word, <3>2, LeafNode
    <3> QED
      BY <3>1, <3>3
  <2>2. CASE n = P!Node("Id", 0, input[1].name, << >>, << >>) /\ input[1].name \in Identifiers
    <3>1. PICK kind \in Kinds, v \in Word : kind = "Id" /\ v = 0
      BY <1>3
    <3>2. PICK id \in STRING : id \in Identifiers /\ n = P!Node(kind, v, id, << >>, << >>)
      BY <1>5, <2>2, <3>1
    <3>3. n \in Finished /\ n.t = kind /\ n.id = id
      BY ONLY kind \in Kinds, id \in STRING, v \in Word, <3>2, LeafNode
    <3> QED
      BY <3>1, <3>2, <3>3
  <2> QED
    BY <1>6, <2>1, <2>2
<1>8. n \in Operable
  BY <1>7, ShapedIsTree
<1>9. ret'.node \in Operable
  BY <1>6, <1>8 DEF P!Expression
<1>10. /\ P!nextTokens(1) /\ callers' = callers /\ scopes' = scopes /\ functions' = functions
       /\ resultStack' = resultStack /\ operatorStack' = operatorStack /\ at' = "returned"
  BY DEF P!PrimaryInteger, P!PrimaryIdentifier, P!Leaf, P!stacks
<1>11. TokensOK(input')
  BY ONLY <1>1, <1>5, <1>10, ConsumeKeepsTokens
<1> QED
  BY <1>9, <1>10, <1>11 DEF TreesInv

\* parseBinaryExpression is called in a new scope.
LEMMA CallKeepsTrees ==
  ASSUME ParserInv, TreesInv, TokensOK(input'), NEW cs, IsSeq(cs), WaitingOK(cs),
         NEW place, NEW node, Unfinished(place, node),
         P!ParseBinary(cs, P!Activation(place, node)), P!enterNewScope
  PROVE  TreesInv'
<1>1. callers' = Append(cs, P!Activation(place, node)) /\ at' = "primary"
      /\ functions' = functions
  BY DEF P!ParseBinary
<1>2. WaitingOK(callers')
  BY <1>1, PushWaiting
<1>3. /\ scopes' = Append(scopes, [results |-> resultStack, operators |-> operatorStack])
      /\ resultStack' = << >> /\ operatorStack' = << >>
  BY DEF P!enterNewScope
<1>4. IsSeq(scopes) /\ FilledAll(scopes) /\ Filled(resultStack, operatorStack)
  BY DEF ParserInv, ScopesOK, TreesInv
<1>5. FilledAll(scopes')
  BY <1>3, <1>4, EnterFilled
<1> QED
  BY <1>1, <1>2, <1>3, <1>5, NothingFilled DEF TreesInv

\* The tokens before the first operand are read.
LEMMA OpensKeepsTrees ==
  ASSUME ParserInv, TreesInv, NEW types, Len(types) \in Nat,
         NEW place, NEW node, Unfinished(place, node), P!Opens(types, place, node)
  PROVE  TreesInv'
<1>1. TokensOK(input) /\ WaitingOK(callers) /\ IsSeq(callers)
  BY DEF TreesInv, ParserInv, Counted
<1>2. /\ P!ParseBinary(callers, P!Activation(place, node)) /\ P!enterNewScope
      /\ P!Follows(types) /\ P!nextTokens(Len(types))
  BY DEF P!Opens
<1>3. TokensOK(input')
  <2>1. Len(types) <= Len(input)
    BY <1>2 DEF P!Follows
  <2> QED
    BY ONLY <1>1, <1>2, <2>1, Len(types) \in Nat, ConsumeKeepsTokens
<1> QED
  BY <1>1, <1>2, <1>3, CallKeepsTrees

LEMMA BindingsKeepTrees ==
  ASSUME ParserInv, TreesInv, NEW kind \in {"Let", "Loop"}, NEW types, Len(types) = 3,
         types[2] = "identifier",
         NEW id \in STRING, NEW names, names = <<input[2].name>>,
         P!Opens(types, "bindings", P!Node(kind, 0, id, names, << >>))
  PROVE  TreesInv'
<1>1. TokensOK(input) /\ 3 \in Nat /\ 2 \in 1 .. 3 /\ P!Follows(types)
  BY DEF TreesInv, P!Opens
<1>2. input[2].name \in Identifiers
  BY ONLY <1>1, Len(types) = 3, types[2] = "identifier", NextTokens
<1>3. names \in Seq(Identifiers) /\ Len(names) = 1
  BY <1>2
<1> DEFINE node == P!Node(kind, 0, id, names, << >>)
<1>4. P!Opens(types, "bindings", node) /\ node = P!Node(kind, 0, id, names, << >>)
  OBVIOUS
<1> HIDE DEF node
<1>5. kind \in Kinds \ {"Id"}
  BY NodeParts
<1>6. node \in Partial /\ node.t = kind /\ node.names = names /\ Len(node.kids) = 0
  BY ONLY id \in STRING, <1>3, <1>4, <1>5, BeginNode
<1>7. node.t \in {"Let", "Loop"} /\ Len(node.names) = Len(node.kids) + 1
  BY <1>3, <1>6
<1>8. Unfinished("bindings", node)
  BY <1>6, <1>7 DEF Unfinished
<1>9. Len(types) \in Nat
  OBVIOUS
<1> QED
  BY <1>4, <1>8, <1>9, OpensKeepsTrees

LEMMA PrimaryOpensKeepsTrees ==
  ASSUME ParserInv, TreesInv,
         P!PrimaryIf \/ P!PrimaryLet \/ P!PrimaryLoop \/ P!PrimaryParen
  PROVE  TreesInv'
<1>1. "If" \in Kinds \ {"Id"} /\ "" \in STRING
  BY NodeParts
<1>2. /\ Len(<<"if">>) = 1 /\ Len(<<"(">>) = 1
      /\ Len(<<"let", "identifier", "=">>) = 3 /\ Len(<<"loop", "identifier", "=">>) = 3
      /\ <<"let", "identifier", "=">>[2] = "identifier"
      /\ <<"loop", "identifier", "=">>[2] = "identifier"
  OBVIOUS
<1>3. CASE P!PrimaryIf
  <2> DEFINE node == P!Node("If", 0, "", << >>, << >>)
  <2>1. P!Opens(<<"if">>, "if", node)
    BY <1>3 DEF P!PrimaryIf
  <2>k. PICK kind \in Kinds \ {"Id"} : kind = "If"
    BY <1>1
  <2>n. PICK id \in STRING : node = P!Node(kind, 0, id, << >>, << >>)
    BY <1>1, <2>k
  <2> HIDE DEF node
  <2>2. node \in Partial /\ node.t = kind
    BY ONLY <2>n, kind \in Kinds \ {"Id"}, id \in STRING, BeginBare
  <2>3. Unfinished("if", node)
    BY <2>k, <2>2 DEF Unfinished
  <2> QED
    BY <1>2, <2>1, <2>3, OpensKeepsTrees
<1>4. CASE P!PrimaryLet
  <2>1. PICK types : types = <<"let", "identifier", "=">>
    OBVIOUS
  <2>2. PICK kind \in {"Let", "Loop"} : kind = "Let"
    OBVIOUS
  <2>3. PICK id \in STRING : id = ""
    BY <1>1
  <2>4. PICK names : names = <<input[2].name>>
    OBVIOUS
  <2>5. P!Opens(types, "bindings", P!Node(kind, 0, id, names, << >>))
    BY <1>4, <2>1, <2>2, <2>3, <2>4 DEF P!PrimaryLet
  <2>6. Len(types) = 3 /\ types[2] = "identifier"
    BY <1>2, <2>1
  <2> QED
    BY ONLY ParserInv, TreesInv, <2>4, <2>5, <2>6, kind \in {"Let", "Loop"}, id \in STRING,
       BindingsKeepTrees
<1>5. CASE P!PrimaryLoop
  <2>1. PICK types : types = <<"loop", "identifier", "=">>
    OBVIOUS
  <2>2. PICK kind \in {"Let", "Loop"} : kind = "Loop"
    OBVIOUS
  <2>3. PICK id \in STRING : id = ""
    BY <1>1
  <2>4. PICK names : names = <<input[2].name>>
    OBVIOUS
  <2>5. P!Opens(types, "bindings", P!Node(kind, 0, id, names, << >>))
    BY <1>5, <2>1, <2>2, <2>3, <2>4 DEF P!PrimaryLoop
  <2>6. Len(types) = 3 /\ types[2] = "identifier"
    BY <1>2, <2>1
  <2> QED
    BY ONLY ParserInv, TreesInv, <2>4, <2>5, <2>6, kind \in {"Let", "Loop"}, id \in STRING,
       BindingsKeepTrees
<1>6. CASE P!PrimaryParen
  <2>1. P!Opens(<<"(">>, "paren", << >>) /\ Unfinished("paren", << >>)
    BY <1>6 DEF P!PrimaryParen, Unfinished
  <2> QED
    BY <1>2, <2>1, OpensKeepsTrees
<1> QED
  BY <1>3, <1>4, <1>5, <1>6

\* parsePrimaryExpression calls itself, or parseParams.
LEMMA NestedKeepsTrees ==
  ASSUME ParserInv, TreesInv, at = "primary", NEW types, Len(types) = 1, P!Follows(types),
         NEW place, NEW node, Unfinished(place, node), P!Nested(place, node)
  PROVE  TreesInv'
<1>1. /\ callers' = Append(callers, P!Activation(place, node)) /\ at' = at
      /\ scopes' = scopes /\ resultStack' = resultStack /\ operatorStack' = operatorStack
      /\ functions' = functions /\ P!nextTokens(1)
  BY DEF P!Nested, P!stacks
<1>2. TokensOK(input) /\ WaitingOK(callers) /\ IsSeq(callers) /\ 1 \in Nat
  BY DEF TreesInv, ParserInv, Counted
<1>3. WaitingOK(callers')
  BY <1>1, <1>2, PushWaiting
<1>4. TokensOK(input')
  <2>1. 1 <= Len(input)
    BY DEF P!Follows
  <2> QED
    BY ONLY <1>1, <1>2, <2>1, ConsumeKeepsTokens
<1> QED
  BY <1>1, <1>3, <1>4 DEF TreesInv

LEMMA PrimaryNestedKeepsTrees ==
  ASSUME ParserInv, TreesInv, P!PrimaryInvocation \/ P!PrimaryRecur \/ P!PrimaryUnary
  PROVE  TreesInv'
<1>1. {"Call", "Recur", "Unary"} \subseteq Kinds \ {"Id"} /\ {"", "!", "-"} \subseteq STRING
  BY NodeParts
<1>2. TokensOK(input) /\ 1 \in Nat /\ 1 \in 1 .. 1
  BY DEF TreesInv
<1>3. /\ Len(<<"identifier">>) = 1 /\ Len(<<"recur">>) = 1
      /\ Len(<<"!">>) = 1 /\ Len(<<"-">>) = 1 /\ <<"!">>[1] = "!" /\ <<"-">>[1] = "-"
  OBVIOUS
<1>4. CASE P!PrimaryInvocation
  <2> DEFINE node == P!Node("Call", 0, input[1].name, << >>, << >>)
  <2>1. at = "primary" /\ P!Follows(<<"identifier">>) /\ P!Nested("params", node)
    BY <1>4 DEF P!PrimaryInvocation, P!Enters
  <2>2. input[1].name \in STRING
    BY ONLY <1>2, <1>3, <2>1, NextTokens
  <2>3. PICK kind \in Kinds \ {"Id"} : kind = "Call"
    BY <1>1
  <2>4. PICK id \in STRING : node = P!Node(kind, 0, id, << >>, << >>)
    BY <2>2, <2>3
  <2> HIDE DEF node
  <2>5. node \in Partial /\ node.t = kind
    BY ONLY <2>4, kind \in Kinds \ {"Id"}, id \in STRING, BeginBare
  <2>6. Unfinished("params", node)
    BY <2>3, <2>5 DEF Unfinished
  <2> QED
    BY <1>3, <2>1, <2>6, NestedKeepsTrees
<1>5. CASE P!PrimaryRecur
  <2> DEFINE node == P!Node("Recur", 0, "", << >>, << >>)
  <2>1. at = "primary" /\ P!Follows(<<"recur">>) /\ P!Nested("params", node)
    BY <1>5 DEF P!PrimaryRecur, P!Enters
  <2>3. PICK kind \in Kinds \ {"Id"} : kind = "Recur"
    BY <1>1
  <2>4. PICK id \in STRING : node = P!Node(kind, 0, id, << >>, << >>)
    BY <1>1, <2>3
  <2> HIDE DEF node
  <2>5. node \in Partial /\ node.t = kind
    BY ONLY <2>4, kind \in Kinds \ {"Id"}, id \in STRING, BeginBare
  <2>6. Unfinished("params", node)
    BY <2>3, <2>5 DEF Unfinished
  <2> QED
    BY <1>3, <2>1, <2>6, NestedKeepsTrees
<1>6. CASE P!PrimaryUnary
  <2>1. PICK types : /\ at = "primary" /\ Len(types) = 1 /\ P!Follows(types)
                     /\ types[1] \in {"!", "-"}
    BY <1>3, <1>6 DEF P!PrimaryUnary, P!Enters
  <2>2. PICK id \in STRING : id = P!peekNextToken /\ id \in {"!", "-"}
    <3>1. input # << >> /\ input[1].type = types[1]
      <4>1. 1 <= Len(input) /\ input[1].type = types[1]
        BY ONLY <1>2, <2>1, NextTokens
      <4> QED
        BY <4>1
    <3> QED
      BY <1>1, <2>1, <3>1 DEF P!peekNextToken
  <2>3. PICK kind \in Kinds \ {"Id"} : kind = "Unary"
    BY <1>1
  <2>4. PICK node : /\ node = P!Node(kind, 0, id, << >>, << >>)
                    /\ P!Nested("unary", node)
    BY <1>6, <2>2, <2>3 DEF P!PrimaryUnary
  <2>5. node \in Partial /\ node.t = kind /\ node.id = id /\ Len(node.kids) = 0
    BY ONLY <2>4, kind \in Kinds \ {"Id"}, id \in STRING, BeginBare
  <2>6. Unfinished("unary", node)
    BY <2>2, <2>3, <2>5 DEF Unfinished
  <2> QED
    BY <2>1, <2>4, <2>6, NestedKeepsTrees
<1> QED
  BY <1>4, <1>5, <1>6

\* The head of a function definition: how long it is, and where the parameters are.
LEMMA HeadLength ==
  ASSUME NEW S, NEW n \in Nat, NEW a \in Seq(S), NEW b \in Seq(S), NEW c \in Seq(S),
         Len(a) = 2, Len(b) = n, Len(c) = 1
  PROVE  /\ Len(a \o b \o c) = n + 3
         /\ \A k \in 1 .. n : (a \o b \o c)[k + 2] = b[k]
<1> DEFINE ab == a \o b
<1>1. /\ ab \in Seq(S) /\ Len(ab) = Len(a) + Len(b)
      /\ \A k \in 1 .. Len(b) : ab[Len(a) + k] = b[k]
  <2>1. ab \in Seq(S) /\ Len(ab) = Len(a) + Len(b)
    BY ConcatProperties
  <2>2. \A k \in 1 .. Len(a) + Len(b) : ab[k] = IF k <= Len(a) THEN a[k] ELSE b[k - Len(a)]
    BY ConcatProperties
  <2> HIDE DEF ab
  <2>3. \A k \in 1 .. Len(b) : /\ Len(a) + k \in 1 .. Len(a) + Len(b) /\ ~(Len(a) + k <= Len(a))
                               /\ (Len(a) + k) - Len(a) = k
    BY <2>1
  <2> QED
    BY <2>1, <2>2, <2>3
<1> HIDE DEF ab
<1>0. ab \in Seq(S)
  BY <1>1
<1>2. /\ Len(ab \o c) = Len(ab) + Len(c)
      /\ \A k \in 1 .. Len(ab) : (ab \o c)[k] = ab[k]
  <2>1. /\ Len(ab \o c) = Len(ab) + Len(c)
        /\ \A k \in 1 .. Len(ab) + Len(c) :
             (ab \o c)[k] = IF k <= Len(ab) THEN ab[k] ELSE c[k - Len(ab)]
    BY ONLY <1>0, c \in Seq(S), ConcatProperties
  <2>2. \A k \in 1 .. Len(ab) : k <= Len(ab) /\ k \in 1 .. Len(ab) + Len(c)
    BY <1>1
  <2> QED
    BY <2>1, <2>2
<1>3. Len(ab \o c) = n + 3
  BY <1>1, <1>2
<1>4. ASSUME NEW k \in 1 .. n PROVE (ab \o c)[k + 2] = b[k]
  <2>1. 2 + k \in 1 .. Len(ab) /\ 2 + k = k + 2
    BY <1>1
  <2> QED
    BY <1>1, <1>2, <2>1
<1> QED
  BY <1>3, <1>4 DEF ab

LEMMA HeadTokens ==
  ASSUME NEW n \in Nat, NEW types,
         types = <<"let", "identifier">> \o [k \in 1 .. n |-> "identifier"] \o <<"=">>
  PROVE  Len(types) = n + 3 /\ \A k \in 1 .. n : types[k + 2] = "identifier"
<1> DEFINE S == {"let", "identifier", "="}
           b == [k \in 1 .. n |-> "identifier"]
<1>1. <<"let", "identifier">> \in Seq(S) /\ <<"=">> \in Seq(S)
      /\ Len(<<"let", "identifier">>) = 2 /\ Len(<<"=">>) = 1
  OBVIOUS
<1>2. b \in Seq(S) /\ Len(b) = n /\ \A k \in 1 .. n : b[k] = "identifier"
  OBVIOUS
<1>3. PICK a, c : /\ a = <<"let", "identifier">> /\ c = <<"=">>
                  /\ a \in Seq(S) /\ c \in Seq(S) /\ Len(a) = 2 /\ Len(c) = 1
                  /\ types = a \o b \o c
  BY <1>1
<1> HIDE DEF S, b
<1>4. Len(types) = n + 3 /\ \A k \in 1 .. n : types[k + 2] = b[k]
  BY ONLY n \in Nat, <1>2, <1>3, HeadLength
<1> QED
  BY <1>2, <1>4

\* parseFunction reads the head of a definition.
LEMMA FunctionKeepsTrees == ASSUME ParserInv, TreesInv, P!parseFunction PROVE TreesInv'
<1> DEFINE types(n) == <<"let", "identifier">> \o [k \in 1 .. n |-> "identifier"] \o <<"=">>
           names(n) == [k \in 1 .. n |-> input[k + 2].name]
           fun(n)   == P!Node("Fun", 0, input[2].name, names(n), << >>)
<1>1. PICK n \in 1 .. Len(input) :
        /\ P!Follows(types(n)) /\ P!nextTokens(n + 3)
        /\ P!ParseBinary(<< >>, P!Activation("function", fun(n)))
  BY DEF P!parseFunction
<1>2. TokensOK(input) /\ n \in Nat /\ n + 3 \in Nat /\ P!enterNewScope
  BY DEF TreesInv, TokensOK, P!parseFunction
<1>3. PICK ts : ts = types(n)
  OBVIOUS
<1>4. Len(ts) = n + 3 /\ \A k \in 1 .. n : ts[k + 2] = "identifier"
  BY <1>2, <1>3, HeadTokens
<1>5. P!Follows(ts)
  BY <1>1, <1>3
<1> HIDE DEF types
<1>6. /\ n + 3 <= Len(input)
      /\ \A k \in 1 .. n + 3 : /\ input[k].name \in STRING
                               /\ ts[k] = "identifier" => input[k].name \in Identifiers
  BY ONLY <1>2, <1>4, <1>5, NextTokens
<1>7. names(n) \in Seq(Identifiers)
  <2>1. ASSUME NEW k \in 1 .. n PROVE input[k + 2].name \in Identifiers
    <3>1. PICK j \in 1 .. n + 3 : j = k + 2
      BY <1>2
    <3>2. ts[j] = "identifier"
      BY <1>4, <3>1
    <3>3. input[j].name \in Identifiers
      BY ONLY <1>6, <3>2, j \in 1 .. n + 3
    <3> QED
      BY <3>1, <3>3
  <2> QED
    BY <1>2, <2>1
<1>8. PICK id \in STRING : id = input[2].name
  <2>1. PICK j \in 1 .. n + 3 : j = 2
    BY <1>2
  <2>2. input[j].name \in STRING
    BY ONLY <1>6, j \in 1 .. n + 3
  <2> QED
    BY <2>1, <2>2
<1>9. PICK kind \in Kinds \ {"Id"} : kind = "Fun"
  BY NodeParts
<1>10. PICK ns \in Seq(Identifiers) : ns = names(n)
  BY <1>7
<1>11. fun(n) = P!Node(kind, 0, id, ns, << >>)
  BY <1>8, <1>9, <1>10
<1> HIDE DEF names, fun
<1>12. PICK node : node = fun(n)
  OBVIOUS
<1>13. node = P!Node(kind, 0, id, ns, << >>)
  BY <1>11, <1>12
<1>14. node \in Partial /\ node.t = kind /\ Len(node.kids) = 0
  BY ONLY <1>13, kind \in Kinds \ {"Id"}, id \in STRING, ns \in Seq(Identifiers), BeginNode
<1>15. Unfinished("function", node)
  BY <1>9, <1>14 DEF Unfinished
<1>16. TokensOK(input')
  BY ONLY <1>1, <1>2, <1>6, ConsumeKeepsTokens
<1>17. P!ParseBinary(<< >>, P!Activation("function", node))
  BY <1>1, <1>12
<1> QED
  BY ONLY ParserInv, TreesInv, <1>2, <1>15, <1>16, <1>17, NothingFilled, CallKeepsTrees

-----------------------------------------------------------------------------
\* parsePrimaryExpression returns to itself or to parseParams: the activation
\* it goes to, and its node with one operand more.
LEMMA InnerParts ==
  ASSUME ParserInv, TreesInv, NEW place, place # "paren", P!ReturnsTo(place)
  PROVE  /\ at = "returned" /\ ret.node \in Operable
         /\ IsSeq(P!Others) /\ WaitingOK(P!Others)
         /\ Unfinished(place, P!Top.node)
         /\ P!Top.node \in Partial /\ P!WithRet \in Partial /\ P!WithRet.t = P!Top.node.t
         /\ P!WithRet.id = P!Top.node.id
         /\ Len(P!WithRet.kids) = Len(P!Top.node.kids) + 1 /\ Len(P!Top.node.kids) \in Nat
<1>1. at = "returned" /\ P!Top.place = place
  BY DEF P!ReturnsTo
<1>2. callers # << >> /\ IsSeq(callers) /\ WaitingOK(callers)
  BY <1>1 DEF ParserInv, Waiting, Counted, TreesInv
<1>3. IsSeq(P!Others) /\ WaitingOK(P!Others) /\ Unfinished(place, P!Top.node)
  BY <1>1, <1>2, PopWaiting, SameEnds DEF P!Others, P!Top
<1>4. PICK x \in Operable : x = ret.node
  BY <1>1 DEF TreesInv
<1>5. PICK node \in Partial : node = P!Top.node
  BY <1>3 DEF Unfinished
<1>6. PICK n : n = P!WithRet /\ n = [node EXCEPT !.kids = Append(@, x)]
  BY <1>4, <1>5 DEF P!WithRet
<1>7. /\ n \in Partial /\ n.t = node.t /\ n.id = node.id /\ n.names = node.names
      /\ Len(n.kids) = Len(node.kids) + 1 /\ Len(node.kids) \in Nat
  BY ONLY x \in Operable, node \in Partial, <1>6, OneMoreKid
<1> QED
  BY <1>1, <1>3, <1>4, <1>5, <1>6, <1>7

LEMMA ReturnToUnaryKeepsTrees ==
  ASSUME AllTrees, ParserInv, TreesInv, P!ReturnToUnary PROVE TreesInv'
<1>1. /\ P!ReturnsTo("unary") /\ callers' = P!Others /\ ret' = P!Expression(P!WithRet, FALSE)
      /\ input' = input /\ scopes' = scopes /\ resultStack' = resultStack
      /\ operatorStack' = operatorStack /\ functions' = functions /\ at' = at
  BY DEF P!ReturnToUnary, P!stacks
<1>2. PICK place : place = "unary"
  OBVIOUS
<1>3. place # "paren" /\ P!ReturnsTo(place)
  BY <1>1, <1>2
<1>4. PICK n : n = P!WithRet
  OBVIOUS
<1>5. /\ at = "returned" /\ WaitingOK(P!Others) /\ Unfinished(place, P!Top.node)
      /\ n \in Partial /\ n.t = P!Top.node.t /\ n.id = P!Top.node.id
      /\ Len(n.kids) = Len(P!Top.node.kids) + 1
  BY <1>3, <1>4, InnerParts
<1>6. n \in Finished /\ n.t = "Unary" /\ n.id \in {"!", "-"} /\ Len(n.kids) = 1
  BY <1>2, <1>5, PartialFinished DEF Unfinished
<1>7. n \in Operable
  BY <1>6, ShapedIsTree
<1>8. ret'.node \in Operable
  BY <1>1, <1>4, <1>7 DEF P!Expression
<1> QED
  BY <1>1, <1>5, <1>8 DEF TreesInv

LEMMA ReturnToParamsKeepsTrees ==
  ASSUME AllTrees, ParserInv, TreesInv, P!ReturnToParams PROVE TreesInv'
<1>1. PICK place : place = "params"
  OBVIOUS
<1>2. PICK n : n = P!WithRet
  OBVIOUS
<1>3. place # "paren" /\ P!ReturnsTo(place)
  BY <1>1 DEF P!ReturnToParams
<1>4. /\ input' = input /\ scopes' = scopes /\ resultStack' = resultStack
      /\ operatorStack' = operatorStack /\ functions' = functions
      /\ \/ callers' = Append(P!Others, P!Activation(place, n)) /\ at' = "primary"
         \/ callers' = P!Others /\ ret' = P!Expression(n, FALSE) /\ at' = at
  BY <1>1, <1>2 DEF P!ReturnToParams, P!stacks
<1>5. /\ at = "returned" /\ IsSeq(P!Others) /\ WaitingOK(P!Others) /\ Unfinished(place, P!Top.node)
      /\ n \in Partial /\ n.t = P!Top.node.t
      /\ Len(n.kids) = Len(P!Top.node.kids) + 1 /\ Len(P!Top.node.kids) \in Nat
  BY <1>2, <1>3, InnerParts
<1>6. n.t \in {"Recur", "Call"} /\ Len(n.kids) > 0
  BY <1>1, <1>5 DEF Unfinished
<1>7. CASE callers' = Append(P!Others, P!Activation(place, n)) /\ at' = "primary"
  <2>1. Unfinished(place, n)
    BY <1>1, <1>5, <1>6 DEF Unfinished
  <2>2. PICK cs : cs = P!Others
    OBVIOUS
  <2>3. IsSeq(cs) /\ WaitingOK(cs) /\ callers' = Append(cs, P!Activation(place, n))
    BY <1>5, <1>7, <2>2
  <2>4. WaitingOK(callers')
    BY <2>1, <2>3, PushWaiting
  <2> QED
    BY <1>4, <1>7, <2>4 DEF TreesInv
<1>8. CASE callers' = P!Others /\ ret' = P!Expression(n, FALSE) /\ at' = at
  <2>1. n \in Finished /\ n.t # "Id"
    BY <1>5, PartialFinished
  <2>2. n \in Operable
    BY <1>6, <2>1, ShapedIsTree
  <2>3. ret'.node \in Operable
    BY <1>8, <2>2 DEF P!Expression
  <2> QED
    BY <1>4, <1>5, <1>8, <2>3 DEF TreesInv
<1> QED
  BY <1>4, <1>7, <1>8

-----------------------------------------------------------------------------
(* The loop of parseBinaryExpression.                                      *)

\* An operand is collected.
LEMMA PushOperandKeepsTrees ==
  ASSUME TreesInv, ParserInv, P!PushOperand PROVE TreesInv'
<1>1. /\ at = "returned" /\ resultStack' = Append(resultStack, ret.node)
      /\ at' = IF P!peekNextToken \in P!BinaryOperators THEN "operator" ELSE "join"
      /\ input' = input /\ callers' = callers /\ scopes' = scopes
      /\ operatorStack' = operatorStack /\ functions' = functions
  BY DEF P!PushOperand
<1>2. /\ IsSeq(resultStack) /\ ret.node \in Operable
      /\ \A k \in 1 .. Len(resultStack) : resultStack[k] \in Operable
  BY <1>1 DEF ParserInv, Stacks, InStep, TreesInv, Filled, Collected
<1>3. \A k \in 1 .. Len(resultStack') : resultStack'[k] \in Operable
  BY <1>1, <1>2, AppendAll
<1>4. Filled(resultStack', operatorStack')
  BY <1>1, <1>3 DEF TreesInv, Filled, Collected
<1>5. P!peekNextToken' = P!peekNextToken
  BY <1>1 DEF P!peekNextToken
<1>6. at' = "operator" => P!peekNextToken' \in BinaryOperators
  BY <1>1, <1>5 DEF P!BinaryOperators, BinaryOperators
<1>7. at' # "returned"
  BY <1>1
<1> QED
  BY <1>1, <1>4, <1>6, <1>7 DEF TreesInv

\* An operator waits.
LEMMA PushOperatorKeepsTrees ==
  ASSUME TreesInv, ParserInv, P!PushOperator PROVE TreesInv'
<1>1. /\ at = "operator" /\ at' = "primary" /\ P!nextTokens(1)
      /\ operatorStack' = Append(operatorStack, P!peekNextToken)
      /\ callers' = callers /\ scopes' = scopes /\ resultStack' = resultStack
      /\ functions' = functions
  BY DEF P!PushOperator
<1>2. /\ IsSeq(operatorStack) /\ P!peekNextToken \in BinaryOperators
      /\ \A k \in 1 .. Len(operatorStack) : operatorStack[k] \in BinaryOperators
  BY <1>1 DEF ParserInv, Stacks, TreesInv, Filled, OperatorsOK
<1>3. \A k \in 1 .. Len(operatorStack') : operatorStack'[k] \in BinaryOperators
  BY <1>1, <1>2, AppendAll
<1>4. Filled(resultStack', operatorStack')
  BY <1>1, <1>3 DEF TreesInv, Filled, OperatorsOK
<1>5. TokensOK(input')
  <2>1. TokensOK(input) /\ 1 \in Nat
    BY DEF TreesInv
  <2>2. 1 <= Len(input)
    <3>1. input # << >>
      BY <1>2 DEF P!peekNextToken, BinaryOperators
    <3> QED
      BY <2>1, <3>1 DEF TokensOK
  <2> QED
    BY ONLY <1>1, <2>1, <2>2, ConsumeKeepsTokens
<1> QED
  BY <1>1, <1>4, <1>5 DEF TreesInv

\* An expression is made of the two operands on top.
LEMMA JoinedOperable ==
  ASSUME AllTrees, NEW op \in BinaryOperators, NEW x \in Operable, NEW y \in Operable
  PROVE  P!SY!Bin(op, x, y) \in Operable
<1> DEFINE n == P!SY!Bin(op, x, y)
<1>1. op \in STRING /\ "Binary" \in Kinds /\ 0 \in Word
  BY NodeParts
<1>2. <<x, y>> \in Seq(Operable) /\ Len(<<x, y>>) = 2 /\ << >> \in Seq(Identifiers)
  OBVIOUS
<1>3. n \in Finished /\ n.t = "Binary" /\ n.id = op /\ n.kids = <<x, y>>
  BY <1>1, <1>2 DEF P!SY!Bin, P!SY!Node, Finished
<1> HIDE DEF n
<1>4. Len(n.kids) = 2 /\ n.id \in BinaryOperators
  BY <1>2, <1>3
<1>5. n \in Operable
  BY <1>3, <1>4, ShapedIsTree
<1> QED
  BY <1>5 DEF n

\* The operands below the two on top.
LEMMA LowerOperands ==
  ASSUME NEW r, IsSeq(r), Collected(r), NEW m \in Nat, Len(r) = m + 2
  PROVE  IsSeq(SubSeq(r, 1, m)) /\ Collected(SubSeq(r, 1, m))
<1> DEFINE S == { r[k] : k \in DOMAIN r }
<1>1. r \in Seq(S)
  BY DEF IsSeq
<1> HIDE DEF S
<1>2. \A k \in 1 .. m : r[k] \in S /\ k \in 1 .. Len(r)
  BY <1>1
<1>3. /\ SubSeq(r, 1, m) \in Seq(S)
      /\ Len(SubSeq(r, 1, m)) = IF 1 <= m THEN m - 1 + 1 ELSE 0
      /\ \A k \in 1 .. m - 1 + 1 : SubSeq(r, 1, m)[k] = r[1 + k - 1]
  BY <1>2, SubSeqProperties
<1> DEFINE front == SubSeq(r, 1, m)
<1>4. IsSeq(front)
  BY <1>3, SeqIsSeq
<1> HIDE DEF front
<1>5. Len(front) = m /\ \A k \in 1 .. m : front[k] = r[k]
  BY <1>3 DEF front
<1>6. Collected(front)
  BY <1>2, <1>5 DEF Collected
<1> QED
  BY <1>4, <1>6 DEF front

LEMMA MakeExpressionKeepsTrees ==
  ASSUME AllTrees, TreesInv, ParserInv, P!MakeExpression PROVE TreesInv'
<1>1. /\ at \in {"operator", "join"} /\ at' = at /\ operatorStack # << >>
      /\ P!SY!createBinaryExpression
      /\ input' = input /\ callers' = callers /\ scopes' = scopes /\ functions' = functions
  BY DEF P!MakeExpression, P!SY!MustWait
<1>2. PICK r, o : r = resultStack /\ o = operatorStack
  OBVIOUS
<1>3. /\ IsSeq(r) /\ IsSeq(o) /\ Len(r) = Len(o) + 1 /\ o # << >>
      /\ Collected(r) /\ OperatorsOK(o)
  BY <1>1, <1>2 DEF ParserInv, Stacks, TreesInv, Filled
<1>4. /\ Len(o) \in Nat \ {0} /\ Len(Front(o)) = Len(o) - 1
      /\ \A k \in 1 .. Len(o) - 1 : Front(o)[k] = o[k]
  BY <1>3, FrontIsSeq DEF Front
<1>5. PICK m \in Nat : Len(r) = m + 2 /\ Len(r) - 2 = m /\ Len(r) - 1 = m + 1
  <2>1. Len(o) - 1 \in Nat /\ Len(r) = (Len(o) - 1) + 2
    BY <1>3, <1>4
  <2> QED
    BY <2>1
<1>6. PICK op \in BinaryOperators : op = Last(o)
  <2>1. Len(o) \in 1 .. Len(o)
    BY <1>4
  <2> QED
    BY <1>3, <2>1 DEF OperatorsOK, Last
<1>7. PICK x \in Operable, y \in Operable : x = r[Len(r) - 1] /\ y = r[Len(r)]
  <2>1. Len(r) - 1 \in 1 .. Len(r) /\ Len(r) \in 1 .. Len(r)
    BY <1>5
  <2> QED
    BY <1>3, <2>1 DEF Collected
<1>8. PICK e \in Operable : e = P!SY!Bin(op, x, y)
  BY JoinedOperable
<1>9. resultStack' = Append(SubSeq(r, 1, Len(r) - 2), P!SY!Bin(Last(o), r[Len(r) - 1], r[Len(r)]))
  BY <1>1, <1>2, SameEnds DEF P!SY!createBinaryExpression, P!SY!Last, Last
<1>10. resultStack' = Append(SubSeq(r, 1, m), e) /\ operatorStack' = Front(o)
  BY <1>1, <1>2, <1>5, <1>6, <1>7, <1>8, <1>9, SameEnds DEF P!SY!createBinaryExpression
<1>11. IsSeq(SubSeq(r, 1, m)) /\ Collected(SubSeq(r, 1, m))
  BY <1>3, <1>5, LowerOperands
<1>12. Collected(resultStack')
  <2>1. PICK front : front = SubSeq(r, 1, m)
    OBVIOUS
  <2>2. IsSeq(front) /\ \A k \in 1 .. Len(front) : front[k] \in Operable
    BY <1>11, <2>1 DEF Collected
  <2>3. resultStack' = Append(front, e)
    BY <1>10, <2>1
  <2>4. \A k \in 1 .. Len(resultStack') : resultStack'[k] \in Operable
    BY ONLY <2>2, <2>3, e \in Operable, AppendAll
  <2> QED
    BY <2>4 DEF Collected
<1>13. OperatorsOK(operatorStack')
  <2>1. \A k \in 1 .. Len(o) - 1 : k \in 1 .. Len(o)
    BY <1>4
  <2> QED
    BY <1>3, <1>4, <1>10, <2>1 DEF OperatorsOK
<1>14. P!peekNextToken' = P!peekNextToken
  BY <1>1 DEF P!peekNextToken
<1> QED
  BY <1>1, <1>12, <1>13, <1>14 DEF TreesInv, Filled

-----------------------------------------------------------------------------
(* parseBinaryExpression returns.                                          *)

\* The operand that is left, the activation it goes to, the scope and the
\* tokens.
LEMMA ReturnedParts ==
  ASSUME ParserInv, TreesInv, NEW place, NEW types, Len(types) \in Nat, P!Resumes(place, types)
  PROVE  /\ P!Result \in Operable
         /\ IsSeq(P!Others) /\ WaitingOK(P!Others) /\ Unfinished(place, P!Top.node)
         /\ FilledAll(P!Front(scopes))
         /\ Filled(P!Last(scopes).results, P!Last(scopes).operators)
         /\ TokensOK(input') /\ TokensOK(input)
<1>1. /\ P!Top.place = place /\ P!nextTokens(Len(types)) /\ P!Follows(types)
      /\ at = "join" /\ operatorStack = << >>
  BY DEF P!Resumes, P!Returns
<1>2. P!Result \in Operable
  <2>1. Len(resultStack) = Len(operatorStack) + 1 /\ Len(operatorStack) = 0
    BY <1>1 DEF ParserInv, Stacks
  <2>2. Len(resultStack) = 1 /\ Len(resultStack) \in 1 .. Len(resultStack)
    BY <2>1
  <2>3. resultStack[Len(resultStack)] \in Operable
    BY <2>2 DEF TreesInv, Filled, Collected
  <2> QED
    BY <2>3, SameEnds DEF P!Result, Last
<1>3. callers # << >> /\ IsSeq(callers) /\ WaitingOK(callers) /\ Counted(callers, Len(scopes))
  BY <1>1 DEF ParserInv, Waiting, Counted, TreesInv
<1>4. IsSeq(P!Others) /\ WaitingOK(P!Others) /\ Unfinished(P!Top.place, P!Top.node)
  BY <1>3, PopWaiting, SameEnds DEF P!Others, P!Top
<1>5. /\ FilledAll(P!Front(scopes))
      /\ Filled(P!Last(scopes).results, P!Last(scopes).operators)
  <2>1. Len(scopes) > 0
    BY <1>3, SomeOpen
  <2>2. scopes # << >>
    BY <2>1
  <2>3. IsSeq(scopes) /\ FilledAll(scopes)
    BY DEF ParserInv, ScopesOK, TreesInv
  <2> QED
    BY <2>2, <2>3, LeaveFilled, SameEnds
<1>6. TokensOK(input)
  BY DEF TreesInv
<1>7. TokensOK(input')
  <2>1. Len(types) <= Len(input)
    BY <1>1 DEF P!Follows
  <2> QED
    BY ONLY <1>1, <1>6, <2>1, Len(types) \in Nat, ConsumeKeepsTokens
<1> QED
  BY <1>1, <1>2, <1>4, <1>5, <1>6, <1>7

\* Its node has one operand more.
LEMMA Node1Parts ==
  ASSUME ParserInv, TreesInv, NEW place, place # "paren", NEW types, Len(types) \in Nat,
         P!Resumes(place, types)
  PROVE  /\ P!Top.node \in Partial /\ P!Node1 \in Partial /\ P!Node1.t = P!Top.node.t
         /\ P!Node1.id = P!Top.node.id /\ P!Node1.names = P!Top.node.names
         /\ Len(P!Node1.kids) = Len(P!Top.node.kids) + 1 /\ Len(P!Top.node.kids) \in Nat
<1>1. PICK x \in Operable : x = P!Result
  BY ReturnedParts
<1>2. PICK node \in Partial : node = P!Top.node
  BY ReturnedParts DEF Unfinished
<1>3. PICK n : n = P!Node1 /\ n = [node EXCEPT !.kids = Append(@, x)]
  BY <1>1, <1>2 DEF P!Node1
<1>4. /\ n \in Partial /\ n.t = node.t /\ n.id = node.id /\ n.names = node.names
      /\ Len(n.kids) = Len(node.kids) + 1 /\ Len(node.kids) \in Nat
  BY ONLY x \in Operable, node \in Partial, <1>3, OneMoreKid
<1> QED
  BY <1>2, <1>3, <1>4

\* An activation calls parseBinaryExpression again.
LEMMA AgainKeepsTrees ==
  ASSUME ParserInv, TreesInv, NEW place, NEW types, Len(types) \in Nat,
         P!Resumes(place, types), NEW place2, NEW node, Unfinished(place2, node),
         P!Again(node, place2)
  PROVE  TreesInv'
<1>1. PICK cs : cs = P!Others
  OBVIOUS
<1>2. IsSeq(cs) /\ WaitingOK(cs) /\ TokensOK(input')
  BY <1>1, ReturnedParts
<1>3. /\ callers' = Append(cs, P!Activation(place2, node)) /\ at' = "primary"
      /\ functions' = functions /\ scopes' = scopes
      /\ resultStack' = << >> /\ operatorStack' = << >>
  BY <1>1 DEF P!Again, P!ParseBinary
<1>4. WaitingOK(callers')
  BY <1>2, <1>3, PushWaiting
<1> QED
  BY <1>2, <1>3, <1>4, NothingFilled DEF TreesInv

\* parsePrimaryExpression returns.
LEMMA PrimaryReturnsKeepsTrees ==
  ASSUME ParserInv, TreesInv, NEW place, NEW types, Len(types) \in Nat,
         P!Resumes(place, types), NEW node, node \in Operable, NEW paren,
         P!PrimaryReturns(node, paren)
  PROVE  TreesInv'
<1>1. /\ WaitingOK(P!Others) /\ TokensOK(input')
      /\ FilledAll(P!Front(scopes)) /\ Filled(P!Last(scopes).results, P!Last(scopes).operators)
  BY ReturnedParts
<1>2. /\ callers' = P!Others /\ ret' = P!Expression(node, paren) /\ functions' = functions
      /\ at' = "returned" /\ scopes' = P!Front(scopes)
      /\ resultStack' = P!Last(scopes).results /\ operatorStack' = P!Last(scopes).operators
  BY DEF P!PrimaryReturns, P!leaveScope
<1>3. ret'.node \in Operable
  BY <1>2 DEF P!Expression
<1> QED
  BY <1>1, <1>2, <1>3 DEF TreesInv

\* parsePrimaryExpression goes on with the conditional.
LEMMA ResumeIfKeepsTrees ==
  ASSUME AllTrees, ParserInv, TreesInv, P!ResumeIf
  PROVE  TreesInv'
<1>1. PICK types : /\ Len(types) = 1 /\ P!Resumes("if", types)
                   /\ \/ P!Again(P!Node1, "if")
                      \/ Len(P!Node1.kids) = 3 /\ P!PrimaryReturns(P!Node1, FALSE)
  <2>1. Len(<<"then">>) = 1 /\ Len(<<"else">>) = 1 /\ Len(<<"end">>) = 1
    OBVIOUS
  <2> QED
    BY <2>1 DEF P!ResumeIf, P!OperandsRead
<1>2. PICK place : place = "if"
  OBVIOUS
<1>3. P!Resumes(place, types) /\ place # "paren" /\ Len(types) \in Nat
  BY <1>1, <1>2
<1>4. P!Top.node.t = "If"
  BY <1>2, <1>3, ReturnedParts DEF Unfinished
<1>5. PICK n : n = P!Node1
  OBVIOUS
<1>6. n \in Partial /\ n.t = "If"
  BY <1>3, <1>4, <1>5, Node1Parts
<1>7. CASE P!Again(P!Node1, "if")
  <2>1. Unfinished(place, n) /\ P!Again(n, place)
    BY <1>2, <1>5, <1>6, <1>7 DEF Unfinished
  <2> QED
    BY <1>3, <2>1, AgainKeepsTrees
<1>8. CASE Len(P!Node1.kids) = 3 /\ P!PrimaryReturns(P!Node1, FALSE)
  <2>1. n \in Finished
    BY <1>6, PartialFinished
  <2>2. n \in Operable
    BY <1>5, <1>6, <1>8, <2>1, ShapedIsTree
  <2> QED
    BY <1>3, <1>5, <1>8, <2>2, PrimaryReturnsKeepsTrees
<1> QED
  BY <1>1, <1>7, <1>8

\* With the bindings of let and loop.
LEMMA BindingsResumedKeepTrees ==
  ASSUME ParserInv, TreesInv, P!parseBindings
  PROVE  TreesInv'
<1>1. PICK types :
        /\ P!Resumes("bindings", types)
        /\ \/ /\ Len(types) = 3 /\ types[2] = "identifier"
              /\ P!Again([P!Node1 EXCEPT !.names = Append(@, input[2].name)], "bindings")
           \/ Len(types) = 1 /\ P!Again(P!Node1, "body")
  <2>1. /\ Len(<<"and", "identifier", "=">>) = 3 /\ Len(<<"in">>) = 1
        /\ <<"and", "identifier", "=">>[2] = "identifier"
    OBVIOUS
  <2> QED
    BY <2>1 DEF P!parseBindings
<1>2. PICK place : place = "bindings"
  OBVIOUS
<1>3. P!Resumes(place, types) /\ place # "paren" /\ Len(types) \in Nat
  BY <1>1, <1>2
<1>4. /\ P!Top.node.t \in {"Let", "Loop"}
      /\ Len(P!Top.node.names) = Len(P!Top.node.kids) + 1
  BY <1>2, <1>3, ReturnedParts DEF Unfinished
<1>5. PICK n : n = P!Node1
  OBVIOUS
<1>6. /\ n \in Partial /\ n.t \in {"Let", "Loop"} /\ Len(n.names) = Len(n.kids)
      /\ Len(n.kids) \in Nat /\ Len(n.kids) > 0
  <2>1. /\ n \in Partial /\ n.t = P!Top.node.t /\ n.names = P!Top.node.names
        /\ Len(n.kids) = Len(P!Top.node.kids) + 1 /\ Len(P!Top.node.kids) \in Nat
    BY <1>3, <1>5, Node1Parts
  <2> QED
    BY <1>4, <2>1
<1>7. CASE /\ Len(types) = 3 /\ types[2] = "identifier"
           /\ P!Again([P!Node1 EXCEPT !.names = Append(@, input[2].name)], "bindings")
  <2>1. TokensOK(input) /\ P!Follows(types) /\ 3 \in Nat /\ 2 \in 1 .. 3
    BY <1>3, ReturnedParts DEF P!Resumes
  <2>2. input[2].name \in Identifiers
    BY ONLY <1>7, <2>1, NextTokens
  <2>3. PICK name \in Identifiers : name = input[2].name
    BY <2>2
  <2>4. PICK n2 : n2 = [n EXCEPT !.names = Append(@, name)] /\ P!Again(n2, place)
    BY <1>2, <1>5, <1>7, <2>3
  <2>5. n.names \in Seq(Identifiers)
    BY <1>6 DEF Partial
  <2>6. Append(n.names, name) \in Seq(Identifiers) /\ Len(Append(n.names, name)) = Len(n.names) + 1
    BY <2>5
  <2>7. n2 \in Partial /\ n2.t = n.t /\ n2.names = Append(n.names, name) /\ n2.kids = n.kids
    BY <1>6, <2>4, <2>6 DEF Partial
  <2>8. n2.t \in {"Let", "Loop"} /\ Len(n2.names) = Len(n2.kids) + 1
    BY <1>6, <2>6, <2>7
  <2>9. Unfinished(place, n2)
    BY <1>2, <2>7, <2>8 DEF Unfinished
  <2> QED
    BY <1>3, <2>4, <2>9, AgainKeepsTrees
<1>8. CASE P!Again(P!Node1, "body")
  <2>1. PICK place2 : place2 = "body"
    OBVIOUS
  <2>2. P!Again(n, place2)
    BY <1>5, <1>8, <2>1
  <2>3. Len(n.names) > 0
    BY <1>6
  <2>4. Unfinished(place2, n)
    BY <1>6, <2>1, <2>3 DEF Unfinished
  <2> QED
    BY <1>3, <2>2, <2>4, AgainKeepsTrees
<1> QED
  BY <1>1, <1>7, <1>8

\* With the body.
LEMMA ResumeBodyKeepsTrees ==
  ASSUME AllTrees, ParserInv, TreesInv, P!ResumeBody
  PROVE  TreesInv'
<1>1. PICK types : Len(types) = 1 /\ P!Resumes("body", types)
  <2>1. Len(<<"end">>) = 1
    OBVIOUS
  <2> QED
    BY <2>1 DEF P!ResumeBody
<1>2. PICK place : place = "body"
  OBVIOUS
<1>3. P!Resumes(place, types) /\ place # "paren" /\ Len(types) \in Nat
  BY <1>1, <1>2
<1>4. /\ P!Top.node.t \in {"Let", "Loop"} /\ Len(P!Top.node.names) > 0
      /\ Len(P!Top.node.names) = Len(P!Top.node.kids)
  BY <1>2, <1>3, ReturnedParts DEF Unfinished
<1>5. PICK n : n = P!Node1 /\ P!PrimaryReturns(n, FALSE)
  BY DEF P!ResumeBody
<1>6. /\ n \in Partial /\ n.t = P!Top.node.t /\ n.names = P!Top.node.names
      /\ Len(n.kids) = Len(P!Top.node.kids) + 1
  BY <1>3, <1>5, Node1Parts
<1>7. n \in Finished /\ n.t \in {"Let", "Loop"} /\ Len(n.names) > 0 /\ Len(n.kids) = Len(n.names) + 1
  BY <1>4, <1>6, PartialFinished
<1>8. n \in Operable
  BY <1>7, ShapedIsTree
<1> QED
  BY <1>3, <1>5, <1>8, PrimaryReturnsKeepsTrees

\* The parenthesis is closed.
LEMMA ResumeParenKeepsTrees ==
  ASSUME ParserInv, TreesInv, P!ResumeParen
  PROVE  TreesInv'
<1>1. PICK types, place : Len(types) = 1 /\ P!Resumes(place, types)
  <2>1. Len(<<")">>) = 1
    OBVIOUS
  <2> QED
    BY <2>1 DEF P!ResumeParen
<1>2. Len(types) \in Nat
  BY <1>1
<1>3. PICK n : n = P!Result /\ P!PrimaryReturns(n, TRUE)
  BY DEF P!ResumeParen
<1>4. n \in Operable
  BY <1>1, <1>2, <1>3, ReturnedParts
<1> QED
  BY <1>1, <1>2, <1>3, <1>4, PrimaryReturnsKeepsTrees

\* parseFunction returns.
LEMMA ResumeFunctionKeepsTrees ==
  ASSUME AllTrees, ParserInv, TreesInv, P!ResumeFunction
  PROVE  TreesInv'
<1>1. PICK types : Len(types) = 1 /\ P!Resumes("function", types)
  <2>1. Len(<<"end">>) = 1
    OBVIOUS
  <2> QED
    BY <2>1 DEF P!ResumeFunction
<1>2. PICK place : place = "function"
  OBVIOUS
<1>3. P!Resumes(place, types) /\ place # "paren" /\ Len(types) \in Nat
  BY <1>1, <1>2
<1>4. P!Top.node.t = "Fun" /\ Len(P!Top.node.kids) = 0
  BY <1>2, <1>3, ReturnedParts DEF Unfinished
<1>5. PICK n : n = P!Node1 /\ functions' = Append(functions, n)
  BY DEF P!ResumeFunction
<1>6. n \in Partial /\ n.t = P!Top.node.t /\ Len(n.kids) = Len(P!Top.node.kids) + 1
  BY <1>3, <1>5, Node1Parts
<1>7. n \in Finished /\ n.t = "Fun" /\ Len(n.kids) = 1
  BY <1>4, <1>6, PartialFinished
<1>8. n \in Definitions
  <2>1. n \in Exprs
    BY <1>7, ShapedIsTree
  <2> QED
    BY <1>7, <2>1 DEF Definitions
<1>9. functions' \in Seq(Definitions)
  <2>1. functions \in Seq(Definitions)
    BY DEF TreesInv
  <2> QED
    BY <1>5, <1>8, <2>1
<1>10. /\ WaitingOK(P!Others) /\ TokensOK(input')
       /\ FilledAll(P!Front(scopes)) /\ Filled(P!Last(scopes).results, P!Last(scopes).operators)
  BY <1>3, ReturnedParts
<1>11. /\ callers' = P!Others /\ at' \in {"function", "parsed"} /\ scopes' = P!Front(scopes)
       /\ resultStack' = P!Last(scopes).results /\ operatorStack' = P!Last(scopes).operators
  BY DEF P!ResumeFunction, P!leaveScope
<1> QED
  BY <1>9, <1>10, <1>11 DEF TreesInv

\* Every step of the parser.
LEMMA TreesInvStep ==
  ASSUME AllTrees, ParserInv, TreesInv, [P!Next]_parser
  PROVE  TreesInv'
<1>1. CASE P!Trap
  BY <1>1 DEF P!Trap, P!stacks, TreesInv
<1>2. CASE UNCHANGED parser
  <2>1. P!peekNextToken' = P!peekNextToken
    BY <1>2 DEF parser, P!peekNextToken
  <2> QED
    BY <1>2, <2>1 DEF parser, TreesInv
<1> QED
  BY <1>1, <1>2, FunctionKeepsTrees, LeafKeepsTrees, PrimaryNestedKeepsTrees,
     PrimaryOpensKeepsTrees, ReturnToUnaryKeepsTrees, ReturnToParamsKeepsTrees,
     PushOperandKeepsTrees, MakeExpressionKeepsTrees, PushOperatorKeepsTrees,
     ResumeIfKeepsTrees, BindingsResumedKeepTrees, ResumeBodyKeepsTrees,
     ResumeParenKeepsTrees, ResumeFunctionKeepsTrees DEF P!Next

-----------------------------------------------------------------------------
(***************************************************************************)
(* The whole program: until main is called nothing is evaluated, and then  *)
(* the functions are those that createSyntaxTree made.                     *)
(***************************************************************************)
NotCalled ==
  /\ \E line \in CommandLines :
       program = [functions |-> << >>, args |-> << >>, ends |-> line.ends, line |-> line]
  /\ stack = << >> /\ res = None /\ variableStacks = << >>
  /\ invocations = 0 /\ currentDepth = 0
  /\ status \in {"parsing", "trapped", "exited"}
  /\ status = "parsing" => result = 0

MainInv == ParserInv /\ TreesInv /\ (NotCalled \/ IInv)

LEMMA MainInitInv == MainInit => MainInv
<1> SUFFICES ASSUME MainInit PROVE MainInv
  OBVIOUS
<1>1. PICK line \in CommandLines :
        /\ program = [functions |-> << >>, args |-> << >>, ends |-> line.ends, line |-> line]
        /\ input = line.tokens
  BY DEF MainInit
<1>2. NotCalled
  BY <1>1 DEF MainInit, NotCalled
<1>3. ParserInv
  BY ParserInvInit DEF MainInit
<1>4. TreesInv
  <2>1. TokensOK(input)
    BY <1>1, CommandLinesAssumption DEF Token, TokensOK
  <2>2. /\ callers = << >> /\ at \in {"parsed", "function"} /\ functions = << >>
        /\ scopes = << >> /\ resultStack = << >> /\ operatorStack = << >>
    BY DEF MainInit, P!parser_init
  <2> QED
    BY <2>1, <2>2, NothingFilled DEF TreesInv
<1> QED
  BY <1>2, <1>3, <1>4 DEF MainInv

\* main is called with what is on the command line.
LEMMA MainIsCalled ==
  ASSUME MainInv, EvalMain, ~NoNumber
  PROVE  MainCalled'
<1>1. /\ status = "parsing" /\ HasMain
      /\ program' = [program EXCEPT !.functions = functions, !.args = Argv]
      /\ stack' = << Frame(Function("main")') >> /\ status' = "running"
      /\ res' = res /\ variableStacks' = variableStacks /\ result' = result
      /\ invocations' = invocations /\ currentDepth' = currentDepth
  BY DEF EvalMain, Parsed, debug
<1>2. NotCalled /\ functions \in Seq(Definitions)
  BY <1>1 DEF MainInv, TreesInv, IInv, Stopped
<1>3. PICK line \in CommandLines :
        program = [functions |-> << >>, args |-> << >>, ends |-> line.ends, line |-> line]
  BY <1>2 DEF NotCalled
<1>4. Argv \in Seq(Word)
  <2>1. Argv = line.argv /\ Argv \in Seq(Int)
    BY <1>3, CommandLinesAssumption DEF Argv
  <2>2. Len(Argv) \in Nat /\ \A k \in 1 .. Len(Argv) : Argv[k] \in Word
    BY <2>1 DEF NoNumber
  <2> QED
    BY <2>1, <2>2
<1>5. program'.functions = functions /\ program'.args = Argv
  BY <1>1, <1>3
<1>6. GoodProgram(program)'
  BY <1>1, <1>2, <1>4, <1>5 DEF GoodProgram, HasMain, Defines
<1>7. stack' = << Frame(Function("main"))' >>
  BY <1>1 DEF Frame
<1> QED
  BY <1>1, <1>2, <1>6, <1>7 DEF MainCalled, NotCalled

\* What has stopped without a call of main stays as it is.
LEMMA NotCalledHalted ==
  ASSUME NotCalled, Next
  PROVE  UNCHANGED vars
<1>1. status # "running"
  BY DEF NotCalled
<1>2. \A kind : ~Enters(kind) /\ ~Resumes(kind)
  BY <1>1 DEF Enters, Resumes, Running
<1>3. Halted
  BY <1>2 DEF Next, EvalWithParams, ReturnFromMain, EvalInteger, EvalIdentifier, EvalOperands,
     ResumeIf, ResumeUnary, ResumeBinary, PushBinding, ResumeLet, LeaveLoop, LoopAgain,
     ResumeRecur, EvalArgument, EnterFunction, LeaveFunction, Trap, Traps, Overflows
<1> QED
  BY <1>3 DEF Halted

LEMMA MainInvStep == ASSUME AllTrees, MainInv, [MainNext]_mvars PROVE MainInv'
<1>0. [P!Next]_parser
  BY DEF MainNext, mvars, Parse, Refuse, EvalMain, Interpret, Exited
<1>1. ParserInv' /\ TreesInv'
  BY <1>0, ParserInvStep, TreesInvStep DEF MainInv
<1>2. CASE Parse \/ Refuse
  <2>1. /\ UNCHANGED <<program, stack, res, variableStacks, debug>>
        /\ status = "parsing" /\ status' \in {"parsing", "trapped", "exited"}
        /\ status' = "parsing" => result' = result
    BY <1>2 DEF Parse, Refuse, Parsed
  <2>2. NotCalled
    BY <2>1 DEF MainInv, IInv, Stopped
  <2>3. NotCalled'
    BY <2>1, <2>2 DEF NotCalled, debug
  <2> QED
    BY <1>1, <2>3 DEF MainInv
<1>3. CASE EvalMain /\ NoNumber
  <2>1. /\ UNCHANGED <<program, stack, res, variableStacks, debug>>
        /\ status = "parsing" /\ status' = "trapped"
    BY <1>3 DEF EvalMain, Parsed
  <2>2. NotCalled
    BY <2>1 DEF MainInv, IInv, Stopped
  <2>3. NotCalled'
    BY <2>1, <2>2 DEF NotCalled, debug
  <2> QED
    BY <1>1, <2>3 DEF MainInv
<1>4. CASE EvalMain /\ ~NoNumber
  <2>1. MainCalled'
    BY <1>4, MainIsCalled
  <2>2. IInv'
    BY <2>1, MainCalledIInv, PTL
  <2> QED
    BY <1>1, <2>2 DEF MainInv
<1>5. CASE Interpret \/ Exited \/ UNCHANGED mvars
  <2>1. [Next]_vars
    BY <1>5 DEF Interpret, Exited, mvars
  <2>2. CASE NotCalled
    <3>1. UNCHANGED vars
      BY <2>1, <2>2, NotCalledHalted
    <3>2. NotCalled'
      BY <2>2, <3>1 DEF NotCalled, vars, debug
    <3> QED
      BY <1>1, <3>2 DEF MainInv
  <2>3. CASE IInv
    BY <1>1, <2>1, <2>3, NextKeeps DEF MainInv
  <2> QED
    BY <2>2, <2>3 DEF MainInv
<1> QED
  BY <1>2, <1>3, <1>4, <1>5 DEF MainNext

LEMMA MainInvAlways == ASSUME AllTrees PROVE MainSpec => []MainInv
<1>1. MainInv /\ [MainNext]_mvars => MainInv'
  BY MainInvStep
<1> QED
  BY <1>1, MainInitInv, PTL DEF MainSpec

LEMMA NothingBalanced == NotCalled => ScopesBalanced
<1> SUFFICES ASSUME NotCalled PROVE ScopesBalanced
  OBVIOUS
<1>1. stack = << >> /\ variableStacks = << >> /\ currentDepth = 0 /\ Len(<< >>) = 0
  BY DEF NotCalled
<1>2. Balanced(program, << >>, << >>)
  <2>1. CountTo(<< >>, Len(<< >>)) = 0
    <3>1. { j \in 1 .. Len(<< >>) : RunsFunction(<< >>[j]) } = {}
      OBVIOUS
    <3> QED
      BY <3>1, FS_EmptySet DEF CountTo
  <2> QED
    BY <2>1 DEF Balanced
<1> QED
  BY <1>1, <1>2, BalancedStacks

-----------------------------------------------------------------------------
(* The theorems.                                                           *)

\* What createSyntaxTree hands to the interpreter are definitions as that
\* expects them: every node has the operands and names its kind needs, and
\* the numbers are words, whatever the tokens.
MakesDefinitions == functions \in Seq(Definitions)

THEOREM MakesDefinitionsAlways == ASSUME AllTrees PROVE MainSpec => []MakesDefinitions
<1>1. MainInv => MakesDefinitions
  BY DEF MainInv, TreesInv, MakesDefinitions
<1> QED
  BY <1>1, MainInvAlways, PTL

\* From the tokens on: every function being run has a dictionary of its own,
\* with one value for every binding in force, in any program that is parsed
\* from a file and called with the arguments of a command line.
THEOREM MainScopesBalanced == ASSUME AllTrees PROVE MainSpec => []ScopesBalanced
<1>1. MainInv => ScopesBalanced
  BY NothingBalanced, BalancedHere DEF MainInv
<1> QED
  BY <1>1, MainInvAlways, PTL
===============================================================================
