---------------------------- MODULE ShuntingYard ----------------------------
(***************************************************************************)
(* parseBinaryExpression of parser.swift within one scope: operands go to  *)
(* the result stack, operators wait on the operator stack until one that   *)
(* binds no tighter comes, or the chain ends.  One step is one operand     *)
(* read, one operator pushed or one expression made.  The operands are     *)
(* what parsePrimaryExpression returned.                                   *)
(***************************************************************************)
EXTENDS Grammar, Integers, SequencesExt

CONSTANTS
  Operands,         \* what parsePrimaryExpression may return
  Chains            \* chains of operands and, one shorter, operators

VARIABLES
  chain,            \* the chain being parsed
  operands, ops,    \* what is left of it in `tokens`
  resultStack,      \* the top is last
  operatorStack,
  at                \* where parseBinaryExpression is

vars == <<chain, operands, ops, resultStack, operatorStack, at>>

ASSUME ChainsAssumption ==
  \A c \in Chains : /\ c.ops \in Seq(BinaryOperators)
                    /\ c.operands \in Seq(Operands)
                    /\ Len(c.operands) = Len(c.ops) + 1

\* Operator's raw values: the order of its cases in scanner.swift.
rawValue == [op \in BinaryOperators |->
  IF op = "&&" THEN 6 ELSE IF op = "||" THEN 7 ELSE IF op = "==" THEN 8
  ELSE IF op = "<" THEN 9 ELSE IF op = "+" THEN 10 ELSE 11]

binds_strictly(op, onStack) == rawValue[op] < rawValue[onStack]      \* mutant
hasLowerPrecedence(op, onStack) == rawValue[op] <= rawValue[onStack]

Init ==
  /\ chain \in Chains
  /\ operands = chain.operands
  /\ ops = chain.ops
  /\ resultStack = << >>
  /\ operatorStack = << >>
  /\ at = "operand"

PushOperand ==
  /\ at = "operand"
  /\ resultStack' = Append(resultStack, Head(operands))
  /\ operands' = Tail(operands)
  /\ at' = IF ops = << >> THEN "join" ELSE "operator"
  /\ UNCHANGED <<chain, ops, operatorStack>>

\* right is popped first, then left.
left_peeked ==                                                       \* mutant
  LET n == Len(resultStack) IN
  /\ resultStack' = Append(SubSeq(resultStack, 1, n - 1),
                           Bin(Last(operatorStack), resultStack[n - 1], resultStack[n]))
  /\ operatorStack' = Front(operatorStack)
swapped_operands ==                                                  \* mutant
  LET n == Len(resultStack) IN
  /\ resultStack' = Append(SubSeq(resultStack, 1, n - 2),
                           Bin(Last(operatorStack), resultStack[n], resultStack[n - 1]))
  /\ operatorStack' = Front(operatorStack)
createBinaryExpression ==
  LET n == Len(resultStack) IN
  /\ resultStack' = Append(SubSeq(resultStack, 1, n - 2),
                           Bin(Last(operatorStack), resultStack[n - 1], resultStack[n]))
  /\ operatorStack' = Front(operatorStack)

MustWait == operatorStack # << >> /\ hasLowerPrecedence(Head(ops), Last(operatorStack))

MakeRoom ==
  /\ at = "operator"
  /\ MustWait
  /\ createBinaryExpression
  /\ UNCHANGED <<chain, operands, ops, at>>

PushOperator ==
  /\ at = "operator"
  /\ ~MustWait
  /\ operatorStack' = Append(operatorStack, Head(ops))
  /\ ops' = Tail(ops)
  /\ at' = "operand"
  /\ UNCHANGED <<chain, operands, resultStack>>

JoinExpressions ==
  /\ at = "join"
  /\ operatorStack # << >>
  /\ createBinaryExpression
  /\ UNCHANGED <<chain, operands, ops, at>>

\* The top of the result stack is the result; the scope is dropped.
LeaveScope ==
  /\ at = "join"
  /\ operatorStack = << >>
  /\ at' = "returned"
  /\ UNCHANGED <<chain, operands, ops, resultStack, operatorStack>>

Returned == at = "returned" /\ UNCHANGED vars

Next == PushOperand \/ MakeRoom \/ PushOperator \/ JoinExpressions \/ LeaveScope \/ Returned

Spec == Init /\ [][Next]_vars

-----------------------------------------------------------------------------
\* What is on the stacks and what is left of the chain fit together.
TypeOK ==
  /\ resultStack \in Seq({ resultStack[j] : j \in DOMAIN resultStack })
  /\ operands \in Seq({ operands[j] : j \in DOMAIN operands })
  /\ operatorStack \in Seq(BinaryOperators) /\ ops \in Seq(BinaryOperators)
  /\ at \in {"operand", "operator", "join", "returned"}
  /\ Len(resultStack) = Len(operatorStack) + (IF at = "operand" THEN 0 ELSE 1)
  /\ Len(operands) = Len(ops) + (IF at = "operand" THEN 1 ELSE 0)
  /\ at \in {"join", "returned"} <=> operands = << >>
  /\ at = "returned" => operatorStack = << >>

(* No pop finds a stack empty: whenever an expression is made there are    *)
(* two operands for its operator, and at the end exactly one is left, so   *)
(* none of the forced unwraps of parser.swift traps.                       *)
OperandsSuffice ==
  /\ operatorStack # << >> /\ at \in {"operator", "join"} => Len(resultStack) >= 2
  /\ at = "operand" => operands # << >>
  /\ at = "returned" => Len(resultStack) = 1

(* The operators that wait bind ever tighter towards the top.              *)
WaitingOperatorsIncrease ==
  \A j \in 1 .. Len(operatorStack) - 1 :
    rawValue[operatorStack[j]] < rawValue[operatorStack[j + 1]]

(* The tree is the one the raw values of the operators give the chain.     *)
ParsesByRawValue ==
  at = "returned" => resultStack = << GrammarTree(rawValue, chain.operands, chain.ops) >>

(* The chain becomes one tree, by joins that the raw values allow.         *)
R == INSTANCE Reductions WITH Strength <- rawValue,
                              trees <- resultStack \o operands,
                              ops <- operatorStack \o ops
ImplementsReductions == R!Spec
=============================================================================
