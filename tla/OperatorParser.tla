--------------------------- MODULE OperatorParser ---------------------------
(***************************************************************************)
(* parse_expr of parser.c: the operands of a chain of binary operators and *)
(* the operators are in two arrays, and one pass over the operators per    *)
(* level of precedence joins the operands of those at that level.  One     *)
(* step is one turn of the inner loop.  The operands are what              *)
(* parse_primary returned, with whatever expressions they hold.            *)
(***************************************************************************)
EXTENDS Grammar, Integers

CONSTANTS
  Operands,         \* what parse_primary may return
  Chains            \* the operands and operators collected (.operands, .ops)

VARIABLES
  chain,            \* the chain being parsed
  expr_arr, op_arr, \* the arrays; the elements start at 1 here, at 0 in C
  p, i              \* level, and operator looked at (from 0 as in C)

vars == <<chain, expr_arr, op_arr, p, i>>

\* Mutant: && binds tighter than ||.
operator_precedence_c == [op \in BinaryOperators |->
  IF op = "*" THEN 0 ELSE IF op = "+" THEN 1 ELSE IF op # "||" THEN 2 ELSE 3]
operator_precedence == [op \in BinaryOperators |->
  IF op = "*" THEN 0 ELSE IF op = "+" THEN 1 ELSE IF op \in {"<", "=="} THEN 2 ELSE 3]

\* Any chain parse_expr collects: an operand, then operators and operands.
ASSUME ChainsAssumption ==
  \A c \in Chains : /\ c.ops \in Seq(BinaryOperators)
                    /\ c.operands \in Seq(Operands)
                    /\ Len(c.operands) = Len(c.ops) + 1

\* dynarr_remove: the elements after the one at k move down.
dynarr_remove_before(arr, k) ==                                      \* mutant
  [j \in 1 .. Len(arr) - 1 |-> IF j < k THEN arr[j] ELSE arr[j + 1]]
dynarr_remove(arr, k) ==
  [j \in 1 .. Len(arr) - 1 |-> IF j <= k THEN arr[j] ELSE arr[j + 1]]

InitAtOne ==                                                         \* mutant
  /\ chain \in Chains
  /\ expr_arr = chain.operands
  /\ op_arr = chain.ops
  /\ p = 0
  /\ i = 1
Init ==
  /\ chain \in Chains
  /\ expr_arr = chain.operands
  /\ op_arr = chain.ops
  /\ p = 0
  /\ i = 0

LevelsOfThree == 3    \* mutant: p < 3
Levels == 4
Looks  == p < Levels /\ i < Len(op_arr)

SkipWithoutIncrement ==                                              \* mutant
  /\ Looks
  /\ operator_precedence[op_arr[i + 1]] # p
  /\ UNCHANGED vars
Skip ==
  /\ Looks
  /\ operator_precedence[op_arr[i + 1]] # p
  /\ i' = i + 1
  /\ UNCHANGED <<chain, expr_arr, op_arr, p>>

Join ==
  /\ Looks
  /\ operator_precedence[op_arr[i + 1]] = p
  /\ op_arr' = dynarr_remove(op_arr, i)
  /\ expr_arr' = [dynarr_remove(expr_arr, i) EXCEPT ![i + 1] =
                    Bin(op_arr[i + 1], expr_arr[i + 1], expr_arr[i + 2])]
  /\ UNCHANGED <<chain, p, i>>

NextLevel ==
  /\ p < Levels
  /\ i >= Len(op_arr)
  /\ p' = p + 1
  /\ i' = 0
  /\ UNCHANGED <<chain, expr_arr, op_arr>>

\* parse_expr returns, unless one of its asserts fails.
Returned == p = Levels /\ UNCHANGED vars

Next == Skip \/ Join \/ NextLevel \/ Returned

Spec == Init /\ [][Next]_vars /\ WF_vars(Next)

-----------------------------------------------------------------------------
\* Between the joins there is always one operand more than operators.
TypeOK ==
  /\ op_arr \in Seq(BinaryOperators)
  /\ expr_arr = [j \in 1 .. Len(op_arr) + 1 |-> expr_arr[j]]
  /\ p \in 0 .. Levels
  /\ i \in 0 .. Len(op_arr)

(* The two asserts at the end of parse_expr hold: one tree is left, and no *)
(* operator, however long the chain.                                       *)
OneTreeLeft == p = Levels => Len(op_arr) = 0 /\ Len(expr_arr) = 1

(* Every join is one the precedences of README.md allow, with equal        *)
(* operators associating to the left: parse_expr implements Reductions.    *)
R == INSTANCE Reductions WITH Strength <- Precedence, trees <- expr_arr, ops <- op_arr
ImplementsReductions == R!Spec

(* The tree parse_expr returns is the one the grammar gives the chain.     *)
ParsesByGrammar ==
  p = Levels => expr_arr = << GrammarTree(Precedence, chain.operands, chain.ops) >>

(* parse_expr returns.                                                     *)
Returns == <>(p = Levels)
=============================================================================
