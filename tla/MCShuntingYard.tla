--------------------------- MODULE MCShuntingYard ---------------------------
(***************************************************************************)
(* The shunting yard on every chain of up to five operands, and against    *)
(* the precedences of README.md and ASSIGNMENTS.md, in which && and || are *)
(* equal, and so are < and ==, and equal operators associate left to       *)
(* right.                                                                  *)
(***************************************************************************)
EXTENDS ShuntingYard

MaxOps == 4
MCOperands == { Num(k) : k \in 1 .. MaxOps + 1 }
MCChains ==
  UNION { { [operands |-> [k \in 1 .. n + 1 |-> Num(k)], ops |-> os] :
              os \in [1 .. n -> BinaryOperators] } : n \in 0 .. MaxOps }

-----------------------------------------------------------------------------
ReadmeChains == { c \in MCChains : Len(c.ops) = 2 }

(* The tree is the one README.md gives the chain; it is not for `1&&2||3`. *)
ParsesByReadme ==
  at = "returned" => resultStack = << GrammarTree(Precedence, chain.operands, chain.ops) >>
=============================================================================
