-------------------------- MODULE MCOperatorParser --------------------------
(***************************************************************************)
(* parse_expr on every chain of up to five operands.                       *)
(***************************************************************************)
EXTENDS OperatorParser

MaxOps == 4
MCOperands == { Num(k) : k \in 1 .. MaxOps + 1 }

MCChains ==
  UNION { { [operands |-> [k \in 1 .. n + 1 |-> Num(k)], ops |-> os] :
              os \in [1 .. n -> BinaryOperators] } : n \in 0 .. MaxOps }
=============================================================================
