------------------------------- MODULE Grammar -------------------------------
(***************************************************************************)
(* The tree of a chain of operands and binary operators, from the whole    *)
(* chain: at its root is the last of the operators that bind least.        *)
(* strength gives every operator a number, the greater the tighter it      *)
(* binds.  It is the reference the parsers are checked against.            *)
(***************************************************************************)
EXTENDS Syntax

\* Of the operators from..to the root: nothing binds less, and nothing after
\* it as little.
IsRoot(strength, ops, from, to, k) ==
  /\ k \in from .. to
  /\ \A j \in from .. k : strength[ops[k]] <= strength[ops[j]]
  /\ \A j \in k + 1 .. to : strength[ops[k]] < strength[ops[j]]

Root(strength, ops, from, to) ==
  CHOOSE k \in from .. to : IsRoot(strength, ops, from, to, k)

\* The trees of all parts of a chain, by their first and last operand.
Trees(strength, operands, ops) ==
  LET n == Len(ops) + 1
      tree[part \in (1 .. n) \X (1 .. n)] ==
        IF part[1] >= part[2] THEN operands[part[1]]
        ELSE LET k == Root(strength, ops, part[1], part[2] - 1)
             IN  Bin(ops[k], tree[<<part[1], k>>], tree[<<k + 1, part[2]>>])
  IN  tree

GrammarTree(strength, operands, ops) ==
  Trees(strength, operands, ops)[<<1, Len(ops) + 1>>]
=============================================================================
