----------------------------- MODULE Reductions -----------------------------
(***************************************************************************)
(* What README.md promises of a chain of operands and binary operators:    *)
(* it becomes one tree, in which operators of higher precedence are below  *)
(* those of lower and equal ones associate to the left.  Here the chain is *)
(* a sequence of trees with operators between them, and a step joins two   *)
(* neighbours whose operator binds tighter than the one on its left and no *)
(* less tight than the one on its right.  The order of the steps is open.  *)
(***************************************************************************)
EXTENDS Syntax

CONSTANT Strength   \* a number for every operator: the greater, the tighter it binds

VARIABLES trees, ops

rvars == <<trees, ops>>

\* A sequence without its i-th element.
Without(s, i) == [j \in 1 .. Len(s) - 1 |-> IF j < i THEN s[j] ELSE s[j + 1]]

\* The trees once those on both sides of operator i are joined.
Join(ts, os, i) ==
  [j \in 1 .. Len(ts) - 1 |->
     IF j < i THEN ts[j] ELSE IF j = i THEN Bin(os[i], ts[i], ts[i + 1]) ELSE ts[j + 1]]

Handle(os, i) ==
  /\ i \in 1 .. Len(os)
  /\ i > 1 => Strength[os[i - 1]] < Strength[os[i]]
  /\ i < Len(os) => Strength[os[i + 1]] <= Strength[os[i]]

\* Any chain: there is one operand more than there are operators.
Init ==
  /\ ops \in Seq(BinaryOperators)
  /\ Len(trees) = Len(ops) + 1

Reduce(i) ==
  /\ Handle(ops, i)
  /\ trees' = Join(trees, ops, i)
  /\ ops' = Without(ops, i)

Next == \E i \in 1 .. Len(ops) : Reduce(i)

Spec == Init /\ [][Next]_rvars
=============================================================================
