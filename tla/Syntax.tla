------------------------------- MODULE Syntax -------------------------------
(***************************************************************************)
(* Abstract syntax trees: expr_t, binding_t and function_t in compiler.h.  *)
(* One record shape for every node.  v is the number of an integer, id the *)
(* identifier, operator or function named, names the names bound by let    *)
(* and loop, kids the operands: for let and loop the right hand sides of   *)
(* the bindings and then the body.  The parser makes let, loop, recur and  *)
(* calls with at least one binding or argument.                            *)
(***************************************************************************)
EXTENDS Naturals, Sequences

Node(t, v, id, names, kids) ==
  [t |-> t, v |-> v, id |-> id, names |-> names, kids |-> kids]

Num(v)             == Node("Int", v, "", << >>, << >>)
Var(x)             == Node("Id", 0, x, << >>, << >>)
If(c, yes, no)     == Node("If", 0, "", << >>, <<c, yes, no>>)
Un(op, x)          == Node("Unary", 0, op, << >>, <<x>>)
Bin(op, x, y)      == Node("Binary", 0, op, << >>, <<x, y>>)
Let(names, es, b)  == Node("Let", 0, "", names, Append(es, b))
Loop(names, es, b) == Node("Loop", 0, "", names, Append(es, b))
Recur(es)          == Node("Recur", 0, "", << >>, es)
CallOf(f, es)      == Node("Call", 0, f, << >>, es)

\* A function definition, as a node: its parameters and its body.
Fun(f, params, body) == Node("Fun", 0, f, params, <<body>>)

Body(e) == e.kids[Len(e.kids)]

\* The binary operators, and their precedence in README.md: the greater, the
\* tighter they bind.
BinaryOperators == {"&&", "||", "<", "==", "+", "*"}
Precedence == [op \in BinaryOperators |->
  IF op \in {"&&", "||"} THEN 1 ELSE IF op \in {"<", "=="} THEN 2
  ELSE IF op = "+" THEN 3 ELSE 4]

\* What the parsers promise of a node: which operands and names each kind has.
Kinds == {"Int", "Id", "If", "Let", "Loop", "Recur", "Unary", "Binary", "Call", "Fun"}
Shaped(e) ==
  /\ \A k \in 1 .. Len(e.kids) : e.kids[k].t # "Fun"
  /\ e.t \in {"Unary", "Fun"}   => Len(e.kids) = 1
  /\ e.t = "Unary"              => e.id \in {"!", "-"}
  /\ e.t = "Binary"             => Len(e.kids) = 2 /\ e.id \in BinaryOperators
  /\ e.t = "If"                 => Len(e.kids) = 3
  /\ e.t \in {"Let", "Loop"}    => Len(e.names) > 0 /\ Len(e.kids) = Len(e.names) + 1
  /\ e.t \in {"Recur", "Call"}  => Len(e.kids) > 0

\* lookup_function: the first definition of the name in the program.
Defines(functions, f) == \E k \in 1 .. Len(functions) : functions[k].id = f
Lookup(functions, f) ==
  functions[CHOOSE k \in 1 .. Len(functions) :
              /\ functions[k].id = f
              /\ \A j \in 1 .. k - 1 : functions[j].id # f]
=============================================================================
