--------------------------- MODULE MCInterpExprs ---------------------------
(***************************************************************************)
(* The interpreter on every program of the grammar of Programs, and calls  *)
(* that lead nowhere, for every argument, with words of two bits and few   *)
(* enough environment nodes that recursion runs out of them.               *)
(***************************************************************************)
EXTENDS Interp, Programs

MCHalf     == 2
MCMaxNodes == 9

Ref == INSTANCE Semantics

Nowhere ==
  { CallOf("nowhere", <<x>>), Bin("+", CallOf("apply", <<x, y>>), CallOf("nowhere", <<y>>)),
    Loop(<<"x", "y">>, <<x, y>>, If(x, Recur(<<Up(x), CallOf("nowhere", <<x>>)>>), y)) }

MCInvocations ==
  { Calling(e, <<a, b>>) : e \in MainBodies \union Nowhere, a \in Word, b \in Word }

\* The function definitions of these programs, and all they are made of.
AllParts == UNION { Parts(f) : f \in UNION { ToSet(inv.functions) : inv \in MCInvocations } }
MCExprs  == {e \in AllParts : e.t \in Kinds}

(* The interpreter gives a program the value README.md gives it, and ends  *)
(* in an assert only when the program breaks a rule of the language.  The  *)
(* machine with its heap, its environments cut back on every recur and its *)
(* loop_env passed down is compared with a function on expressions.        *)
MeansReference ==
  status \in {"returned", "aborted"} =>
    LET m == Ref!Meaning(program.functions, program.args) IN
    \/ m.k = "unknown"
    \/ m.k = "int" /\ status = "returned" /\ result = m.v
    \/ m.k \in {"unbound", "illegal"} /\ status = "aborted"
=============================================================================
