------------------------- MODULE MCSwiftLoopMemory -------------------------
(***************************************************************************)
(* A loop that calls a function on every turn, and the memory it takes:    *)
(* frames, values of variables and lines of Debug.invocations.             *)
(***************************************************************************)
EXTENDS SwiftInterp

MCHalf           == 8
MCIdentifiers          == {"x"}
MCMaxInvocations == 20
MCInvocations ==
  { [functions |->
       << Fun("next", <<"x">>, Bin("+", Var("x"), Num(1))),
          Fun("main", <<"x">>, Loop(<<"x">>, <<Var("x")>>,
            If(Var("x"), Recur(<<CallOf("next", <<Var("x")>>)>>), Var("x")))) >>,
     args |-> <<v>>] : v \in Word }

MCExprs ==
  LET fs == UNION { ToSet(inv.functions) : inv \in MCInvocations } IN
  fs \union { Var("x"), Num(1), Bin("+", Var("x"), Num(1)), CallOf("next", <<Var("x")>>),
              Recur(<<CallOf("next", <<Var("x")>>)>>) }
     \union { Body(f) : f \in fs } \union { Body(Body(f)) : f \in {f \in fs : f.id = "main"} }

VARIABLE atFirst     \* the memory in use when the loop's body is first entered

InUse ==
  Depth + invocations
    + MapThenSumSet(LAMBDA a : Len(variableStacks[a]["x"]), DOMAIN variableStacks)

EntersBody ==
  Depth > 1 /\ res = None /\ E.t = "If" /\ E = Body(stack[Depth - 1].e) /\ Top.i = 0

MCInit == Init /\ atFirst = 0
MCNext ==
  /\ Next
  /\ atFirst' = IF atFirst = 0 /\ EntersBody' THEN InUse' ELSE atFirst
MCSpec == MCInit /\ [][MCNext]_<<vars, atFirst>>

(* A loop takes no more memory the more often it recurs.                   *)
LoopMemoryConstant == EntersBody => InUse <= atFirst
=============================================================================
