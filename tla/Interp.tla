------------------------------- MODULE Interp -------------------------------
(***************************************************************************)
(* The tree-walking interpreter of interpreter.c, one step per entry into  *)
(* or return to a C function.  The C stack is explicit: a frame for every  *)
(* active eval or eval_function, with its locals.  Environments are linked *)
(* lists of malloc'd nodes; the heap maps the addresses of the nodes that  *)
(* are allocated to their contents.                                        *)
(*                                                                         *)
(* A failing assert ends the process ("aborted"), and so does the write    *)
(* through the NULL that malloc returns when it has no node ("crashed").   *)
(* An argument the caller did not pass reads as any word.  No action leads *)
(* on from the use of a node that has been freed, which the invariant      *)
(* EnvironmentsLive rules out.                                             *)
(***************************************************************************)
EXTENDS Words, Syntax, SequencesExt

CONSTANTS
  Exprs,         \* the expr_t of the programs, with those they are made of
  Invocations,   \* programs (.functions, a sequence) and main's arguments (.args)
  MaxNodes       \* environment nodes malloc can provide at one time

VARIABLES
  program,       \* the invocation being run
  stack,         \* the C stack: a sequence of frames, the last one running
  res,           \* the intp_result_t on its way to the frame on top, if any
  heap,          \* the allocated environment nodes
  status,        \* "running", or one of Stopped
  result         \* what eval_function returned for main; 0 until then

vars == <<program, stack, res, heap, status, result>>

\* What parse_program makes: the function definitions, and the expressions
\* they are made of.
WellFormed(e) ==
  /\ e \in [t : Kinds, v : Word, id : STRING, names : Seq(STRING), kids : Seq(Exprs)]
  /\ Shaped(e)
Definitions == {e \in Exprs : e.t = "Fun"}

ASSUME ExprsAssumption == \A e \in Exprs : WellFormed(e)

ASSUME InvocationsAssumption ==
  \A inv \in Invocations :
    /\ inv.functions \in Seq(Definitions)
    /\ Defines(inv.functions, "main")
    /\ inv.args \in Seq(Word)

ASSUME MaxNodesAssumption == MaxNodes \in Nat

NULL      == 0
Addresses == 1 .. MaxNodes
Stopped   == {"returned", "aborted", "crashed"}

-----------------------------------------------------------------------------
(* Environments.                                                           *)

\* A walk down the list from env: the nodes passed, and where it ends, which
\* is at the first node of ends, at NULL, or at an address that is not
\* allocated.
Walk(h, env, ends) ==
  LET walk[n \in 0 .. MaxNodes] ==
        [a \in 0 .. MaxNodes |->
           IF n = 0 \/ a \notin DOMAIN h \/ a \in ends THEN [passed |-> {}, at |-> a]
           ELSE [passed |-> walk[n - 1][h[a].next].passed \union {a},
                 at     |-> walk[n - 1][h[a].next].at]]
  IN  walk[MaxNodes][env]

\* env_lookup: the node of the innermost binding of the name, or NULL.
FindNode(h, env, name) == Walk(h, env, {a \in DOMAIN h : h[a].name = name}).at

\* The bindings since old, which env_free goes through.
Segment(h, env, old) == Walk(h, env, {old})

\* env_bind: malloc hands out the lowest free address, so that a node freed
\* too early is overwritten as soon as it can be.
CanBind(h)   == DOMAIN h # Addresses
NewNode(h)   == CHOOSE a \in Addresses \ DOMAIN h :
                  \A b \in Addresses \ DOMAIN h : a <= b
env_bind(h, env, name, value) ==
  [a \in DOMAIN h \union {NewNode(h)} |->
     IF a = NewNode(h) THEN [name |-> name, value |-> value, next |-> env] ELSE h[a]]

\* env_free: everything bound since old.
CanFree(h, env, old) == Segment(h, env, old).at = old
env_free_first(h, env, old) ==                      \* mutant: if for while
  [a \in DOMAIN h \ (IF env = old THEN {} ELSE {env}) |-> h[a]]
env_free(h, env, old) ==
  [a \in DOMAIN h \ Segment(h, env, old).passed |-> h[a]]

-----------------------------------------------------------------------------
(* Frames: the parameters and locals of eval and eval_function.            *)

\* i is the number of operands whose evaluation has begun, old the
\* environment at entry, vals the operand values kept: left, or args.
NoLoop == Num(0)
Frame(e, env, loop, lenv) ==
  [e |-> e, env |-> env, loop |-> loop, lenv |-> lenv, i |-> 0,
   old |-> env, vals |-> << >>]

None        == [k |-> "none",  i |-> 0, loop_env |-> NULL]
IntResult(v) == [k |-> "result", i |-> v, loop_env |-> NULL]
RecurResult(lenv) == [k |-> "result", i |-> 0, loop_env |-> lenv]

Depth == Len(stack)
Top   == stack[Depth]
E     == Top.e
Below == Front(stack)

\* The frame on top, with its locals now top, calls eval on an operand: for
\* an int (eval_expr), or for a result it hands on, a recur included.
Push(top, frame)            == stack' = Below \o <<top, frame>> /\ res' = None
CallEvalExprInLoop(top, kid) ==                     \* mutant: eval for eval_expr
  Push([top EXCEPT !.i = kid], Frame(top.e.kids[kid], top.env, top.loop, top.lenv))
CallEvalExpr(top, kid) ==
  Push([top EXCEPT !.i = kid], Frame(top.e.kids[kid], top.env, NoLoop, NULL))
CallEval(top, kid, loop, lenv) ==
  Push([top EXCEPT !.i = kid], Frame(top.e.kids[kid], top.env, loop, lenv))
Return(r)                   == stack' = Below /\ res' = r

\* A frame of the kind on top, just entered or resumed with a result.
Enters(kind)  == status = "running" /\ Depth > 0 /\ res = None /\ E.t = kind
Resumes(kind) == status = "running" /\ Depth > 0 /\ res # None /\ E.t = kind

\* The operands eval evaluates through eval_expr, whose int_result asserts
\* that the result is not a recur.
ForInt(frame) ==
  CASE frame.e.t = "If"              -> frame.i = 1
    [] frame.e.t \in {"Let", "Loop"} -> frame.i <= Len(frame.e.names)
    [] OTHER                         -> TRUE
IsInt == ForInt(Top) => res.loop_env = NULL

-----------------------------------------------------------------------------
Init ==
  LET entry == Lookup(program.functions, "main") IN
  /\ program \in Invocations
  /\ stack = << [Frame(entry, NULL, NoLoop, NULL) EXCEPT !.vals = program.args] >>
  /\ res = None
  /\ heap = << >>
  /\ status = "running"
  /\ result = 0

EvalInteger ==
  /\ Enters("Int")
  /\ Return(IntResult(E.v))
  /\ UNCHANGED <<program, heap, status, result>>

EvalIdent ==
  LET node == FindNode(heap, Top.env, E.id) IN
  /\ Enters("Id")
  /\ node \in DOMAIN heap
  /\ Return(IntResult(heap[node].value))
  /\ UNCHANGED <<program, heap, status, result>>

\* The other forms begin with their first operand.
EvalOperands ==
  /\ \E kind \in {"If", "Unary", "Binary", "Let", "Loop", "Call"} : Enters(kind)
  /\ CallEvalExpr(Top, 1)
  /\ UNCHANGED <<program, heap, status, result>>

-----------------------------------------------------------------------------
ResumeIf ==
  /\ Resumes("If")
  /\ IsInt
  /\ IF Top.i = 1 THEN CallEval(Top, IF res.i # 0 THEN 2 ELSE 3, Top.loop, Top.lenv)
                  ELSE Return(res)
  /\ UNCHANGED <<program, heap, status, result>>

ResumeUnary ==
  /\ Resumes("Unary")
  /\ IsInt
  /\ Return(IntResult(IF E.id = "!" THEN Truth(res.i = 0) ELSE Wrap(-res.i)))
  /\ UNCHANGED <<program, heap, status, result>>

\* && and || may be decided by their left operand.
ShortCutAnd == E.id = "&&" /\ res.i = 0            \* mutant: not for ||
ShortCut == (E.id = "&&" /\ res.i = 0) \/ (E.id = "||" /\ res.i # 0)

Combine(op, left, right) ==
  CASE op = "<"           -> Truth(left < right)
    [] op = "=="          -> Truth(left = right)
    [] op = "+"           -> Wrap(left + right)
    [] op = "*"           -> Wrap(left * right)
    [] op \in {"&&", "||"} -> Truth(right # 0)

ResumeBinary ==
  /\ Resumes("Binary")
  /\ IsInt
  /\ \/ Top.i = 1 /\ ShortCut /\ Return(IntResult(Truth(E.id = "||")))
     \/ Top.i = 1 /\ ~ShortCut /\ CallEvalExpr([Top EXCEPT !.vals = <<res.i>>], 2)
     \/ Top.i = 2 /\ Return(IntResult(Combine(E.id, Top.vals[1], res.i)))
  /\ UNCHANGED <<program, heap, status, result>>

-----------------------------------------------------------------------------
(* let and loop: one binding after the other, then the body.               *)

\* The value of binding Top.i is bound, and the next operand evaluated with
\* it; the body within the loop, and above the environment, given.
BindAndGoOn(loop, lenv) ==
  LET n     == Len(E.names)
      bound == [Top EXCEPT !.env = NewNode(heap)]
  IN  /\ Top.i <= n
      /\ CanBind(heap)
      /\ heap' = env_bind(heap, Top.env, E.names[Top.i], res.i)
      /\ IF Top.i < n THEN CallEvalExpr(bound, Top.i + 1)
                      ELSE CallEval(bound, Top.i + 1, loop, lenv)

ResumeLet ==
  /\ Resumes("Let")
  /\ IsInt
  /\ \/ BindAndGoOn(Top.loop, Top.lenv)
     \/ /\ Top.i > Len(E.names)
        /\ CanFree(heap, Top.env, Top.old)
        /\ heap' = env_free(heap, Top.env, Top.old)
        /\ Return(res)
  /\ UNCHANGED <<program, status, result>>

\* The environment around the loop, which recurs bind new values above.
LoopEnvOfBody == Top.env                            \* mutant: env for old
LoopEnv       == Top.old

ResumeLoop ==
  /\ Resumes("Loop")
  /\ IsInt
  /\ \/ BindAndGoOn(E, LoopEnv)
     \/ /\ Top.i > Len(E.names)
        /\ CanFree(heap, Top.env, Top.old)
        /\ heap' = env_free(heap, Top.env, Top.old)
        /\ IF res.loop_env = NULL THEN Return(res)
           ELSE CallEval([Top EXCEPT !.env = res.loop_env], Top.i, E, LoopEnv)
  /\ UNCHANGED <<program, status, result>>

(* recur: the arguments, each in the environment of the recur, are bound   *)
(* one on top of the other above the environment around the loop.          *)

InLoop == Top.loop.t = "Loop" /\ Len(E.kids) = Len(Top.loop.names)

EvalRecur ==
  /\ Enters("Recur")
  /\ InLoop
  /\ CallEvalExpr(Top, 1)
  /\ UNCHANGED <<program, heap, status, result>>

RecurNameReversed(i) == Top.loop.names[Len(E.kids) + 1 - i]    \* mutant
RecurName(i)         == Top.loop.names[i]

ResumeRecur ==
  /\ Resumes("Recur")
  /\ IsInt
  /\ CanBind(heap)
  /\ heap' = env_bind(heap, Top.lenv, RecurName(Top.i), res.i)
  /\ IF Top.i < Len(E.kids)
     THEN CallEvalExpr([Top EXCEPT !.lenv = NewNode(heap)], Top.i + 1)
     ELSE Return(RecurResult(NewNode(heap)))
  /\ UNCHANGED <<program, status, result>>

-----------------------------------------------------------------------------
(* Calls: the arguments, then eval_function.                               *)

ResumeCall ==
  LET with == [Top EXCEPT !.vals = Append(@, res.i)] IN
  /\ Resumes("Call")
  /\ IsInt
  /\ \/ Top.i < Len(E.kids) /\ CallEvalExpr(with, Top.i + 1)
     \/ /\ Top.i = Len(E.kids)
        /\ Defines(program.functions, E.id)
        /\ Push([with EXCEPT !.i = Top.i + 1],
                [Frame(Lookup(program.functions, E.id), NULL, NoLoop, NULL)
                   EXCEPT !.vals = with.vals])
     \/ Top.i > Len(E.kids) /\ Return(res)
  /\ UNCHANGED <<program, heap, status, result>>

\* The next parameter is bound to its argument.
BindParameter ==
  /\ Enters("Fun")
  /\ Top.i < Len(E.names)
  /\ CanBind(heap)
  /\ \E v \in IF Top.i < Len(Top.vals) THEN {Top.vals[Top.i + 1]} ELSE Word :
       heap' = env_bind(heap, Top.env, E.names[Top.i + 1], v)
  /\ stack' = Below \o <<[Top EXCEPT !.i = @ + 1, !.env = NewNode(heap)]>>
  /\ UNCHANGED <<program, res, status, result>>

EvalFunctionBody ==
  /\ Enters("Fun")
  /\ Top.i = Len(E.names)
  /\ Push([Top EXCEPT !.i = @ + 1], Frame(Body(E), Top.env, NoLoop, NULL))
  /\ UNCHANGED <<program, heap, status, result>>

ResumeFunction ==
  /\ Resumes("Fun")
  /\ IsInt
  /\ CanFree(heap, Top.env, NULL)
  /\ heap' = env_free(heap, Top.env, NULL)
  /\ Return(res)
  /\ UNCHANGED <<program, status, result>>

-----------------------------------------------------------------------------
Finish ==
  /\ status = "running"
  /\ Depth = 0
  /\ status' = "returned"
  /\ result' = res.i
  /\ UNCHANGED <<program, stack, res, heap>>

\* The asserts: env_lookup's on an unknown name, eval's on a recur, that of
\* int_result, and call_function's on an unknown function.
AssertFails ==
  \/ Enters("Id") /\ FindNode(heap, Top.env, E.id) = NULL
  \/ Enters("Recur") /\ ~InLoop
  \/ status = "running" /\ Depth > 0 /\ res # None /\ ~IsInt
  \/ /\ Resumes("Call")
     /\ Top.i = Len(E.kids)
     /\ ~Defines(program.functions, E.id)

Abort ==
  /\ AssertFails
  /\ status' = "aborted"
  /\ UNCHANGED <<program, stack, res, heap, result>>

\* env_bind is about to write to the node malloc did not give it.
Binds ==
  \/ Enters("Fun") /\ Top.i < Len(E.names)
  \/ (Resumes("Let") \/ Resumes("Loop")) /\ Top.i <= Len(E.names)
  \/ Resumes("Recur")

Crash ==
  /\ Binds
  /\ ~CanBind(heap)
  /\ status' = "crashed"
  /\ UNCHANGED <<program, stack, res, heap, result>>

Halted == status \in Stopped /\ UNCHANGED vars

Next ==
  \/ EvalInteger \/ EvalIdent \/ EvalOperands
  \/ ResumeIf \/ ResumeUnary \/ ResumeBinary \/ ResumeLet \/ ResumeLoop
  \/ EvalRecur \/ ResumeRecur
  \/ ResumeCall \/ BindParameter \/ EvalFunctionBody \/ ResumeFunction
  \/ Finish \/ Abort \/ Crash \/ Halted

\* One thread, never suspended.
Spec == Init /\ [][Next]_vars /\ WF_vars(Next)

-----------------------------------------------------------------------------
(* Nobody holds a node that has been freed: not the environment of any     *)
(* frame, not the one a loop goes back to, not the one a recur carries.    *)
Roots == {res.loop_env} \union (UNION {{f.env, f.lenv, f.old} : f \in ToSet(stack)})

EnvironmentsLive == \A r \in Roots : CanFree(heap, r, NULL)

(* Every allocated node is a binding in force: the heap holds exactly as   *)
(* many nodes as the frames on the stack have bindings, plus the new ones  *)
(* of a recur on its way.  So nothing leaks, nothing remains at the end,   *)
(* and a loop takes no more memory the more often it recurs.               *)
Bindings(f) ==
  CASE f.e.t \in {"Let", "Loop", "Recur"} -> IF f.i = 0 THEN 0 ELSE f.i - 1
    [] f.e.t = "Fun"                      -> IF f.i <= Len(f.e.names) THEN f.i
                                                                     ELSE f.i - 1
    [] OTHER                              -> 0

\* The loop a recur on its way to a frame goes to.
LoopOf(f) == IF f.e.t = "Loop" THEN f.e ELSE f.loop

HeapAccountedFor ==
  LET held[k \in 0 .. Depth] == IF k = 0 THEN 0 ELSE held[k - 1] + Bindings(stack[k])
  IN  Cardinality(DOMAIN heap) =
        held[Depth] + IF res.loop_env = NULL THEN 0 ELSE Len(LoopOf(Top).names)

(* A recur never reaches an operand evaluated for its value: eval_expr     *)
(* forgets the innermost loop, so the assert in int_result has nothing to  *)
(* catch.                                                                  *)
IntResultNeverFails == status = "running" /\ Depth > 0 /\ res # None => IsInt
=============================================================================
