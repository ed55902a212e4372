---------------------------- MODULE SwiftInterp ----------------------------
(***************************************************************************)
(* The interpreter of parser.swift, one step per call of or return to an   *)
(* eval method.  The stack of the thread is explicit: a frame for every    *)
(* active eval, with its locals.  Variables are in Memory.variableStacks:  *)
(* for every function being run a dictionary of stacks of values, one per  *)
(* name, on which let and loop push and from which they pop.               *)
(*                                                                         *)
(* A failing assert, the forced unwrap of a nil, an index out of range and *)
(* a negation that overflows end the process.                              *)
(***************************************************************************)
EXTENDS Words, Syntax, SequencesExt

CONSTANTS
  Exprs,           \* the expressions of the programs, with those they are made of
  Invocations,     \* programs (.functions, a sequence) and main's arguments (.args)
  Identifiers,     \* the names of variables in them
  MaxInvocations   \* lines of Debug.invocations that are counted

VARIABLES
  program,         \* the invocation being run
  stack,           \* frames of eval, the last one running
  res,             \* the result on its way to the frame on top, if any
  variableStacks,  \* functions from names to sequences, the tops last
  invocations,     \* the number of lines in Debug.invocations
  currentDepth,    \* Debug.currentDepth
  status,          \* "running", or one of Stopped
  result           \* what main returned; 0 until then

debug == <<invocations, currentDepth>>
vars  == <<program, stack, res, variableStacks, debug, status, result>>

Stopped == {"returned", "trapped", "overflow"}

\* What createSyntaxTree makes: the function definitions, and the expressions
\* they are made of.
WellFormed(e) ==
  /\ e \in [t : Kinds, v : Word, id : STRING, names : Seq(Identifiers), kids : Seq(Exprs)]
  /\ Shaped(e)
  /\ e.t = "Id" => e.id \in Identifiers
Definitions == {e \in Exprs : e.t = "Fun"}

ASSUME ExprsAssumption == \A e \in Exprs : WellFormed(e)

ASSUME InvocationsAssumption ==
  \A inv \in Invocations :
    /\ inv.functions \in Seq(Definitions)
    /\ Defines(inv.functions, "main")
    /\ inv.args \in Seq(Word)

ASSUME MaxInvocationsAssumption == MaxInvocations \in Nat

\* A sequence s with its last element replaced.
Update(s, x) == Append(Front(s), x)

-----------------------------------------------------------------------------
(* Memory.  A name that is not in a dictionary has an empty stack here: the *)
(* code tells the two apart only to create the stack.                      *)

\* variableStack, the dictionary of the function being run, and its change.
variableStack == Last(variableStacks)
Becomes(dict) == variableStacks' = Update(variableStacks, dict)

Pushed(x, v) == [variableStack EXCEPT ![x] = Append(@, v)]

\* Where a name is among the names bound together.
Places(names, x) == { j \in 1 .. Len(names) : names[j] = x }

\* One pop per binding, so several for a name bound several times.
popBindingScope(names) ==
  [x \in Identifiers |->
     SubSeq(variableStack[x], 1, Len(variableStack[x]) - Cardinality(Places(names, x)))]

\* A loop's new values replace the tops, those of a name bound twice in turn,
\* so that the last one stays.
values_pushed(names, values) ==                     \* mutant
  [x \in Identifiers |->
     IF Places(names, x) = {} THEN variableStack[x]
     ELSE Append(variableStack[x], values[Max(Places(names, x))])]
updated_copies(names, values) == variableStack      \* mutant: Stack as a struct
Updated(names, values) ==
  [x \in Identifiers |->
     IF Places(names, x) = {} THEN variableStack[x]
     ELSE Update(variableStack[x], values[Max(Places(names, x))])]

\* The dictionary of a call: a later parameter replaces one of its name.
functionStack(params, args) ==
  LET passed(x) == Places(params, x) \intersect DOMAIN args IN
  [x \in Identifiers |-> IF passed(x) = {} THEN << >> ELSE << args[Max(passed(x))] >>]

\* Debug.addEntry and addExit.
Logged(lines) == IF lines < MaxInvocations THEN lines + 1 ELSE lines

-----------------------------------------------------------------------------
(* Frames: i operands have been begun; vals are the values kept of them.   *)

Frame(e) == [e |-> e, i |-> 0, vals |-> << >>]

\* The results of eval.  newValues is empty for nil: a recur has arguments.
None             == [k |-> "none",   value |-> 0, newValues |-> << >>]
Value(v)         == [k |-> "result", value |-> v, newValues |-> << >>]
NewValues(vals)  == [k |-> "result", value |-> 0, newValues |-> vals]

Depth == Len(stack)
Top   == Last(stack)
E     == Top.e
Below == Front(stack)

Evaluate(top, kid) ==
  stack' = Below \o << [top EXCEPT !.i = kid], Frame(top.e.kids[kid]) >> /\ res' = None
Return(r) == stack' = Below /\ res' = r

Running       == status = "running" /\ Depth > 0
Enters(kind)  == Running /\ res = None /\ E.t = kind
Resumes(kind) == Running /\ res # None /\ E.t = kind

\* Memory.functions: of several definitions the last.  The parser knows the
\* functions defined so far, and takes any other name for a variable.
Function(f) ==
  LET fs == program.functions IN
  fs[CHOOSE k \in 1 .. Len(fs) : fs[k].id = f /\ \A j \in k + 1 .. Len(fs) : fs[j].id # f]

-----------------------------------------------------------------------------
\* main.swift: the frame of main's evalWithParams, or for an expression
\* without a function (--interpret-exp) that of a function without parameters.
Init ==
  /\ program \in Invocations
  /\ stack = << Frame(Function("main")) >>
  /\ res = None
  /\ variableStacks = << >>
  /\ invocations = 0 /\ currentDepth = 0
  /\ status = "running"
  /\ result = 0

Enter(f, args) ==
  /\ variableStacks' = Append(variableStacks, functionStack(f.names, args))
  /\ invocations' = Logged(invocations)
  /\ currentDepth' = currentDepth + 1

leave_frame ==                                      \* mutant: no pop
  /\ UNCHANGED variableStacks
  /\ invocations' = Logged(invocations)
  /\ currentDepth' = currentDepth - 1
Leave ==
  /\ variableStacks' = Front(variableStacks)
  /\ invocations' = Logged(invocations)
  /\ currentDepth' = currentDepth - 1

\* evalWithParams; there may be fewer arguments than parameters.
EvalWithParams ==
  /\ Enters("Fun")
  /\ Len(program.args) <= Len(E.names)
  /\ Enter(E, program.args)
  /\ Evaluate(Top, 1)
  /\ UNCHANGED <<program, status, result>>

ReturnFromMain ==
  /\ Resumes("Fun")
  /\ Leave
  /\ stack' = << >>
  /\ status' = "returned" /\ result' = res.value
  /\ UNCHANGED <<program, res>>

EvalInteger ==
  /\ Enters("Int")
  /\ Return(Value(E.v))
  /\ UNCHANGED <<program, variableStacks, debug, status, result>>

EvalIdentifier ==
  /\ Enters("Id")
  /\ variableStack[E.id] # << >>
  /\ Return(Value(Last(variableStack[E.id])))
  /\ UNCHANGED <<program, variableStacks, debug, status, result>>

TakesArguments ==
  Defines(program.functions, E.id) /\ Len(E.kids) = Len(Function(E.id).names)

\* The other forms begin with their first operand.
EvalOperands ==
  /\ \/ \E kind \in {"If", "Unary", "Binary", "Let", "Loop", "Recur"} : Enters(kind)
     \/ Enters("Call") /\ TakesArguments
  /\ Evaluate(Top, 1)
  /\ UNCHANGED <<program, variableStacks, debug, status, result>>

-----------------------------------------------------------------------------
(* `.value` forgets the new values an operand may come with.               *)

\* The value of a branch is returned as it is, new values included.
ResumeIf ==
  /\ Resumes("If")
  /\ IF Top.i = 1 THEN Evaluate(Top, IF res.value = 0 THEN 3 ELSE 2) ELSE Return(res)
  /\ UNCHANGED <<program, variableStacks, debug, status, result>>

Overflows == Resumes("Unary") /\ E.id = "-" /\ -res.value \notin Word

ResumeUnary ==
  /\ Resumes("Unary")
  /\ ~Overflows
  /\ Return(Value(IF E.id = "!" THEN Truth(res.value = 0) ELSE -res.value))
  /\ UNCHANGED <<program, variableStacks, debug, status, result>>

Combine(op, left, right) ==
  CASE op = "<"            -> Truth(left < right)
    [] op = "=="           -> Truth(left = right)
    [] op = "+"            -> Wrap(left + right)
    [] op = "*"            -> Wrap(left * right)
    [] op \in {"&&", "||"} -> Truth(right # 0)

\* `||` and `&&` of Swift, too, look no further than they must.
ShortCut == (E.id = "&&" /\ res.value = 0) \/ (E.id = "||" /\ res.value # 0)

ResumeBinary ==
  /\ Resumes("Binary")
  /\ \/ Top.i = 1 /\ ShortCut /\ Return(Value(Truth(E.id = "||")))
     \/ Top.i = 1 /\ ~ShortCut /\ Evaluate([Top EXCEPT !.vals = <<res.value>>], 2)
     \/ Top.i = 2 /\ Return(Value(Combine(E.id, Top.vals[1], res.value)))
  /\ UNCHANGED <<program, variableStacks, debug, status, result>>

-----------------------------------------------------------------------------
(* let and loop: pushBindingScope one binding at a time, then the body.    *)

PushBinding ==
  /\ Resumes("Let") \/ Resumes("Loop")
  /\ Top.i <= Len(E.names)
  /\ Becomes(Pushed(E.names[Top.i], res.value))
  /\ Evaluate(Top, Top.i + 1)
  /\ UNCHANGED <<program, debug, status, result>>

ResumeLet ==
  /\ Resumes("Let")
  /\ Top.i > Len(E.names)
  /\ Becomes(popBindingScope(E.names))
  /\ Return(res)
  /\ UNCHANGED <<program, debug, status, result>>

LeaveLoop ==
  /\ Resumes("Loop")
  /\ Top.i > Len(E.names)
  /\ res.newValues = << >>
  /\ Becomes(popBindingScope(E.names))
  /\ Return(res)
  /\ UNCHANGED <<program, debug, status, result>>

\* Values beyond the bindings are left alone; with fewer the process ends.
LoopAgain ==
  /\ Resumes("Loop")
  /\ Top.i > Len(E.names)
  /\ Len(res.newValues) >= Len(E.names)
  /\ Becomes(Updated(E.names, res.newValues))
  /\ Evaluate(Top, Top.i)
  /\ UNCHANGED <<program, debug, status, result>>

\* A recur does not look for a loop: it returns new values to its caller.
ResumeRecur ==
  LET with == [Top EXCEPT !.vals = Append(@, res.value)] IN
  /\ Resumes("Recur")
  /\ IF Top.i < Len(E.kids) THEN Evaluate(with, Top.i + 1) ELSE Return(NewValues(with.vals))
  /\ UNCHANGED <<program, variableStacks, debug, status, result>>

-----------------------------------------------------------------------------
(* Invocation: the arguments in the caller's dictionary, then the function *)
(* in one of its own.                                                      *)

EvalArgument ==
  /\ Resumes("Call")
  /\ Top.i < Len(E.kids)
  /\ Evaluate([Top EXCEPT !.vals = Append(@, res.value)], Top.i + 1)
  /\ UNCHANGED <<program, variableStacks, debug, status, result>>

EnterFunction ==
  LET f == Function(E.id) IN
  /\ Resumes("Call")
  /\ Top.i = Len(E.kids)
  /\ Enter(f, Append(Top.vals, res.value))
  /\ stack' = Below \o << [Top EXCEPT !.i = @ + 1], Frame(Body(f)) >>
  /\ res' = None
  /\ UNCHANGED <<program, status, result>>

LeaveFunction ==
  /\ Resumes("Call")
  /\ Top.i > Len(E.kids)
  /\ Leave
  /\ Return(Value(res.value))
  /\ UNCHANGED <<program, status, result>>

-----------------------------------------------------------------------------
\* params[index] of evalWithParams, peek()! of a variable that is not bound,
\* functions[functionName]! and the assert on the number of arguments,
\* result.newValues![index] of a loop.
Traps ==
  \/ Enters("Fun") /\ Len(program.args) > Len(E.names)
  \/ Enters("Id") /\ variableStack[E.id] = << >>
  \/ Enters("Call") /\ ~TakesArguments
  \/ /\ Resumes("Loop")
     /\ Top.i > Len(E.names)
     /\ Len(res.newValues) \in 1 .. Len(E.names) - 1

Trap ==
  /\ Traps \/ Overflows
  /\ status' = IF Overflows THEN "overflow" ELSE "trapped"
  /\ UNCHANGED <<program, stack, res, variableStacks, debug, result>>

Halted == status \in Stopped /\ UNCHANGED vars

Next ==
  \/ EvalWithParams \/ ReturnFromMain
  \/ EvalInteger \/ EvalIdentifier \/ EvalOperands
  \/ ResumeIf \/ ResumeUnary \/ ResumeBinary
  \/ PushBinding \/ ResumeLet \/ LeaveLoop \/ LoopAgain \/ ResumeRecur
  \/ EvalArgument \/ EnterFunction \/ LeaveFunction
  \/ Trap \/ Halted

\* One thread, never suspended.
Spec == Init /\ [][Next]_vars /\ WF_vars(Next)

-----------------------------------------------------------------------------
(* Every function being run has a dictionary of its own, and in it a name  *)
(* has as many values as there are bindings of it in force, parameters     *)
(* included: whether a let, loop or function ends with a value or a recur, *)
(* and however often a loop goes round, nothing is left on a stack and     *)
(* nothing of an outer binding or a caller is taken from one.              *)

\* The frames that have a function running, and how many the first k have.
RunsFunction(f) ==
  (f.e.t = "Fun" /\ f.i = 1) \/ (f.e.t = "Call" /\ f.i > Len(f.e.kids))
Activation(k)   == Cardinality({ j \in 1 .. k : RunsFunction(stack[j]) })
Parameters(f)   == IF f.e.t = "Fun" THEN SubSeq(f.e.names, 1, Len(program.args))
                   ELSE Function(f.e.id).names

\* The bindings of x that a frame has made: places in its names, or a parameter.
Binds(f, x) ==
  IF f.e.t \in {"Let", "Loop"} THEN { j \in Places(f.e.names, x) : j < f.i }
  ELSE IF RunsFunction(f) /\ Places(Parameters(f), x) # {} THEN {0} ELSE {}
FramesOf(a) == { k \in 1 .. Depth : Activation(k) = a }
InForce(frames, x) == UNION { {k} \X Binds(stack[k], x) : k \in frames }

ScopesBalanced ==
  /\ Len(variableStacks) = Activation(Depth) /\ currentDepth = Activation(Depth)
  /\ \A a \in 1 .. Len(variableStacks) :
       LET frames == FramesOf(a) IN
       \A x \in Identifiers : Len(variableStacks[a][x]) = Cardinality(InForce(frames, x))
=============================================================================
