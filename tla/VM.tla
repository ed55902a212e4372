--------------------------------- MODULE VM ---------------------------------
(***************************************************************************)
(* The bytecode virtual machine of vm.c, as vm_main in main.c drives it:   *)
(* vm_init, vm_load, vm_push_args, vm_run.  One step is one turn of        *)
(* vm_run's loop.  A step whose assert fails ends the process ("aborted"); *)
(* a fetch outside the instruction array is undefined behaviour in C, and  *)
(* nothing is said of the machine after it ("undefined").                  *)
(*                                                                         *)
(* The operators that the specification does not use (StoreAbsolute,       *)
(* NegateUnwrapped, ReturnPopFirst, ...) are mutants: plausible mistakes   *)
(* in the definition that follows them, which the properties must catch.   *)
(***************************************************************************)
EXTENDS Bytecode

CONSTANTS
  Invocations,     \* the command lines: a loaded program and its arguments
  ArraySize,       \* slots of the value array     (32768 in vm_main)
  CallStackSize    \* entries of the call stack    (1024 in vm_main)

ASSUME InvocationsAssumption ==
  \A r \in Invocations : r.code \in Seq(Instruction) /\ r.args \in Seq(Word)
ASSUME SizesAssumption == ArraySize \in Nat /\ CallStackSize \in Nat

VARIABLES
  program,             \* the invocation: .code as loaded, .args as parsed
  value_array,         \* vm->value_array
  stack_pointer,       \* vm->stack_pointer
  call_stack,          \* vm->call_stack
  call_stack_pointer,  \* vm->call_stack_pointer
  pc,                  \* vm_run's local pc
  status,              \* where the process is
  result               \* what vm_run returned; 0 until then

vars == <<program, value_array, stack_pointer, call_stack,
          call_stack_pointer, pc, status, result>>
stacks == <<stack_pointer, call_stack, call_stack_pointer>>

Running == {"init", "running"}
Stopped == {"returned", "aborted", "undefined"}
Slot    == 0 .. ArraySize - 1

-----------------------------------------------------------------------------
(* The value stack: every access goes through get_slot and its assert.     *)

InBounds(sp, rel) == sp + rel \in Slot
Load(rel)         == value_array[stack_pointer + rel]
StoreAbsolute(sp, rel, v) == value_array' = [value_array EXCEPT ![rel] = v]
Store(sp, rel, v) == value_array' = [value_array EXCEPT ![sp + rel] = v]

(* The instruction array and the fetch of vm_run.                          *)

At(n)       == program.code[n + 1]
Fetchable   == pc \in 0 .. Len(program.code) - 1
Ins         == At(pc)
Executes(op) ==
  /\ status = "running"
  /\ Fetchable
  /\ Ins.op = op
  /\ \A s \in Slots(Ins) : InBounds(stack_pointer, s)

-----------------------------------------------------------------------------
\* vm_init and vm_load: zeroed arrays, empty stacks, a program in memory.
Init ==
  /\ program \in Invocations
  /\ value_array = [s \in Slot |-> 0]
  /\ stack_pointer = 0
  /\ call_stack = [i \in 0 .. CallStackSize - 1 |-> 0]
  /\ call_stack_pointer = 0
  /\ pc = 0
  /\ status = "init"
  /\ result = 0

\* vm_push_args stores the arguments from slot 0 up and steps over them.
vm_push_args ==
  LET argc == Len(program.args) IN
  /\ status = "init"
  /\ argc <= ArraySize
  /\ value_array' = [s \in Slot |-> IF s < argc THEN program.args[s + 1]
                                                ELSE value_array[s]]
  /\ stack_pointer' = argc
  /\ status' = "running"
  /\ UNCHANGED <<program, call_stack, call_stack_pointer, pc, result>>

-----------------------------------------------------------------------------
(* Straight-line instructions: one store, then pc++.                       *)

Computes(op, v) ==
  /\ Executes(op)
  /\ Store(stack_pointer, Ins.a, v)
  /\ pc' = pc + 1
  /\ UNCHANGED <<program, stacks, status, result>>

Add      == Computes("Add",      Wrap(Load(Ins.b) + Load(Ins.c)))
Multiply == Computes("Multiply", Wrap(Load(Ins.b) * Load(Ins.c)))
LessThanOrEqual == Computes("LessThan", Truth(Load(Ins.b) <= Load(Ins.c)))
LessThan == Computes("LessThan", Truth(Load(Ins.b) < Load(Ins.c)))
Equals   == Computes("Equals",   Truth(Load(Ins.b) = Load(Ins.c)))
Move     == Computes("Move",     Load(Ins.b))
NegateUnwrapped == Computes("Negate", -Load(Ins.b))
Negate   == Computes("Negate",   Wrap(-Load(Ins.b)))
Not      == Computes("Not",      Truth(Load(Ins.b) = 0))
Set      == Computes("Set",      Ins.b)

(* Control flow.                                                           *)

GoTo(target) ==
  /\ pc' = target
  /\ UNCHANGED <<program, value_array, stacks, status, result>>

Jump       == Executes("Jump") /\ GoTo(Ins.a)
JumpIfZero == Executes("JumpIfZero")
              /\ GoTo(IF Load(Ins.a) = 0 THEN Ins.b ELSE pc + 1)

\* vs_push by the call's NUMBER; vs_pop undoes it on return.
vs_push_down(n) == stack_pointer - n
vs_push(n) == stack_pointer + n
vs_pop_nothing(n) == stack_pointer
vs_pop(n)  == stack_pointer - n

cs_push_resume(n) ==
  /\ call_stack' = [call_stack EXCEPT ![call_stack_pointer] = n + 1]
  /\ call_stack_pointer' = call_stack_pointer + 1

cs_push(n) ==
  /\ call_stack' = [call_stack EXCEPT ![call_stack_pointer] = n]
  /\ call_stack_pointer' = call_stack_pointer + 1

Call ==
  /\ Executes("Call")
  /\ call_stack_pointer < CallStackSize
  /\ cs_push(pc)
  /\ stack_pointer' = vs_push(Ins.b)
  /\ pc' = Ins.a
  /\ UNCHANGED <<program, value_array, status, result>>

cs_is_empty == call_stack_pointer = 0
cs_top      == call_stack[call_stack_pointer - 1]

ReturnFromProgram ==
  /\ Executes("Return")
  /\ cs_is_empty
  /\ status' = "returned"
  /\ result' = Load(Ins.a)
  /\ UNCHANGED <<program, value_array, stacks, pc>>

\* After a return the loop's pc++ steps over the Call.
ResumeAtCall(n) == n
Resume(n) == n + 1

ReturnPopFirst ==
  /\ Executes("Return")
  /\ ~cs_is_empty
  /\ At(cs_top).op = "Call"
  /\ LET sp == vs_pop(At(cs_top).b) IN
     /\ InBounds(sp, At(cs_top).c)
     /\ InBounds(sp, Ins.a)
     /\ stack_pointer' = sp
     /\ Store(sp, At(cs_top).c, value_array[sp + Ins.a])
  /\ call_stack_pointer' = call_stack_pointer - 1
  /\ pc' = Resume(cs_top)
  /\ UNCHANGED <<program, call_stack, status, result>>

ReturnToCaller ==
  /\ Executes("Return")
  /\ ~cs_is_empty
  /\ At(cs_top).op = "Call"
  /\ LET sp == vs_pop(At(cs_top).b) IN
     /\ InBounds(sp, At(cs_top).c)
     /\ stack_pointer' = sp
     /\ Store(sp, At(cs_top).c, Load(Ins.a))
  /\ call_stack_pointer' = call_stack_pointer - 1
  /\ pc' = Resume(cs_top)
  /\ UNCHANGED <<program, call_stack, status, result>>

Return == ReturnFromProgram \/ ReturnToCaller
-----------------------------------------------------------------------------
(* The ways out that are not a return.                                     *)

\* The asserts an instruction can fail: get_slot's on its operands,
\* cs_push's on a full call stack, and on a return to a caller the one on
\* the opcode popped and get_slot's on the result slot.
AssertFails ==
  \/ \E s \in Slots(Ins) : ~InBounds(stack_pointer, s)
  \/ Ins.op = "Call" /\ call_stack_pointer >= CallStackSize
  \/ /\ Ins.op = "Return"
     /\ ~cs_is_empty
     /\ \/ At(cs_top).op # "Call"
        \/ ~InBounds(vs_pop(At(cs_top).b), At(cs_top).c)

Abort ==
  /\ \/ status = "init" /\ Len(program.args) > ArraySize
     \/ status = "running" /\ Fetchable /\ AssertFails
  /\ status' = "aborted"
  /\ UNCHANGED <<program, value_array, stacks, pc, result>>

RunOff ==
  /\ status = "running"
  /\ ~Fetchable
  /\ status' = "undefined"
  /\ UNCHANGED <<program, value_array, stacks, pc, result>>

\* A process that has ended stays ended.
Halted == status \in Stopped /\ UNCHANGED vars

Local == Add \/ Multiply \/ LessThan \/ Equals \/ Move \/ Negate \/ Not \/ Set
           \/ Jump \/ JumpIfZero

Next == vm_push_args \/ Local \/ Call \/ Return \/ Abort \/ RunOff \/ Halted

\* One thread that nothing suspends: the machine keeps taking steps.
Fairness == WF_vars(Next)
Spec     == Init /\ [][Next]_vars
FairSpec == Spec /\ Fairness
-----------------------------------------------------------------------------
(* The machine's registers and memory stay within their types.             *)
TypeOK ==
  /\ program \in Invocations
  /\ value_array \in [Slot -> Word]
  /\ stack_pointer \in Int
  /\ call_stack \in [0 .. CallStackSize - 1 -> Int]
  /\ call_stack_pointer \in 0 .. CallStackSize
  /\ pc \in Int
  /\ status \in Running \union Stopped
  /\ result \in Word
=============================================================================
