--------------------------- MODULE VMFrames_proofs ---------------------------
(***************************************************************************)
(* Theorems about the virtual machine, for every program, argument list,   *)
(* word width and stack size: the types; that the call stack of vm.c       *)
(* determines the frames; that a callee cannot disturb its callers; that   *)
(* the machine implements FrameMachine; and, for every listing, that it is *)
(* loaded as it is written or refused, and that what is loaded is a        *)
(* program that the theorems about the machine are about.                  *)
(***************************************************************************)
EXTENDS VMFrames, VMMain, Basics_proofs

-----------------------------------------------------------------------------
(* What the asserts and the assumptions on the constants give a step.      *)

(***************************************************************************)
(* The types of the machine, whichever program is in its memory.  They are *)
(* those of TypeOK, where the program is one of the invocations.           *)
(***************************************************************************)
MachineTyped ==
  /\ program.code \in Seq(Instruction)
  /\ program.args \in Seq(Word)
  /\ value_array \in [Slot -> Word]
  /\ stack_pointer \in Int
  /\ call_stack \in [0 .. CallStackSize - 1 -> Int]
  /\ call_stack_pointer \in 0 .. CallStackSize
  /\ pc \in Int
  /\ status \in Running \union Stopped
  /\ result \in Word

LEMMA ProgramType ==
  ASSUME MachineTyped
  PROVE  program.code \in Seq(Instruction) /\ program.args \in Seq(Word)
BY DEF MachineTyped

LEMMA InstructionType ==
  ASSUME MachineTyped, NEW n \in 0 .. Len(program.code) - 1
  PROVE  /\ At(n).op \in Opcodes
         /\ At(n).a \in Int /\ At(n).b \in Int /\ At(n).c \in Int
         /\ At(n).op = "Set" => At(n).b \in Word
<1>1. n + 1 \in 1 .. Len(program.code)
  BY ProgramType
<1>2. program.code[n + 1] \in Instruction
  BY <1>1, ProgramType
<1> QED
  BY <1>2 DEF At, Instruction

\* The operands of an instruction that executes passed get_slot's assert.
LEMMA OperandsInBounds ==
  ASSUME MachineTyped, NEW op, Executes(op)
  PROVE  /\ Ins.op = op
         /\ pc \in 0 .. Len(program.code) - 1
         /\ Ins.a \in Int /\ Ins.b \in Int /\ Ins.c \in Int
         /\ op = "Set" => Ins.b \in Word
         /\ op \in ThreeSlotOps \union TwoSlotOps \union {"Set", "Return", "JumpIfZero"}
              => stack_pointer + Ins.a \in Slot /\ Load(Ins.a) \in Word
         /\ op \in ThreeSlotOps \union TwoSlotOps
              => stack_pointer + Ins.b \in Slot /\ Load(Ins.b) \in Word
         /\ op \in ThreeSlotOps
              => stack_pointer + Ins.c \in Slot /\ Load(Ins.c) \in Word
<1>1. pc \in 0 .. Len(program.code) - 1 /\ Ins.op = op
  BY DEF Executes, Fetchable
<1>2. /\ Ins.a \in Int /\ Ins.b \in Int /\ Ins.c \in Int
      /\ op = "Set" => Ins.b \in Word
  BY <1>1, InstructionType DEF Ins
<1>3. \A s \in Slots(Ins) : stack_pointer + s \in Slot /\ Load(s) \in Word
  BY DEF Executes, InBounds, Load, MachineTyped
<1>4. CASE op \in ThreeSlotOps
  <2>1. {Ins.a, Ins.b, Ins.c} \subseteq Slots(Ins)
    BY <1>1, <1>4 DEF Slots, ThreeSlotOps, TwoSlotOps
  <2> QED BY <1>1, <1>2, <1>3, <1>4, <2>1
<1>5. CASE op \in TwoSlotOps
  <2>1. {Ins.a, Ins.b} \subseteq Slots(Ins) /\ op \notin ThreeSlotOps
    BY <1>1, <1>5 DEF Slots, ThreeSlotOps, TwoSlotOps
  <2> QED BY <1>1, <1>2, <1>3, <1>5, <2>1
<1>6. CASE op \in {"Set", "Return", "JumpIfZero"}
  <2>1. Ins.a \in Slots(Ins) /\ op \notin ThreeSlotOps \union TwoSlotOps
    BY <1>1, <1>6 DEF Slots, ThreeSlotOps, TwoSlotOps
  <2> QED BY <1>1, <1>2, <1>3, <1>6, <2>1
<1>7. CASE op \notin ThreeSlotOps \union TwoSlotOps \union {"Set", "Return", "JumpIfZero"}
  BY <1>1, <1>2, <1>7
<1> QED
  BY <1>4, <1>5, <1>6, <1>7

-----------------------------------------------------------------------------
(* The type invariant is not inductive on its own: a return reads operands *)
(* of the instruction popped off the call stack, which are numbers only    *)
(* because the entry is the index of a Call instruction.                   *)
CallsOnStack ==
  \A i \in 0 .. call_stack_pointer - 1 :
    /\ call_stack[i] \in 0 .. Len(program.code) - 1
    /\ At(call_stack[i]).op = "Call"

VMInv == MachineTyped /\ CallsOnStack

\* What a return finds on a call stack that is not empty.
LEMMA TopOfStack ==
  ASSUME VMInv, ~cs_is_empty
  PROVE  /\ cs_top \in 0 .. Len(program.code) - 1
         /\ At(cs_top).op = "Call"
         /\ At(cs_top).a \in Int /\ At(cs_top).b \in Int /\ At(cs_top).c \in Int
<1>1. call_stack_pointer - 1 \in 0 .. call_stack_pointer - 1
  BY DEF VMInv, MachineTyped, cs_is_empty
<1>2. cs_top \in 0 .. Len(program.code) - 1 /\ At(cs_top).op = "Call"
  BY <1>1 DEF VMInv, CallsOnStack, cs_top
<1> QED
  BY <1>2, InstructionType DEF VMInv

\* A straight-line instruction that stores a word.
LEMMA ComputesKeepsVMInv ==
  ASSUME VMInv, NEW v \in Word,
         NEW op \in ThreeSlotOps \union TwoSlotOps \union {"Set"}, Computes(op, v)
  PROVE  VMInv'
<1>1. Executes(op)
  BY DEF Computes
<1>2. pc \in 0 .. Len(program.code) - 1 /\ stack_pointer + Ins.a \in Slot
  BY <1>1, OperandsInBounds DEF VMInv
<1>3. value_array' \in [Slot -> Word] /\ pc' \in Int
  BY <1>2 DEF Computes, Store, VMInv, MachineTyped
<1>4. MachineTyped'
  BY <1>3 DEF Computes, stacks, VMInv, MachineTyped
<1>5. CallsOnStack'
  BY DEF Computes, stacks, VMInv, CallsOnStack, At
<1> QED
  BY <1>4, <1>5 DEF VMInv

\* A jump: nothing but the program counter changes.
LEMMA GoToKeepsVMInv ==
  ASSUME VMInv, NEW n \in Int, GoTo(n)
  PROVE  VMInv'
BY DEF GoTo, stacks, VMInv, MachineTyped, CallsOnStack, At

LEMMA PushArgsKeepsVMInv == ASSUME VMInv, vm_push_args PROVE VMInv'
<1>1. program.args \in Seq(Word)
  BY ProgramType DEF VMInv
<1>2. \A s \in Slot : s < Len(program.args) => program.args[s + 1] \in Word
  BY <1>1, SizesAssumption DEF Slot
<1>3. value_array' \in [Slot -> Word] /\ stack_pointer' \in Int
  BY <1>1, <1>2 DEF vm_push_args, VMInv, MachineTyped
<1> QED
  BY <1>3 DEF vm_push_args, VMInv, MachineTyped, CallsOnStack, At, Running

\* A call puts its own index on the call stack.
LEMMA CallKeepsVMInv == ASSUME VMInv, Call PROVE VMInv'
<1>1. Executes("Call")
  BY DEF Call
<1>2. /\ pc \in 0 .. Len(program.code) - 1 /\ At(pc).op = "Call"
      /\ Ins.a \in Int /\ Ins.b \in Int
  BY <1>1, OperandsInBounds DEF VMInv, Ins
<1>3. call_stack_pointer \in 0 .. CallStackSize - 1
  BY SizesAssumption DEF Call, VMInv, MachineTyped
<1>4. MachineTyped'
  BY <1>2, <1>3, SizesAssumption DEF Call, cs_push, vs_push, VMInv, MachineTyped
<1>5. CallsOnStack'
  <2>1. /\ call_stack'[call_stack_pointer] = pc
        /\ \A i \in 0 .. call_stack_pointer - 1 : call_stack'[i] = call_stack[i]
    BY <1>3 DEF Call, cs_push, VMInv, MachineTyped
  <2>2. program' = program /\ call_stack_pointer' = call_stack_pointer + 1
    BY DEF Call, cs_push
  <2>3. \A i \in 0 .. call_stack_pointer :
          i = call_stack_pointer \/ i \in 0 .. call_stack_pointer - 1
    BY <1>3
  <2>4. \A i \in 0 .. call_stack_pointer :
          call_stack'[i] \in 0 .. Len(program.code) - 1 /\ At(call_stack'[i]).op = "Call"
    BY <1>2, <2>1, <2>3 DEF VMInv, CallsOnStack
  <2>5. call_stack_pointer' - 1 = call_stack_pointer
    BY <1>3, <2>2
  <2> QED
    BY <2>2, <2>4, <2>5 DEF CallsOnStack, At
<1> QED
  BY <1>4, <1>5 DEF VMInv

\* A return stores a word in bounds and shortens the call stack.
LEMMA ReturnKeepsVMInv == ASSUME VMInv, ReturnToCaller PROVE VMInv'
<1>1. Executes("Return") /\ ~cs_is_empty
  BY DEF ReturnToCaller
<1>2. Load(Ins.a) \in Word
  BY <1>1, OperandsInBounds DEF VMInv
<1>3. cs_top \in Int /\ At(cs_top).b \in Int /\ At(cs_top).c \in Int
  BY <1>1, TopOfStack
<1>4. stack_pointer' = stack_pointer - At(cs_top).b /\ pc' = cs_top + 1
  BY DEF ReturnToCaller, vs_pop, Resume
<1>5. /\ stack_pointer' \in Int /\ pc' \in Int
      /\ value_array' \in [Slot -> Word]
      /\ call_stack_pointer' \in 0 .. CallStackSize
  <2>1. stack_pointer' \in Int /\ pc' \in Int
    BY <1>3, <1>4 DEF VMInv, MachineTyped
  <2>2. value_array' \in [Slot -> Word]
    BY <1>2 DEF ReturnToCaller, Store, VMInv, MachineTyped
  <2>3. call_stack_pointer' \in 0 .. CallStackSize
    BY <1>1, SizesAssumption DEF ReturnToCaller, cs_is_empty, VMInv, MachineTyped
  <2> QED BY <2>1, <2>2, <2>3
<1>6. MachineTyped'
  BY <1>5 DEF ReturnToCaller, VMInv, MachineTyped
<1>7. CallsOnStack'
  BY DEF ReturnToCaller, VMInv, MachineTyped, CallsOnStack, At
<1> QED
  BY <1>6, <1>7 DEF VMInv

LEMMA StopKeepsVMInv ==
  ASSUME VMInv, ReturnFromProgram \/ Abort \/ RunOff PROVE VMInv'
<1>1. CASE ReturnFromProgram
  <2>1. Load(Ins.a) \in Word
    BY <1>1, OperandsInBounds DEF VMInv, ReturnFromProgram
  <2> QED
    BY <1>1, <2>1 DEF ReturnFromProgram, stacks, VMInv, MachineTyped, CallsOnStack, At, Stopped
<1>2. CASE Abort
  BY <1>2 DEF Abort, stacks, VMInv, MachineTyped, CallsOnStack, At, Stopped
<1>3. CASE RunOff
  BY <1>3 DEF RunOff, stacks, VMInv, MachineTyped, CallsOnStack, At, Stopped
<1> QED
  BY <1>1, <1>2, <1>3

LEMMA LocalKeepsVMInv == ASSUME VMInv, Local PROVE VMInv'
<1> USE DEF ThreeSlotOps, TwoSlotOps
<1>1. CASE Add
  <2>1. Executes("Add") BY <1>1 DEF Add, Computes
  <2>2. Load(Ins.b) \in Word /\ Load(Ins.c) \in Word
    BY <2>1, OperandsInBounds DEF VMInv
  <2>3. Wrap(Load(Ins.b) + Load(Ins.c)) \in Word
    BY <2>2, WrapType DEF Word
  <2> QED BY <1>1, <2>3, ComputesKeepsVMInv DEF Add
<1>2. CASE Multiply
  <2>1. Executes("Multiply") BY <1>2 DEF Multiply, Computes
  <2>2. Load(Ins.b) \in Int /\ Load(Ins.c) \in Int
    BY <2>1, OperandsInBounds DEF VMInv, Word
  <2>3. Load(Ins.b) * Load(Ins.c) \in Int BY <2>2
  <2>4. Wrap(Load(Ins.b) * Load(Ins.c)) \in Word BY <2>3, WrapType
  <2> QED BY <1>2, <2>4, ComputesKeepsVMInv DEF Multiply
<1>3. CASE LessThan
  <2>1. Truth(Load(Ins.b) < Load(Ins.c)) \in Word
    BY HalfAssumption DEF Truth, Word
  <2> QED BY <1>3, <2>1, ComputesKeepsVMInv DEF LessThan
<1>4. CASE Equals
  <2>1. Truth(Load(Ins.b) = Load(Ins.c)) \in Word BY TruthType
  <2> QED BY <1>4, <2>1, ComputesKeepsVMInv DEF Equals
<1>5. CASE Move
  <2>1. Executes("Move") BY <1>5 DEF Move, Computes
  <2>2. Load(Ins.b) \in Word BY <2>1, OperandsInBounds DEF VMInv
  <2> QED BY <1>5, <2>2, ComputesKeepsVMInv DEF Move
<1>6. CASE Negate
  <2>1. Executes("Negate") BY <1>6 DEF Negate, Computes
  <2>2. Load(Ins.b) \in Word BY <2>1, OperandsInBounds DEF VMInv
  <2>3. Wrap(-Load(Ins.b)) \in Word BY <2>2, WrapType DEF Word
  <2> QED BY <1>6, <2>3, ComputesKeepsVMInv DEF Negate
<1>7. CASE Not
  <2>1. Truth(Load(Ins.b) = 0) \in Word BY TruthType
  <2> QED BY <1>7, <2>1, ComputesKeepsVMInv DEF Not
<1>8. CASE Set
  <2>1. Executes("Set") BY <1>8 DEF Set, Computes
  <2>2. Ins.b \in Word BY <2>1, OperandsInBounds DEF VMInv
  <2> QED BY <1>8, <2>2, ComputesKeepsVMInv DEF Set
<1>9. CASE Jump
  <2>1. Ins.a \in Int BY <1>9, OperandsInBounds DEF Jump, VMInv
  <2> QED BY <1>9, <2>1, GoToKeepsVMInv DEF Jump
<1>10. CASE JumpIfZero
  <2>1. (IF Load(Ins.a) = 0 THEN Ins.b ELSE pc + 1) \in Int
    BY <1>10, OperandsInBounds DEF JumpIfZero, VMInv
  <2> QED BY <1>10, <2>1, GoToKeepsVMInv DEF JumpIfZero
<1> QED
  BY <1>1, <1>2, <1>3, <1>4, <1>5, <1>6, <1>7, <1>8, <1>9, <1>10 DEF Local

LEMMA VMInvInit == Init => VMInv
<1> SUFFICES ASSUME Init PROVE VMInv
  OBVIOUS
<1>1. 0 \in Word
  BY HalfAssumption DEF Word
<1> QED
  BY <1>1, SizesAssumption, InvocationsAssumption
  DEF Init, VMInv, MachineTyped, CallsOnStack, Running

LEMMA VMInvStep == VMInv /\ [Next]_vars => VMInv'
<1> SUFFICES ASSUME VMInv, [Next]_vars PROVE VMInv'
  OBVIOUS
<1>1. CASE UNCHANGED vars
  BY <1>1 DEF vars, VMInv, MachineTyped, CallsOnStack, At
<1>2. CASE Halted
  BY <1>2 DEF Halted, vars, VMInv, MachineTyped, CallsOnStack, At
<1> QED
  BY <1>1, <1>2, PushArgsKeepsVMInv, LocalKeepsVMInv, CallKeepsVMInv,
     ReturnKeepsVMInv, StopKeepsVMInv DEF Next, Return

\* No step changes the program it runs.
LEMMA NextKeepsProgram == [Next]_vars => program' = program
<1>1. Local => program' = program
  BY DEF Local, Add, Multiply, LessThan, Equals, Move, Negate, Not, Set,
         Jump, JumpIfZero, Computes, GoTo
<1>2. Call \/ Return => program' = program
  BY DEF Call, Return, ReturnToCaller, ReturnFromProgram
<1>3. vm_push_args \/ Abort \/ RunOff \/ Halted => program' = program
  BY DEF vm_push_args, Abort, RunOff, Halted, vars
<1> QED
  BY <1>1, <1>2, <1>3 DEF Next, vars

(* The registers and the value array of the machine always hold values of  *)
(* their types: arithmetic never leaves the word, the call stack pointer   *)
(* never leaves its array (cs_push, cs_pop and get_slot in vm.c).          *)
THEOREM TypeCorrect == Spec => []TypeOK
<1> DEFINE Invoked == program \in Invocations
<1>1. Init => Invoked
  BY DEF Init
<1>2. ASSUME Invoked, [Next]_vars PROVE Invoked'
  BY <1>2, NextKeepsProgram
<1>3. VMInv /\ Invoked => TypeOK
  BY DEF VMInv, MachineTyped, TypeOK
<1> HIDE DEF Invoked
<1>4. Spec => [](VMInv /\ Invoked)
  BY <1>1, <1>2, VMInvInit, VMInvStep, PTL DEF Spec
<1> QED
  BY <1>3, <1>4, PTL

-----------------------------------------------------------------------------
Frame == [sp : Int, next : Int, dst : Int]

(***************************************************************************)
(* The inductive invariant.  HistoryType types the history; AtStart says   *)
(* what vm_init leaves and vm_push_args has checked; the next two parts    *)
(* are properties of VMFrames; Nested orders the stack pointers of the     *)
(* open calls, so that what lies below one lies below every later one.     *)
(***************************************************************************)
HistoryType ==
  /\ frames \in Seq(Frame)
  /\ images \in Seq([Slot -> Word])
  /\ Len(images) = Depth
  /\ call_stack_pointer = Depth

AtStart ==
  /\ status = "init" => Depth = 0 /\ value_array = [s \in Slot |-> 0]
  /\ status \in {"running", "returned"} => Len(program.args) <= ArraySize

Nested ==
  Conventional =>
    \A i \in 1 .. Depth :
      /\ Len(program.args) <= CalleeSP(i)
      /\ \A j \in 1 .. i : CalleeSP(j) <= CalleeSP(i)

HInv ==
  /\ VMInv
  /\ HistoryType
  /\ AtStart
  /\ CallStackDeterminesFrames
  /\ OutermostSP
  /\ Nested

-----------------------------------------------------------------------------
\* Steps that touch neither stack leave every part about frames alone.
LEMMA SameStacks ==
  ASSUME HInv, UNCHANGED <<program, stacks, history>>
  PROVE  HistoryType' /\ CallStackDeterminesFrames' /\ Nested'
<1>1. HistoryType'
  BY DEF HInv, HistoryType, stacks, history, Depth
<1>2. CallStackDeterminesFrames'
  BY DEF HInv, CallStackDeterminesFrames, CalleeSP, stacks, history, Depth, At
<1>3. Nested'
  BY DEF HInv, Nested, Conventional, CalleeSP, stacks, history, Depth
<1> QED
  BY <1>1, <1>2, <1>3

\* Every step of the machine with history is a step of the machine.
LEMMA HNextIsNext == HNext => Next
BY DEF HNext, HCall, HReturnToCaller, HKeep, Next, Return

-----------------------------------------------------------------------------
LEMMA HInvInit == HInit => HInv
<1> SUFFICES ASSUME HInit PROVE HInv
  OBVIOUS
<1>1. VMInv
  BY VMInvInit DEF HInit
<1>2. frames = << >> /\ images = << >> /\ Depth = 0
  BY DEF HInit, Depth
<1>3. HistoryType
  BY <1>2 DEF HInit, Init, HistoryType, Depth
<1>4. AtStart /\ CallStackDeterminesFrames /\ OutermostSP /\ Nested
  BY <1>2 DEF HInit, Init, AtStart, CallStackDeterminesFrames, OutermostSP, Nested
<1> QED
  BY <1>1, <1>3, <1>4 DEF HInv

\* The frames below the new one, and the stack pointers they stand for, stay.
LEMMA PushedFrame ==
  ASSUME HInv, HCall
  PROVE  /\ Depth' = Depth + 1
         /\ \A i \in 1 .. Depth : frames'[i] = frames[i] /\ CalleeSP(i)' = CalleeSP(i)
         /\ frames'[Depth + 1] = [sp   |-> stack_pointer,
                                  next |-> pc + 1,
                                  dst  |-> stack_pointer + Ins.c]
         /\ \A i \in {Depth + 1} : CalleeSP(i)' = stack_pointer + Ins.b
<1> DEFINE new == [sp |-> stack_pointer, next |-> pc + 1, dst |-> stack_pointer + Ins.c]
<1>1. Depth \in Nat /\ frames \in Seq(Frame)
  BY DEF HInv, HistoryType, Depth
<1>2. frames' = Append(frames, new)
  BY DEF HCall
<1> HIDE DEF new
<1>3. /\ Len(frames') = Len(frames) + 1
      /\ \A i \in 1 .. Len(frames) : frames'[i] = frames[i]
      /\ frames'[Len(frames) + 1] = new
  BY <1>1, <1>2
<1>4. stack_pointer' = stack_pointer + Ins.b
  BY DEF HCall, Call, vs_push
<1>5. new.sp = stack_pointer
  BY DEF new
<1>6. \A i \in 1 .. Depth : CalleeSP(i)' = CalleeSP(i)
  <2> TAKE i \in 1 .. Depth
  <2>1. CASE i = Depth
    BY <2>1, <1>1, <1>3, <1>5 DEF CalleeSP, Depth
  <2>2. CASE i < Depth
    <3>1. i + 1 \in 1 .. Len(frames) BY <2>2, <1>1 DEF Depth
    <3> QED BY <2>2, <3>1, <1>1, <1>3 DEF CalleeSP, Depth
  <2> QED BY <1>1, <2>1, <2>2
<1>7. \A i \in {Depth + 1} : CalleeSP(i)' = stack_pointer + Ins.b
  BY <1>1, <1>3, <1>4 DEF CalleeSP, Depth
<1> QED
  BY <1>3, <1>6, <1>7 DEF Depth, new

LEMMA FrameType ==
  ASSUME HistoryType, NEW i \in 1 .. Depth
  PROVE  frames[i].sp \in Int /\ frames[i].next \in Int /\ frames[i].dst \in Int
<1>1. frames[i] \in Frame
  BY DEF HistoryType, Depth
<1> QED
  BY <1>1 DEF Frame

\* Whatever is fetched from a conventional program follows the convention.
LEMMA FetchedFollows ==
  ASSUME MachineTyped, Conventional, NEW n \in 0 .. Len(program.code) - 1
  PROVE  FollowsConvention(At(n))
<1>1. n + 1 \in 1 .. Len(program.code)
  BY ProgramType
<1>2. FollowsConvention(program.code[n + 1])
  BY <1>1 DEF Conventional
<1> QED
  BY <1>2 DEF At

LEMMA CallKeepsHInv == ASSUME HInv, HCall PROVE HInv'
<1>1. Executes("Call") /\ Call
  BY DEF HCall, Call
<1>2. /\ pc \in 0 .. Len(program.code) - 1 /\ Ins.op = "Call"
      /\ Ins.b \in Int /\ Ins.c \in Int
  BY <1>1, OperandsInBounds DEF HInv, VMInv
<1>3. VMInv'
  BY <1>1, CallKeepsVMInv DEF HInv
<1>4. /\ Depth \in Nat /\ stack_pointer \in Int /\ pc \in Int
      /\ call_stack_pointer = Depth /\ Depth < CallStackSize
      /\ call_stack \in [0 .. CallStackSize - 1 -> Int]
  BY DEF HInv, HistoryType, Depth, VMInv, MachineTyped, HCall, Call
<1>5. /\ call_stack'[Depth] = pc
      /\ \A i \in 0 .. Depth - 1 : call_stack'[i] = call_stack[i]
      /\ call_stack_pointer' = Depth + 1
  BY <1>1, <1>4, SizesAssumption DEF Call, cs_push
<1>6. program' = program /\ value_array' = value_array /\ status' = status
  BY <1>1 DEF Call
<1>7. HistoryType'
  <2>1. [sp |-> stack_pointer, next |-> pc + 1, dst |-> stack_pointer + Ins.c] \in Frame
    BY <1>2, <1>4 DEF Frame
  <2>2. value_array \in [Slot -> Word]
    BY DEF HInv, VMInv, MachineTyped
  <2>3. frames' \in Seq(Frame) /\ Len(frames') = Depth + 1
    BY <2>1 DEF HInv, HistoryType, HCall, Depth
  <2>4. images' \in Seq([Slot -> Word]) /\ Len(images') = Depth + 1
    BY <2>2 DEF HInv, HistoryType, HCall, Depth
  <2> QED BY <2>3, <2>4, <1>5 DEF HistoryType, Depth
<1>8. CallStackDeterminesFrames'
  <2> SUFFICES ASSUME NEW i \in 1 .. Depth + 1
               PROVE  LET n == call_stack'[i - 1] IN
                      /\ frames'[i].next = n + 1
                      /\ frames'[i].dst = frames'[i].sp + At(n).c
                      /\ CalleeSP(i)' = frames'[i].sp + At(n).b
    BY PushedFrame, <1>6 DEF CallStackDeterminesFrames, At
  <2>1. CASE i = Depth + 1
    BY <2>1, <1>2, <1>4, <1>5, PushedFrame DEF Ins
  <2>2. CASE i \in 1 .. Depth
    <3>1. call_stack'[i - 1] = call_stack[i - 1]
      BY <2>2, <1>4, <1>5
    <3> QED
      BY <2>2, <3>1, PushedFrame DEF HInv, CallStackDeterminesFrames
  <2> QED BY <1>4, <2>1, <2>2
<1>9. OutermostSP'
  <2>1. frames'[1].sp = IF Depth = 0 THEN stack_pointer ELSE frames[1].sp
    BY <1>4, PushedFrame
  <2>2. Depth' # 0
    BY <1>4, PushedFrame
  <2> QED BY <2>1, <2>2, <1>6 DEF HInv, OutermostSP
<1>10. Nested'
  <2> SUFFICES ASSUME Conventional, NEW i \in 1 .. Depth + 1
               PROVE  /\ Len(program.args) <= CalleeSP(i)'
                      /\ \A j \in 1 .. i : CalleeSP(j)' <= CalleeSP(i)'
    BY PushedFrame, <1>6 DEF Nested, Conventional
  <2>1. FollowsConvention(Ins)
    BY <1>2, FetchedFollows DEF HInv, VMInv, Ins
  <2>2. Ins.b >= 0
    BY <1>2, <2>1 DEF FollowsConvention
  <2>3. \A k \in 1 .. Depth : /\ CalleeSP(k) \in Int
                              /\ CalleeSP(k) <= stack_pointer
    <3> TAKE k \in 1 .. Depth
    <3>1. CalleeSP(k) \in Int
      <4>1. \A m \in 1 .. Depth : frames[m].sp \in Int
        BY FrameType DEF HInv
      <4> QED BY <4>1, <1>4 DEF CalleeSP
    <3>2. CalleeSP(Depth) = stack_pointer
      BY <1>4 DEF CalleeSP
    <3>3. CalleeSP(k) <= CalleeSP(Depth)
      BY <1>4 DEF HInv, Nested
    <3> QED BY <3>1, <3>2, <3>3
  <2>4. Len(program.args) \in Nat
    BY ProgramType DEF HInv, VMInv
  <2>5. Len(program.args) <= stack_pointer
    <3>1. CASE Depth = 0
      BY <3>1, <2>4, <1>1 DEF HInv, OutermostSP, Executes
    <3>2. CASE Depth > 0
      <4>1. Len(program.args) <= CalleeSP(Depth) /\ CalleeSP(Depth) = stack_pointer
        BY <3>2, <1>4 DEF HInv, Nested, CalleeSP
      <4> QED BY <4>1
    <3> QED BY <1>4, <3>1, <3>2
  <2>6. CASE i = Depth + 1
    <3>1. CalleeSP(i)' = stack_pointer + Ins.b
      BY <2>6, PushedFrame
    <3>2. \A j \in 1 .. i : CalleeSP(j)' <= stack_pointer + Ins.b
      <4> TAKE j \in 1 .. i
      <4>1. CASE j = Depth + 1
        BY <4>1, <2>6, <3>1, <1>2, <1>4
      <4>2. CASE j \in 1 .. Depth
        BY <4>2, <2>2, <2>3, <1>2, <1>4, PushedFrame
      <4> QED BY <2>6, <1>4, <4>1, <4>2
    <3> QED BY <3>1, <3>2, <2>2, <2>4, <2>5, <1>2, <1>4
  <2>7. CASE i \in 1 .. Depth
    <3>1. \A j \in 1 .. i : j \in 1 .. Depth
      BY <2>7, <1>4
    <3> QED BY <2>7, <3>1, PushedFrame DEF HInv, Nested
  <2> QED BY <1>4, <2>6, <2>7
<1>11. AtStart'
  BY <1>1, <1>6 DEF HInv, AtStart, Executes
<1> QED
  BY <1>3, <1>7, <1>8, <1>9, <1>10, <1>11 DEF HInv

\* A return computes from the entry on top exactly what the frame holds.
LEMMA PoppedFrame ==
  ASSUME HInv, HReturnToCaller
  PROVE  /\ Depth > 0 /\ Depth' = Depth - 1
         /\ \A i \in 1 .. Depth - 1 : /\ frames'[i] = frames[i]
                                      /\ images'[i] = images[i]
                                      /\ CalleeSP(i)' = CalleeSP(i)
         /\ stack_pointer' = frames[Depth].sp
         /\ pc' = frames[Depth].next
         /\ frames[Depth].dst = stack_pointer' + At(cs_top).c
         /\ frames' \in Seq(Frame) /\ images' \in Seq([Slot -> Word])
         /\ Len(images') = Depth - 1
<1>1. /\ Depth \in Nat /\ frames \in Seq(Frame) /\ images \in Seq([Slot -> Word])
      /\ Len(images) = Depth /\ call_stack_pointer = Depth /\ stack_pointer \in Int
  BY DEF HInv, HistoryType, Depth, VMInv, MachineTyped
<1>2. ~cs_is_empty /\ ReturnToCaller
  BY DEF HReturnToCaller, ReturnToCaller
<1>3. Depth > 0
  BY <1>1, <1>2 DEF cs_is_empty
<1>4. /\ Len(frames') = Depth - 1 /\ frames' \in Seq(Frame)
      /\ \A i \in 1 .. Depth - 1 : frames'[i] = frames[i]
  BY <1>1, <1>3 DEF HReturnToCaller, Depth
<1>5. /\ Len(images') = Depth - 1 /\ images' \in Seq([Slot -> Word])
      /\ \A i \in 1 .. Depth - 1 : images'[i] = images[i]
  BY <1>1, <1>3 DEF HReturnToCaller
<1>6. /\ frames[Depth].next = cs_top + 1
      /\ frames[Depth].dst = frames[Depth].sp + At(cs_top).c
      /\ stack_pointer = frames[Depth].sp + At(cs_top).b
  <2>1. Depth \in 1 .. Depth /\ call_stack[Depth - 1] = cs_top
    BY <1>1, <1>3 DEF cs_top
  <2>2. CalleeSP(Depth) = stack_pointer
    BY <1>1 DEF CalleeSP
  <2> QED BY <2>1, <2>2 DEF HInv, CallStackDeterminesFrames
<1>7. stack_pointer' = stack_pointer - At(cs_top).b /\ pc' = cs_top + 1
  BY <1>2 DEF ReturnToCaller, vs_pop, Resume
<1>8. stack_pointer' = frames[Depth].sp /\ pc' = frames[Depth].next
  <2>1. frames[Depth].sp \in Int
    BY <1>1, <1>3, FrameType DEF HInv
  <2>2. At(cs_top).b \in Int
    BY <1>2, TopOfStack DEF HInv
  <2> QED BY <1>6, <1>7, <2>1, <2>2
<1>9. \A i \in 1 .. Depth - 1 : CalleeSP(i)' = CalleeSP(i)
  <2> TAKE i \in 1 .. Depth - 1
  <2>1. CASE i = Depth - 1
    BY <2>1, <1>1, <1>4, <1>8 DEF CalleeSP, Depth
  <2>2. CASE i < Depth - 1
    <3>1. i + 1 \in 1 .. Depth - 1 BY <2>2, <1>1
    <3> QED BY <2>2, <3>1, <1>1, <1>4 DEF CalleeSP, Depth
  <2> QED BY <1>1, <2>1, <2>2
<1> QED
  BY <1>3, <1>4, <1>5, <1>6, <1>8, <1>9 DEF Depth

LEMMA ReturnKeepsHInv == ASSUME HInv, HReturnToCaller PROVE HInv'
<1>1. Executes("Return") /\ ReturnToCaller
  BY DEF HReturnToCaller, ReturnToCaller
<1>2. VMInv'
  BY <1>1, ReturnKeepsVMInv DEF HInv
<1>3. Depth \in Nat /\ call_stack_pointer = Depth
  BY DEF HInv, HistoryType, Depth
<1>4. /\ program' = program /\ status' = status /\ call_stack' = call_stack
      /\ call_stack_pointer' = call_stack_pointer - 1
  BY <1>1 DEF ReturnToCaller
<1>5. HistoryType'
  BY <1>3, <1>4, PoppedFrame DEF HistoryType
<1>6. CallStackDeterminesFrames'
  <2> SUFFICES ASSUME NEW i \in 1 .. Depth - 1
               PROVE  LET n == call_stack[i - 1] IN
                      /\ frames'[i].next = n + 1
                      /\ frames'[i].dst = frames'[i].sp + At(n).c
                      /\ CalleeSP(i)' = frames'[i].sp + At(n).b
    BY PoppedFrame, <1>4 DEF CallStackDeterminesFrames, At
  <2>1. i \in 1 .. Depth
    BY <1>3
  <2> QED
    BY <2>1, PoppedFrame DEF HInv, CallStackDeterminesFrames
<1>7. OutermostSP'
  <2> SUFFICES (IF Depth - 1 = 0 THEN stack_pointer' ELSE frames'[1].sp)
                 = Len(program.args)
    BY PoppedFrame, <1>4 DEF OutermostSP
  <2>1. frames[1].sp = Len(program.args)
    BY <1>1, <1>3, PoppedFrame DEF HInv, OutermostSP, Executes
  <2>2. CASE Depth = 1
    BY <2>1, <2>2, PoppedFrame
  <2>3. CASE Depth > 1
    <3>1. 1 \in 1 .. Depth - 1 BY <2>3, <1>3
    <3> QED BY <2>1, <2>3, <3>1, <1>3, PoppedFrame
  <2> QED BY <1>3, <2>2, <2>3, PoppedFrame
<1>8. Nested'
  <2> SUFFICES ASSUME Conventional, NEW i \in 1 .. Depth - 1
               PROVE  /\ Len(program.args) <= CalleeSP(i)'
                      /\ \A j \in 1 .. i : CalleeSP(j)' <= CalleeSP(i)'
    BY PoppedFrame, <1>4 DEF Nested, Conventional
  <2>1. i \in 1 .. Depth /\ \A j \in 1 .. i : j \in 1 .. Depth - 1
    BY <1>3
  <2> QED BY <2>1, PoppedFrame DEF HInv, Nested
<1>9. AtStart'
  BY <1>1, <1>4 DEF HInv, AtStart, Executes
<1> QED
  BY <1>2, <1>5, <1>6, <1>7, <1>8, <1>9 DEF HInv

LEMMA KeepKeepsHInv == ASSUME HInv, HKeep, UNCHANGED history PROVE HInv'
<1>1. VMInv'
  BY VMInvStep DEF HInv, HKeep, Next, Return
<1>2. CASE vm_push_args
  <2>1. /\ Depth = 0 /\ frames' = frames /\ images' = images
        /\ program' = program /\ stack_pointer' = Len(program.args)
        /\ call_stack' = call_stack /\ call_stack_pointer' = call_stack_pointer
        /\ status' = "running" /\ Len(program.args) <= ArraySize
    BY <1>2 DEF vm_push_args, HInv, AtStart, history
  <2> QED
    BY <1>1, <2>1 DEF HInv, HistoryType, AtStart, CallStackDeterminesFrames,
                      OutermostSP, Nested, Depth
<1>3. CASE Local \/ ReturnFromProgram \/ Abort \/ RunOff \/ Halted
  <2>1. /\ UNCHANGED <<program, stacks, history>>
        /\ status' # "init"
        /\ status' \in {"running", "returned"} => status \in {"running", "returned"}
    <3>1. CASE Local
      BY <3>1 DEF Local, Add, Multiply, LessThan, Equals, Move, Negate, Not, Set,
                  Jump, JumpIfZero, Computes, GoTo, Executes
    <3>2. CASE ReturnFromProgram \/ Abort \/ RunOff
      BY <3>2 DEF ReturnFromProgram, Abort, RunOff, Executes
    <3>3. CASE Halted
      BY <3>3 DEF Halted, vars, stacks, Stopped
    <3> QED BY <1>3, <3>1, <3>2, <3>3
  <2>2. AtStart' /\ OutermostSP'
    BY <2>1 DEF HInv, AtStart, OutermostSP, stacks, history, Depth
  <2> QED
    BY <1>1, <2>1, <2>2, SameStacks DEF HInv
<1> QED
  BY <1>2, <1>3 DEF HKeep

LEMMA HInvStep == HInv /\ [HNext]_hvars => HInv'
<1> SUFFICES ASSUME HInv, [HNext]_hvars PROVE HInv'
  OBVIOUS
<1>1. CASE UNCHANGED hvars
  <2>1. UNCHANGED <<program, stacks, history>> /\ UNCHANGED vars
    BY <1>1 DEF hvars, vars, stacks, history
  <2>2. VMInv'
    BY <2>1, VMInvStep DEF HInv
  <2>3. AtStart' /\ OutermostSP'
    BY <2>1 DEF HInv, AtStart, OutermostSP, vars, stacks, history, Depth
  <2> QED
    BY <2>1, <2>2, <2>3, SameStacks DEF HInv
<1> QED
  BY <1>1, CallKeepsHInv, ReturnKeepsHInv, KeepKeepsHInv DEF HNext

LEMMA HInvAlways == HSpec => []HInv
BY HInvInit, HInvStep, PTL DEF HSpec

(* The entry a Return pops is always a Call instruction of the program, so *)
(* the assert on the popped opcode in vm_run cannot fail.                  *)
THEOREM EntriesAreCalls == HSpec => []EntryIsCall
<1>1. HInv => EntryIsCall
  <2> SUFFICES ASSUME HInv, NEW i \in 1 .. Depth
               PROVE  /\ call_stack[i - 1] \in 0 .. Len(program.code) - 1
                      /\ At(call_stack[i - 1]).op = "Call"
    BY DEF HInv, HistoryType, EntryIsCall
  <2>1. i - 1 \in 0 .. call_stack_pointer - 1
    BY DEF HInv, HistoryType, Depth
  <2> QED BY <2>1 DEF HInv, VMInv, CallsOnStack
<1> QED
  BY <1>1, HInvAlways, PTL

(* What a Return works out from the popped instruction and its own stack   *)
(* pointer is what the caller had: NUMBER and DST need not be saved.       *)
THEOREM FramesDetermined == HSpec => []CallStackDeterminesFrames
<1>1. HInv => CallStackDeterminesFrames
  BY DEF HInv
<1> QED
  BY <1>1, HInvAlways, PTL

(* Outside every call the stack pointer is the number of arguments.        *)
THEOREM OutermostKeepsSP == HSpec => []OutermostSP
<1>1. HInv => OutermostSP
  BY DEF HInv
<1> QED
  BY <1>1, HInvAlways, PTL

-----------------------------------------------------------------------------
(* The calling convention protects the caller.                             *)

\* The slots below a stack pointer that is not below any open callee's.
LEMMA BelowEverything ==
  ASSUME HInv, Conventional, status = "running"
  PROVE  /\ stack_pointer \in Int
         /\ Len(program.args) <= stack_pointer
         /\ \A i \in 1 .. Depth : CalleeSP(i) <= stack_pointer
<1>1. Depth \in Nat /\ stack_pointer \in Int
  BY DEF HInv, HistoryType, Depth, VMInv, MachineTyped
<1>2. Len(program.args) \in Nat
  BY ProgramType DEF HInv, VMInv
<1>3. CASE Depth = 0
  BY <1>1, <1>2, <1>3 DEF HInv, OutermostSP
<1>4. CASE Depth > 0
  <2>1. Depth \in 1 .. Depth /\ CalleeSP(Depth) = stack_pointer
    BY <1>1, <1>4 DEF CalleeSP
  <2> QED BY <1>1, <2>1 DEF HInv, Nested
<1> QED
  BY <1>1, <1>3, <1>4

\* A function stores at non-negative offsets only.
LEMMA LocalStoresAbove ==
  ASSUME HInv, Conventional, Local, NEW s \in Slot, s < stack_pointer
  PROVE  value_array'[s] = value_array[s]
<1>1. ASSUME NEW op \in ThreeSlotOps \union TwoSlotOps \union {"Set"}, NEW v,
             Computes(op, v)
      PROVE  value_array'[s] = value_array[s]
  <2>1. Executes(op) BY <1>1 DEF Computes
  <2>2. Ins.op = op /\ Ins.a \in Int /\ pc \in 0 .. Len(program.code) - 1
    BY <2>1, OperandsInBounds DEF HInv, VMInv
  <2>3. FollowsConvention(Ins)
    BY <2>2, FetchedFollows DEF HInv, VMInv, Ins
  <2>4. Ins.a >= 0
    BY <1>1, <2>2, <2>3 DEF FollowsConvention
  <2>5. s # stack_pointer + Ins.a
    BY <2>2, <2>4, SizesAssumption DEF HInv, VMInv, MachineTyped, Slot
  <2> QED
    BY <1>1, <2>5 DEF Computes, Store, HInv, VMInv, MachineTyped
<1>2. CASE Jump \/ JumpIfZero
  BY <1>2 DEF Jump, JumpIfZero, GoTo
<1> QED
  BY <1>1, <1>2 DEF Local, Add, Multiply, LessThan, Equals, Move, Negate, Not, Set,
                    ThreeSlotOps, TwoSlotOps

\* A return stores the result at or above the caller's stack pointer.
LEMMA ReturnStoresAbove ==
  ASSUME HInv, Conventional, HReturnToCaller, NEW s \in Slot, s < stack_pointer'
  PROVE  value_array'[s] = value_array[s]
<1>1. ReturnToCaller /\ ~cs_is_empty
  BY DEF HReturnToCaller, ReturnToCaller
<1>2. /\ cs_top \in 0 .. Len(program.code) - 1 /\ At(cs_top).op = "Call"
      /\ At(cs_top).c \in Int
  BY <1>1, TopOfStack DEF HInv
<1>3. FollowsConvention(At(cs_top))
  BY <1>2, FetchedFollows DEF HInv, VMInv
<1>4. At(cs_top).c >= 0
  BY <1>2, <1>3 DEF FollowsConvention
<1>5. stack_pointer' \in Int
  BY HInvStep DEF HInv, VMInv, MachineTyped, HNext
<1>6. s # stack_pointer' + At(cs_top).c
  BY <1>2, <1>4, <1>5, SizesAssumption DEF Slot
<1> QED
  BY <1>1, <1>6 DEF ReturnToCaller, Store, HInv, VMInv, MachineTyped

\* Nor does it lie below the callees that stay open.
LEMMA ReturnsAboveEverything ==
  ASSUME HInv, Conventional, HReturnToCaller
  PROVE  /\ stack_pointer' \in Int
         /\ Len(program.args) <= stack_pointer'
         /\ \A i \in 1 .. Depth - 1 : CalleeSP(i) <= stack_pointer'
<1>1. Depth \in Nat /\ Depth > 0 /\ stack_pointer' = frames[Depth].sp
  BY PoppedFrame DEF HInv, HistoryType, Depth
<1>2. frames[Depth].sp \in Int
  BY <1>1, FrameType DEF HInv
<1>3. CASE Depth = 1
  <2>1. status = "running"
    BY DEF HReturnToCaller, ReturnToCaller, Executes
  <2>2. Len(program.args) \in Nat /\ frames[1].sp = Len(program.args)
    BY <1>3, <2>1, ProgramType DEF HInv, VMInv, OutermostSP
  <2> QED BY <1>1, <1>2, <1>3, <2>2
<1>4. CASE Depth > 1
  <2>1. Depth - 1 \in 1 .. Depth /\ CalleeSP(Depth - 1) = frames[Depth].sp
    BY <1>1, <1>4 DEF CalleeSP
  <2> QED BY <1>1, <1>2, <1>4, <2>1 DEF HInv, Nested
<1> QED
  BY <1>1, <1>3, <1>4

LEMMA ProgramFixed == [HNext]_hvars => program' = program
<1>1. [HNext]_hvars => [Next]_vars
  BY HNextIsNext DEF hvars
<1> QED
  BY <1>1, NextKeepsProgram

LEMMA PreservedStep == HInv /\ FramesPreserved /\ [HNext]_hvars => FramesPreserved'
<1> SUFFICES ASSUME HInv, FramesPreserved, [HNext]_hvars PROVE FramesPreserved'
  OBVIOUS
<1>a. program' = program /\ Conventional' = Conventional
  BY ProgramFixed DEF Conventional
<1> SUFFICES ASSUME Conventional
             PROVE  /\ \A i \in 1 .. Depth' : \A s \in Slot :
                         s < CalleeSP(i)' => value_array'[s] = images'[i][s]
                    /\ status' \in {"running", "returned"} =>
                         \A k \in 1 .. Len(program.args) :
                           value_array'[k - 1] = program.args[k]
  BY <1>a DEF FramesPreserved
<1>1. /\ Depth \in Nat /\ Len(program.args) \in Nat
      /\ \A i \in 1 .. Depth : \A s \in Slot :
           s < CalleeSP(i) => value_array[s] = images[i][s]
      /\ status \in {"running", "returned"} =>
           \A k \in 1 .. Len(program.args) : value_array[k - 1] = program.args[k]
      /\ images \in Seq([Slot -> Word]) /\ Len(images) = Depth
      /\ \A i \in 1 .. Depth : CalleeSP(i) \in Int
  <2>1. \A i \in 1 .. Depth : frames[i].sp \in Int
    BY FrameType DEF HInv
  <2>2. Depth \in Nat /\ stack_pointer \in Int
    BY DEF HInv, HistoryType, Depth, VMInv, MachineTyped
  <2>3. Len(program.args) \in Nat
    BY ProgramType DEF HInv, VMInv
  <2>4. \A i \in 1 .. Depth : CalleeSP(i) \in Int
    BY <2>1, <2>2 DEF CalleeSP
  <2> QED
    BY <2>2, <2>3, <2>4 DEF FramesPreserved, HInv, HistoryType
<1>2. CASE HCall
  <2>1. value_array' = value_array /\ status = "running" /\ status' = status
    BY <1>2 DEF HCall, Call, Executes
  <2>2. /\ \A i \in 1 .. Depth : images'[i] = images[i]
        /\ images'[Depth + 1] = value_array
    BY <1>1, <1>2 DEF HCall
  <2>3. \A i \in 1 .. Depth + 1 : i \in 1 .. Depth \/ i = Depth + 1
    BY <1>1
  <2> QED
    BY <1>1, <1>2, <2>1, <2>2, <2>3, PushedFrame
<1>3. CASE HReturnToCaller
  <2>1. status = "running" /\ status' = status
    BY <1>3 DEF HReturnToCaller, ReturnToCaller, Executes
  <2>2. ASSUME NEW i \in 1 .. Depth - 1, NEW s \in Slot, s < CalleeSP(i)
        PROVE  value_array'[s] = images[i][s]
    <3>1. i \in 1 .. Depth BY <1>1
    <3>2. s < stack_pointer'
      BY <1>1, <1>3, <2>2, <3>1, ReturnsAboveEverything, SizesAssumption DEF Slot
    <3> QED BY <1>1, <1>3, <2>2, <3>1, <3>2, ReturnStoresAbove
  <2>3. ASSUME NEW k \in 1 .. Len(program.args)
        PROVE  value_array'[k - 1] = program.args[k]
    <3>1. k - 1 < stack_pointer'
      BY <1>1, <1>3, ReturnsAboveEverything
    <3>2. k - 1 \in Slot
      BY <1>1, <2>1, SizesAssumption DEF HInv, AtStart, Slot
    <3> QED BY <1>1, <1>3, <2>1, <3>1, <3>2, ReturnStoresAbove
  <2> QED
    BY <1>1, <1>3, <2>2, <2>3, PoppedFrame
<1>4. CASE HKeep /\ UNCHANGED history
  <2>1. CASE vm_push_args
    <3>1. Depth = 0 /\ Depth' = 0
      BY <1>4, <2>1 DEF vm_push_args, HInv, AtStart, history, Depth
    <3>2. \A k \in 1 .. Len(program.args) : value_array'[k - 1] = program.args[k]
      <4> TAKE k \in 1 .. Len(program.args)
      <4>1. k - 1 \in Slot /\ k - 1 < Len(program.args)
        BY <1>1, <2>1, SizesAssumption DEF vm_push_args, Slot
      <4> QED BY <2>1, <4>1 DEF vm_push_args
    <3> QED BY <3>1, <3>2
  <2>2. CASE Local
    <3>1. status = "running" /\ UNCHANGED <<status, stacks, frames, images>>
      BY <1>4, <2>2 DEF Local, Add, Multiply, LessThan, Equals, Move, Negate, Not, Set,
              Jump, JumpIfZero, Computes, GoTo, Executes, history
    <3>2. \A i \in 1 .. Depth : CalleeSP(i)' = CalleeSP(i)
      BY <3>1 DEF CalleeSP, stacks, Depth
    <3>3. ASSUME NEW i \in 1 .. Depth, NEW s \in Slot, s < CalleeSP(i)
          PROVE  value_array'[s] = images[i][s]
      <4>1. s < stack_pointer
        BY <1>1, <3>1, <3>3, BelowEverything, SizesAssumption DEF Slot
      <4> QED BY <1>1, <2>2, <3>3, <4>1, LocalStoresAbove
    <3>4. ASSUME NEW k \in 1 .. Len(program.args)
          PROVE  value_array'[k - 1] = program.args[k]
      <4>1. k - 1 < stack_pointer
        BY <1>1, <3>1, BelowEverything
      <4>2. k - 1 \in Slot
        BY <1>1, <3>1, SizesAssumption DEF HInv, AtStart, Slot
      <4>3. value_array[k - 1] = program.args[k]
        BY <1>1, <3>1
      <4> QED BY <2>2, <4>1, <4>2, <4>3, LocalStoresAbove
    <3> QED
      BY <3>1, <3>2, <3>3, <3>4 DEF Depth
  <2>3. CASE ReturnFromProgram \/ Abort \/ RunOff \/ Halted
    <3>1. /\ UNCHANGED <<value_array, stacks, frames, images>>
          /\ status' \in {"running", "returned"} => status \in {"running", "returned"}
      BY <1>4, <2>3 DEF ReturnFromProgram, Abort, RunOff, Halted, vars, stacks,
         Executes, history
    <3>2. \A i \in 1 .. Depth : CalleeSP(i)' = CalleeSP(i)
      BY <3>1 DEF CalleeSP, stacks, Depth
    <3> QED BY <1>1, <3>1, <3>2 DEF Depth
  <2> QED BY <1>4, <2>1, <2>2, <2>3 DEF HKeep
<1>5. CASE UNCHANGED hvars
  <2>1. UNCHANGED <<value_array, status, frames, images>> /\ UNCHANGED stack_pointer
    BY <1>5 DEF hvars, vars
  <2>2. \A i \in 1 .. Depth : CalleeSP(i)' = CalleeSP(i)
    BY <2>1 DEF CalleeSP, Depth
  <2> QED BY <1>1, <2>1, <2>2 DEF Depth
<1> QED
  BY <1>2, <1>3, <1>4, <1>5 DEF HNext

(* In a program that follows VM.md's convention no callee, however deep,   *)
(* changes a slot below its stack pointer: callers find their locals, and  *)
(* the program its arguments, as they left them.                           *)
THEOREM CallersPreserved == HSpec => []FramesPreserved
<1>1. HInit => FramesPreserved
  BY DEF HInit, Init, FramesPreserved, Depth
<1>2. HSpec => [](HInv /\ FramesPreserved)
  BY <1>1, HInvInit, HInvStep, PreservedStep, PTL DEF HSpec
<1> QED
  BY <1>2, PTL

-----------------------------------------------------------------------------
(* The machine implements FrameMachine.                                    *)

LEMMA InitRefines == HInit => FM!Init
BY DEF HInit, Init, FM!Init, Slot, FM!Slot

LEMMA BeginRefines == ASSUME HInv, vm_push_args, UNCHANGED history PROVE FM!Begin
<1>1. status = "init" /\ value_array = [s \in Slot |-> 0]
  BY DEF vm_push_args, HInv, AtStart
<1>2. value_array' = [s \in Slot |-> IF s < Len(program.args) THEN program.args[s + 1]
                                                              ELSE 0]
  BY <1>1 DEF vm_push_args
<1> QED
  BY <1>1, <1>2 DEF vm_push_args, history, FM!Begin, Slot, FM!Slot

\* One slot, nothing of the frames: whatever a local instruction computes.
LEMMA LocalRefines == ASSUME HInv, Local, UNCHANGED history PROVE FM!Local
<1>1. /\ status = "running" /\ Fetchable /\ Ins.op \notin {"Call", "Return"}
      /\ UNCHANGED <<program, stack_pointer, frames, status, result>>
  BY DEF Local, Add, Multiply, LessThan, Equals, Move, Negate, Not, Set, Jump,
         JumpIfZero, Computes, GoTo, Executes, stacks, history
<1>2. pc \in Int /\ program.code \in Seq(Instruction)
  BY ProgramType DEF HInv, VMInv, MachineTyped
<1>3. FM!Runs /\ FM!Ins = Ins
  BY <1>1, <1>2 DEF FM!Runs, FM!Ins, Ins, At, Fetchable
<1>4. pc' \in Int
  BY LocalKeepsVMInv DEF HInv, VMInv, MachineTyped
<1>5. ASSUME NEW op \in ThreeSlotOps \union TwoSlotOps \union {"Set"}, NEW v,
             Computes(op, v)
      PROVE  \E s \in Slot : value_array' = [value_array EXCEPT ![s] = value_array'[s]]
  <2>1. stack_pointer + Ins.a \in Slot
    BY <1>5, OperandsInBounds DEF Computes, HInv, VMInv
  <2>2. /\ value_array' = [value_array EXCEPT ![stack_pointer + Ins.a] = v]
        /\ value_array \in [Slot -> Word]
    BY <1>5 DEF Computes, Store, HInv, VMInv, MachineTyped
  <2>3. value_array'[stack_pointer + Ins.a] = v
    BY <2>1, <2>2
  <2> QED BY <2>1, <2>2, <2>3
<1>6. CASE Jump \/ JumpIfZero
  <2>1. value_array' = value_array
    BY <1>6 DEF Jump, JumpIfZero, GoTo
  <2> QED BY <1>1, <1>3, <1>4, <2>1 DEF FM!Local
<1>7. CASE Add \/ Multiply \/ LessThan \/ Equals \/ Move \/ Negate \/ Not \/ Set
  <2>1. \E s \in Slot : value_array' = [value_array EXCEPT ![s] = value_array'[s]]
    BY <1>5, <1>7 DEF Add, Multiply, LessThan, Equals, Move, Negate, Not, Set,
                      ThreeSlotOps, TwoSlotOps
  <2> QED BY <1>1, <1>3, <1>4, <2>1 DEF FM!Local, Slot, FM!Slot
<1> QED
  BY <1>6, <1>7 DEF Local

LEMMA CallRefines == ASSUME HInv, HCall PROVE FM!Call
<1>1. Executes("Call") /\ program.code \in Seq(Instruction) /\ pc \in Int
  BY ProgramType DEF HCall, Call, HInv, VMInv, MachineTyped
<1>2. FM!Runs /\ FM!Ins = Ins /\ Ins.op = "Call"
  BY <1>1 DEF Executes, FM!Runs, FM!Ins, Ins, At, Fetchable
<1> QED
  BY <1>2 DEF HCall, Call, vs_push, FM!Call

LEMMA ReturnRefines == ASSUME HInv, HReturnToCaller PROVE FM!Return
<1>1. /\ Executes("Return") /\ ReturnToCaller
      /\ program.code \in Seq(Instruction) /\ pc \in Int
  BY ProgramType DEF HReturnToCaller, ReturnToCaller, HInv, VMInv, MachineTyped
<1>2. FM!Runs /\ FM!Ins = Ins /\ Ins.op = "Return" /\ status = "running"
  BY <1>1 DEF Executes, FM!Runs, FM!Ins, Ins, At, Fetchable
<1>3. stack_pointer + Ins.a \in Slot
  BY <1>1, OperandsInBounds DEF HInv, VMInv
<1>4. /\ frames[Depth].dst = stack_pointer' + At(cs_top).c
      /\ stack_pointer' = frames[Depth].sp /\ pc' = frames[Depth].next
      /\ frames # << >>
  BY PoppedFrame DEF HInv, HistoryType, Depth
<1>5. frames[Depth].dst \in Slot
  BY <1>1, <1>4 DEF ReturnToCaller, InBounds
<1>6. value_array' = [value_array EXCEPT ![frames[Depth].dst]
                                          = value_array[stack_pointer + Ins.a]]
  BY <1>1, <1>4 DEF ReturnToCaller, Store, Load
<1> QED
  BY <1>1, <1>2, <1>3, <1>4, <1>5, <1>6
     DEF HReturnToCaller, ReturnToCaller, FM!Return, Slot, FM!Slot, Depth

LEMMA EndRefines == ASSUME HInv, ReturnFromProgram, UNCHANGED history PROVE FM!End
<1>1. /\ Executes("Return") /\ cs_is_empty
      /\ program.code \in Seq(Instruction) /\ pc \in Int
  BY ProgramType DEF ReturnFromProgram, HInv, VMInv, MachineTyped
<1>2. FM!Runs /\ FM!Ins = Ins /\ Ins.op = "Return"
  BY <1>1 DEF Executes, FM!Runs, FM!Ins, Ins, At, Fetchable
<1>3. stack_pointer + Ins.a \in Slot
  BY <1>1, OperandsInBounds DEF HInv, VMInv
<1>4. frames = << >>
  <2>1. frames \in Seq(Frame) /\ Len(frames) = 0
    BY <1>1 DEF HInv, HistoryType, Depth, cs_is_empty
  <2> QED BY <2>1, EmptySeq
<1> QED
  BY <1>2, <1>3, <1>4 DEF ReturnFromProgram, Load, stacks, history, FM!End, Slot, FM!Slot

LEMMA StepRefines == HInv /\ [HNext]_hvars => [FM!Next]_FM!fvars
<1> SUFFICES ASSUME HInv, [HNext]_hvars PROVE [FM!Next]_FM!fvars
  OBVIOUS
<1>1. CASE UNCHANGED hvars
  BY <1>1 DEF hvars, vars, FM!fvars
<1>2. CASE HCall
  BY <1>2, CallRefines DEF FM!Next
<1>3. CASE HReturnToCaller
  BY <1>3, ReturnRefines DEF FM!Next
<1>4. CASE HKeep /\ UNCHANGED history
  <2>1. CASE vm_push_args
    BY <1>4, <2>1, BeginRefines DEF FM!Next
  <2>2. CASE Local
    BY <1>4, <2>2, LocalRefines DEF FM!Next
  <2>3. CASE ReturnFromProgram
    BY <1>4, <2>3, EndRefines DEF FM!Next
  <2>4. CASE Abort \/ RunOff
    <3>1. FM!GiveUp
      BY <1>4, <2>4 DEF Abort, RunOff, stacks, history, FM!GiveUp
    <3> QED BY <3>1 DEF FM!Next
  <2>5. CASE Halted
    BY <1>4, <2>5 DEF Halted, vars, history, FM!fvars
  <2> QED
    BY <1>4, <2>1, <2>2, <2>3, <2>4, <2>5 DEF HKeep
<1> QED
  BY <1>1, <1>2, <1>3, <1>4 DEF HNext

(* vm.c, which keeps of a call only the index of its instruction,          *)
(* implements the machine of VM.md, which keeps the whole frame.           *)
THEOREM VMImplementsFrames == HSpec => ImplementsFrames
BY HInvAlways, InitRefines, StepRefines, PTL DEF HSpec, ImplementsFrames, FM!Spec

-----------------------------------------------------------------------------
(* The loader.  What is cut to 32 bits differs from what was written by a  *)
(* multiple of 2^32.                                                       *)

LEMMA Division ==
  ASSUME NEW a \in Int, NEW b \in Nat, b > 0
  PROVE  a \div b \in Int /\ a % b \in 0 .. b - 1 /\ a = (b * (a \div b)) + (a % b)
<1>1. a % b \in 0 .. b - 1
  OBVIOUS
<1>2. a = (b * (a \div b)) + (a % b)
  OBVIOUS
<1>3. a \div b \in Int
  BY Z3
<1> QED BY <1>1, <1>2, <1>3

LEMMA Multiple == ASSUME NEW n \in Nat, n > 0, NEW k \in Int PROVE (n * k) % n = 0
<1> DEFINE p == n * k
<1>p. p \in Int OBVIOUS
<1> DEFINE d == p \div n
<1> DEFINE r == p % n
<1>1. d \in Int /\ r \in 0 .. n - 1 /\ p = n * d + r
  <2> HIDE DEF p
  <2> QED BY <1>p, Division
<1> HIDE DEF d, r
<1>2. r = n * (k - d) BY <1>1
<1>3. ASSUME NEW e \in Int, e >= 1 PROVE n * e >= n
  BY <1>3
<1>4. ASSUME NEW e \in Int, e <= -1 PROVE n * e < 0
  BY <1>4
<1>5. k - d \in Int BY <1>1
<1>6. k - d < 1 BY <1>1, <1>2, <1>3, <1>5
<1>7. k - d > -1 BY <1>1, <1>2, <1>4, <1>5
<1>8. k - d = 0 BY <1>5, <1>6, <1>7
<1>9. r = 0 BY <1>2, <1>8
<1> QED BY <1>9 DEF r

LEMMA CutToInt32 ==
  ASSUME NEW x \in Int
  PROVE  /\ Int32!Wrap(x) \in Int32!Word /\ Int32!Wrap(x) \in Int
         /\ (Int32!Wrap(x) - x) % (2 * HalfOperand) = 0
<1> DEFINE h == HalfOperand
<1>0. h \in Nat /\ h > 1
  BY OperandAssumption, HalfAssumption
<1> HIDE DEF h
<1> DEFINE m == 2 * h
<1> DEFINE q == (x + h) \div m
<1> DEFINE r == (x + h) % m
<1>1. m \in Nat /\ m > 0 BY <1>0
<1>2. q \in Int /\ r \in Int /\ x + h = m * q + r
  <2>1. x + h \in Int BY <1>0
  <2> HIDE DEF m
  <2> QED BY <1>1, <2>1, Division
<1>3. (m * (-q)) % m = 0
  <2>1. -q \in Int BY <1>2
  <2> DEFINE k == -q
  <2> HIDE DEF m, q, r, k
  <2>2. k \in Int BY <2>1 DEF k
  <2>3. (m * k) % m = 0 BY ONLY <2>2, <1>1, Multiple
  <2> QED BY <2>3 DEF k
<1> HIDE DEF q, r, m
<1>4. (r - h) - x = m * (-q) BY <1>0, <1>1, <1>2
<1>5. ((r - h) - x) % m = 0 BY <1>3, <1>4
<1>6. r \in 0 .. m - 1
  <2>1. x + h \in Int BY <1>0
  <2> QED BY ONLY <1>1, <2>1, Division DEF r
<1>7. r - h \in -h .. h - 1 BY <1>0, <1>6 DEF m
<1>8. Int32!Wrap(x) = r - h
  BY DEF Int32!Wrap, r, m, h
<1>9. Int32!Word = -h .. h - 1 /\ 2 * HalfOperand = m
  BY DEF Int32!Word, m, h
<1> QED BY <1>0, <1>5, <1>7, <1>8, <1>9

\* The table of the loader: the names are those of the enumeration, in its
\* order, and the numbers of operands those of VM.md.
LEMMA TheTable ==
  /\ Len(instructions) = 12
  /\ \A i \in 1 .. 12 :
       /\ instructions[i][1] = vm_opcode_t[i]
       /\ vm_opcode_t[i] \in Opcodes
       /\ instructions[i][2] = IF vm_opcode_t[i] = "Set" THEN -1 ELSE Taken(vm_opcode_t[i])
  /\ \A op \in Opcodes : \E i \in 1 .. 12 : vm_opcode_t[i] = op
<1>1. Len(instructions) = 12
  BY DEF instructions
<1>2. \A i \in 1 .. 12 : i = 1 \/ i = 2 \/ i = 3 \/ i = 4 \/ i = 5 \/ i = 6 \/ i = 7
                          \/ i = 8 \/ i = 9 \/ i = 10 \/ i = 11 \/ i = 12
  OBVIOUS
<1>3. \A i \in 1 .. 12 : instructions[i][1] = vm_opcode_t[i]
  BY <1>2 DEF instructions, vm_opcode_t
<1>4. \A i \in 1 .. 12 : vm_opcode_t[i] \in Opcodes
  BY <1>2 DEF vm_opcode_t, Opcodes, ThreeSlotOps, TwoSlotOps
<1>5. \A i \in 1 .. 12 :
        instructions[i][2] = IF vm_opcode_t[i] = "Set" THEN -1 ELSE Taken(vm_opcode_t[i])
  BY <1>2 DEF instructions, vm_opcode_t, Taken, ThreeSlotOps, TwoSlotOps
<1>6. /\ vm_opcode_t[1] = "Move" /\ vm_opcode_t[2] = "Set" /\ vm_opcode_t[3] = "Add"
      /\ vm_opcode_t[4] = "Multiply" /\ vm_opcode_t[5] = "Negate" /\ vm_opcode_t[6] = "Not"
      /\ vm_opcode_t[7] = "Jump" /\ vm_opcode_t[8] = "JumpIfZero" /\ vm_opcode_t[9] = "Call"
      /\ vm_opcode_t[10] = "Return" /\ vm_opcode_t[11] = "LessThan"
      /\ vm_opcode_t[12] = "Equals"
  BY DEF vm_opcode_t
<1>7. \A op \in Opcodes : \E i \in 1 .. 12 : vm_opcode_t[i] = op
  BY <1>6 DEF Opcodes, ThreeSlotOps, TwoSlotOps
<1> QED
  BY <1>1, <1>3, <1>4, <1>5, <1>7

\* What which_opcode finds for a name.
LEMMA OpcodeFound ==
  ASSUME NEW name
  PROVE  /\ Known(name) <=> name \in Opcodes
         /\ Known(name) =>
              /\ vm_opcode_t[which_opcode(name)] = name
              /\ instructions[which_opcode(name)][2] = IF name = "Set" THEN -1 ELSE Taken(name)
<1> DEFINE i == which_opcode(name)
<1>1. Known(name) <=> name \in Opcodes
  BY TheTable DEF Known
<1>2. ASSUME Known(name) PROVE i \in 1 .. 12 /\ instructions[i][1] = name
  BY <1>2, TheTable DEF Known, which_opcode
<1> HIDE DEF i
<1>3. ASSUME Known(name) PROVE /\ vm_opcode_t[i] = name
                               /\ instructions[i][2] = IF name = "Set" THEN -1 ELSE Taken(name)
  BY <1>2, <1>3, TheTable
<1> QED
  BY <1>1, <1>3 DEF i

LEMMA TakenType ==
  ASSUME NEW op PROVE Taken(op) \in 1 .. 3 /\ Taken("Set") = 2
BY DEF Taken, ThreeSlotOps, TwoSlotOps

\* The loader loads exactly the complete lines and the short ones.
LEMMA LoadsComplete ==
  ASSUME NEW line \in Line PROVE Loadable(line) <=> Complete(line) \/ Short(line)
<1> DEFINE n == IF instructions[which_opcode(line.op)][2] = -1 THEN 2
                ELSE instructions[which_opcode(line.op)][2]
<1>1. /\ line.glued \in Nat /\ Len(line.nums) \in Nat
      /\ line.ends \in {"opcode", "number", "blank", "more"}
      /\ line.ends = "opcode" => Len(line.nums) = 0
  BY DEF Line
<1>2. Known(line.op) <=> line.op \in Opcodes
  BY OpcodeFound
<1>3. ASSUME Known(line.op) PROVE n = Taken(line.op)
  <2> DEFINE nargs == instructions[which_opcode(line.op)][2]
  <2>1. nargs = IF line.op = "Set" THEN -1 ELSE Taken(line.op)
    BY <1>3, OpcodeFound
  <2>2. Taken(line.op) \in 1 .. 3 /\ Taken("Set") = 2
    BY TakenType
  <2> HIDE DEF nargs
  <2>3. (IF nargs = -1 THEN 2 ELSE nargs) = Taken(line.op)
    BY <2>1, <2>2
  <2> QED
    BY <2>3 DEF nargs
<1>4. Loadable(line) <=> /\ Known(line.op) /\ line.ends # "opcode"
                         /\ \A k \in 1 .. n : ~ParseArgAsserts(line, k)
  BY DEF Loadable
<1> HIDE DEF n
\* The last of the t operands is the one that meets the end of the file.
<1>5. ASSUME NEW t \in 1 .. 3
      PROVE  (\A k \in 1 .. t : ~ParseArgAsserts(line, k))
             <=> /\ line.glued \notin 1 .. t
                 /\ line.ends = "number" => t < Len(line.nums)
                 /\ line.ends = "blank" => t <= Len(line.nums)
  <2> DEFINE len == Len(line.nums)
  <2> DEFINE glued == line.glued
  <2> DEFINE number == line.ends = "number"
  <2> DEFINE blank == line.ends = "blank"
  <2>1. t \in 1 .. t
    OBVIOUS
  <2> HIDE DEF len, glued, number, blank
  <2>2. len \in Nat /\ glued \in Nat
    BY <1>1 DEF len, glued
  <2>3. (\A k \in 1 .. t : ~(k = glued \/ (number /\ k >= len) \/ (blank /\ k > len)))
        <=> (glued \notin 1 .. t) /\ (number => t < len) /\ (blank => t <= len)
    BY <2>1, <2>2
  <2> QED
    BY <2>3 DEF ParseArgAsserts, len, glued, number, blank
<1>6. ASSUME NEW t \in 1 .. 3
      PROVE  /\ line.ends # "opcode"
             /\ line.ends = "number" => t < Len(line.nums)
             /\ line.ends = "blank" => t <= Len(line.nums)
             <=> \/ /\ Len(line.nums) >= t
                    /\ line.ends = "number" => Len(line.nums) > t
                 \/ Len(line.nums) < t /\ line.ends = "more"
  BY <1>1
<1>7. Taken(line.op) \in 1 .. 3
  BY TakenType
<1> QED
  BY <1>2, <1>3, <1>4, <1>5, <1>6, <1>7 DEF Complete, Short

-----------------------------------------------------------------------------
\* The number that parse_arg returns, as VM.md and strtoll have it.
LEMMA ArgumentIsWritten ==
  ASSUME NEW line \in Line, NEW k \in 1 .. 3
  PROVE  /\ parse_arg(line, k) = strtoll(IF k > Len(line.nums) THEN 0 ELSE line.nums[k])
         /\ parse_arg(line, k) \in Word
<1> DEFINE n == IF k > Len(line.nums) THEN 0 ELSE line.nums[k]
<1>1. line.nums \in Seq(Int)
  BY DEF Line
<1>2. n \in Int
  BY <1>1
<1>3. parse_arg(line, k) = strtoll(n)
  <2>1. strtoll(0) = 0
    BY HalfAssumption DEF strtoll
  <2>2. Len(line.nums) \in Nat
    BY <1>1
  <2> QED
    BY <2>1, <2>2 DEF parse_arg
<1> HIDE DEF n
<1>4. strtoll(n) \in Word
  BY <1>2, HalfAssumption DEF strtoll, Word
<1> QED
  BY <1>3, <1>4 DEF n

\* An operand of 32 bits says what was written.
LEMMA CutOperandSays ==
  ASSUME NEW line \in Line, NEW k \in 1 .. 3, ~(line.op = "Set" /\ k = 2)
  PROVE  /\ Says(line, k, IF k <= Taken(line.op) THEN Int32!Wrap(parse_arg(line, k)) ELSE 0)
         /\ Int32!Wrap(parse_arg(line, k)) \in Int
<1> DEFINE w == parse_arg(line, k)
<1> DEFINE x == Int32!Wrap(w)
<1>1. w \in Int
  BY ArgumentIsWritten, HalfAssumption DEF Word
<1>2. x \in Int32!Word /\ x \in Int /\ (x - w) % (2 * HalfOperand) = 0
  <2> HIDE DEF w
  <2> QED BY <1>1, CutToInt32
<1>3. w = strtoll(IF k > Len(line.nums) THEN 0 ELSE line.nums[k])
  BY ArgumentIsWritten
<1> HIDE DEF w, x
<1>4. Taken(line.op) \in 1 .. 3
  BY TakenType
<1> HIDE DEF w, x
<1>5. CASE k <= Taken(line.op)
  <2>1. ~(k > Taken(line.op))
    BY <1>4, <1>5
  <2>2. Says(line, k, x)
    BY <1>2, <1>3, <2>1 DEF Says
  <2> QED
    BY <1>2, <1>5, <2>2 DEF w, x
<1>6. CASE ~(k <= Taken(line.op))
  <2>1. k > Taken(line.op)
    BY <1>4, <1>6
  <2>2. Says(line, k, 0)
    BY <2>1 DEF Says
  <2> QED
    BY <1>2, <1>6, <2>2 DEF w, x
<1> QED
  BY <1>5, <1>6

\* The instruction of a line that is loaded.
LEMMA LoadedSays ==
  ASSUME NEW line \in Line, Loadable(line)
  PROVE  LET ins == Loaded(line) IN
         /\ ins \in Instruction
         /\ ins.op = line.op
         /\ Says(line, 1, ins.a) /\ Says(line, 2, ins.b) /\ Says(line, 3, ins.c)
<1> DEFINE op == line.op
<1> DEFINE nargs == instructions[which_opcode(op)][2]
<1> DEFINE name == vm_opcode_t[which_opcode(op)]
<1> DEFINE cut(k) == Int32!Wrap(parse_arg(line, k))
<1> DEFINE slot(k) == IF k <= nargs THEN cut(k) ELSE 0
<1> DEFINE imm == parse_arg(line, 2)
<1> DEFINE b == IF nargs = -1 THEN imm ELSE slot(2)
<1> DEFINE ins == [op |-> name, a |-> cut(1), b |-> b, c |-> slot(3)]
<1>1. Loaded(line) = ins
  BY DEF Loaded
<1>2. op \in Opcodes /\ name = op /\ nargs = IF op = "Set" THEN -1 ELSE Taken(op)
  BY OpcodeFound DEF Loadable
<1>3. Taken(op) \in 1 .. 3 /\ Taken("Set") = 2
  BY TakenType
<1>4. imm \in Word /\ imm = strtoll(IF 2 > Len(line.nums) THEN 0 ELSE line.nums[2])
  BY ArgumentIsWritten
<1>5. cut(1) \in Int /\ cut(3) \in Int /\ (op # "Set" => cut(2) \in Int)
  BY CutOperandSays
<1>6. /\ Says(line, 1, IF 1 <= Taken(op) THEN cut(1) ELSE 0)
      /\ Says(line, 3, IF 3 <= Taken(op) THEN cut(3) ELSE 0)
      /\ op # "Set" => Says(line, 2, IF 2 <= Taken(op) THEN cut(2) ELSE 0)
  BY CutOperandSays
<1>7. op = "Set" => Says(line, 2, imm)
  BY <1>3, <1>4 DEF Says
<1> HIDE DEF cut, imm, nargs, name, op
<1>8. Says(line, 1, cut(1))
  BY <1>3, <1>6
<1>9. Says(line, 3, slot(3)) /\ slot(3) \in Int
  <2>1. CASE op = "Set"
    <3>1. ~(3 <= nargs) /\ ~(3 <= Taken(op))
      BY <1>2, <1>3, <2>1
    <3> QED BY <3>1, <1>6
  <2>2. CASE op # "Set"
    <3>1. nargs = Taken(op)
      BY <1>2, <2>2
    <3> QED BY <3>1, <1>5, <1>6
  <2> QED BY <2>1, <2>2
<1>10. Says(line, 2, b) /\ b \in Int /\ (op = "Set" => b \in Word)
  <2>1. CASE op = "Set"
    <3>1. b = imm
      BY <1>2, <2>1
    <3>2. imm \in Int
      BY <1>4, HalfAssumption DEF Word
    <3> QED BY <3>1, <3>2, <1>4, <1>7, <2>1
  <2>2. CASE op # "Set"
    <3>1. nargs = Taken(op) /\ nargs # -1
      BY <1>2, <1>3, <2>2
    <3> QED BY <3>1, <1>5, <1>6, <2>2
  <2> QED BY <2>1, <2>2
<1> HIDE DEF b, slot
<1>11. ins \in Instruction
  BY <1>2, <1>5, <1>9, <1>10 DEF Instruction
<1>12. ins.op = op /\ ins.a = cut(1) /\ ins.b = b /\ ins.c = slot(3)
  BY <1>2
<1> HIDE DEF ins
<1> QED
  BY <1>1, <1>8, <1>9, <1>10, <1>11, <1>12 DEF op

-----------------------------------------------------------------------------
(***************************************************************************)
(* The invariant of vm_main: that of the machine, whatever has been loaded *)
(* so far; where in the listing the loader is (Position), what it has made *)
(* of the lines behind it (LoadedSoFar), and that the machine only runs at *)
(* the end of the listing (RunsAtEnd).                                     *)
(***************************************************************************)
Lines == program.line.lines

Position ==
  /\ program = [code |-> program.code, args |-> program.args, line |-> program.line]
  /\ program.line \in CommandLines
  /\ Lines \in Seq(Line)
  /\ file \in Seq(Line)
  /\ Len(program.code) + Len(file) = Len(Lines)
  /\ \A n \in 1 .. Len(file) : file[n] = Lines[Len(program.code) + n]

LoadedAs(line, ins) ==
  /\ Complete(line) \/ Short(line)
  /\ ins.op = line.op
  /\ Says(line, 1, ins.a) /\ Says(line, 2, ins.b) /\ Says(line, 3, ins.c)

LoadedSoFar ==
  \A n \in 1 .. Len(program.code) : LoadedAs(Lines[n], program.code[n])

RunsAtEnd ==
  /\ status \in {"running", "returned", "undefined"} =>
       program.line.found /\ file = << >>
  /\ status = "aborted" /\ program.line.found /\ file # << >> =>
       ~Complete(Head(file)) /\ ~Short(Head(file))

LoadInv == VMInv /\ Position /\ LoadedSoFar /\ RunsAtEnd

LEMMA LoadInvInit == MainInit => LoadInv
<1> SUFFICES ASSUME MainInit PROVE LoadInv
  OBVIOUS
<1>1. VMInv
  BY VMInvInit DEF MainInit
<1>2. PICK line \in CommandLines : program = Started(line)
  BY StartedAssumption DEF MainInit, Init
<1>3. /\ program = [code |-> program.code, args |-> program.args, line |-> program.line]
      /\ program.line = line /\ program.code = << >>
  BY <1>2 DEF Started
<1>4. line.lines \in Seq(Line) /\ file = line.lines
  BY <1>3, CommandLinesAssumption DEF MainInit
<1>5. Position
  BY <1>3, <1>4 DEF Position, Lines
<1>6. LoadedSoFar
  BY <1>3 DEF LoadedSoFar
<1>7. RunsAtEnd
  BY DEF MainInit, Init, RunsAtEnd
<1> QED
  BY <1>1, <1>5, <1>6, <1>7 DEF LoadInv

LEMMA LoadLineKeeps == ASSUME LoadInv, LoadLine PROVE LoadInv'
<1> DEFINE line == Head(file)
<1> DEFINE ins  == Loaded(line)
<1> DEFINE code == program.code
<1> DEFINE m    == Len(code)
<1>1. /\ status = "init" /\ file # << >> /\ Loadable(line)
      /\ program' = [program EXCEPT !.code = Append(@, ins)]
      /\ file' = Tail(file)
      /\ UNCHANGED <<value_array, stacks, pc, status, result>>
  BY DEF LoadLine, Loading
<1>2. line \in Line /\ line = file[1] /\ Len(file) \in Nat \ {0}
  BY <1>1 DEF LoadInv, Position
<1>3. /\ Complete(line) \/ Short(line)
      /\ ins \in Instruction
      /\ ins.op = line.op
      /\ Says(line, 1, ins.a) /\ Says(line, 2, ins.b) /\ Says(line, 3, ins.c)
  BY <1>1, <1>2, LoadsComplete, LoadedSays
<1>4. code \in Seq(Instruction) /\ m \in Nat
  BY DEF LoadInv, VMInv, MachineTyped
<1>5. program = [code |-> code, args |-> program.args, line |-> program.line]
  BY DEF LoadInv, Position
<1> HIDE DEF line, ins, m
<1>6. program' = [code |-> Append(code, ins), args |-> program.args, line |-> program.line]
  <2>1. ASSUME NEW c, NEW a, NEW l, program = [code |-> c, args |-> a, line |-> l]
        PROVE  [program EXCEPT !.code = Append(@, ins)]
                 = [code |-> Append(c, ins), args |-> a, line |-> l]
    BY <2>1
  <2> QED
    BY ONLY <1>1, <1>5, <2>1 DEF code
<1> HIDE DEF code
<1>7. /\ program'.code = Append(code, ins) /\ program'.args = program.args
      /\ program'.line = program.line /\ Lines' = Lines
      /\ program' = [code |-> program'.code, args |-> program'.args, line |-> program'.line]
  BY <1>6 DEF Lines
<1>8. /\ Append(code, ins) \in Seq(Instruction)
      /\ Len(Append(code, ins)) = m + 1
      /\ \A n \in 1 .. m : Append(code, ins)[n] = code[n]
      /\ Append(code, ins)[m + 1] = ins
  BY <1>3, <1>4 DEF m
<1>9. /\ file \in Seq(Line) /\ m + Len(file) = Len(Lines) /\ Lines \in Seq(Line)
      /\ program.line \in CommandLines
      /\ \A n \in 1 .. Len(file) : file[n] = Lines[m + n]
  BY DEF LoadInv, Position, m, code
<1>10. VMInv'
  <2>1. MachineTyped'
    BY <1>1, <1>7, <1>8 DEF LoadInv, VMInv, MachineTyped, stacks
  <2>2. ASSUME NEW i \in 0 .. call_stack_pointer' - 1
        PROVE  /\ call_stack'[i] \in 0 .. Len(program'.code) - 1
               /\ program'.code[call_stack'[i] + 1].op = "Call"
    <3>1. i \in 0 .. call_stack_pointer - 1 /\ call_stack' = call_stack
      BY <1>1, <2>2 DEF stacks
    <3>2. call_stack[i] \in 0 .. m - 1 /\ code[call_stack[i] + 1].op = "Call"
      BY <3>1 DEF LoadInv, VMInv, CallsOnStack, At, m, code
    <3> QED
      BY <1>4, <1>7, <1>8, <3>1, <3>2
  <2>3. CallsOnStack'
    BY <2>2 DEF CallsOnStack, At
  <2> QED
    BY <2>1, <2>3 DEF VMInv
<1>11. Position'
  <2>1. file' \in Seq(Line) /\ Len(file') = Len(file) - 1
        /\ \A n \in 1 .. Len(file') : file'[n] = file[n + 1]
    BY <1>1, <1>9
  <2>2. m + 1 + Len(file') = Len(Lines)
    BY <1>2, <1>4, <1>9, <2>1
  <2>3. ASSUME NEW n \in 1 .. Len(file') PROVE file'[n] = Lines[(m + 1) + n]
    <3>1. n + 1 \in 1 .. Len(file) /\ m + (n + 1) = (m + 1) + n
      BY <1>2, <1>4, <2>1
    <3> QED
      BY <1>9, <2>1, <3>1
  <2> QED
    BY <1>7, <1>8, <1>9, <2>1, <2>2, <2>3 DEF Position
<1>12. LoadedSoFar'
  <2>1. Lines[m + 1] = line
    BY <1>2, <1>9
  <2>2. LoadedAs(line, ins)
    BY <1>3 DEF LoadedAs
  <2>3. ASSUME NEW n \in 1 .. m PROVE LoadedAs(Lines[n], code[n])
    BY DEF LoadInv, LoadedSoFar, m, code
  <2>4. ASSUME NEW n \in 1 .. m + 1 PROVE LoadedAs(Lines[n], Append(code, ins)[n])
    BY <1>4, <1>8, <2>1, <2>2, <2>3
  <2> QED
    BY <1>7, <1>8, <2>4 DEF LoadedSoFar, LoadedAs
<1>13. RunsAtEnd'
  BY <1>1, <1>7 DEF RunsAtEnd
<1> QED
  BY <1>10, <1>11, <1>12, <1>13 DEF LoadInv

LEMMA LoadAbortsKeeps == ASSUME LoadInv, LoadAborts PROVE LoadInv'
<1>1. /\ status = "init" /\ (file # << >> \/ ~program.line.found)
      /\ program.line.found => ~Loadable(Head(file))
      /\ status' = "aborted"
      /\ UNCHANGED <<program, value_array, stacks, pc, result, file>>
  BY DEF LoadAborts, Loading
<1>2. VMInv'
  BY <1>1 DEF LoadInv, VMInv, MachineTyped, CallsOnStack, At, stacks, Stopped
<1>3. Position' /\ LoadedSoFar'
  BY <1>1 DEF LoadInv, Position, LoadedSoFar, LoadedAs, Lines
<1>4. ASSUME program.line.found, file # << >>
      PROVE  ~Complete(Head(file)) /\ ~Short(Head(file))
  <2>1. Head(file) \in Line
    BY <1>4 DEF LoadInv, Position
  <2> QED
    BY <1>1, <1>4, <2>1, LoadsComplete
<1>5. RunsAtEnd'
  BY <1>1, <1>4 DEF RunsAtEnd
<1> QED
  BY <1>2, <1>3, <1>5 DEF LoadInv

\* Only a process that has not ended changes its status.
LEMMA StatusChanges == Next => status \in {"init", "running"} \/ status' = status
<1>1. Local => status' = status
  BY DEF Local, Add, Multiply, LessThan, Equals, Move, Negate, Not, Set,
         Jump, JumpIfZero, Computes, GoTo
<1>2. Call \/ Return => status = "running"
  BY DEF Call, Return, ReturnToCaller, ReturnFromProgram, Executes
<1>3. vm_push_args \/ Abort \/ RunOff => status \in {"init", "running"}
  BY DEF vm_push_args, Abort, RunOff
<1> QED
  BY <1>1, <1>2, <1>3 DEF Next, Halted, vars

LEMMA RunKeeps == ASSUME LoadInv, Run PROVE LoadInv'
<1>1. Next /\ UNCHANGED file /\ program' = program
  BY NextKeepsProgram DEF Run
<1>2. VMInv'
  BY <1>1, VMInvStep DEF LoadInv
<1>3. Position' /\ LoadedSoFar'
  BY <1>1 DEF LoadInv, Position, LoadedSoFar, LoadedAs, Lines
<1>4. status \in {"init", "running"} => program.line.found /\ file = << >>
  BY DEF Run, Loading, LoadInv, RunsAtEnd
<1>5. RunsAtEnd'
  <2>1. CASE status \in {"init", "running"}
    BY <1>1, <1>4, <2>1 DEF RunsAtEnd
  <2>2. CASE status \notin {"init", "running"}
    <3>1. status' = status
      BY <1>1, <2>2, StatusChanges
    <3> QED
      BY <1>1, <3>1 DEF LoadInv, RunsAtEnd
  <2> QED
    BY <2>1, <2>2
<1> QED
  BY <1>2, <1>3, <1>5 DEF LoadInv

LEMMA LoadInvStep == LoadInv /\ [MainNext]_mvars => LoadInv'
<1> SUFFICES ASSUME LoadInv, [MainNext]_mvars PROVE LoadInv'
  OBVIOUS
<1>1. CASE UNCHANGED mvars
  <2>1. VMInv'
    BY <1>1, VMInvStep, Zenon DEF LoadInv, mvars
  <2> QED
    BY <1>1, <2>1 DEF LoadInv, mvars, vars, Position, LoadedSoFar, LoadedAs, Lines, RunsAtEnd
<1> QED
  BY <1>1, LoadLineKeeps, LoadAbortsKeeps, RunKeeps DEF MainNext

(* Whatever the listing: what vm_load leaves in memory are instructions of *)
(* the machine, and what vm_run then keeps in its registers, its value     *)
(* array and its call stack has its type, with calls of that program on    *)
(* the call stack (vm.c:138-179, main.c).                                  *)
THEOREM MachineTypedAlways == MainSpec => [](MachineTyped /\ CallsOnStack)
<1>1. LoadInv => MachineTyped /\ CallsOnStack
  BY DEF LoadInv, VMInv
<1> QED
  BY <1>1, LoadInvInit, LoadInvStep, PTL DEF MainSpec

(* Whatever the listing: it is loaded whole, each line with the opcode and *)
(* the operands written on it, up to multiples of 2^32, and 0 for those    *)
(* that are missing at its end; or it is refused, and nothing is run, at a *)
(* line with an opcode VM.md does not know or nothing behind the opcode,   *)
(* with an operand that is no number, or with the end of the file where    *)
(* the last operand stops or should be (vm.c:138-179).                     *)
THEOREM LoadsListingAlways == MainSpec => []LoadsListing
<1>1. ASSUME LoadInv PROVE LoadsListing
  <2> DEFINE code == program.code
  <2>1. /\ Len(code) \in Nat /\ Len(file) \in Nat /\ Len(Lines) \in Nat
        /\ Len(code) + Len(file) = Len(Lines)
        /\ \A n \in 1 .. Len(file) : file[n] = Lines[Len(code) + n]
        /\ file \in Seq(Line)
    BY <1>1 DEF LoadInv, Position, VMInv, MachineTyped
  <2>2. \A n \in 1 .. Len(code) : LoadedAs(Lines[n], code[n])
    BY <1>1 DEF LoadInv, LoadedSoFar
  <2>3. RunsAtEnd
    BY <1>1 DEF LoadInv
  <2> HIDE DEF code
  <2>4. ASSUME status \in {"running", "returned", "undefined"}
        PROVE  /\ program.line.found /\ Len(code) = Len(Lines)
               /\ \A n \in 1 .. Len(Lines) : Complete(Lines[n]) \/ Short(Lines[n])
    <3>1. program.line.found /\ file = << >>
      BY <2>3, <2>4 DEF RunsAtEnd
    <3>2. Len(code) = Len(Lines)
      BY <2>1, <3>1
    <3> QED
      BY <2>2, <3>1, <3>2 DEF LoadedAs
  <2>5. ASSUME status = "aborted", program.line.found, Len(code) < Len(Lines)
        PROVE  ~Complete(Lines[Len(code) + 1]) /\ ~Short(Lines[Len(code) + 1])
    <3>1. 1 \in 1 .. Len(file) /\ file # << >>
      BY <2>1, <2>5
    <3>2. Head(file) = Lines[Len(code) + 1]
      BY <2>1, <3>1
    <3> QED
      BY <2>3, <2>5, <3>1, <3>2 DEF RunsAtEnd
  <2> QED
    BY <2>2, <2>4, <2>5 DEF LoadsListing, LoadedAs, Lines, code
<1> QED
  BY <1>1, LoadInvInit, LoadInvStep, PTL DEF MainSpec
=============================================================================
