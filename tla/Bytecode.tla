------------------------------ MODULE Bytecode ------------------------------
(***************************************************************************)
(* The instruction set of the SimpLang virtual machine (vm_opcode_t and    *)
(* vm_ins_t in compiler.h), and the calling convention of VM.md.           *)
(***************************************************************************)
EXTENDS Words, Sequences

-----------------------------------------------------------------------------
(* Opcodes, grouped by the operands the interpreter reads.                 *)

ThreeSlotOps == {"Add", "Multiply", "LessThan", "Equals"}
TwoSlotOps   == {"Move", "Negate", "Not"}
Opcodes      == ThreeSlotOps \union TwoSlotOps
                  \union {"Set", "Jump", "JumpIfZero", "Call", "Return"}

(***************************************************************************)
(* One record shape stands for both arms of the union in vm_ins_t: a, b, c *)
(* are arg1, arg2, arg3 of the slot arm; for Set, a is imm.arg and b is    *)
(* imm.imm.                                                                *)
(***************************************************************************)
Instruction == { ins \in [op : Opcodes, a : Int, b : Int, c : Int] :
                   ins.op = "Set" => ins.b \in Word }

\* The slots an instruction reads or writes relative to the stack pointer
\* that is current when it starts.
Slots(ins) ==
  CASE ins.op \in ThreeSlotOps                      -> {ins.a, ins.b, ins.c}
    [] ins.op \in TwoSlotOps                        -> {ins.a, ins.b}
    [] ins.op \in {"Set", "Return", "JumpIfZero"}   -> {ins.a}
    [] ins.op \in {"Jump", "Call"}                  -> {}

(***************************************************************************)
(* The calling convention VM.md asks of code: a function owns the slots at *)
(* non-negative offsets from its stack pointer and stores nowhere else,    *)
(* and a call never lowers the stack pointer.                              *)
(***************************************************************************)
FollowsConvention(ins) ==
  /\ ins.op \in ThreeSlotOps \union TwoSlotOps \union {"Set"} => ins.a >= 0
  /\ ins.op = "Call" => ins.b >= 0 /\ ins.c >= 0
=============================================================================
