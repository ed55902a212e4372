---------------------------- MODULE FrameMachine ----------------------------
(***************************************************************************)
(* What VM.md promises of calls, with no trace of how vm.c keeps the       *)
(* promise: every call makes a frame that holds all its caller will need   *)
(* again, and a return puts that frame back.  vm.c keeps only the index of *)
(* the Call instruction and works the rest out when it returns.            *)
(*                                                                         *)
(* A local instruction changes at most one slot and touches neither the    *)
(* frames nor the stack pointer; what it computes is left open.  A process *)
(* may give up at any time: VM.md bounds neither stack, vm.c both.         *)
(***************************************************************************)
EXTENDS Bytecode

CONSTANTS Invocations, ArraySize

VARIABLES program, memory, sp, frames, pc, status, result

fvars == <<program, memory, sp, frames, pc, status, result>>

Slot == 0 .. ArraySize - 1
Ins  == program.code[pc + 1]
Runs == status = "running" /\ pc + 1 \in 1 .. Len(program.code)

Init ==
  /\ program \in Invocations
  /\ memory = [s \in Slot |-> 0]
  /\ sp = 0
  /\ frames = << >>
  /\ pc = 0
  /\ status = "init"
  /\ result = 0

\* The first slots hold the arguments, the stack pointer is their number.
Begin ==
  LET argc == Len(program.args) IN
  /\ status = "init"
  /\ memory' = [s \in Slot |-> IF s < argc THEN program.args[s + 1] ELSE 0]
  /\ sp' = argc
  /\ status' = "running"
  /\ UNCHANGED <<program, frames, pc, result>>

Local ==
  /\ Runs
  /\ Ins.op \notin {"Call", "Return"}
  /\ \/ memory' = memory
     \/ \E s \in Slot : memory' = [memory EXCEPT ![s] = memory'[s]]
  /\ pc' \in Int
  /\ UNCHANGED <<program, sp, frames, status, result>>

Call ==
  /\ Runs
  /\ Ins.op = "Call"
  /\ frames' = Append(frames, [sp |-> sp, next |-> pc + 1, dst |-> sp + Ins.c])
  /\ sp' = sp + Ins.b
  /\ pc' = Ins.a
  /\ UNCHANGED <<program, memory, status, result>>

Return ==
  LET frame == frames[Len(frames)] IN
  /\ Runs
  /\ Ins.op = "Return"
  /\ frames # << >>
  /\ {sp + Ins.a, frame.dst} \subseteq Slot
  /\ memory' = [memory EXCEPT ![frame.dst] = memory[sp + Ins.a]]
  /\ sp' = frame.sp
  /\ pc' = frame.next
  /\ frames' = SubSeq(frames, 1, Len(frames) - 1)
  /\ UNCHANGED <<program, status, result>>

End ==
  /\ Runs
  /\ Ins.op = "Return"
  /\ frames = << >>
  /\ sp + Ins.a \in Slot
  /\ status' = "returned"
  /\ result' = memory[sp + Ins.a]
  /\ UNCHANGED <<program, memory, sp, frames, pc>>

GiveUp ==
  /\ status \in {"init", "running"}
  /\ status' \in {"aborted", "undefined"}
  /\ UNCHANGED <<program, memory, sp, frames, pc, result>>

Next == Begin \/ Local \/ Call \/ Return \/ End \/ GiveUp

Spec == Init /\ [][Next]_fvars
=============================================================================
