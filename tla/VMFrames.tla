------------------------------ MODULE VMFrames ------------------------------
(***************************************************************************)
(* The virtual machine with a memory of its calls.  Two history variables, *)
(* which no action of the machine reads, record at every Call what vm.c    *)
(* does not store: the frame of the caller, and the value array as it was. *)
(* The properties say that vm.c can do without them.                       *)
(***************************************************************************)
EXTENDS VM

VARIABLES
  frames,   \* the caller's stack pointer, the pc to resume, the result slot
  images    \* the value array at each call not yet returned from

hvars == <<vars, frames, images>>
history == <<frames, images>>

Depth == Len(frames)

\* The stack pointer of the function that the i-th open call entered.
CalleeSP(i) == IF i < Depth THEN frames[i + 1].sp ELSE stack_pointer

HInit == Init /\ frames = << >> /\ images = << >>

HCall ==
  /\ Call
  /\ frames' = Append(frames, [sp   |-> stack_pointer,
                               next |-> pc + 1,
                               dst  |-> stack_pointer + Ins.c])
  /\ images' = Append(images, value_array)

HReturnToCaller ==
  /\ ReturnToCaller
  /\ frames' = SubSeq(frames, 1, Depth - 1)
  /\ images' = SubSeq(images, 1, Depth - 1)

HKeep == vm_push_args \/ Local \/ ReturnFromProgram \/ Abort \/ RunOff \/ Halted

HNext == HCall \/ HReturnToCaller \/ (HKeep /\ UNCHANGED history)

HSpec == HInit /\ [][HNext]_hvars /\ WF_hvars(HNext)

-----------------------------------------------------------------------------
(* The call stack of vm.c determines the frames: its entries are Call      *)
(* instructions (so the assert on the popped opcode cannot fail), their    *)
(* NUMBERs add up to the distance between the stack pointers, and the      *)
(* frame a return needs can be computed from the entry on top.             *)
EntryIsCall ==
  /\ call_stack_pointer = Depth
  /\ \A i \in 1 .. Depth :
       LET n == call_stack[i - 1] IN
       /\ n \in 0 .. Len(program.code) - 1
       /\ At(n).op = "Call"

CallStackDeterminesFrames ==
  \A i \in 1 .. Depth :
    LET n == call_stack[i - 1] IN
    /\ frames[i].next = n + 1
    /\ frames[i].dst = frames[i].sp + At(n).c
    /\ CalleeSP(i) = frames[i].sp + At(n).b

(* The program itself always runs with the stack pointer VM.md gives it at *)
(* the start, the number of arguments: what calls added to it, their       *)
(* returns take away again, whichever way the code got to them.            *)
OutermostSP ==
  status \in {"running", "returned"} =>
    (IF Depth = 0 THEN stack_pointer ELSE frames[1].sp) = Len(program.args)

(* With code that follows the calling convention, whatever the callee and  *)
(* the functions it calls do, the slots below the callee's stack pointer   *)
(* keep the values they had at the call, and the program's arguments keep  *)
(* theirs: a caller finds its locals and arguments as it left them.        *)
Conventional ==
  \A k \in 1 .. Len(program.code) : FollowsConvention(program.code[k])

FramesPreserved ==
  Conventional =>
    /\ \A i \in 1 .. Depth : \A s \in Slot :
         s < CalleeSP(i) => value_array[s] = images[i][s]
    /\ status \in {"running", "returned"} =>
         \A k \in 1 .. Len(program.args) : value_array[k - 1] = program.args[k]

(* vm.c keeps the promises VM.md makes of Call and Return.                 *)
FM == INSTANCE FrameMachine WITH memory <- value_array, sp <- stack_pointer
ImplementsFrames == FM!Spec
=============================================================================
