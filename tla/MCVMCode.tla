------------------------------- MODULE MCVMCode -------------------------------
(***************************************************************************)
(* The machine on every program of three instructions from a small set and *)
(* a final Return, so on code nobody would write: calls into the middle of *)
(* other code, falling through into a callee, returns nobody called for,   *)
(* calls that lower the stack pointer, stores outside the callee's slots,  *)
(* jumps out of the program.  Words are two bits wide, so that arithmetic  *)
(* overflows all the time, and both stacks are small enough to run out.    *)
(***************************************************************************)
EXTENDS VMFrames

MCHalf == 2
MCArraySize == 4
MCCallStackSize == 2

I(op, a, b, c) == [op |-> op, a |-> a, b |-> b, c |-> c]

Menu == {
  I("Set", 0, 1, 0),      I("Set", -1, -2, 0),    I("Move", 1, -1, 0),
  I("Add", 0, -1, -1),    I("Multiply", 0, -1, -1),
  I("Negate", 0, -1, 0),  I("Not", 0, 0, 0),
  I("LessThan", 0, 0, -1), I("Equals", 0, 0, -1),
  I("Jump", 0, 0, 0),     I("Jump", 4, 0, 0),     I("JumpIfZero", 0, 2, 0),
  I("Call", 2, 1, 0),     I("Call", 1, 0, 1),     I("Call", 0, 1, 0),
  I("Call", 2, -1, 1),    I("Return", -1, 0, 0) }

Last4 == I("Return", 0, 0, 0)

MCInvocations ==
  [ code : Menu \X Menu \X Menu \X {Last4},
    args : {<<1>>, <<-2, 1>>, <<1, 1, 1, 1, 1>>} ]
=============================================================================
