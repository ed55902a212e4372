CONSTANTS
  Half <- MCHalf
  HalfOperand <- MCHalfOperand
  ArraySize <- MCArraySize
  CallStackSize <- MCCallStackSize
  CommandLines <- MCCommandLines
  Invocations <- MCInvocations
SPECIFICATION MainSpec
INVARIANTS
  LoadsListing
  ComputesExpected
PROPERTIES
  Stops
