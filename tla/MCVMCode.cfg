CONSTANTS
  Half <- MCHalf
  ArraySize <- MCArraySize
  CallStackSize <- MCCallStackSize
  Invocations <- MCInvocations
SPECIFICATION HSpec
INVARIANTS
  TypeOK
  EntryIsCall
  CallStackDeterminesFrames
  OutermostSP
  FramesPreserved
PROPERTIES
  ImplementsFrames
