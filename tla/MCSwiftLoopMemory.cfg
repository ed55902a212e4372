CONSTANTS
  Half <- MCHalf
  Exprs <- MCExprs
  Identifiers <- MCIdentifiers
  MaxInvocations <- MCMaxInvocations
  Invocations <- MCInvocations
SPECIFICATION MCSpec
INVARIANT
  LoopMemoryConstant
