CONSTANTS
  Half <- MCHalf
  MaxNodes <- MCMaxNodes
  Exprs <- MCExprs
  Invocations <- MCInvocations
SPECIFICATION Spec
INVARIANTS
  EnvironmentsLive
  HeapAccountedFor
  IntResultNeverFails
  MeansReference
