CONSTANTS
  Half <- MCHalf
  Exprs <- MCExprs
  Identifiers <- MCIdentifiers
  MaxInvocations <- MCMaxInvocations
  Invocations <- MCInvocations
  CommandLines <- MCCommandLines
SPECIFICATION MCSpec
INVARIANTS
  ScopesBalanced
  MeansReference
  StacksInStep
  ParsesByGrammar
PROPERTIES
  EndsWithProgram
