CONSTANTS
  Half <- MCHalf
  MaxNodes <- MCMaxNodes
  Exprs = {}
  Invocations = {}
  CommandLines <- MCCommandLines
SPECIFICATION MainSpec
INVARIANTS
  ArraysInStep
  ParsesByGrammar
  ComputesExpected
PROPERTIES
  Ends
