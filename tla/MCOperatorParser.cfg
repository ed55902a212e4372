CONSTANTS
  Operands <- MCOperands
  Chains <- MCChains
SPECIFICATION Spec
INVARIANTS
  TypeOK
  OneTreeLeft
  ParsesByGrammar
PROPERTIES
  ImplementsReductions
  Returns
