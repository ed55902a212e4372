CONSTANTS
  Operands <- MCOperands
  Chains <- MCChains
SPECIFICATION Spec
INVARIANTS
  OperandsSuffice
  WaitingOperatorsIncrease
  ParsesByRawValue
PROPERTIES
  ImplementsReductions
