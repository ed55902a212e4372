CONSTANTS
  Operands <- MCOperands
  Chains <- ReadmeChains
SPECIFICATION Spec
INVARIANTS
  ParsesByReadme
