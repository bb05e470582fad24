CONSTANTS
  N = 3
  Undeclared = Undeclared
  MaxRounds = 2
  Programs <- MCPrograms
SPECIFICATION Spec
INVARIANTS
  Grounded
  SettledExact
  VerdictRight
PROPERTY Terminates
