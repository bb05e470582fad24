CONSTANTS
  N = 3
  Undeclared = Undeclared
  MaxRounds = 8
  Programs <- MCPrograms
SPECIFICATION Spec
INVARIANTS BodiesChecked OrderFree
