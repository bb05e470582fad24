SPECIFICATION Spec
CONSTANTS
  ByteBits = 2
  Funcs <- MCFuncs
  Programs <- MCPrograms
  MaxSteps = 2
INVARIANTS
  Sound
  Agrees
PROPERTY ConstKept
CHECK_DEADLOCK FALSE
