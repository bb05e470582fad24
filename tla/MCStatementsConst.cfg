SPECIFICATION Spec
CONSTANTS
  ByteBits = 2
  Funcs <- MCFuncs
  Programs <- MCLayered
  MaxSteps = 2
PROPERTY ConstHolds
CHECK_DEADLOCK FALSE
