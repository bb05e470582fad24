SPECIFICATION Spec
CONSTANTS
  Mod <- MCMod
  Prims <- MCPrims
  Bits <- MCBits
  Programs <- MCInferred
  MaxRounds = 3
  MaxDepth = 4
  MaxProxy = 2
INVARIANTS InstancesExact FailsForAReason
PROPERTIES Terminates
