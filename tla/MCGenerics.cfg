SPECIFICATION Spec
CONSTANTS
  Mod <- MCMod
  Prims <- MCPrims
  Bits <- MCBits
  Programs <- MCPrograms
  MaxRounds = 3
  MaxDepth = 4
  MaxProxy = 2
INVARIANTS Restored WalkedOnce InstancesExact FailsForAReason
PROPERTIES Terminates
