SPECIFICATION Spec
CONSTANTS
  Mod <- MCMod
  Prims <- MCPrims
  Bits <- MCBits
  Programs <- MCTwice
  MaxRounds = 3
  MaxDepth = 4
  MaxProxy = 2
INVARIANTS OneDefinition
