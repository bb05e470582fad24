SPECIFICATION Spec
CONSTANTS
  Cells = {1, 2, 3, 4}
  Sizes = {1, 2}
  MaxEntries = 3
  MaxQuarantine = 3
  MaxObjs = 2
  MaxPtrs = 2
INVARIANTS LiveAccepted StaleReported
