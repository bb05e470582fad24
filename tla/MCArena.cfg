SPECIFICATION Spec
CONSTANTS
  SizeMax = 63
  BlockHeader = 3
  Budget = 30
  Bases = {4, 5}
  BlockSizes = {5}
  Sizes = {0, 3, 12, 45}
  Aligns = {1, 4}
  Counts = {0, 2}
  MaxAllocs = 4
INVARIANT InBounds
INVARIANT Disjoint
INVARIANT Aligned
CHECK_DEADLOCK FALSE
