SPECIFICATION Spec
CONSTANTS
  node = node
  blob = blob
  Nil = nil
  Addr = {a1, a2, a3, a4}
  SizeMax = 15
  HeaderSize = 2
  StaticClass <- Statics
  HeapClass = {x1}
  ClassInfo <- Infos
  ExInfo <- ExFixed
  Counts = {1, 2}
  Limits = {13}
  MaxNews = 4
SYMMETRY Blocks
INVARIANT ListIntact
INVARIANT CountersExact
INVARIANT HoldsLive
CHECK_DEADLOCK FALSE
