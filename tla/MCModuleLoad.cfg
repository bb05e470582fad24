CONSTANTS
  main = main
  a = a
  b = b
  s = s
  Path = {main, a, b}
  Entry = main
  Symbol = {s}
  Missing = Missing
  None = None
  Null = Null
  Sources <- MCSources
SPECIFICATION Spec
INVARIANTS
  ImportersGetPrepared
  StubsInAnalysis
  OrderTopological
  ExportsExact
  VerdictRight
PROPERTY Terminates
