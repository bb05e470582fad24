SPECIFICATION Spec
CONSTANTS
  root = root
  dep = dep
  sub = sub
  none = none
  bad = bad
  sh = sh
  make = make
  v1 = v1
  v2 = v2
  x = x
  y = y
  Id <- Ids
  Cmd <- Cmds
  Scripted <- ScriptedCmds
  NoCmd = none
  Absent = absent
  Bad = bad
  Torn = torn
  Target = linux
  OtherTarget = win
  Root = root
  Pkg <- PkgFlat
  Deps <- DepsFlat
  InstallMaxDepth = 1
  LockMaxDepth = 1
  Manifest <- ManifestsMixed
  Content = {x}
  Process = {a, b}
  MaxRuns = 2
  MaxEdits = 1
INVARIANT MarkerImpliesRan
INVARIANT LockedHooksRan
INVARIANT DepsFirst
CHECK_DEADLOCK FALSE
SYMMETRY Processes
