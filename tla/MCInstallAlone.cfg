SPECIFICATION FairSpecSame
CONSTANTS
  root = root
  dep = dep
  sub = sub
  none = none
  bad = bad
  sh = sh
  make = make
  v1 = v1
  v2 = v2
  x = x
  y = y
  Id <- Ids
  Cmd <- Cmds
  Scripted <- ScriptedCmds
  NoCmd = none
  Absent = absent
  Bad = bad
  Torn = torn
  Target = linux
  OtherTarget = win
  Root = root
  Pkg <- PkgLoop
  Deps <- DepsLoop
  InstallMaxDepth = 1
  LockMaxDepth = 1
  Manifest <- ManifestsFull
  Content = {x, y}
  Process = {a}
  MaxRuns = 2
  MaxEdits = 1
PROPERTY ExitCodeTrue
PROPERTY CommandsEnd
CHECK_DEADLOCK FALSE
