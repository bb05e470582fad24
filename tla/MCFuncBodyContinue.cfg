SPECIFICATION Spec
CONSTANTS
  Functions <- Continuing
  Nesting = 3
  Budget = 12
  DeferCap = 64
INVARIANT NoUninitRead
CHECK_DEADLOCK FALSE
