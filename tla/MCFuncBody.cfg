SPECIFICATION Spec
CONSTANTS
  Functions <- Checked
  Nesting = 3
  Budget = 12
  DeferCap = 64
INVARIANT NoUninitRead
INVARIANT AlwaysReturns
INVARIANT FieldsAssigned
INVARIANT DefersOnExit
CHECK_DEADLOCK FALSE
