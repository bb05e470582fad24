SPECIFICATION Spec
CONSTANTS
  Key = {1, 2, 3, 4, 5, 6, 7, 8}
  Middle = 4
  e1 = e1
  e2 = e2
  Elem <- ElemsOf
  Nil = nil
INVARIANT RedBlackTree
PROPERTY ImplementsMap
PROPERTY FixupClimbs
