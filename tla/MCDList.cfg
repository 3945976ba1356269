\* Three nodes, two values, two iterators, every index, up to two entries in iter_list.
CONSTANTS
  Node = {n1, n2, n3}
  Data = {1, 2}
  Iter = {i1, i2}
  Index <- AllIndexes
  NULL = NULL
  Dangling = Dangling
  DLIST_SUCC = DLIST_SUCC
  DLIST_FAIL = DLIST_FAIL
  MaxIndex = 2
  MaxRegistered = 2
SPECIFICATION Spec
SYMMETRY Symmetry
INVARIANTS TypeOK Linked IterAttached RegisteredOnce
PROPERTIES OnlyFailedInsertLeaks IndexesFromEitherEnd RemovalMovesIters
PROPERTIES FirstNodeRevivesIters TraversalInOrder ImplementsAbsList
\* The process may crash, and dlist_destroy ends the list.
CHECK_DEADLOCK FALSE
