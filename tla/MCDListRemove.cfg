CONSTANTS
  Node = {n1, n2, n3}
  Data = {1, 2, 3}
  Iter = {i1}
  Index <- AllIndexes
  NULL = NULL
  Dangling = Dangling
  DLIST_SUCC = DLIST_SUCC
  DLIST_FAIL = DLIST_FAIL
  MaxIndex = 2
  MaxRegistered = 3
SPECIFICATION Spec
SYMMETRY NodeSymmetry
PROPERTY RemovedEndKeepsAnyIter
\* The process may crash, and dlist_destroy ends the list.
CHECK_DEADLOCK FALSE
