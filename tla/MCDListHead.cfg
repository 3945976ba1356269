CONSTANTS
  Node = {n1, n2, n3}
  Data = {1, 2}
  Iter = {}
  Index <- HeadIndex
  NULL = NULL
  Dangling = Dangling
  DLIST_SUCC = DLIST_SUCC
  DLIST_FAIL = DLIST_FAIL
  MaxIndex = 2
  MaxRegistered = 2
SPECIFICATION Spec
SYMMETRY NodeSymmetry
PROPERTY InsertsAtEveryIndex
\* The process may crash, and dlist_destroy ends the list.
CHECK_DEADLOCK FALSE
