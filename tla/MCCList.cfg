\* Three nodes, three values, the cursor.
CONSTANTS
  Node = {n1, n2, n3}
  Data = {1, 2, 3}
  cursor = cursor
  Iter = {cursor}
  Index <- RingIndexes
  NULL = NULL
  Dangling = Dangling
  DLIST_SUCC = DLIST_SUCC
  DLIST_FAIL = DLIST_FAIL
  C_SUCCESS = CSuccess
  C_FAIL = CFail
  MaxIndex = 3
  MaxRegistered = 2
  MaxListSize = 0
SPECIFICATION CListSpec
SYMMETRY NodeSymmetry
INVARIANT CListTypeOK
PROPERTY ImplementsAbsRing
\* The process may crash, and clist_destroy ends the list.
CHECK_DEADLOCK FALSE
