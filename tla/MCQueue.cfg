\* Four nodes, three values, limits from zero to four, an int of four bits.
CONSTANTS
  Node = {n1, n2, n3, n4}
  Data = {1, 2, 3}
  Iter = {}
  Index <- SizeIndexes
  NULL = NULL
  Dangling = Dangling
  DLIST_SUCC = DLIST_SUCC
  DLIST_FAIL = DLIST_FAIL
  Q_SUCCESS = QSuccess
  Q_FAILURE = QFailure
  IntHalf = 8
  MaxIndex = 3
  MaxRegistered = 2
  MaxQueueSize = 4
SPECIFICATION QueueSpec
SYMMETRY NodeSymmetry
INVARIANTS QueueTypeOK Bounded OnlyIndexedCrash
PROPERTIES FetchesByIndex ImplementsAbsQueue
\* The process may crash, and queue_destroy ends the queue.
CHECK_DEADLOCK FALSE
