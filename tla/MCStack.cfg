\* Five payloads: the array goes from one slot to eight and back to two.
CONSTANTS
  Payload = {p1, p2, p3, p4, p5}
  Index <- Positions
  BASE_SIZE = 1
  NULL = NULL
  Garbage = Garbage
  MaxLength = 5
SPECIFICATION FairSpec
INVARIANTS TypeOK CapacityFits
PROPERTIES ImplementsAbsStack DumpEmpties
\* stack_destroy ends the stack.
CHECK_DEADLOCK FALSE
