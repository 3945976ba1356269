\* Four payloads, two of equal rank; the array goes from one slot to eight.
CONSTANTS
  low = low
  mid = mid
  twin = twin
  high = high
  Payload = {low, mid, twin, high}
  Rank <- FourRanks
  BASE_SIZE = 1
  NULL = NULL
  Zeroed = Zeroed
  Garbage = Garbage
  MaxLength = 5
  MaxItems = 4
SPECIFICATION FairSortSpec
INVARIANTS HeapTypeOK HeapOrder CapacityFits FindsNth
PROPERTIES PopsBest ImplementsAbsHeap SortsInPlace CallsEnd
\* The process may crash, and heap_destroy ends the heap.
CHECK_DEADLOCK FALSE
