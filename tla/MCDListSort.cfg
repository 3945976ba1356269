\* Every list of up to five payloads out of four, two of equal rank.
CONSTANTS
  low = low
  mid = mid
  twin = twin
  high = high
  Payload = {low, mid, twin, high}
  Rank <- FourRanks
  MaxLength = 5
SPECIFICATION FairSpec
INVARIANT SortInv
PROPERTIES ImplementsAbsSort SortEnds
\* The sort returns.
CHECK_DEADLOCK FALSE
