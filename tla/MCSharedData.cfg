CONSTANTS
  Readers = {r1}
  Writers = {w1, w2}
  NoPid = NoPid
  Total = 9
  Header = 2
  ItemSz = 2
  Batch = 2
  MaxBatches = 2
  MaxStops = 1
SPECIFICATION FairSpec
INVARIANT Ledger
PROPERTIES ItemsMove StopReaches
\* The processes may all have ended.
CHECK_DEADLOCK FALSE
