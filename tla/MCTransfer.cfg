SPECIFICATION TransferFairSpec
CONSTANTS
  Low = 8
  Hdr = 1
  Block = 2
  Sizes <- MCSizes
  MaxSize = 16
  UInt = 16
INVARIANT Verdict
PROPERTIES ClientEnds Reaped
\* The connection ends.
CHECK_DEADLOCK FALSE
