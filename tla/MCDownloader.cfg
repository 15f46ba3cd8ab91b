CONSTANTS
  Step = 2
  Lag = 1
  Midnight = 5
  Days <- MCDays
  Garbage = {"null", "wild"}
  MaxFaults = 2
SPECIFICATION FairSpec
INVARIANTS Coverage RightDir SuccessComplete
PROPERTY Terminates
\* The process ends.
CHECK_DEADLOCK FALSE
