CONSTANTS
  NHours = 2
  NUnits = 2
  Db <- SomeDb
  Progs <- Analyses
  CreateFails = TRUE
  Faults = TRUE
  MaxRuns = 3
  MaxCrashes = 1
SPECIFICATION FairSpec
INVARIANTS Barrier NoOvercount Complete
PROPERTY Ends
CHECK_DEADLOCK FALSE
