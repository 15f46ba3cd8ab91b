SPECIFICATION Spec
CONSTANTS
  Procs = {p1, p2, p3}
  Total = 8
  Header = 3
  ItemSz = 2
  MaxOps = 5
INVARIANT SafeCopy
PROPERTIES StaysSettled InitialisedOnce
CHECK_DEADLOCK FALSE
