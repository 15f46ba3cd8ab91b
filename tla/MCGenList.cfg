SPECIFICATION ListSpec
CONSTANTS
  Step = 4
  Header = 1
  Sizes <- MCSizes
  IntMax = 7
  Takers = {t1, t2}
  MaxAdds = 4
  MaxGets = 3
INVARIANTS Fits Complete
CHECK_DEADLOCK FALSE
