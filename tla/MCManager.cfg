CONSTANTS
  N = 5
  Start <- MCStart
  Last <- MCLast
  MaxFails = 1
SPECIFICATION SignalledSpec
INVARIANTS DayStable ShmOwned AllDays
PROPERTIES Finishes Obeyed
\* The manager waits for ever when a thread could not be created.
CHECK_DEADLOCK FALSE
