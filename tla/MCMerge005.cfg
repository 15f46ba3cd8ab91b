CONSTANTS
  N = 4
  Elem <- Rows
  Key <- HourOf
  Amount <- CallsOf
  Styles = {"recursive", "queue", "pivot"}
SPECIFICATION MFairSpec
INVARIANTS Settled QueueFits Merged
PROPERTY MergeEnds
\* The functions return.
CHECK_DEADLOCK FALSE
