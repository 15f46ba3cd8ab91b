CONSTANTS
  Dev = "dev"
  Ntf = "ntf"
  Scenes <- Alone
  Keyed = {"dev", "ntf"}
  MaxCount = 2
  MaxRestarts = 1
  MaxNet = 20
SPECIFICATION FairSpec
PROPERTIES GetsKey Retracked NotifierEnds
\* The notifier ends.
CHECK_DEADLOCK FALSE
