CONSTANTS
  Ids <- MCIds
  Registered <- MCRegistered
  HasPub <- MCHasPub
  Bucket <- MCBucket
  Addrs = {a1}
  NoAddr = NoAddr
  None = None
  Requests <- MCRequests
  MaxItems = 3
SPECIFICATION FairSpec
INVARIANTS ExactlyOnce LossExplained
PROPERTIES ImplementsForwarder EventuallySettled
