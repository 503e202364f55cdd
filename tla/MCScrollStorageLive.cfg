SPECIFICATION FairSpec
CONSTANTS
  MaxSeq = 3
  MaxCfid = 1
  Div = 3
  Bounds <- Plain
PROPERTIES
  EventuallyStored
  LockReleased
CHECK_DEADLOCK FALSE
