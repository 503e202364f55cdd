SPECIFICATION Spec
CONSTANTS
  MaxSeq = 2
  MaxCfid = 2
  Div = 1
  Bounds <- Storing
INVARIANTS
  DurableOrScheduled
  FlushedMeansStored
  StoredWhole
PROPERTIES
  NothingForgotten
CHECK_DEADLOCK FALSE
