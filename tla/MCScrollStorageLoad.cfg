SPECIFICATION Spec
CONSTANTS
  MaxSeq = 1
  MaxCfid = 1
  Div = 0
  Bounds <- Restarted
INVARIANTS
  LoadsEndInUpdate
CHECK_DEADLOCK FALSE
