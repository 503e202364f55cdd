SPECIFICATION FairSpec
CONSTANTS
  MaxSeq = 3
  MaxDup = 0
  DupTypes <- NotStart
PROPERTIES
  DeliveredOrFailed
  PlainRequestEnds
CHECK_DEADLOCK FALSE
