SPECIFICATION Spec
CONSTANTS
  MaxSeq = 3
  MaxDup = 1
  DupTypes <- NotStart
INVARIANTS
  TypeOK
  ResponseInOrder
  RequestInOrder
  TimersCover
  QuietMeansDelivered
PROPERTIES
  ResponseStream
  RequestStream
CHECK_DEADLOCK FALSE
