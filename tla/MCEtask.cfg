CONSTANTS
  NumTasks = 4
  Plans <- Programs
SPECIFICATION Spec
INVARIANTS AssertsHold RunsOnce TreeRight NoLostWakeup CancelledTogether GroupsRight
CHECK_DEADLOCK FALSE
