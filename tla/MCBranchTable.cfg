SPECIFICATION Spec
CONSTANTS
  N = 3
  Branch <- MCBranch
  Histories <- MCHistories
  MaxQueue = 2
  MaxRestarts = 2
INVARIANTS
  SectionsAreRuns
  LookupRight
  TopsRight
  RowsFollow
CHECK_DEADLOCK FALSE
