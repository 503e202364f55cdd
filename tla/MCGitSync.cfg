SPECIFICATION Spec
CONSTANTS
  Commits <- MCCommits
  Paths <- MCPaths
  Parent <- MCParent
  Branches <- MCBranches
  Worlds <- MCWorlds
INVARIANTS
  CommitsRight
  SyncRight
CHECK_DEADLOCK FALSE
