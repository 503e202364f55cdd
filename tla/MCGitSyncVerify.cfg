SPECIFICATION Spec
CONSTANTS
  Commits <- MCCommits
  Paths <- MCPaths
  Parent <- MCParent
  Branches <- MCBranches
  Worlds <- MCWorlds
INVARIANTS
  VerifyGit
CHECK_DEADLOCK FALSE
