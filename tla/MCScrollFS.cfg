CONSTANTS
  Files <- MCFiles
  Dirs <- MCDirs
  Parent <- MCParent
  Close <- MCClose
  Worlds <- MCWorlds
  Restarts = 1
SPECIFICATION Spec
INVARIANTS FindsRight EdgesRight FileTreeRight ReadsRight
CHECK_DEADLOCK FALSE
