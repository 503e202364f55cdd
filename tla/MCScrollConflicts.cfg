CONSTANTS
  MaxSeq = 5
  Worlds <- MCWorlds
SPECIFICATION Spec
INVARIANTS OthersHold OneHistory ForksRight TopTaken
PROPERTIES KnowledgeKept
CHECK_DEADLOCK FALSE
