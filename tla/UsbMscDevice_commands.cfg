SPECIFICATION Spec
CONSTANTS
  Chunk = 2
  Commands <- MCCommands
  Room = 5
  StalledOut = FALSE
  MediaStable = TRUE
INVARIANTS StatusTells PoolAccounted
PROPERTY CommandsEnd
