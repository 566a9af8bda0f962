CONSTANTS
  K = 2
  N = 3
  NStreams = 2
  AskFirst = TRUE
  Cap = 1
  Window = 1
  MaxConns = 2
  MaxFaults = 1
SPECIFICATION Spec
CHECK_DEADLOCK FALSE
INVARIANTS
  EveryChunkInOneRange
  ChunksInPlace
  RouteCovers

  
