CONSTANTS
  K = 1
  N = 3
  NStreams = 2
  AskFirst = TRUE
  Cap = 1
  Window = 1
  MaxConns = 1
  MaxFaults = 0
SPECIFICATION FairSpec
CHECK_DEADLOCK FALSE
PROPERTY TransferEnds
