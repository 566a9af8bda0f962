CONSTANTS
  start = start  conn = conn  conf = conf  disc = disc
  inv = inv  acc1 = acc1  acc2 = acc2  file = file
  Calls = {start, conn, conf, disc, inv, acc1, acc2, file}
  Kind <- KindOf
  Sessions <- Runs
  None = None
  Cap = 1
  Window = 1
  MaxEvents = 1
SPECIFICATION FairSpec
CHECK_DEADLOCK FALSE
INVARIANTS
  AnswerIsOwn
  NoneLeftOpen
  WatcherFollows
PROPERTIES
  CommandReturns
  StatusHonest
