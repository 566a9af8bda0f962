CONSTANTS
  j = j  d = d  f = f  g = g
  Jobs = {j, d}
  Folders = {d}
  Work <- FileAndFolder
  Id <- TheirIds
  Chunks = 1
  Limits <- OneThenTwo
  None = None
  MaxEvents = 3
SPECIFICATION FairSpec
CHECK_DEADLOCK FALSE
INVARIANTS
  ShownPausedIsPaused
PROPERTIES
  
  CancelStops
  WaiterServed
