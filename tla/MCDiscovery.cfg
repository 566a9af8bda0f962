CONSTANTS
  me = me  i1 = i1  i2 = i2  d = d  e = e
  Others = {i1, i2}
  Self = me
  Devices = {d, e}
  Before <- TheOrder
  Timeout = 3
  Interval = 1
  Full = 3
  Delay = 1
  Absent = Absent
  MaxEvents = 2
SPECIFICATION PartSpec
INVARIANTS
  NoOrphanStamp
  OneListForAll
PROPERTIES
  StoppedLeaves
  
  NewcomersHear
