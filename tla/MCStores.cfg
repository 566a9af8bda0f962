CONSTANTS
  r1 = r1  r2 = r2  l1 = l1  p = p  q = q  x = x  a = a  b = b
  Remote = {r1, r2}
  Local = {l1}
  Paths = {p, q}
  PathOf <- ThePaths
  ContentOf <- TheContents
  Hashes = {x}
  NoHash = NoHash
  Absent = Absent
  MaxRecords = 1
  MaxEvents = 2
  Peers = {a, b}
  Legacy <- OneOld
  Counts = Counts
  NoFile = NoFile
  NoIndex = NoIndex
  Torn = Torn
  Corrupt = Corrupt
  Nobody = Nobody
  MaxCalls = 3
  MaxStops = 1
SPECIFICATION StoresSpec
CHECK_DEADLOCK FALSE
INVARIANTS
  ExcludedAlike
  SharesFollowHistory
  NumbersRunOn
  CountsAreTrue
  DeltasExactlyOnce
