CONSTANTS
  s1 = s1  s2 = s2  a = a  b = b  None = None  Blank = Blank  d1 = d1  d2 = d2
  Attempts = {s1, s2}
  N = 2
  Data = {a, b}
  Files <- OneShort
  Dirs = {d1}
  SaveEvery = 2
  Exclusive = TRUE
  MaxCuts = 1
  MaxCrashes = 1
  Window = 1
SPECIFICATION FairSpec
PROPERTY
  EveryAttemptEnds
