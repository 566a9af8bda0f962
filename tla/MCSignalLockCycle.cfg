SPECIFICATION FairSpec
CONSTANTS
  c1 = c1  c2 = c2  c3 = c3
  Conns = {c1, c2, c3}
  Pairing = TRUE
PROPERTY UpdateIsAnnounced
CHECK_DEADLOCK FALSE
