SPECIFICATION Spec
CONSTANTS
  a = a  b = b  c1 = c1  c2 = c2  c3 = c3  k1 = k1  m1 = m1  m2 = m2
  home = home  away = away
  Devices = {a, b}
  Conns = {c1, c2, c3}
  Owner <- TwoAndBack
  Codes = {k1}
  Msgs = {m1}
  Addrs = {home, away}
  NoAddr = home
  NoFriend = NoFriend
  Off = Off
  None = None
  QueueCap = 1
  OfflineCap = 1
  Overlap = FALSE
  Reconnect = FALSE
  MaxBreaks = 1
SYMMETRY Either
INVARIANTS
  ViewsAgree
  NothingParkedForOnline
  
