SPECIFICATION AdmissionSpec
CONSTANTS
  c1 = c1  c2 = c2  c3 = c3  c4 = c4  c5 = c5
  near = near  far = far
  Streams = {c1, c2, c3, c4, c5}
  Ips = {near, far}
  Ip <- ThreeAndTwo
  MaxTotal = 3
  MaxPerIp = 2
INVARIANTS
  WithinLimits
  CountsExact
