SPECIFICATION Spec
CONSTANTS
  a = a
  b = b
  p = p
  q = q
  Streams = {s1, s2}
  Alpns = {a, b}
  Peers = {p, q}
  Missing = Missing
  Specs <- MCSpecs
  UserData <- MCUserData
  Capacity = 1
  MaxIngest = 3
INVARIANTS Provenance NewestKept
PROPERTIES NewestArrives
CHECK_DEADLOCK FALSE
