\* An Idle message is overtaken by a request.
CONSTANTS
  Peers = {p1, p2}
  Callers = {c1, c2}
  Ops = {"get", "open"}
  MaxConnections = 1
  PoolCapacity = 2
  ConnCapacity = 1
  Retries = 2
  MaxGeneration = 2
  MaxLosses = 0
  Reserve = 1
SPECIFICATION Spec
SYMMETRY Symmetry
INVARIANTS
  LeasedWithinLimit
CHECK_DEADLOCK FALSE
