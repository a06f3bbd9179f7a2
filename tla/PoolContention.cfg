\* Two callers and two peers that compete for one slot through channels of capacity one.
CONSTANTS
  Peers = {p1, p2}
  Callers = {c1, c2}
  Ops = {"get", "open"}
  MaxConnections = 1
  PoolCapacity = 1
  ConnCapacity = 1
  Retries = 2
  MaxGeneration = 2
  MaxLosses = 0
  Reserve = 1
SPECIFICATION FairSpec
INVARIANTS
  CountIsHolders
  SlotsConsistent
PROPERTIES
  ImplementsService
  GetOrConnectReturns
  UnleasedIsClosed
CHECK_DEADLOCK FALSE
