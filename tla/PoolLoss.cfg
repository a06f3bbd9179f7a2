\* Two callers of one peer whose connection is lost.
CONSTANTS
  Peers = {p1}
  Callers = {c1, c2}
  Ops = {"get", "open"}
  MaxConnections = 1
  PoolCapacity = 2
  ConnCapacity = 1
  Retries = 2
  MaxGeneration = 3
  MaxLosses = 2
  Reserve = 1
SPECIFICATION Spec
SYMMETRY Symmetry
INVARIANTS
  RetryAvoidsDead
  RequestNeverLost
PROPERTIES
  SlotLossJustified
CHECK_DEADLOCK FALSE
