SPECIFICATION FairSpec
CONSTANTS
  Calls = {c1}
  Streams = {t1}
  Subs = {s1, s2}
  Crowds = {{c1, t1, s1}, {c1, s1, s2}, {t1, s1, s2}}
  Capacity = 1
  MaxRequests = 2
  MaxMessages = 2
INVARIANTS EveryoneHears
PROPERTIES LockPassesOn SignalStops
CHECK_DEADLOCK FALSE
