\* Two connections, three streams, a queue of one.
CONSTANTS
  Conns = {c1, c2}
  Streams = {s1, s2, s3}
  Capacity = 1
SPECIFICATION FairSpec
INVARIANTS
  QueueIsExact
  ShutdownIsGraceful
PROPERTIES
  TasksEnd
CHECK_DEADLOCK FALSE
