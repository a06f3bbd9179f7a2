SPECIFICATION FeedSpec
CONSTANTS
  Minute = 6
  TTL = 12
  Shards = {0, 1}
  Replicas = 1
  Concurrency = 1
  PublishIntervals = {2, 3}
  PollIntervals = {3, 6}
  PutTime = 1
  PassTime = 2
  StartBy = 11
  Horizon = 29
INVARIANTS FeedFinds BurstCovers
CHECK_DEADLOCK FALSE
