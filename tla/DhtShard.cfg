\* Four publishers of one bucket that holds at most two of their ads.
CONSTANTS
  Nodes = {1, 2, 3, 4}
  AdSize <- MCAdSize
  MaxSize = 3
  FutureSkew = 0
  Offset <- MCOffset
  MinuteLen = 2
  TTL = 2
  Retries = 2
  MaxTime = 2
  MaxVersions = 4
SPECIFICATION Spec
INVARIANTS
  BucketsWellFormed
  ResolveIsNewest
PROPERTIES
  UpdateKeepsAds
  ContendedMeansOvertaken
CHECK_DEADLOCK FALSE
