\* Two feeds of up to two items, at most two attempts at a time, a channel of one;
\* some feeds are of another service, some never end.
CONSTANTS
  Peers = {p1, p2}
  Local = local
  Fault = fault
  Feeds = {f1, f2}
  MaxItems = 2
  FeedLists <- MCFeedLists
  Alpn = "svc"
  Scopes = {"Any", "other"}
  MaxInflight = 2
  Limit = 1
  Timeouts = {TRUE, FALSE}
SPECIFICATION FairSpec
INVARIANTS
  EachPeerOnce
  BackPressure
  OutcomesConserved
  ErrMeansUnreached
PROPERTIES
  FirstReturns
  DropStopsTask
CHECK_DEADLOCK FALSE
