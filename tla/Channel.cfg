SPECIFICATION FairSpec
CONSTANTS
  Timeouts = {TRUE, FALSE}
  Configs = {TRUE, FALSE}
  Window = 2
  ReplyWindow = 2
  ServerBuffer = 1
  Bodies <- MCBodies
  Styles = {"collect", "echo", "early"}
  Replies = {0, 3}
INVARIANTS FailedConnectCleans BackPressure NoTruncatedRequest NoTruncatedResponse
PROPERTIES CallReturns ResponseEnds PeerSeesFailure DroppedIsClosed
CHECK_DEADLOCK FALSE
