SPECIFICATION FairSpec
CONSTANTS
  Timeouts = {FALSE}
  Configs = {FALSE}
  Window = 2
  ReplyWindow = 2
  ServerBuffer = 1
  Bodies <- MCChat
  Styles = {"echo"}
  Replies = {0}
PROPERTIES EveryCallReturns
CHECK_DEADLOCK FALSE
