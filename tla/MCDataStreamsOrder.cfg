\* The browser's socket: the stream across renewals.
SPECIFICATION FairSpec
CONSTANTS
  h1 = h1  h2 = h2
  MaxSockets = 3
  MaxEvent = 2
  MaxNotices = 0
  MaxDrops = 0
  Hosts <- OneHost
  FirstHost = h1
  Node = FALSE
  Notices = {}
  OnOpen = {"subscribe"}
  AckWhenOpen = TRUE
  Closes = FALSE
  Leaving = {}
PROPERTIES DeliversInOrder AckedOnce StreamContinues
CHECK_DEADLOCK FALSE
