\* Node's WebSocket, which delivers while it closes: every notice, a second connection
\* after a key mismatch, a lost connection, close() and unsubscribe(), and the stream
\* through all of it.
SPECIFICATION Spec
CONSTANTS
  h1 = h1  h2 = h2
  MaxSockets = 2
  MaxEvent = 2
  MaxNotices = 1
  MaxDrops = 1
  Hosts <- TwoHosts
  FirstHost = h1
  Node = TRUE
  Notices = {"switch", "keyMismatch", "down"}
  OnOpen = {"subscribe", "close", "nothing"}
  AckWhenOpen = FALSE
  Closes = TRUE
  Leaving = {2}
INVARIANTS OneLivePerFallback NothingSkipped
CHECK_DEADLOCK FALSE
