SPECIFICATION FairSpec
CONSTANTS
  p1 = p1
  p2 = p2
  Peers <- MCPeers
  MAX_ARGS = 4
  SEND_BUFFER = 2
  RECV_BUFFER = 2
  CAPACITY = 3
  MAX_TYPED = 3
  MAX_CREDIT = 2
  MAX_EVENTS = 3
INVARIANTS
  TypeOK
  NoConnectionLeft
  ConnectionThere
PROPERTIES
  SessionSpec
  DisconnectReturns
\* A panic ends it.
CHECK_DEADLOCK FALSE
