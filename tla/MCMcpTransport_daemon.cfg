SPECIFICATION Spec
CONSTANTS
  Host = {h1}
  ActiveThreshold = 1
  StaleTimeout = 3
  Heartbeat = 2
  Unseen = Unseen
  Conn = {c1, c2}
  Request = {r1, r2, r3}
  NoConn = NoConn
  MaxSSEConns = 1
  QueueSize = 1
INVARIANTS
  TypeOK
  ConnectionsAccounted
  AnswersReachTheirClient
  RosterMissesNoStreamingAgent
SYMMETRY Alike
