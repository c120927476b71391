SPECIFICATION Spec
CONSTANTS
  Hosts = {h1, h2}
  Cmds = {c1, c2}
  Streams = {s1, s2}
  Calls = {d1, d2}
  ChanCap = 1
  NoHost = NoHost
  NoStream = NoStream
  NoCmd = NoCmd
SYMMETRY Symmetry
INVARIANTS
  TypeOK
  HandedOutOnce
  SendNeverBlocks
  RegisteredStreamIsLive
  RegistrationBlocksOnlyOnBacklog
PROPERTIES
  ImplementsContract
  NewerStreamSurvives
