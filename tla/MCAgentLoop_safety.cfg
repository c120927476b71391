SPECIFICATION Spec
CONSTANTS
  Cmds = {c1, c2}
  Invs = {i1, i2}
  Requests = {r1, r2}
  Host = Host
  NoHost = NoHost
  NoRequest = NoRequest
  MaxAttempts = 2
  MaxCrashes = 1
  MaxStray = 1
INVARIANTS
  TypeOK
  ExecutedOnce
  EveryCommandAccountedFor
PROPERTY LossHasItsReason
SYMMETRY Symmetry
