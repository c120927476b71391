SPECIFICATION Spec
CONSTANTS
  d1 = d1
  r1 = r1
  old = old
  new = new
  None = None
  Daemon = {d1}
  Rotation = {r1}
  SanList = {old, new}
  Covering = {old, new}
  Life = 3
  Window = 2
  Pinning = TRUE
  MaxNow = 3
  MaxMishaps = 1
  MaxRuns = 1
  MaxCa = 2
  MaxPairs = 2
  MaxAgentPairs = 2
INVARIANTS
  TypeOK
  EnrolledAgentIsServed
  TornOnlyByMishap
  LapseHasItsReason
  WatchesItsOwnCertificate
SYMMETRY SanLists
CHECK_DEADLOCK FALSE
