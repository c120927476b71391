SPECIFICATION FairSpec
CONSTANTS
  Tokens = {t1, t2}
  Hosts = {h1, h2}
  Reqs = {r1, r2}
  Daemon = Daemon
  Cli = Cli
  Mint = Mint
  Issuers = {Cli}
  Processes <- WithCli
  NoHost = NoHost
  NoHandle = NoHandle
  NoJob = NoJob
  NoToken = NoToken
INVARIANTS
  TypeOK
  SpentOnceUnlessTakenBack
  LedgerRemembers
  NoPhantomSpend
PROPERTY EnrolmentEnds
