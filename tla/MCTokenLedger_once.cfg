SPECIFICATION Spec
CONSTANTS
  Tokens = {t1, t2}
  Hosts = {h1, h2}
  Reqs = {r1, r2}
  Daemon = Daemon
  Cli = Cli
  Mint = Mint
  Issuers = {Mint}
  Processes <- WithMint
  NoHost = NoHost
  NoHandle = NoHandle
  NoJob = NoJob
  NoToken = NoToken
INVARIANT TokenUsedOnce
