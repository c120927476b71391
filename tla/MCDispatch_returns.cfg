SPECIFICATION FairSpec
CONSTANTS
  Invs = {i1}
  Calls = {t1}
  Hosts = {h1}
  Tools = {"run_check", "query_fleet", "run_batch"}
  MaxItems = 2
  MaxWork = 2
  MaxCommands = 1
  MaxBudget = 2
  MaxActive = 1
  FanoutLimit = 1
  MaxFails = 1
  NoHost = NoHost
  NoInv = NoInv
  NoItem = NoItem
  Empty = Empty
  Torn = Torn
PROPERTY CallReturns
CHECK_DEADLOCK FALSE
