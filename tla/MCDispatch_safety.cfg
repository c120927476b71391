SPECIFICATION Spec
CONSTANTS
  Invs = {i1}
  Calls = {t1, t2}
  Hosts = {h1}
  Tools = {"query_fleet", "run_batch"}
  MaxItems = 2
  MaxWork = 2
  MaxCommands = 1
  MaxBudget = 2
  MaxActive = 1
  FanoutLimit = 1
  MaxFails = 1
  NoHost = NoHost
  NoInv = NoInv
  NoItem = NoItem
  Empty = Empty
  Torn = Torn
SYMMETRY Symmetry
INVARIANTS
  TypeOK
  NothingRunsUnaccounted
  BudgetAccounting
  InvestigationLogAgrees
  ResultFilesGenuine
CHECK_DEADLOCK FALSE
