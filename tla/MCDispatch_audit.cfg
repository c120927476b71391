SPECIFICATION Spec
CONSTANTS
  Invs = {i1}
  Calls = {t1}
  Hosts = {h1}
  Tools = {"run_check", "query_fleet", "run_batch"}
  MaxItems = 1
  MaxWork = 1
  MaxCommands = 1
  MaxBudget = 1
  MaxActive = 1
  FanoutLimit = 1
  MaxFails = 1
  NoHost = NoHost
  NoInv = NoInv
  NoItem = NoItem
  Empty = Empty
  Torn = Torn
INVARIANT AuditedBeforeExecution
CHECK_DEADLOCK FALSE
