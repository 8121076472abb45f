SPECIFICATION FairSpec
CONSTANTS
  s1 = s1
  s2 = s2
  s3 = s3
  None = None
  Server = {s1, s2}
  Periods = {3, 4}
  MemBudget = 0
  ServerParams <- AllConfigs
  INT_SIZE_BIT = 4
  JIFFIES_MOD = 16
  StartDelay = 1
  MaxLate = 1
  MaxOverdraw = 0
  USE_MEMSCHEDx = FALSE
  StrayTasks = FALSE
INVARIANTS
  BudgetBound
PROPERTIES
  WaitsForNewPeriod
  ImplementsServers
