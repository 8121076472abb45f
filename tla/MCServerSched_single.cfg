SPECIFICATION FairSpec
CONSTANTS
  s1 = s1
  s2 = s2
  s3 = s3
  None = None
  Server = {s1}
  Periods = {2, 3, 4, 5}
  MemBudget = 2
  ServerParams <- AllConfigs
  INT_SIZE_BIT = 4
  JIFFIES_MOD = 16
  StartDelay = 1
  MaxLate = 0
  MaxOverdraw = 0
  USE_MEMSCHEDx = TRUE
  StrayTasks = TRUE
INVARIANTS
  ReleaseQueueExact
