SPECIFICATION FairSpec
CONSTANTS
  s1 = s1
  s2 = s2
  s3 = s3
  None = None
  Server = {s1, s2, s3}
  Periods = {2, 3, 5}
  MemBudget = 0
  ServerParams <- MCConfigs
  INT_SIZE_BIT = 2
  JIFFIES_MOD = 16
  StartDelay = 1
  MaxLate = 0
  MaxOverdraw = 0
  USE_MEMSCHEDx = FALSE
  StrayTasks = FALSE
INVARIANTS
  TypeOK
  ReleaseQueueExact
PROPERTIES
  ReleasedOnPeriod
  ImplementsFPServers
  ServedForever
