SPECIFICATION FairSpec
CONSTANTS
  s1 = s1
  s2 = s2
  t1 = t1
  t2 = t2
  t3 = t3
  None = None
  Server = {s1, s2}
  Task = {t1, t3}
  Priorities <- MCPriorities
  server_id <- MCserver_id
  InterruptAt <- MCHookAndSleep
  LateTask = {}
  EarlyTask = {}
  BlockingTask = {}
  ExitingTask = {}
  USE_MEMSCHEDx = FALSE
  MaxLinks = 2
INVARIANTS
  ActiveQueueExact
PROPERTIES
  ReleasedBeforeStart
  JobServed
