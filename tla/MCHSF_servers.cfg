SPECIFICATION Spec
CONSTANTS
  s1 = s1
  s2 = s2
  t1 = t1
  t2 = t2
  t3 = t3
  None = None
  Server = {s1, s2}
  Task = {t1, t3}
  Priorities <- MCBothOrders
  server_id <- MCserver_id
  InterruptAt <- MCKeepsMarks
  LateTask = {t1}
  EarlyTask = {t3}
  BlockingTask = {t3}
  ExitingTask = {t3}
  USE_MEMSCHEDx = TRUE
  MaxLinks = 2
INVARIANTS
  TypeOK
  TaskRunsInServer
  NoTaskLost
