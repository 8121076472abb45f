SPECIFICATION FairSpec
CONSTANTS
  t1 = t1
  t2 = t2
  None = None
  Kthread = Kthread
  Task = {t1, t2}
  Cpu = {0, 1}
  Prios = {2, 3}
  Movers = {t1}
  PREEMPT = FALSE
  WakeAnywhere = FALSE
INVARIANTS
  TypeOK
  QueueOfCpu
  RequestExact
PROPERTIES
  RequestServed
