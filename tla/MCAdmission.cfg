SPECIFICATION AdmissionSpec
CONSTANTS
  t1 = t1
  t2 = t2
  t3 = t3
  RtTask = {t1, t2, t3}
  priority <- MCpriority
  USEC_1MSEC = 2
  MSEC_1SEC = 2
  HZ = 2
  ULONG_MOD = 256
  PeriodArgs <- MCPeriodArgs
  DeadlineArgs <- MCDeadlineArgs
  WcetArgs <- MCWcetArgs
  ClockArgs <- MCClockArgs
SYMMETRY MCSymmetry
INVARIANTS
  AdmissionTypeOK
  AnalysisSound
  AnalysesAgree
  CostIsLongest
