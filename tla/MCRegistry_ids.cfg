SPECIFICATION Spec
CONSTANTS
  p1 = p1
  p2 = p2
  p3 = p3
  None = None
  Process = {p1, p2, p3}
  NR_RT_TASKS = 2
  BITS_PER_LONG = 2
  INT_BITS = 1
  NR_OF_SERVERS = 2
  MAX_NR_OF_TASKS_IN_SERVER = 2
  Scenarios <- MCScenarios
  MaxRuns = 2
SYMMETRY MCSymmetry
INVARIANTS
  TypeOK
  AskedServer
  EventsReleased
PROPERTIES
  ImplementsIds
CHECK_DEADLOCK
  FALSE
