SPECIFICATION Spec
CONSTANTS
  n1 = n1
  n2 = n2
  n3 = n3
  Server = {n1, n2, n3}
  INT_SIZE_BIT = 3
  NoServer = NoServer
  Priorities <- MCPriorities
  Period = {2, 5}
INVARIANTS
  QueuesExact
PROPERTIES
  ImplementsTimetable
