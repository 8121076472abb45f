SPECIFICATION Spec
CONSTANTS
  t1 = t1
  t2 = t2
  t3 = t3
  None = None
  Task = {t1, t2, t3}
  MaxPrio = 3
  BITS_PER_LONG = 6
  INT_BITS = 3
  UsesSets <- MCEachUse
  MaxExec = 1
SYMMETRY MCSymmetry
INVARIANTS
  TypeOK
  JobsQueued
  HighestHasCore
  SearchesExact
  ChainExact
  NoJiffyLost
  GlobalListSorted
