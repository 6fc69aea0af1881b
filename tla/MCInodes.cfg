SPECIFICATION MCSpec
CONSTANTS
  Proc = {p1, p2}
  None = None
  NINODES = 3
  MAXLINK = 3
  Name = {"a", "b"}
  CacheProc = {q1, q2, q3}
  NINODE = 2
  Programs <- Both
SYMMETRY Perms
INVARIANTS ReferencesExact InUseAllocated LinkCount NoWaitCycle InodesConsistent
CHECK_DEADLOCK FALSE
