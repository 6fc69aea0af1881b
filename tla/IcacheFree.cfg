SPECIFICATION Spec
CONSTANTS
  Proc = {p1, p2}
  NINODES = 2
  NINODE = 3
  None = None
INVARIANT NamedIsAllocated
CHECK_DEADLOCK FALSE
