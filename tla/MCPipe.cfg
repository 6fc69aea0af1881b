SPECIFICATION Spec
CONSTANTS
  Reader = {r1}
  Writer = {w1, w2}
  Free = Free
  Killable = {r1}
  PIPESIZE = 2
  UINT = 4
  Byte = {0, 1}
  MAXN = 3
SYMMETRY Ends
INVARIANTS NoLostWakeup PipeConsistent
PROPERTIES IsFifo
CHECK_DEADLOCK FALSE
