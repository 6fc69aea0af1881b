SPECIFICATION MCSpec
CONSTANTS
  Proc = {p1, p2}
  Char = {x, y}
  NL = NL
  EOF = EOF
  INPUT_BUF = 3
  UINT = 6
  MAXN = 2
  Cpu = {c1, c2}
  None = None
  COLS = 2
  LINES = 2
  BYTE = 2
  LEN = 2
  MAXQ = 3
SYMMETRY Perms
 
PROPERTIES IsLineInput MessagesWhole
CHECK_DEADLOCK FALSE
