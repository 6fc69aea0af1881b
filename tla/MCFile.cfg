SPECIFICATION LiveSpec
CONSTANTS
  Init1 = p1
  Proc = {p1, p2}
  NFILE = 2
  NOFILE = 2
  Inode = {i1, i2}
  RootIno = i1
  Pipe = {k1}
  None = None
VIEW LiveFields
INVARIANTS RefsExact
 
