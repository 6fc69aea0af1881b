SPECIFICATION Spec
CONSTANTS
  Inode = {i1, i2}
  File = {f1, f2}
  Proc = {p1, p2}
  None = None
  Word = {1, 2}
  WriteData <- Writes
  ReadLens = {1, 2}
  BSIZE = 2
  NDIRECT = 1
  NINDIRECT = 2
  NBLOCKS = 4
  LOGSIZE = 6
SYMMETRY Perms
VIEW Live
INVARIANTS BlocksConsistent
PROPERTIES  IsByteFile
CHECK_DEADLOCK FALSE
