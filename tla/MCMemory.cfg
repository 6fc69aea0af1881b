SPECIFICATION MCSpec
CONSTANTS
  Proc = {p1, p2}
  Value = {x}
  Zero = Zero
  Junk = Junk
  Gone = Gone
  NPAGES = 20
  NPTE = 2
  U = 2
  MAXIMG = 1
  Grows <- SomeGrows
  FIRST = 2
  LIMIT = 9
  HDR = 2
  MINCORE = 3
  MAXBYTES = 5
  DIRSIZ = 2
  BITS = 8
  CELLS = 5
  MAXSTR = 3
  MAXPATH = 5
  MAXRE = 4
SYMMETRY Perms
VIEW Shape
INVARIANTS  HeapConsistent LibraryExact
PROPERTIES IsAddrSpace
CHECK_DEADLOCK FALSE
