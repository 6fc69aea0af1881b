SPECIFICATION Spec
CONSTANTS
    Proc = {p1, p2}
    Val = {0, 1}
    Zero = 0
    MAXOPBLOCKS = 2
    OPBLOCKS = 2
    LOGSIZE = 4
    NLOG = 5
    NBLOCK = 3
INVARIANTS QuiescentDurable LogConsistent
PROPERTIES CrashAtomic
