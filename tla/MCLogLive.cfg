SPECIFICATION LiveSpec
CONSTANTS
    Proc = {p1, p2}
    Val = {0, 1}
    Zero = 0
    MAXOPBLOCKS = 2
    OPBLOCKS = 1
    LOGSIZE = 4
    NLOG = 4
    NBLOCK = 3
 
PROPERTIES LogProgress
