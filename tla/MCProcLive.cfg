SPECIFICATION LiveSpec
CONSTANTS
    NPROC = 3
    CPU = {c0}
    BootCPU = c0
    NoCPU = nocpu
    TICKMOD = 2
    SleepArgs = {1}
    KillPids = {1, 2, 3}
    MAXPID = 4
PROPERTIES EventuallyRuns
    KilledExits OrphansReaped
