SPECIFICATION Spec
CONSTANTS
    NPROC = 3
    CPU = {c0, c1}
    BootCPU = c0
    NoCPU = nocpu
    TICKMOD = 2
    SleepArgs = {1}
    KillPids = {0, 2}
    MAXPID = 3
INVARIANTS NoMissedTick SchedAsserts LockDiscipline StackSafe NoLostExit HaltInterruptible TableConsistent
PROPERTIES LifeCycle
