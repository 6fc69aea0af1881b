----------------------------- MODULE ProcProofs -----------------------------
(***************************************************************************)
(* The steps of scheduler() and sched() keep the inductive invariant, and so *)
(* does every step of the system: the safety properties of Proc hold for any *)
(* number of slots and CPUs.                                               *)
(***************************************************************************)
EXTENDS ProcStepProofs

USE NPROCAssumption, CPUAssumption, TicksAssumption, PidAssumption

\* scheduler() enables interrupts at the top of its loop.
LEMMA SchedStiStep ==
  ASSUME NEW c \in CPU, IInv, SchedSti(c) PROVE IInv'
<1>a. ncli[c] = 0 /\ ptlock # c /\ tickslock # c /\ ~intena[c] /\ cpc[c] = "sti" /\ tick[c] = "none"
  BY CpuLocks, Zenon DEF SchedSti
<1>b. UNCHANGED <<ptable, thread, proc, tick, idx, skipped, ncli, intena, ticks, tickslock,
                  ptlock, panicked>>
  BY Zenon DEF SchedSti, clock
<1>c. LockStep(c) /\ flIF'[c] /\ ticks' \in 0..(TICKMOD - 1)
  BY <1>b, Zenon DEF SchedSti, LockStep, LockType, IInv, TypeOK
<1>d. CpuMoved(c) /\ cpc'[c] = "acquire"
  BY <1>b, Zenon DEF SchedSti, CpuMoved, IInv, TypeOK, CpuType, CpcLoc
<1>e. CpuOk(c) /\ ScanOk(c)
  BY Zenon DEF IInv, CpuInv, ScanInv
<1>1. CpuOk(c)' /\ ScanOk(c)'
  BY <1>a, <1>b, <1>d, <1>e, Zenon DEF CpuOk, ScanOk
<1>2. IntrOk(c)'
  BY <1>a, <1>b, <1>c, <1>d, Zenon DEF IntrOk
<1>3. LockOk(c)'
  BY <1>a, <1>b, <1>d, NoLock, Zenon
<1> QED  BY <1>b, <1>c, <1>d, <1>1, <1>2, <1>3, CpuStep, Zenon DEF LocalInv

\* scheduler() acquires ptable.lock with interrupts on, so it saves intena = 1.
LEMMA SchedAcquireStep ==
  ASSUME NEW c \in CPU, IInv, SchedAcquire(c) PROVE IInv'
<1>a. ncli[c] = 0 /\ tickslock # c /\ flIF[c] /\ cpc[c] = "acquire" /\ tick[c] = "none"
  BY CpuLocks, Zenon DEF SchedAcquire, IInv, IntrInv, IntrOk
<1>b. /\ UNCHANGED <<ptable, thread, proc, tick, idx, skipped, ticks, tickslock, panicked>>
      /\ AcquirePtable(c, flIF[c]) /\ ptlock' = c
  BY Zenon DEF SchedAcquire, AcquirePtable, clock
<1>c. /\ LockStep(c) /\ ncli'[c] = 1 /\ ~flIF'[c] /\ intena'[c] = flIF[c]
      /\ ticks' \in 0..(TICKMOD - 1)
  <2>1. flIF[c] \in BOOLEAN /\ ticks' \in 0..(TICKMOD - 1)
    BY <1>b, Zenon DEF IInv, TypeOK, LockType
  <2> QED  BY <1>a, <1>b, <2>1, AcquireStep, Zenon DEF IInv
<1>d. CpuMoved(c) /\ cpc'[c] = "scan"
  BY <1>b, Zenon DEF SchedAcquire, CpuMoved, IInv, TypeOK, CpuType, CpcLoc
<1>e. CpuOk(c) /\ ScanOk(c)
  BY Zenon DEF IInv, CpuInv, ScanInv
<1>f. intena'[c]
  BY <1>a, <1>c, Zenon
<1>1. CpuOk(c)'
  BY <1>a, <1>b, <1>d, <1>e, Zenon DEF CpuOk
<1>2. ScanOk(c)'
  <2>1. skipped'[c] < NPROC + idx'[c]
    BY <1>a, <1>b, <1>e DEF ScanOk, IInv, TypeOK, CpuType
  <2> QED  BY <1>d, <1>f, <2>1, Zenon DEF ScanOk
<1>3. IntrOk(c)'
  BY <1>a, <1>b, <1>c, <1>d, Zenon DEF IntrOk
<1>4. LockOk(c)'
  BY <1>a, <1>b, <1>c, <1>d, OneLock, Zenon DEF HoldsPtable, HoldsTicks, At
<1> QED  BY <1>b, <1>c, <1>d, <1>1, <1>2, <1>3, <1>4, CpuStep, Zenon DEF LocalInv

\* The scan passes a slot that is not RUNNABLE.
LEMMA SchedSkipStep ==
  ASSUME NEW c \in CPU, IInv, SchedSkip(c) PROVE IInv'
<1>a. ncli[c] = 1 /\ tickslock # c /\ ptlock = c /\ cpc[c] = "scan" /\ tick[c] = "none"
  BY CpuLocks, Zenon DEF SchedSkip
<1>b. UNCHANGED <<ptable, thread, proc, cpc, tick, flIF, ncli, intena, ticks, tickslock, ptlock,
                  panicked>>
  BY Zenon DEF SchedSkip, cpuint, clock
<1>c. LockStep(c) /\ ticks' \in 0..(TICKMOD - 1)
  BY <1>b, Zenon DEF LockStep, LockType, IInv, TypeOK
<1>d. CpuOk(c) /\ IntrOk(c) /\ ScanOk(c) /\ LockOk(c)
  BY Zenon DEF IInv, CpuInv, IntrInv, ScanInv, LockDiscipline
<1>e. idx[c] \in 1..NPROC /\ skipped[c] \in Nat /\ skipped[c] + 1 \in 0..(2 * NPROC)
  BY <1>a, <1>d DEF SchedSkip, ScanOk, IInv, TypeOK, CpuType
<1>f. CpuMoved(c) /\ idx'[c] = idx[c] + 1 /\ skipped'[c] = skipped[c] + 1
  BY <1>b, <1>e DEF SchedSkip, CpuMoved, IInv, TypeOK, CpuType
<1>1. ScanOk(c)'
  BY <1>a, <1>b, <1>d, <1>e, <1>f DEF ScanOk
<1>2. CpuOk(c)' /\ IntrOk(c)'
  BY <1>a, <1>b, <1>d, Zenon DEF CpuOk, IntrOk
<1>3. LockOk(c)'
  BY <1>a, <1>b, <1>d, Zenon DEF LockOk, HoldsPtable, HoldsTicks, At
<1> QED  BY <1>b, <1>c, <1>f, <1>1, <1>2, <1>3, CpuStep, Zenon DEF LocalInv

\* scheduler() switches to a RUNNABLE process: no other CPU has it, since this CPU
\* holds ptable.lock and a process leaves its CPU under that lock.
LEMMA SchedRunStep ==
  ASSUME NEW c \in CPU, IInv, SchedRun(c) PROVE IInv'
<1> DEFINE p == idx[c]
<1>a. ncli[c] = 1 /\ tick[c] = "none" /\ tickslock # c /\ ptlock = c
  BY CpuLocks, Zenon DEF SchedRun
<1> /\ cpc[c] = "scan" /\ state[p] = "RUNNABLE" /\ p = idx[c]
    /\ UNCHANGED <<pid, parent, chan, killed, nextpid, pc, frame, np, ticks0, nsleep, tick,
                   idx, flIF, ncli, ticks, tickslock, ptlock, panicked>>
  BY Zenon DEF SchedRun, clock
<1>b. /\ state' = [state EXCEPT ![p] = "RUNNING"] /\ proc' = [proc EXCEPT ![c] = p]
      /\ cpc' = [cpc EXCEPT ![c] = "proc"] /\ skipped' = [skipped EXCEPT ![c] = 0]
      /\ savedena' = [savedena EXCEPT ![p] = FALSE]
  BY Zenon DEF SchedRun
<1>c. p \in Slot /\ proc[c] = NoProc
  BY DEF SchedRun, IInv, TypeOK, CpuType, CpuInv, CpuOk, Slot
<1>d. pc[p] \in ParkLoc /\ savedena[p] = FALSE
  BY <1>c DEF IInv, TypeOK, ThreadType, TableInv, SlotInv, SlotOk
<1>e. intena' \in [CPU -> BOOLEAN] /\ \A d \in CPU \ {c} : intena'[d] = intena[d]
  BY <1>d, Zenon DEF SchedRun, IInv, TypeOK, LockType
<1>i. pc[p] # "forkret" => ~intena'[c]
  BY <1>d, Zenon DEF SchedRun, IInv, TypeOK, LockType
<1>f. \A d \in CPU : proc[d] # p
  <2> SUFFICES ASSUME NEW d \in CPU, proc[d] = p PROVE FALSE
    BY Zenon
  <2>1. cpc[d] = "sched"
    BY <1>c, SlotFacts DEF IInv, CpuInv, CpuOk, TypeOK, CpuType, CpcLoc
  <2> QED  BY <1>a, <2>1, Zenon DEF IInv, LockDiscipline, LockOk, HoldsPtable
<1> HIDE DEF p
<1>1. TypeOK'
  <2>1. TableType'
    BY <1>b, Zenon DEF IInv, TypeOK, TableType, ProcState
  <2>2. ThreadType'
    BY <1>b, Zenon DEF IInv, TypeOK, ThreadType
  <2>3. CpuType'
    BY <1>b, <1>c DEF IInv, TypeOK, CpuType, CpcLoc
  <2>4. LockType'
    BY <1>e, Zenon DEF IInv, TypeOK, LockType
  <2> QED  BY <2>1, <2>2, <2>3, <2>4, Zenon DEF IInv, TypeOK
<1>g. /\ \A r \in Slot : state'[r] = (IF r = p THEN "RUNNING" ELSE state[r])
      /\ \A r \in Slot : savedena'[r] => savedena[r]
  BY <1>b, Zenon DEF IInv, TypeOK, TableType, ThreadType
<1>h. /\ \A d \in CPU : proc'[d] = (IF d = c THEN p ELSE proc[d])
      /\ \A d \in CPU : cpc'[d] = (IF d = c THEN "proc" ELSE cpc[d])
      /\ \A d \in CPU : skipped'[d] = (IF d = c THEN 0 ELSE skipped[d])
      /\ \A d \in CPU : proc[d] # NoProc => proc[d] \in Slot
  BY <1>b, Zenon DEF IInv, TypeOK, CpuType
<1>2. Undisturbed(c)
  BY <1>e, <1>f, <1>g, <1>h DEF Undisturbed
<1>3. LocalInv(c)'
  <2>1. ~flIF[c]
    BY Zenon DEF IInv, IntrInv, IntrOk
  <2>2. CpuOk(c)' /\ ScanOk(c)'
    BY <1>c, <1>f, <1>g, <1>h, SlotFacts DEF CpuOk, ScanOk
  <2>3. IntrOk(c)'
    BY <1>a, <1>d, <1>h, <1>i, <2>1, Zenon DEF IntrOk
  <2>4. LockOk(c)'
    BY <1>a, <1>d, <1>h, <2>1, OneLock, Zenon DEF HoldsPtable, HoldsTicks, At, ParkLoc
  <2> QED  BY <2>2, <2>3, <2>4, Zenon DEF LocalInv
<1>4. SlotInv'
  <2>1. SlotInv
    BY Zenon DEF IInv, TableInv
  <2>2. \A r \in Slot : (\E d \in CPU : proc[d] = r) => \E d \in CPU : proc'[d] = r
    BY <1>c, <1>h, SlotFacts, Zenon
  <2> QED  BY <1>c, <1>d, <1>g, <1>h, <2>1, <2>2 DEF SlotInv, SlotOk, ParkLoc, Live
<1>5. ForkInv' /\ LiveParents' /\ UniquePids' /\ NoLostExit' /\ NoKilledWaiter'
  BY <1>g, LiveFrame, WaitFrame, Zenon DEF Live
<1> QED  BY <1>1, <1>2, <1>3, <1>4, <1>5, OtherCpus, Zenon DEF IInv, TableInv

\* scheduler() releases ptable.lock; when it halts, its own intena is restored.
LEMMA SchedDoneStep ==
  ASSUME NEW c \in CPU, IInv, SchedDone(c) PROVE IInv'
<1>a. ncli[c] = 1 /\ tick[c] = "none" /\ tickslock # c /\ ptlock = c /\ cpc[c] = "scan"
  BY CpuLocks, Zenon DEF SchedDone
<1>b. UNCHANGED <<ptable, thread, proc, tick, ticks, tickslock, panicked>> /\ ptlock' = NoCPU
  BY Zenon DEF SchedDone, ReleasePtable, clock
<1>c. /\ LockStep(c) /\ ncli'[c] = 0 /\ ~intena'[c] /\ (intena[c] => flIF'[c])
      /\ ticks' \in 0..(TICKMOD - 1)
  <2>1. ticks' \in 0..(TICKMOD - 1)
    BY <1>b, Zenon DEF IInv, TypeOK
  <2> QED  BY <1>a, <1>b, <2>1, ReleaseStep, Zenon DEF SchedDone, IInv
<1>d. CpuOk(c) /\ IntrOk(c) /\ ScanOk(c)
  BY Zenon DEF IInv, CpuInv, IntrInv, ScanInv
<1>e. /\ CpuMoved(c) /\ idx'[c] = 1 /\ skipped'[c] \in Nat /\ skipped'[c] <= NPROC
      /\ cpc'[c] = "sti" \/ (cpc'[c] = "hlt" /\ Idle(c))
  <2>1. CASE Idle(c)
    BY <1>b, <2>1 DEF SchedDone, CpuMoved, IInv, TypeOK, CpuType, CpcLoc
  <2>2. CASE ~Idle(c)
    BY <1>b, <2>2 DEF SchedDone, Idle, CpuMoved, IInv, TypeOK, CpuType, CpcLoc
  <2> QED  BY <2>1, <2>2, Zenon
<1>f. Idle(c) => intena[c]
  <2>1. idx[c] \in 1..(NPROC + 1) /\ skipped[c] \in Nat
    BY DEF IInv, TypeOK, CpuType
  <2> QED  BY <1>a, <1>d, <2>1 DEF SchedDone, Idle, ScanOk
<1>1. CpuOk(c)' /\ ScanOk(c)'
  BY <1>a, <1>b, <1>d, <1>e, Zenon DEF CpuOk, ScanOk
<1>2. IntrOk(c)'
  BY <1>a, <1>b, <1>c, <1>e, <1>f, Zenon DEF IntrOk
<1>3. LockOk(c)'
  BY <1>a, <1>b, <1>c, <1>e, NoLock, Zenon
<1> QED  BY <1>b, <1>c, <1>e, <1>1, <1>2, <1>3, CpuStep, Zenon DEF LocalInv

\* sched() leaves the thread and saves an intena of 0.
LEMMA SchedStep ==
  ASSUME NEW c \in CPU, IInv, Sched(c) PROVE IInv'
<1>a. ncli[c] = 1 /\ tick[c] = "none" /\ ~intena[c] /\ tickslock # c /\ ptlock = c /\ cpc[c] = "sched"
  BY CpuLocks, Zenon DEF Sched
<1> /\ UNCHANGED <<state, pid, parent, chan, killed, nextpid, pc, frame, np, ticks0, nsleep>>
    /\ UNCHANGED <<tick, skipped, flIF, ncli, intena, ticks, tickslock, ptlock, panicked>>
  BY Zenon DEF Sched, ptable, cpuint, clock
<1>b. CpuOk(c) /\ ScanOk(c) /\ IntrOk(c) /\ LockOk(c)
  BY Zenon DEF IInv, CpuInv, ScanInv, IntrInv, LockDiscipline
<1>c. /\ proc[c] \in Slot /\ idx[c] = proc[c] /\ skipped[c] = 0
      /\ state[proc[c]] \in {"RUNNABLE", "SLEEPING", "ZOMBIE"}
  BY <1>a, <1>b, SlotFacts, Zenon DEF IInv, TypeOK, CpuType, CpuOk, ScanOk
<1>d. savedena' = [savedena EXCEPT ![proc[c]] = FALSE]
  BY <1>a, Zenon DEF Sched, IInv, TypeOK, LockType
<1>e. /\ proc' = [proc EXCEPT ![c] = NoProc] /\ cpc' = [cpc EXCEPT ![c] = "scan"]
      /\ idx' = [idx EXCEPT ![c] = @ + 1] /\ idx[c] + 1 \in 1..(NPROC + 1)
  BY <1>c DEF Sched, Slot
<1>1. TypeOK'
  <2>1. TableType' /\ ThreadType' /\ LockType'
    BY <1>d, Zenon DEF IInv, TypeOK, TableType, ThreadType, LockType
  <2>2. CpuType'
    BY <1>e, Zenon DEF IInv, TypeOK, CpuType, CpcLoc
  <2> QED  BY <2>1, <2>2, Zenon DEF IInv, TypeOK
<1>f. /\ \A d \in CPU : proc'[d] = (IF d = c THEN NoProc ELSE proc[d])
      /\ \A d \in CPU : cpc'[d] = (IF d = c THEN "scan" ELSE cpc[d])
      /\ \A d \in CPU : d # c => idx'[d] = idx[d]
      /\ idx'[c] = idx[c] + 1
  BY <1>e, Zenon DEF IInv, TypeOK, CpuType
<1>2. Undisturbed(c)
  BY <1>f, Zenon DEF Undisturbed
<1>3. LocalInv(c)'
  <2>1. idx'[c] \in Nat /\ idx'[c] > 0 /\ skipped[c] = 0
    BY <1>c, <1>f DEF Slot
  <2>2. CpuOk(c)' /\ ScanOk(c)'
    BY <1>f, <2>1 DEF CpuOk, ScanOk
  <2>3. IntrOk(c)' /\ LockOk(c)'
    BY <1>a, <1>b, <1>f, Zenon DEF IntrOk, LockOk, HoldsPtable, HoldsTicks, At
  <2> QED  BY <2>2, <2>3, Zenon DEF LocalInv
<1>4. SlotInv'
  <2>1. SlotInv
    BY Zenon DEF IInv, TableInv
  <2>2. \A r \in Slot : savedena'[r] => savedena[r]
    BY <1>d, Zenon DEF IInv, TypeOK, ThreadType
  <2> QED  BY <1>c, <1>f, <2>1, <2>2 DEF SlotInv, SlotOk
<1>5. ForkInv' /\ LiveParents' /\ UniquePids' /\ NoLostExit' /\ NoKilledWaiter'
  BY LiveFrame, WaitFrame, Zenon
<1> QED  BY <1>1, <1>2, <1>3, <1>4, <1>5, OtherCpus, Zenon DEF IInv, TableInv

\* The initial state: userinit has run on an empty table.
LEMMA InitIInv == Init => IInv
<1> SUFFICES ASSUME Init PROVE IInv
  BY Zenon
<1>1. TypeOK
  <2>1. TableType
    BY SlotFacts, ChanFacts DEF Init, TableType, ProcState, initproc, NoProc
  <2>2. ThreadType
    BY SlotFacts, ChanFacts DEF Init, ThreadType, PcLoc, initproc, NoProc
  <2>3. CpuType
    BY SlotFacts DEF Init, CpuType, CpcLoc, NoProc
  <2>4. LockType
    BY SlotFacts, ChanFacts DEF Init, LockType
  <2>5. ticks = 0 /\ panicked = FALSE
    BY Zenon DEF Init
  <2>6. 0 \in 0..(TICKMOD - 1)
    BY TicksAssumption
  <2> QED  BY <2>1, <2>2, <2>3, <2>4, <2>5, <2>6, Zenon DEF TypeOK
<1>2. CpuInv /\ IntrInv /\ ScanInv
  BY DEF Init, CpuInv, CpuOk, IntrInv, IntrOk, ScanInv, ScanOk
<1>3. LockDiscipline
  BY CPUAssumption DEF Init, LockDiscipline, LockOk, HoldsPtable, HoldsTicks, At
<1>4. SlotInv /\ ForkInv
  BY SlotFacts, Zenon DEF Init, SlotInv, SlotOk, ForkInv, ParkLoc, Live
<1>5. LiveParents /\ UniquePids
  BY SlotFacts DEF Init, LiveParents, UniquePids
<1>6. NoLostExit /\ NoKilledWaiter
  BY Zenon DEF Init, NoLostExit, NoKilledWaiter, Zombies, Kids
<1> QED  BY <1>1, <1>2, <1>3, <1>4, <1>5, <1>6, Zenon DEF IInv, TableInv

\* Every step of every CPU, and a step that changes nothing, keeps IInv.
LEMMA NextIInv == IInv /\ [Next]_vars => IInv'
<1> SUFFICES ASSUME IInv, [Next]_vars PROVE IInv'
  BY Zenon
<1>1. ASSUME NEW c \in CPU, KernelStep(c) PROVE IInv'
  BY <1>1, SchedStiStep, SchedAcquireStep, SchedSkipStep, SchedRunStep, SchedDoneStep,
     SchedStep, ForkretStep, ForkretReturnStep, SysRetStep, ForkFillStep, ForkPublishStep,
     ExitStep, ExitInitStep, WaitAgainStep, SleepCheckStep, SleepSleepStep, SleepWokeStep,
     SleepReacquireStep, TickCountStep, TickWakeStep, TrapCheckStep, YieldStep,
     YieldedStep, TrapReturnStep, Zenon DEF KernelStep
<1>2. ASSUME NEW c \in CPU, UserStep(c) PROVE IInv'
  BY <1>2, ForkStep, CallExitStep, FaultStep, WaitStep, KillStep, SleepCallStep, Zenon DEF UserStep
<1>3. ASSUME NEW c \in CPU, Timer(c) PROVE IInv'
  BY <1>3, TimerStep, Zenon
<1>4. ASSUME UNCHANGED vars PROVE IInv'
  <2>1. /\ UNCHANGED <<state, pid, parent, chan, killed, nextpid, pc, frame, np, ticks0, nsleep, savedena>>
        /\ UNCHANGED <<proc, cpc, tick, idx, skipped, flIF, ncli, intena, ticks, tickslock, ptlock, panicked>>
    BY <1>4, Zenon DEF vars, ptable, thread, locals, cpuctl, cpuint, clock
  <2>2. TypeOK'
    BY <2>1, Zenon DEF IInv, TypeOK, TableType, ThreadType, CpuType, LockType
  <2>3. CpuInv' /\ IntrInv' /\ ScanInv'
    <3>1. CpuInv' /\ ScanInv'
      BY <2>1 DEF IInv, CpuInv, CpuOk, ScanInv, ScanOk
    <3>2. IntrInv'
      BY <2>1 DEF IInv, IntrInv, IntrOk
    <3> QED  BY <3>1, <3>2
  <2>4. LockDiscipline'
    BY <2>1, ZenonT(30) DEF IInv, LockDiscipline, LockOk, HoldsPtable, HoldsTicks, At
  <2>5. SlotInv'
    BY <2>1 DEF IInv, TableInv, SlotInv, SlotOk
  <2>6. ForkInv'
    BY <2>1, Zenon DEF IInv, TableInv, ForkInv
  <2>7. LiveParents' /\ UniquePids'
    BY <2>1, Zenon DEF IInv, TableInv, LiveParents, UniquePids
  <2>8. NoLostExit' /\ NoKilledWaiter'
    BY <2>1, Zenon DEF IInv, TableInv, NoLostExit, NoKilledWaiter, Zombies, Kids
  <2> QED  BY <2>2, <2>3, <2>4, <2>5, <2>6, <2>7, <2>8, Zenon DEF IInv, TableInv
<1> QED  BY <1>1, <1>2, <1>3, <1>4, Zenon DEF Next, PanicLoop

\* The inductive invariant of ProcInv holds in every reachable state of the process
\* table, for any number of slots and CPUs.
THEOREM Invariance == Spec => []IInv
  BY InitIInv, NextIInv, PTL DEF Spec

\* Every field of struct proc, struct cpu and the locks keeps its type; in particular
\* cpu->ncli never leaves 0..2 and the scan of scheduler() never leaves the table.
THEOREM TypeCorrect == Spec => []TypeOK
<1>1. IInv => TypeOK
  BY Zenon DEF IInv, TableInv
<1> QED  BY <1>1, Invariance, PTL

\* acquire() never finds its own lock held, release() never finds it free, and cpu->ncli
\* counts the locks of its CPU (the panics of spinlock.c).
THEOREM LocksHeldWhereAcquired == Spec => []LockDiscipline
<1>1. IInv => LockDiscipline
  BY Zenon DEF IInv, TableInv
<1> QED  BY <1>1, Invariance, PTL

\* The four panics of sched() are unreachable.
THEOREM SchedNeverPanics == Spec => []SchedAsserts
<1>1. ASSUME IInv, NEW c \in CPU, cpc[c] = "sched"
      PROVE  ptlock = c /\ ncli[c] = 1 /\ state[proc[c]] # "RUNNING" /\ ~flIF[c]
  BY <1>1, CpuLocks DEF IInv, CpuInv, CpuOk, LockDiscipline, LockOk
<1>2. IInv => SchedAsserts
  BY <1>1, Zenon DEF SchedAsserts
<1> QED  BY <1>2, Invariance, PTL

\* No kernel stack is freed, or handed to a new process, under the CPU that runs on it,
\* and no RUNNING process is lost to every CPU.
THEOREM StacksAreSafe == Spec => []StackSafe
<1>1. ASSUME IInv, NEW c \in CPU, proc[c] # NoProc
      PROVE  /\ state[proc[c]] \notin {"UNUSED", "EMBRYO"}
             /\ state[proc[c]] # "RUNNING" => cpc[c] = "sched"
             /\ \A d \in CPU \ {c} : proc[d] # proc[c]
  BY <1>1 DEF IInv, CpuInv, CpuOk, TypeOK, CpuType, CpcLoc
<1>2. IInv => StackSafe
  BY <1>1, Zenon DEF StackSafe, IInv, TableInv, SlotInv, SlotOk
<1> QED  BY <1>2, Invariance, PTL

\* A process asleep in wait() has no zombie child to collect: exit() loses no wakeup.
THEOREM NoExitIsLost == Spec => []NoLostExit
<1>1. IInv => NoLostExit
  BY Zenon DEF IInv, TableInv
<1> QED  BY <1>1, Invariance, PTL

\* A process asleep in wait() has not been killed.
THEOREM NoKilledProcessWaits == Spec => []NoKilledWaiter
<1>1. IInv => NoKilledWaiter
  BY Zenon DEF IInv, TableInv
<1> QED  BY <1>1, Invariance, PTL

\* Every process but init has a parent that can still reap it: exit() reparents in time.
THEOREM ParentsAreLive == Spec => []LiveParents
<1>1. IInv => LiveParents
  BY Zenon DEF IInv, TableInv
<1> QED  BY <1>1, Invariance, PTL

\* Distinct live slots have distinct pids, so that kill() and wait() name one process.
THEOREM PidsAreUnique == Spec => []UniquePids
<1>1. IInv => UniquePids
  BY Zenon DEF IInv, TableInv
<1> QED  BY <1>1, Invariance, PTL

\* The scheduler only halts with interrupts enabled.
THEOREM HaltsInterruptible == Spec => []HaltInterruptible
<1>1. IInv => HaltInterruptible
  BY Zenon DEF IInv, IntrInv, IntrOk, HaltInterruptible
<1> QED  BY <1>1, Invariance, PTL

-----------------------------------------------------------------------------
(* The life cycle of a slot *)

\* What a step may do to the state of each slot.
Follows == \A p \in Slot : state'[p] # state[p] => <<state[p], state'[p]>> \in Edges

\* A step that leaves every state alone, or wakes sleepers.
LEMMA WakesFollows ==
  ASSUME \A p \in Slot : state'[p] = state[p] \/ (state[p] = "SLEEPING" /\ state'[p] = "RUNNABLE")
  PROVE  Follows
  BY Zenon DEF Follows, Edges

\* A step that changes the state of one slot along an edge.
LEMMA OneFollows ==
  ASSUME TypeOK, NEW p \in Slot, NEW s, state' = [state EXCEPT ![p] = s], <<state[p], s>> \in Edges
  PROVE  Follows
  BY Zenon DEF Follows, TypeOK, TableType

\* scheduler() runs RUNNABLE processes only; yield() is called by the RUNNING one.
LEMMA SchedulerFollows ==
  ASSUME NEW c \in CPU, IInv, SchedRun(c) \/ Yield(c)
  PROVE  Follows
<1>1. CASE SchedRun(c)
  <2>1. /\ idx[c] \in Slot /\ state[idx[c]] = "RUNNABLE"
        /\ state' = [state EXCEPT ![idx[c]] = "RUNNING"]
    BY <1>1 DEF SchedRun, IInv, TypeOK, CpuType, Slot
  <2> QED  BY <2>1, OneFollows, Zenon DEF IInv, Edges
<1>2. CASE Yield(c)
  <2>1. proc[c] \in Slot /\ state[proc[c]] = "RUNNING"
    BY <1>2, Running, Zenon DEF Yield, At
  <2>2. state' = [state EXCEPT ![proc[c]] = "RUNNABLE"]
    BY <1>2, Zenon DEF Yield
  <2> QED  BY <2>1, <2>2, OneFollows, Zenon DEF IInv, Edges
<1> QED  BY <1>1, <1>2, Zenon

\* fork takes a free slot, and makes RUNNABLE the EMBRYO it has built.
LEMMA ForkFollows ==
  ASSUME NEW c \in CPU, IInv, Fork(c) \/ ForkPublish(c)
  PROVE  Follows
<1>1. CASE UNCHANGED state
  BY <1>1, WakesFollows, Zenon
<1>2. ASSUME NEW q \in Unused, Allocproc(q) PROVE Follows
  <2>1. q \in Slot /\ state[q] = "UNUSED" /\ state' = [state EXCEPT ![q] = "EMBRYO"]
    BY <1>2, Zenon DEF Unused, Allocproc
  <2> QED  BY <2>1, OneFollows, Zenon DEF IInv, Edges
<1>3. CASE Fork(c)
  BY <1>1, <1>2, <1>3, Zenon DEF Fork, ptable
<1>4. CASE ForkPublish(c)
  <2>1. proc[c] \in Slot /\ pc[proc[c]] = "filled"
    BY <1>4, Running, Zenon DEF ForkPublish, At
  <2>2. np[proc[c]] \in Slot
    BY <2>1, Zenon DEF IInv, TypeOK, ThreadType
  <2>3. state[np[proc[c]]] = "EMBRYO"
    BY <2>1, Zenon DEF IInv, TableInv, ForkInv
  <2>4. state' = [state EXCEPT ![np[proc[c]]] = "RUNNABLE"]
    BY <1>4, Zenon DEF ForkPublish
  <2> QED  BY <2>2, <2>3, <2>4, OneFollows, Zenon DEF IInv, Edges
<1> QED  BY <1>3, <1>4, Zenon

\* exit() makes the caller a zombie and wakes sleepers.
LEMMA ExitFollows ==
  ASSUME NEW c \in CPU, IInv, Exit(c)
  PROVE  Follows
<1>1. proc[c] \in Slot /\ state[proc[c]] = "RUNNING"
  BY Running, Zenon DEF Exit, At
<1>2. state' = ExitStates(proc[c])
  BY Zenon DEF Exit
<1>3. /\ state'[proc[c]] = "ZOMBIE"
      /\ \A q \in Slot \ {proc[c]} : \/ state'[q] = state[q]
                                     \/ state[q] = "SLEEPING" /\ state'[q] = "RUNNABLE"
  BY <1>1, <1>2, ExitStatesFacts DEF IInv
<1> QED  BY <1>1, <1>3, Zenon DEF Follows, Edges

\* wait() frees a zombie, or puts the RUNNING caller to sleep; sys_sleep does the latter.
LEMMA SleepFollows ==
  ASSUME NEW c \in CPU, IInv, Wait(c) \/ WaitAgain(c) \/ SleepSleep(c)
  PROVE  Follows
<1>1. proc[c] \in Slot /\ state[proc[c]] = "RUNNING"
  BY Running, Zenon DEF Wait, WaitAgain, SleepSleep, At
<1>2. CASE UNCHANGED state
  BY <1>2, WakesFollows, Zenon
<1>3. CASE Reap(c)
  <2>1. PICK q \in Zombies(proc[c]) : state' = [state EXCEPT ![q] = "UNUSED"]
    BY <1>3, Zenon DEF Reap
  <2>2. q \in Slot /\ state[q] = "ZOMBIE"
    BY Zenon DEF Zombies, Kids
  <2> QED  BY <2>1, <2>2, OneFollows, Zenon DEF IInv, Edges
<1>4. CASE state' = [state EXCEPT ![proc[c]] = "SLEEPING"]
  BY <1>1, <1>4, OneFollows, Zenon DEF IInv, Edges
<1> QED  BY <1>2, <1>3, <1>4, Zenon DEF Wait, WaitAgain, WaitSleep, SleepSleep, ptable

\* The clock and kill() wake sleepers.
LEMMA WakeFollows ==
  ASSUME NEW c \in CPU, IInv, TickWake(c) \/ \E k \in KillPids : Kill(c, k)
  PROVE  Follows
<1>1. CASE TickWake(c)
  <2>1. \A p \in Slot : state'[p] = state[p] \/ (state[p] = "SLEEPING" /\ state'[p] = "RUNNABLE")
    BY <1>1, Wakeup1Facts DEF TickWake, IInv, TypeOK, TableType
  <2> QED  BY <2>1, WakesFollows, Zenon
<1>2. CASE \E k \in KillPids : Kill(c, k)
  BY <1>2, KillFacts, WakesFollows, Zenon DEF IInv
<1> QED  BY <1>1, <1>2, Zenon

\* Every other step leaves the states alone.
LEMMA OtherFollows ==
  ASSUME NEW c \in CPU,
         \/ SchedSti(c) \/ SchedAcquire(c) \/ SchedSkip(c) \/ SchedDone(c) \/ Sched(c)
         \/ Forkret(c) \/ ForkretReturn(c) \/ SysRet(c) \/ ForkFill(c) \/ ExitInit(c)
         \/ SleepCheck(c) \/ SleepWoke(c) \/ SleepReacquire(c) \/ TickCount(c)
         \/ TrapCheck(c) \/ Yielded(c) \/ TrapReturn(c) \/ CallExit(c) \/ Fault(c)
         \/ (\E n \in SleepArgs : SleepCall(c, n)) \/ Timer(c)
  PROVE  Follows
<1>1. UNCHANGED state
  BY Zenon DEF SchedSti, SchedAcquire, SchedSkip, SchedDone, Sched, Forkret, ForkretReturn, SysRet,
    ForkFill, ExitInit, SleepCheck, SleepWoke, SleepReacquire, TickCount, TrapCheck, Yielded,
    TrapReturn, CallExit, Fault, SleepCall, Timer, ptable
<1> QED  BY <1>1, WakesFollows, Zenon

\* The life cycle of a slot: fork() never takes a slot in use, and neither wakeup() nor
\* kill() nor the unlocked store of fork() brings a zombie or a free slot to life.
THEOREM LifeCycleHolds == Spec => LifeCycle
<1>1. IInv /\ [Next]_vars => [Follows]_vars
  <2> SUFFICES ASSUME IInv, Next PROVE Follows \/ UNCHANGED vars
    BY Zenon
  <2>1. ASSUME NEW c \in CPU, KernelStep(c) PROVE Follows
    BY <2>1, SchedulerFollows, ForkFollows, ExitFollows, SleepFollows, WakeFollows, OtherFollows,
       Zenon DEF KernelStep
  <2>2. ASSUME NEW c \in CPU, UserStep(c) PROVE Follows
    BY <2>2, ForkFollows, SleepFollows, WakeFollows, OtherFollows, Zenon DEF UserStep
  <2>3. ASSUME NEW c \in CPU, Timer(c) PROVE Follows
    BY <2>3, OtherFollows, Zenon
  <2> QED  BY <2>1, <2>2, <2>3, Zenon DEF Next, PanicLoop
<1> QED  BY <1>1, Invariance, PTL DEF Spec, LifeCycle, Follows

-----------------------------------------------------------------------------
(* Sleepers and the clock *)

\* Nobody new is asleep on ticks or about to be.
NoNewSleeper ==
  \A p \in Slot : /\ pc'[p] = "sleepacq" => pc[p] = "sleepacq"
                  /\ state'[p] = "SLEEPING" /\ chan'[p] = TicksChan =>
                       state[p] = "SLEEPING" /\ chan[p] = TicksChan

\* Such a step, when the clock stands still, leaves the sleepers the time they have.
LEMMA TickFrame ==
  ASSUME TickInv, NoNewSleeper, UNCHANGED <<ticks, ticks0, nsleep>>,
         \A c \in CPU : tick[c] = "wake" => tick'[c] = "wake"
  PROVE  TickInv'
<1>1. \A p \in Slot : Elapsed(p)' = Elapsed(p)
  BY Zenon DEF Elapsed
<1> QED  BY <1>1, Zenon DEF TickInv, NoNewSleeper

\* A thread that moves on, but not to sleep().
LEMMA GotoNoSleeper ==
  ASSUME NEW c \in CPU, NEW loc, TypeOK, Goto(c, loc), loc # "sleepacq", UNCHANGED <<state, chan>>
  PROVE  NoNewSleeper
<1>1. \A p \in Slot : pc'[p] = "sleepacq" => pc[p] = "sleepacq"
  BY Zenon DEF Goto, TypeOK, ThreadType
<1> QED  BY <1>1, Zenon DEF NoNewSleeper

\* The scheduler and the threads that neither sleep nor wake anybody.
LEMMA QuietTicks ==
  ASSUME NEW c \in CPU, IInv, TickInv,
         \/ SchedSti(c) \/ SchedAcquire(c) \/ SchedSkip(c) \/ SchedDone(c) \/ Sched(c) \/ ExitInit(c)
         \/ Forkret(c) \/ ForkretReturn(c) \/ SysRet(c) \/ ForkFill(c)
         \/ SleepReacquire(c) \/ TrapCheck(c) \/ Yielded(c) \/ TrapReturn(c) \/ CallExit(c) \/ Fault(c)
  PROVE  TickInv'
<1>0. TypeOK
  BY Zenon DEF IInv
<1>1. CASE SchedSti(c) \/ SchedAcquire(c) \/ SchedSkip(c) \/ SchedDone(c) \/ Sched(c) \/ ExitInit(c)
  <2>1. UNCHANGED <<state, chan, pc, ticks, ticks0, nsleep, tick>>
    BY <1>1, Zenon DEF SchedSti, SchedAcquire, SchedSkip, SchedDone, Sched, ExitInit, ptable,
      thread, locals, clock, cpuctl
  <2>2. NoNewSleeper
    BY <2>1, Zenon DEF NoNewSleeper
  <2> QED  BY <2>1, <2>2, TickFrame, Zenon
<1>2. CASE Forkret(c) \/ ForkretReturn(c) \/ SysRet(c) \/ ForkFill(c)
  <2>1. UNCHANGED <<state, chan, ticks, ticks0, nsleep, tick>>
    BY <1>2, Zenon DEF Forkret, ForkretReturn, SysRet, ForkFill, ptable, locals, clock, cpuctl
  <2>2. Goto(c, "forkret2") \/ Goto(c, "user") \/ Goto(c, "exiting") \/ Goto(c, "filled")
    BY <1>2, Zenon DEF Forkret, ForkretReturn, SysRet, ForkFill, ToUser
  <2>3. NoNewSleeper
    BY <1>0, <2>1, <2>2, GotoNoSleeper, Zenon
  <2> QED  BY <2>1, <2>3, TickFrame, Zenon
<1>3. CASE SleepReacquire(c) \/ TrapCheck(c) \/ Yielded(c) \/ CallExit(c) \/ Fault(c)
  <2>1. UNCHANGED <<state, chan, ticks, ticks0, nsleep, tick>>
    BY <1>3, Zenon DEF SleepReacquire, TrapCheck, Yielded, CallExit, Fault, ptable, locals, clock,
      cpuctl
  <2>2. Goto(c, "sleepchk") \/ Goto(c, "exiting") \/ Goto(c, "yield") \/ Goto(c, "trapret")
    BY <1>3, Zenon DEF SleepReacquire, TrapCheck, Yielded, CallExit, Fault
  <2>3. NoNewSleeper
    BY <1>0, <2>1, <2>2, GotoNoSleeper, Zenon
  <2> QED  BY <2>1, <2>3, TickFrame, Zenon
<1>4. CASE TrapReturn(c)
  <2>1. UNCHANGED <<state, chan, ticks, ticks0, nsleep, tick>>
    BY <1>4, Zenon DEF TrapReturn, ptable, clock, cpuctl
  <2>2. proc[c] \in Slot /\ frame[proc[c]] # "sleepacq"
    BY <1>4, Running, Zenon DEF TrapReturn, At, IInv, TypeOK, ThreadType
  <2>3. Goto(c, "exiting") \/ Goto(c, frame[proc[c]])
    BY <1>4, Zenon DEF TrapReturn
  <2>4. NoNewSleeper
    BY <1>0, <2>1, <2>2, <2>3, GotoNoSleeper, Zenon
  <2> QED  BY <2>1, <2>4, TickFrame, Zenon
<1> QED  BY <1>1, <1>2, <1>3, <1>4, Zenon

\* Steps that change states, and put nobody to sleep on ticks.
LEMMA TableTicks ==
  ASSUME NEW c \in CPU, IInv, TickInv,
         \/ SchedRun(c) \/ Yield(c) \/ Fork(c) \/ ForkPublish(c) \/ Exit(c)
         \/ Wait(c) \/ WaitAgain(c) \/ \E k \in KillPids : Kill(c, k)
  PROVE  TickInv'
<1>0. TypeOK /\ pc \in [Slot -> PcLoc] /\ state \in [Slot -> ProcState] /\ chan \in [Slot -> Chan]
  BY Zenon DEF IInv, TypeOK, ThreadType, TableType
<1>1. UNCHANGED <<ticks, ticks0, nsleep, tick>>
  BY Zenon DEF SchedRun, Yield, Fork, ForkPublish, Exit, Wait, WaitAgain, Kill, locals, clock,
    cpuctl
<1>2. CASE SchedRun(c) \/ Yield(c) \/ ForkPublish(c)
  <2>1. PICK p, s : state' = [state EXCEPT ![p] = s] /\ s # "SLEEPING" /\ UNCHANGED chan
    BY <1>2, Zenon DEF SchedRun, Yield, ForkPublish
  <2>2. pc' = pc \/ Goto(c, "yielded") \/ Goto(c, "sysret")
    BY <1>2, Zenon DEF SchedRun, Yield, ForkPublish, CallSched
  <2>3. NoNewSleeper
    BY <1>0, <2>1, <2>2, Zenon DEF NoNewSleeper, Goto
  <2> QED  BY <1>1, <2>3, TickFrame, Zenon
<1>3. CASE Fork(c)
  <2>1. UNCHANGED chan
    BY <1>3, Zenon DEF Fork, Allocproc, ptable
  <2>2. CASE Goto(c, "sysret") /\ UNCHANGED ptable
    BY <1>0, <1>1, <2>1, <2>2, GotoNoSleeper, TickFrame, Zenon DEF ptable
  <2>3. ASSUME NEW q \in Unused, Allocproc(q), pc' = [pc EXCEPT ![proc[c]] = "alloced", ![q] = "forkret"]
        PROVE  TickInv'
    <3>1. state' = [state EXCEPT ![q] = "EMBRYO"]
      BY <2>3, Zenon DEF Allocproc
    <3>2. NoNewSleeper
      BY <1>0, <2>1, <2>3, <3>1, Zenon DEF NoNewSleeper
    <3> QED  BY <1>1, <3>2, TickFrame, Zenon
  <2> QED  BY <1>3, <2>2, <2>3, Zenon DEF Fork
<1>4. CASE Exit(c)
  <2>1. proc[c] \in Slot /\ state' = ExitStates(proc[c]) /\ UNCHANGED chan /\ Goto(c, "dead")
    BY <1>4, Running, Zenon DEF Exit, At, CallSched
  <2>2. \A q \in Slot : state'[q] = "SLEEPING" => state[q] = "SLEEPING"
    BY <2>1, ExitStatesFacts, Zenon DEF IInv
  <2>3. NoNewSleeper
    BY <1>0, <2>1, <2>2, Zenon DEF NoNewSleeper, Goto
  <2> QED  BY <1>1, <2>3, TickFrame, Zenon
<1>5. CASE Wait(c) \/ WaitAgain(c)
  <2>1. proc[c] \in Slot /\ state[proc[c]] = "RUNNING" /\ TicksChan \notin Slot
    BY <1>5, Running, ChanFacts, Zenon DEF Wait, WaitAgain, At
  <2>2. CASE WaitSleep(c)
    <3>1. /\ state' = [state EXCEPT ![proc[c]] = "SLEEPING"] /\ chan' = [chan EXCEPT ![proc[c]] = proc[c]]
          /\ pc' = [pc EXCEPT ![proc[c]] = "waitloop"]
      BY <2>2, Zenon DEF WaitSleep, CallSched, Goto
    <3>2. NoNewSleeper
      BY <1>0, <2>1, <3>1, Zenon DEF NoNewSleeper
    <3> QED  BY <1>1, <3>2, TickFrame, Zenon
  <2>3. CASE Goto(c, "sysret") /\ UNCHANGED state /\ (UNCHANGED chan \/ chan' = [chan EXCEPT ![proc[c]] = 0])
    <3>1. NoNewSleeper
      BY <1>0, <2>1, <2>3, Zenon DEF NoNewSleeper, Goto
    <3> QED  BY <1>1, <3>1, TickFrame, Zenon
  <2>4. CASE Reap(c) /\ (UNCHANGED chan \/ chan' = [chan EXCEPT ![proc[c]] = 0])
    <3>1. PICK q \in Zombies(proc[c]) : /\ state' = [state EXCEPT ![q] = "UNUSED"]
                                        /\ pc' = [pc EXCEPT ![proc[c]] = "sysret", ![q] = "none"]
      BY <2>4, Zenon DEF Reap
    <3>2. NoNewSleeper
      BY <1>0, <2>1, <2>4, <3>1, Zenon DEF NoNewSleeper
    <3> QED  BY <1>1, <3>2, TickFrame, Zenon
  <2> QED  BY <1>5, <2>2, <2>3, <2>4, Zenon DEF Wait, WaitAgain, ptable
<1>6. CASE \E k \in KillPids : Kill(c, k)
  <2>1. UNCHANGED chan /\ Goto(c, "sysret")
    BY <1>6, Zenon DEF Kill
  <2>2. \A q \in Slot : state'[q] = "SLEEPING" => state[q] = "SLEEPING"
    BY <1>6, KillFacts, Zenon DEF IInv
  <2>3. NoNewSleeper
    BY <1>0, <2>1, <2>2, Zenon DEF NoNewSleeper, Goto
  <2> QED  BY <1>1, <2>3, TickFrame, Zenon
<1> QED  BY <1>2, <1>3, <1>4, <1>5, <1>6, Zenon

\* A thread about to sleep on ticks holds tickslock.
LEMMA AboutToSleep ==
  ASSUME IInv, NEW p \in Slot, pc[p] = "sleepacq"
  PROVE  \E c \in CPU : tickslock = c
<1>1. state[p] = "RUNNING"
  <2>1. SlotOk(p) /\ state[p] \in ProcState
    BY Zenon DEF IInv, TableInv, SlotInv, TypeOK, TableType
  <2> QED  BY <2>1, Zenon DEF SlotOk, ProcState, ParkLoc
<1>2. PICK c \in CPU : proc[c] = p
  BY <1>1, Zenon DEF IInv, TableInv, SlotInv, SlotOk
<1>3. cpc[c] = "proc" /\ tick[c] = "none"
  <2>1. CpuOk(c) /\ IntrOk(c) /\ cpc[c] \in CpcLoc /\ proc[c] # NoProc
    BY <1>2, SlotFacts, Zenon DEF IInv, CpuInv, IntrInv, TypeOK, CpuType
  <2> QED  BY <1>1, <1>2, <2>1, Zenon DEF CpuOk, IntrOk, CpcLoc
<1> QED  BY <1>2, <1>3, ThreadLocks, Zenon

\* sys_sleep, sleep() and the timer handler.
LEMMA ClockTicks ==
  ASSUME NEW c \in CPU, IInv, TickInv,
         \/ (\E n \in SleepArgs : SleepCall(c, n)) \/ SleepCheck(c) \/ SleepSleep(c) \/ SleepWoke(c)
         \/ TickCount(c) \/ TickWake(c) \/ Timer(c)
  PROVE  TickInv'
<1>0. /\ TypeOK /\ pc \in [Slot -> PcLoc] /\ state \in [Slot -> ProcState] /\ chan \in [Slot -> Chan]
      /\ ticks0 \in [Slot -> 0..(TICKMOD - 1)] /\ nsleep \in [Slot -> 0..(TICKMOD - 1)]
      /\ tick \in [CPU -> {"none", "lock", "wake"}]
  BY Zenon DEF IInv, TypeOK, ThreadType, TableType, CpuType
<1>1. CASE (\E n \in SleepArgs : SleepCall(c, n)) \/ SleepCheck(c)
  <2>0. PICK r \in Slot : r = proc[c] /\ state[r] = "RUNNING"
    BY <1>1, Running, Zenon DEF SleepCall, SleepCheck, At
  <2>1. UNCHANGED <<state, chan, tick, ticks>>
    BY <1>1, Zenon DEF SleepCall, SleepCheck, ptable, cpuctl
  <2>2. \A p \in Slot \ {r} : pc'[p] = pc[p] /\ ticks0'[p] = ticks0[p] /\ nsleep'[p] = nsleep[p]
    BY <1>0, <1>1, <2>0 DEF SleepCall, SleepCheck, Goto
  <2>3. \A p \in Slot \ {r} : Elapsed(p)' = Elapsed(p)
    BY <2>1, <2>2, Zenon DEF Elapsed
  <2>4. pc'[r] = "sleepacq" => Elapsed(r)' < nsleep'[r]
    <3>1. CASE KeepSleeping(r) /\ SleepCheck(c)
      <4>1. UNCHANGED <<ticks, ticks0, nsleep>>
        BY <2>0, <3>1, Zenon DEF SleepCheck
      <4> QED  BY <3>1, <4>1, Zenon DEF KeepSleeping, Elapsed
    <3>2. CASE ~(KeepSleeping(r) /\ SleepCheck(c))
      <4>1. Goto(c, "sleepchk") \/ Goto(c, "sysret")
        BY <1>1, <2>0, <3>2, Zenon DEF SleepCall, SleepCheck
      <4> QED  BY <1>0, <2>0, <4>1, Zenon DEF Goto
    <3> QED  BY <3>1, <3>2, Zenon
  <2>5. ASSUME NEW p \in Slot PROVE /\ pc'[p] = "sleepacq" => Elapsed(p)' < nsleep'[p]
                                    /\ state'[p] = "SLEEPING" /\ chan'[p] = TicksChan =>
                                         Elapsed(p)' < nsleep'[p] \/ \E d \in CPU : tick'[d] = "wake"
    <3>1. CASE p = r
      BY <2>0, <2>1, <2>4, <3>1, Zenon
    <3>2. CASE p # r
      BY <2>1, <2>2, <2>3, <3>2, Zenon DEF TickInv
    <3> QED  BY <3>1, <3>2, Zenon
  <2> QED  BY <2>5, Zenon DEF TickInv
<1>2. CASE SleepSleep(c)
  <2>1. /\ proc[c] \in Slot /\ pc[proc[c]] = "sleepacq"
        /\ UNCHANGED <<tick, ticks, ticks0, nsleep>>
        /\ state' = [state EXCEPT ![proc[c]] = "SLEEPING"] /\ chan' = [chan EXCEPT ![proc[c]] = TicksChan]
        /\ pc' = [pc EXCEPT ![proc[c]] = "sleepwoke"]
    BY <1>2, Running, Zenon DEF SleepSleep, At, CallSched, Goto, locals
  <2>2. \A p \in Slot : Elapsed(p)' = Elapsed(p)
    BY <2>1, Zenon DEF Elapsed
  <2> QED  BY <1>0, <2>1, <2>2, Zenon DEF TickInv
<1>3. CASE SleepWoke(c)
  <2>1. /\ proc[c] \in Slot /\ state[proc[c]] = "RUNNING" /\ UNCHANGED <<state, tick, ticks, ticks0, nsleep>>
        /\ chan' = [chan EXCEPT ![proc[c]] = 0] /\ pc' = [pc EXCEPT ![proc[c]] = "sleepreacq"]
    BY <1>3, Running, Zenon DEF SleepWoke, At, Goto, locals, cpuctl, clock
  <2>2. NoNewSleeper
    BY <1>0, <2>1, Zenon DEF NoNewSleeper
  <2> QED  BY <2>1, <2>2, TickFrame, Zenon
<1>4. CASE TickCount(c)
  <2>1. tickslock = NoCPU /\ tick' = [tick EXCEPT ![c] = "wake"] /\ UNCHANGED pc
    BY <1>4, Zenon DEF TickCount, AcquireTicks, thread
  <2>2. \A p \in Slot : pc'[p] # "sleepacq"
    BY <2>1, AboutToSleep, Zenon
  <2>3. tick'[c] = "wake"
    BY <1>0, <2>1, Zenon
  <2> QED  BY <2>2, <2>3, Zenon DEF TickInv
<1>5. CASE TickWake(c)
  <2>1. /\ state' = Wakeup1(state, TicksChan) /\ UNCHANGED <<chan, pc, ticks, ticks0, nsleep>>
    BY <1>5, Zenon DEF TickWake, thread, locals
  <2>2. \A p \in Slot : ~(state'[p] = "SLEEPING" /\ chan'[p] = TicksChan)
    <3>1. \A p \in Slot : chan[p] = TicksChan => Wakeup1(state, TicksChan)[p] # "SLEEPING"
      BY <1>0, Wakeup1Facts, Zenon
    <3> QED  BY <2>1, <3>1, Zenon
  <2>3. \A p \in Slot : Elapsed(p)' = Elapsed(p)
    BY <2>1, Zenon DEF Elapsed
  <2> QED  BY <2>1, <2>2, <2>3, Zenon DEF TickInv
<1>6. CASE Timer(c)
  <2>1. UNCHANGED <<state, chan, ticks, ticks0, nsleep>> /\ tick[c] = "none"
    BY <1>6, Zenon DEF Timer, ptable, clock
  <2>2. \A d \in CPU : tick[d] = "wake" => tick'[d] = "wake"
    BY <1>0, <1>6, Zenon DEF Timer
  <2>3. NoNewSleeper
    <3>1. pc' = pc \/ Goto(c, "trapchk")
      BY <1>6, Zenon DEF Timer
    <3> QED  BY <1>0, <2>1, <3>1, Zenon DEF NoNewSleeper, Goto
  <2> QED  BY <2>1, <2>2, <2>3, TickFrame, Zenon
<1> QED  BY <1>1, <1>2, <1>3, <1>4, <1>5, <1>6, Zenon

\* A process asleep on ticks while nobody holds tickslock has time left: neither the clock
\* between sys_sleep's test and its sleep, nor the wrap of ticks, loses a wakeup.
THEOREM NoTickIsMissed == Spec => []NoMissedTick
<1>1. Init => TickInv
  BY DEF Init, TickInv
<1>2. IInv /\ TickInv /\ [Next]_vars => TickInv'
  <2> SUFFICES ASSUME IInv, TickInv, [Next]_vars PROVE TickInv'
    BY Zenon
  <2>1. ASSUME NEW c \in CPU, KernelStep(c) PROVE TickInv'
    BY <2>1, QuietTicks, TableTicks, ClockTicks, Zenon DEF KernelStep
  <2>2. ASSUME NEW c \in CPU, UserStep(c) PROVE TickInv'
    BY <2>2, QuietTicks, TableTicks, ClockTicks, Zenon DEF UserStep
  <2>3. ASSUME NEW c \in CPU, Timer(c) PROVE TickInv'
    BY <2>3, ClockTicks, Zenon
  <2>4. CASE UNCHANGED vars
    <3>1. UNCHANGED <<state, chan, pc, ticks, ticks0, nsleep, tick>>
      BY <2>4, Zenon DEF vars, ptable, thread, locals, clock, cpuctl
    <3>2. NoNewSleeper
      BY <3>1, Zenon DEF NoNewSleeper
    <3> QED  BY <3>1, <3>2, TickFrame, Zenon
  <2> QED  BY <2>1, <2>2, <2>3, <2>4, Zenon DEF Next, PanicLoop
<1>3. IInv /\ TickInv => NoMissedTick
  <2> SUFFICES ASSUME IInv, TickInv, NEW p \in Slot, state[p] = "SLEEPING", chan[p] = TicksChan, tickslock = NoCPU
               PROVE  Elapsed(p) < nsleep[p]
    BY Zenon DEF NoMissedTick
  <2>1. \A c \in CPU : tick[c] # "wake"
    BY TickLocks, Zenon
  <2> QED  BY <2>1, Zenon DEF TickInv
<1> QED  BY <1>1, <1>2, <1>3, Invariance, PTL DEF Spec

\* The process table is consistent in every state: types, live parents, unique pids, and no
\* killed process left asleep in wait().
THEOREM TableIsConsistent == Spec => []TableConsistent
<1>1. IInv => TableConsistent
  BY Zenon DEF IInv, TableInv, TableConsistent
<1> QED  BY <1>1, Invariance, PTL

=============================================================================
