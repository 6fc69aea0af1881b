-------------------------------- MODULE Proc --------------------------------
(***************************************************************************)
(* The process table of the kernel (proc.c), the per-CPU scheduler, sleep  *)
(* and wakeup, fork, exit, wait, kill, and the two parts of the kernel     *)
(* that drive them: the timer interrupt (trap.c) and sys_sleep             *)
(* (sysproc.c), with the spinlock discipline of spinlock.c that holds them *)
(* together.                                                               *)
(*                                                                         *)
(* A step is what one CPU does between two points where another CPU can    *)
(* see or influence the outcome.  Code under ptable.lock is one step when  *)
(* everything it reads is only written under that lock; unlocked reads and *)
(* writes (proc->killed, fork's stores into the new slot) are steps of     *)
(* their own.  The kernel runs with interrupts off (interrupt gates, and   *)
(* SFMASK for system calls), so a CPU is interrupted only in user mode, in *)
(* scheduler() between sti and acquire, in hlt, and at the end of forkret. *)
(***************************************************************************)
EXTENDS Integers, FiniteSets

CONSTANTS
    NPROC,        \* slots of ptable
    CPU,          \* the processors
    BootCPU,      \* cpunum() == 0, the one that advances ticks
    NoCPU,        \* a lock nobody holds
    TICKMOD,      \* ticks is an unsigned int: 2^32 in the code
    SleepArgs,    \* arguments user programs pass to sleep()
    KillPids,     \* arguments user programs pass to kill()
    MAXPID        \* bound on nextpid (int in the code, unbounded in use)

ASSUME NPROCAssumption == NPROC \in Nat \ {0}
ASSUME CPUAssumption == BootCPU \in CPU /\ NoCPU \notin CPU
ASSUME TicksAssumption == TICKMOD \in Nat \ {0} /\ SleepArgs \subseteq 0..(TICKMOD - 1)
ASSUME PidAssumption == KillPids \subseteq Nat /\ MAXPID \in Nat \ {0}

Slot == 1..NPROC
NoProc == 0                  \* the null proc pointer
initproc == 1                \* userinit takes the first slot
TicksChan == NPROC + 1       \* the address &ticks; slot p is its own address
Chan == 0..(NPROC + 1)       \* 0 is the null channel

ProcState == {"UNUSED", "EMBRYO", "SLEEPING", "RUNNABLE", "RUNNING", "ZOMBIE"}

VARIABLES
    \* struct proc, one entry per slot of ptable
    state, pid, parent, chan, killed,
    \* where the kernel thread of a slot is, and the locals it keeps there
    \* (a local that is dead has its initial value)
    pc,        \* control point of the slot's kernel thread
    frame,     \* what the pending trap returns to: "user" or "forkret"
    np,        \* fork: the slot being built
    ticks0,    \* sys_sleep: ticks when it was called
    nsleep,    \* sys_sleep: its argument n
    savedena,  \* sched: the saved cpu->intena
    \* struct cpu and the scheduler's locals, one entry per CPU
    proc,      \* cpu->proc
    cpc,       \* control point of the CPU
    tick,      \* progress of the timer handler on this CPU
    idx,       \* scheduler: position p in the table (1 outside the loop)
    skipped,   \* scheduler: slots passed since a process last ran
    flIF,      \* the interrupt flag of eflags
    ncli, intena,
    \* shared globals
    nextpid, ticks,
    ptlock,    \* ptable.lock: the CPU holding it
    tickslock, \* tickslock: the CPU holding it
    panicked   \* console.c: set by panic(), freezes every CPU

ptable == <<state, pid, parent, chan, killed, nextpid>>
locals == <<frame, np, ticks0, nsleep, savedena>>
thread == <<pc, locals>>
cpuctl == <<proc, cpc, tick, idx, skipped>>
cpuint == <<flIF, ncli, intena>>
clock  == <<ticks, tickslock>>
vars   == <<ptable, thread, cpuctl, cpuint, clock, ptlock, panicked>>

PcLoc == {"none",       \* the slot has no thread
          "user",       \* user mode
          "alloced", "filled",   \* fork: after allocproc; before np->state = RUNNABLE
          "exiting",    \* about to run exit()
          "dead",       \* exit has called sched()
          "waitloop",   \* wait: back from sleep, lock held
          "sleepchk",   \* sys_sleep: tickslock held, at the while test
          "sleepacq",   \* sleep: about to acquire ptable.lock
          "sleepwoke",  \* sleep: back from sched, ptable.lock held
          "sleepreacq", \* sleep: about to reacquire tickslock
          "sysret",     \* syscall(): done, the killed test is next
          "trapchk",    \* trap: first killed test
          "yield",      \* trap: about to call yield()
          "yielded",    \* yield: back from sched, ptable.lock held
          "trapret",    \* trap: last killed test
          "forkret",    \* first run of a child: ptable.lock held
          "forkret2"}   \* forkret: after release, interruptible

CpcLoc == {"sti",      \* scheduler: top of for(;;)
           "acquire",  \* scheduler: interrupts on, about to acquire
           "scan",     \* scheduler: in the inner loop, ptable.lock held
           "hlt",      \* scheduler: halted
           "proc",     \* running the kernel or user code of cpu->proc
           "sched"}    \* cpu->proc has called sched(), swtch not done

TableType ==
    /\ state \in [Slot -> ProcState]
    /\ pid \in [Slot -> Nat]
    /\ parent \in [Slot -> Slot \cup {NoProc}]
    /\ chan \in [Slot -> Chan]
    /\ killed \in [Slot -> BOOLEAN]
    /\ nextpid \in 1..MAXPID + 1
ThreadType ==
    /\ pc \in [Slot -> PcLoc]
    /\ frame \in [Slot -> {"user", "forkret2"}]
    /\ np \in [Slot -> Slot]
    /\ ticks0 \in [Slot -> 0..(TICKMOD - 1)]
    /\ nsleep \in [Slot -> 0..(TICKMOD - 1)]
    /\ savedena \in [Slot -> BOOLEAN]
CpuType ==
    /\ proc \in [CPU -> Slot \cup {NoProc}]
    /\ cpc \in [CPU -> CpcLoc]
    /\ tick \in [CPU -> {"none", "lock", "wake"}]
    /\ idx \in [CPU -> 1..(NPROC + 1)]
    /\ skipped \in [CPU -> 0..(2 * NPROC)]
LockType ==
    /\ flIF \in [CPU -> BOOLEAN]
    /\ ncli \in [CPU -> 0..2]
    /\ intena \in [CPU -> BOOLEAN]
    /\ ptlock \in CPU \cup {NoCPU}
    /\ tickslock \in CPU \cup {NoCPU}
TypeOK ==
    /\ TableType /\ ThreadType /\ CpuType /\ LockType
    /\ ticks \in 0..(TICKMOD - 1)
    /\ panicked \in BOOLEAN

\* userinit has run on an empty table, and every CPU enters scheduler().
Init ==
    /\ state = [p \in Slot |-> IF p = initproc THEN "RUNNABLE" ELSE "UNUSED"]
    /\ pid = [p \in Slot |-> IF p = initproc THEN 1 ELSE 0]
    /\ parent = [p \in Slot |-> NoProc]
    /\ chan = [p \in Slot |-> 0]
    /\ killed = [p \in Slot |-> FALSE]
    /\ pc = [p \in Slot |-> IF p = initproc THEN "forkret" ELSE "none"]
    /\ frame = [p \in Slot |-> "user"]
    /\ np = [p \in Slot |-> 1]
    /\ ticks0 = [p \in Slot |-> 0]
    /\ nsleep = [p \in Slot |-> 0]
    /\ savedena = [p \in Slot |-> FALSE]
    /\ proc = [c \in CPU |-> NoProc]
    /\ cpc = [c \in CPU |-> "sti"]
    /\ tick = [c \in CPU |-> "none"]
    /\ idx = [c \in CPU |-> 1]
    /\ skipped = [c \in CPU |-> 0]
    /\ flIF = [c \in CPU |-> FALSE]
    /\ ncli = [c \in CPU |-> 0]
    /\ intena = [c \in CPU |-> FALSE]
    /\ nextpid = 2
    /\ ticks = 0
    /\ ptlock = NoCPU
    /\ tickslock = NoCPU
    /\ panicked = FALSE

-----------------------------------------------------------------------------
(* spinlock.c: acquire, release and the pushcli/popcli nesting under them. *)

\* pushcli, with interrupts enabled (f) or not at the call.
Pushcli(c, f) ==
    /\ ncli' = [ncli EXCEPT ![c] = @ + 1]
    /\ intena' = IF ncli[c] = 0 THEN [intena EXCEPT ![c] = f] ELSE intena
    /\ flIF' = [flIF EXCEPT ![c] = FALSE]

\* popcli.  Nobody reads intena while ncli is 0 (pushcli writes it first), so
\* its stale value is forgotten.
Popcli(c) ==
    /\ ncli' = [ncli EXCEPT ![c] = @ - 1]
    /\ flIF' = IF ncli[c] = 1 /\ intena[c] THEN [flIF EXCEPT ![c] = TRUE] ELSE flIF
    /\ intena' = IF ncli[c] = 1 THEN [intena EXCEPT ![c] = FALSE] ELSE intena

AcquirePtable(c, f) == ptlock = NoCPU /\ ptlock' = c /\ Pushcli(c, f)
\* Mutant: release without popcli.
ReleasePtableNoPop(c) == ptlock' = NoCPU /\ UNCHANGED cpuint
ReleasePtable(c) == ptlock' = NoCPU /\ Popcli(c)
AcquireTicks(c) == tickslock = NoCPU /\ tickslock' = c /\ Pushcli(c, FALSE)
ReleaseTicks(c) == tickslock' = NoCPU /\ Popcli(c)

\* A whole section acquire(&ptable.lock) ... release(&ptable.lock), run with
\* interrupts off.
PtableSection(c) ==
    /\ ptlock = NoCPU
    /\ flIF' = [flIF EXCEPT ![c] = FALSE]
    /\ UNCHANGED <<ptlock, ncli, intena>>

-----------------------------------------------------------------------------
(* scheduler(), sched() and the context switches between them.             *)

\* for(;;): sti
SchedSti(c) ==
    /\ cpc[c] = "sti" /\ tick[c] = "none"
    /\ flIF' = [flIF EXCEPT ![c] = TRUE]
    /\ cpc' = [cpc EXCEPT ![c] = "acquire"]
    /\ UNCHANGED <<ptable, thread, proc, tick, idx, skipped, ncli, intena, clock,
                   ptlock, panicked>>

SchedAcquire(c) ==
    /\ cpc[c] = "acquire" /\ tick[c] = "none"
    /\ AcquirePtable(c, flIF[c])
    /\ cpc' = [cpc EXCEPT ![c] = "scan"]
    /\ UNCHANGED <<ptable, thread, proc, tick, idx, skipped, clock, panicked>>

\* p->state != RUNNABLE: skipped++; continue
SchedSkip(c) ==
    /\ cpc[c] = "scan" /\ idx[c] <= NPROC
    /\ state[idx[c]] # "RUNNABLE"
    /\ skipped' = [skipped EXCEPT ![c] = @ + 1]
    /\ idx' = [idx EXCEPT ![c] = @ + 1]
    /\ UNCHANGED <<ptable, thread, proc, cpc, tick, cpuint, clock, ptlock, panicked>>

\* Mutant: the scheduler does not mark the process RUNNING.
SchedRunQuiet(c) ==
    /\ cpc[c] = "scan" /\ idx[c] <= NPROC
    /\ LET p == idx[c] IN
        /\ state[p] = "RUNNABLE"
        /\ proc' = [proc EXCEPT ![c] = p]
        /\ intena' = IF pc[p] = "forkret" THEN intena
                                          ELSE [intena EXCEPT ![c] = savedena[p]]
        /\ savedena' = [savedena EXCEPT ![p] = FALSE]
    /\ skipped' = [skipped EXCEPT ![c] = 0]
    /\ cpc' = [cpc EXCEPT ![c] = "proc"]
    /\ UNCHANGED <<ptable, pc, frame, np, ticks0, nsleep, tick, idx, flIF, ncli, clock,
                   ptlock, panicked>>

\* proc = p; p->state = RUNNING; swtch.  A thread that left through sched()
\* restores its own intena; a new one starts in forkret and keeps the CPU's.
SchedRun(c) ==
    /\ cpc[c] = "scan" /\ idx[c] <= NPROC
    /\ LET p == idx[c] IN
        /\ state[p] = "RUNNABLE"
        /\ state' = [state EXCEPT ![p] = "RUNNING"]
        /\ proc' = [proc EXCEPT ![c] = p]
        /\ intena' = IF pc[p] = "forkret" THEN intena
                                          ELSE [intena EXCEPT ![c] = savedena[p]]
        /\ savedena' = [savedena EXCEPT ![p] = FALSE]
    /\ skipped' = [skipped EXCEPT ![c] = 0]
    /\ cpc' = [cpc EXCEPT ![c] = "proc"]
    /\ UNCHANGED <<pid, parent, chan, killed, nextpid, pc, frame, np, ticks0,
                   nsleep, tick, idx, flIF, ncli, clock, ptlock, panicked>>

\* Mutants: the idle threshold one scan too late, and lost.
IdleAny(c) == skipped[c] > 0
\* More than one scan of the table since a process last ran.
Idle(c) == skipped[c] > NPROC

\* End of the inner loop: release, and hlt when idle.
SchedDone(c) ==
    /\ cpc[c] = "scan" /\ idx[c] > NPROC
    /\ ReleasePtable(c)
    /\ IF Idle(c)
       THEN cpc' = [cpc EXCEPT ![c] = "hlt"] /\ skipped' = [skipped EXCEPT ![c] = 0]
       ELSE cpc' = [cpc EXCEPT ![c] = "sti"] /\ UNCHANGED skipped
    /\ idx' = [idx EXCEPT ![c] = 1]
    /\ UNCHANGED <<ptable, thread, proc, tick, clock, panicked>>

\* Mutant: the scan starts again at the first slot after each process.
SchedRestart(c) ==
    /\ cpc[c] = "sched"
    /\ savedena' = [savedena EXCEPT ![proc[c]] = intena[c]]
    /\ proc' = [proc EXCEPT ![c] = NoProc]
    /\ cpc' = [cpc EXCEPT ![c] = "scan"]
    /\ idx' = [idx EXCEPT ![c] = 1]
    /\ UNCHANGED <<ptable, pc, frame, np, ticks0, nsleep, tick, skipped, cpuint,
                   clock, ptlock, panicked>>

\* sched(): save intena, swtch to the scheduler; back there, proc = 0 and p++.
Sched(c) ==
    /\ cpc[c] = "sched"
    /\ savedena' = [savedena EXCEPT ![proc[c]] = intena[c]]
    /\ proc' = [proc EXCEPT ![c] = NoProc]
    /\ cpc' = [cpc EXCEPT ![c] = "scan"]
    /\ idx' = [idx EXCEPT ![c] = @ + 1]
    /\ UNCHANGED <<ptable, pc, frame, np, ticks0, nsleep, tick, skipped, cpuint,
                   clock, ptlock, panicked>>

-----------------------------------------------------------------------------
(* Steps of the thread of cpu->proc.                                       *)

\* The CPU runs its process, which is at control point loc.
At(c, loc) == cpc[c] = "proc" /\ tick[c] = "none" /\ pc[proc[c]] = loc
Goto(c, loc) == pc' = [pc EXCEPT ![proc[c]] = loc]
\* The process has changed its state and calls sched(); it resumes at loc.
CallSched(c, loc) == Goto(c, loc) /\ cpc' = [cpc EXCEPT ![c] = "sched"]

\* forkret releases the lock the scheduler left held.
Forkret(c) ==
    /\ At(c, "forkret")
    /\ ReleasePtable(c)
    /\ Goto(c, "forkret2")
    /\ UNCHANGED <<ptable, locals, cpuctl, clock, panicked>>

\* Return to user mode: the saved flags have FL_IF set.
ToUser(c) ==
    /\ Goto(c, "user")
    /\ flIF' = [flIF EXCEPT ![c] = TRUE]

ForkretReturn(c) ==
    /\ At(c, "forkret2")
    /\ ToUser(c)
    /\ UNCHANGED <<ptable, locals, cpuctl, ncli, intena, clock, ptlock, panicked>>

\* syscall() has run the call: if(proc->killed) exit(), else sysret.
SysRet(c) ==
    /\ At(c, "sysret")
    /\ IF killed[proc[c]] THEN Goto(c, "exiting") /\ UNCHANGED flIF
                          ELSE ToUser(c)
    /\ UNCHANGED <<ptable, locals, cpuctl, ncli, intena, clock, ptlock, panicked>>

-----------------------------------------------------------------------------
(* fork, exit, wait, kill.                                                 *)

Unused == {q \in Slot : state[q] = "UNUSED"}
\* The slot a scan of the table for S stops at.
IsFirst(q, S) == q \in S /\ \A r \in S : q <= r

\* Mutant: the pid counter does not advance.
AllocprocSamePid(q) ==
    /\ state' = [state EXCEPT ![q] = "EMBRYO"]
    /\ pid' = [pid EXCEPT ![q] = nextpid]
    /\ UNCHANGED <<nextpid, parent, chan, killed>>
\* allocproc on the slot it found: nothing but state and pid is written.
Allocproc(q) ==
    /\ state' = [state EXCEPT ![q] = "EMBRYO"]
    /\ pid' = [pid EXCEPT ![q] = nextpid]
    /\ nextpid' = nextpid + 1
    /\ UNCHANGED <<parent, chan, killed>>

\* sys_fork up to the return of allocproc, which takes the first UNUSED slot
\* and makes its new thread start in forkret.
Fork(c) ==
    /\ At(c, "user")
    /\ PtableSection(c)
    /\ \/ Unused = {} /\ Goto(c, "sysret") /\ UNCHANGED <<ptable, np>>
       \/ \E q \in Unused :
            /\ IsFirst(q, Unused)
            /\ nextpid <= MAXPID
            /\ Allocproc(q)
            /\ np' = [np EXCEPT ![proc[c]] = q]
            /\ pc' = [pc EXCEPT ![proc[c]] = "alloced", ![q] = "forkret"]
    /\ UNCHANGED <<frame, ticks0, nsleep, savedena, cpuctl, clock, panicked>>

\* np->parent = proc, without the lock
ForkFill(c) ==
    /\ At(c, "alloced")
    /\ parent' = [parent EXCEPT ![np[proc[c]]] = proc[c]]
    /\ Goto(c, "filled")
    /\ UNCHANGED <<state, pid, chan, killed, nextpid, locals, cpuctl, cpuint,
                   clock, ptlock, panicked>>

\* np->state = RUNNABLE, without the lock
ForkPublish(c) ==
    /\ At(c, "filled")
    /\ state' = [state EXCEPT ![np[proc[c]]] = "RUNNABLE"]
    /\ np' = [np EXCEPT ![proc[c]] = 1]
    /\ Goto(c, "sysret")
    /\ UNCHANGED <<pid, parent, chan, killed, nextpid, frame, ticks0, nsleep,
                   savedena, cpuctl, cpuint, clock, ptlock, panicked>>

\* wakeup1(ch) applied to the states st
Wakeup1(st, ch) ==
    [q \in Slot |-> IF st[q] = "SLEEPING" /\ chan[q] = ch THEN "RUNNABLE" ELSE st[q]]

\* sys_exit.  init.c never calls it unless a fork fails, and does not fault.
CallExit(c) ==
    /\ At(c, "user") /\ proc[c] # initproc
    /\ Goto(c, "exiting")
    /\ flIF' = [flIF EXCEPT ![c] = FALSE]
    /\ UNCHANGED <<ptable, locals, cpuctl, ncli, intena, clock, ptlock, panicked>>

\* An unexpected trap from user mode: proc->killed = 1, then exit().
Fault(c) ==
    /\ At(c, "user") /\ proc[c] # initproc
    /\ killed' = [killed EXCEPT ![proc[c]] = TRUE]
    /\ Goto(c, "exiting")
    /\ flIF' = [flIF EXCEPT ![c] = FALSE]
    /\ UNCHANGED <<state, pid, parent, chan, nextpid, locals, cpuctl, ncli, intena,
                   clock, ptlock, panicked>>

\* Mutant: exit does not wake its parent.
ExitStatesQuiet(p) == [state EXCEPT ![p] = "ZOMBIE"]
\* p->state after exit: the parent is woken, init too if it inherits a zombie.
ExitStates(p) ==
    LET st == Wakeup1(state, parent[p])
        inherits == \E q \in Slot : parent[q] = p /\ st[q] = "ZOMBIE"
    IN  [(IF inherits THEN Wakeup1(st, initproc) ELSE st) EXCEPT ![p] = "ZOMBIE"]

Reparented(p) == [q \in Slot |-> IF parent[q] = p THEN initproc ELSE parent[q]]

\* The body of exit() under ptable.lock, up to the call of sched().
Exit(c) ==
    /\ At(c, "exiting") /\ proc[c] # initproc
    /\ AcquirePtable(c, FALSE)
    /\ state' = ExitStates(proc[c])
    /\ parent' = Reparented(proc[c])
    /\ CallSched(c, "dead")
    /\ UNCHANGED <<pid, chan, killed, nextpid, locals, proc, tick, idx, skipped,
                   clock, panicked>>

\* panic("init exiting")
ExitInit(c) ==
    /\ At(c, "exiting") /\ proc[c] = initproc
    /\ panicked' = TRUE
    /\ UNCHANGED <<ptable, thread, cpuctl, cpuint, clock, ptlock>>

\* One pass of wait()'s for(;;) with ptable.lock held.  Each outcome says what
\* happens to the lock through its first conjunct in Wait and WaitAgain.
Kids(p) == {q \in Slot : parent[q] = p}
Zombies(p) == {q \in Kids(p) : state[q] = "ZOMBIE"}
GiveUp(p) == Zombies(p) = {} /\ (Kids(p) = {} \/ killed[p])
MustSleep(p) == Zombies(p) = {} /\ Kids(p) # {} /\ ~killed[p]

\* A zombie child is freed.
Reap(c) ==
    \E q \in Zombies(proc[c]) :
        /\ IsFirst(q, Zombies(proc[c]))
        /\ state' = [state EXCEPT ![q] = "UNUSED"]
        /\ pid' = [pid EXCEPT ![q] = 0]
        /\ parent' = [parent EXCEPT ![q] = NoProc]
        /\ killed' = [killed EXCEPT ![q] = FALSE]
        /\ pc' = [pc EXCEPT ![proc[c]] = "sysret", ![q] = "none"]
        /\ UNCHANGED nextpid

\* sleep(proc, &ptable.lock)
WaitSleep(c) ==
    /\ MustSleep(proc[c])
    /\ state' = [state EXCEPT ![proc[c]] = "SLEEPING"]
    /\ chan' = [chan EXCEPT ![proc[c]] = proc[c]]
    /\ CallSched(c, "waitloop")
    /\ UNCHANGED <<pid, parent, killed, nextpid>>

\* sys_wait: acquire and the first pass
Wait(c) ==
    /\ At(c, "user")
    /\ \/ PtableSection(c) /\ Reap(c) /\ UNCHANGED <<chan, cpc>>
       \/ /\ PtableSection(c) /\ GiveUp(proc[c]) /\ Goto(c, "sysret")
          /\ UNCHANGED <<ptable, cpc>>
       \/ AcquirePtable(c, FALSE) /\ WaitSleep(c)
    /\ UNCHANGED <<locals, proc, tick, idx, skipped, clock, panicked>>

\* back from sleep with ptable.lock held: chan = 0 and another pass
WaitAgain(c) ==
    /\ At(c, "waitloop")
    /\ \/ /\ ReleasePtable(c) /\ Reap(c)
          /\ chan' = [chan EXCEPT ![proc[c]] = 0] /\ UNCHANGED cpc
       \/ /\ GiveUp(proc[c]) /\ ReleasePtable(c) /\ Goto(c, "sysret")
          /\ chan' = [chan EXCEPT ![proc[c]] = 0]
          /\ UNCHANGED <<state, pid, parent, killed, nextpid, cpc>>
       \/ WaitSleep(c) /\ UNCHANGED <<cpuint, ptlock>>
    /\ UNCHANGED <<locals, proc, tick, idx, skipped, clock, panicked>>

\* Mutant: kill makes a zombie RUNNABLE too.
KillStatesZombie(q) == [state EXCEPT ![q] = IF @ \in {"SLEEPING", "ZOMBIE"} THEN "RUNNABLE" ELSE @]
\* Wake process from sleep if necessary.
KillStates(q) == [state EXCEPT ![q] = IF @ = "SLEEPING" THEN "RUNNABLE" ELSE @]

Target(k) == {q \in Slot : pid[q] = k}

\* sys_kill(k)
Kill(c, k) ==
    /\ At(c, "user")
    /\ PtableSection(c)
    /\ \/ Target(k) = {} /\ UNCHANGED <<state, killed>>
       \/ \E q \in Target(k) :
            /\ IsFirst(q, Target(k))
            /\ killed' = [killed EXCEPT ![q] = TRUE]
            /\ state' = KillStates(q)
    /\ Goto(c, "sysret")
    /\ UNCHANGED <<pid, parent, chan, nextpid, locals, cpuctl, clock, panicked>>

-----------------------------------------------------------------------------
(* sys_sleep, and through it sleep() with a lock other than ptable.lock.   *)

\* acquire(&tickslock); ticks0 = ticks
SleepCall(c, n) ==
    /\ At(c, "user")
    /\ AcquireTicks(c)
    /\ ticks0' = [ticks0 EXCEPT ![proc[c]] = ticks]
    /\ nsleep' = [nsleep EXCEPT ![proc[c]] = n]
    /\ Goto(c, "sleepchk")
    /\ UNCHANGED <<ptable, frame, np, savedena, cpuctl, ticks, ptlock, panicked>>

\* ticks - ticks0 in unsigned arithmetic
Elapsed(p) == (ticks - ticks0[p]) % TICKMOD

\* Mutant: the loop does not look at killed.
KeepSleepingKilled(p) == Elapsed(p) < nsleep[p]
KeepSleeping(p) == Elapsed(p) < nsleep[p] /\ ~killed[p]

\* The while test and the killed test: return, or call sleep.
SleepCheck(c) ==
    /\ At(c, "sleepchk")
    /\ IF KeepSleeping(proc[c])
       THEN Goto(c, "sleepacq") /\ UNCHANGED <<cpuint, tickslock, ticks0, nsleep>>
       ELSE /\ Goto(c, "sysret") /\ ReleaseTicks(c)
            /\ ticks0' = [ticks0 EXCEPT ![proc[c]] = 0]
            /\ nsleep' = [nsleep EXCEPT ![proc[c]] = 0]
    /\ UNCHANGED <<ptable, frame, np, savedena, cpuctl, ticks, ptlock, panicked>>

\* Mutant: sleep keeps lk.
SwapLocksKeep(c) ==
    /\ ptlock = NoCPU /\ ptlock' = c
    /\ ncli' = [ncli EXCEPT ![c] = @ + 1]
    /\ UNCHANGED <<flIF, intena, tickslock>>

\* acquire(&ptable.lock); release(lk): cli stays pushed once.
SwapLocks(c) ==
    /\ ptlock = NoCPU /\ ptlock' = c
    /\ tickslock' = NoCPU
    /\ UNCHANGED cpuint

\* sleep(&ticks, &tickslock): acquire ptable.lock, release tickslock, sleep.
SleepSleep(c) ==
    /\ At(c, "sleepacq")
    /\ SwapLocks(c)
    /\ chan' = [chan EXCEPT ![proc[c]] = TicksChan]
    /\ state' = [state EXCEPT ![proc[c]] = "SLEEPING"]
    /\ CallSched(c, "sleepwoke")
    /\ UNCHANGED <<pid, parent, killed, nextpid, locals, proc, tick, idx, skipped,
                   ticks, panicked>>

\* Awake: chan = 0 and release ptable.lock
SleepWoke(c) ==
    /\ At(c, "sleepwoke")
    /\ chan' = [chan EXCEPT ![proc[c]] = 0]
    /\ ReleasePtable(c)
    /\ Goto(c, "sleepreacq")
    /\ UNCHANGED <<state, pid, parent, killed, nextpid, locals, cpuctl, clock,
                   panicked>>

\* acquire(lk) at the end of sleep
SleepReacquire(c) ==
    /\ At(c, "sleepreacq")
    /\ AcquireTicks(c)
    /\ Goto(c, "sleepchk")
    /\ UNCHANGED <<ptable, locals, cpuctl, ticks, ptlock, panicked>>

-----------------------------------------------------------------------------
(* The timer interrupt (trap.c) and yield.                                 *)

\* The CPU takes a timer interrupt; the gate turns interrupts off.  Only the
\* boot CPU counts it.  hlt ends, and scheduler() goes round again.
Timer(c) ==
    /\ flIF[c] /\ tick[c] = "none"
    /\ flIF' = IF c = BootCPU \/ cpc[c] = "proc" THEN [flIF EXCEPT ![c] = FALSE] ELSE flIF
    /\ tick' = [tick EXCEPT ![c] = IF c = BootCPU THEN "lock" ELSE "none"]
    /\ IF cpc[c] = "proc"
       THEN /\ frame' = [frame EXCEPT ![proc[c]] = pc[proc[c]]]
            /\ Goto(c, "trapchk")
            /\ UNCHANGED cpc
       ELSE /\ cpc' = [cpc EXCEPT ![c] = IF @ = "hlt" THEN "sti" ELSE @]
            /\ UNCHANGED <<pc, frame>>
    /\ UNCHANGED <<ptable, np, ticks0, nsleep, savedena, proc, idx, skipped, ncli,
                   intena, clock, ptlock, panicked>>

\* acquire(&tickslock); ticks++
TickCount(c) ==
    /\ tick[c] = "lock"
    /\ AcquireTicks(c)
    /\ ticks' = (ticks + 1) % TICKMOD
    /\ tick' = [tick EXCEPT ![c] = "wake"]
    /\ UNCHANGED <<ptable, thread, proc, cpc, idx, skipped, ptlock, panicked>>

\* Mutant: the interrupt of the clock wakes nobody.
TickWakeNobody(c) ==
    /\ tick[c] = "wake"
    /\ ptlock = NoCPU
    /\ tickslock' = NoCPU
    /\ ncli' = [ncli EXCEPT ![c] = @ - 1]
    /\ flIF' = IF cpc[c] = "proc" THEN flIF ELSE [flIF EXCEPT ![c] = TRUE]
    /\ tick' = [tick EXCEPT ![c] = "none"]
    /\ UNCHANGED <<ptable, thread, proc, cpc, idx, skipped, intena, ticks, ptlock, panicked>>

\* wakeup(&ticks); release(&tickslock).  In the scheduler, iret follows.
TickWake(c) ==
    /\ tick[c] = "wake"
    /\ ptlock = NoCPU
    /\ state' = Wakeup1(state, TicksChan)
    /\ tickslock' = NoCPU
    /\ ncli' = [ncli EXCEPT ![c] = @ - 1]
    /\ flIF' = IF cpc[c] = "proc" THEN flIF ELSE [flIF EXCEPT ![c] = TRUE]
    /\ tick' = [tick EXCEPT ![c] = "none"]
    /\ UNCHANGED <<pid, parent, chan, killed, nextpid, thread, proc, cpc, idx,
                   skipped, intena, ticks, ptlock, panicked>>

\* First killed test of trap(): exit(), or go on to yield().
TrapCheck(c) ==
    /\ At(c, "trapchk")
    /\ IF killed[proc[c]] /\ frame[proc[c]] = "user" THEN Goto(c, "exiting")
                                                     ELSE Goto(c, "yield")
    /\ UNCHANGED <<ptable, locals, cpuctl, cpuint, clock, ptlock, panicked>>

\* yield(): acquire, RUNNABLE, sched
Yield(c) ==
    /\ At(c, "yield")
    /\ AcquirePtable(c, FALSE)
    /\ state' = [state EXCEPT ![proc[c]] = "RUNNABLE"]
    /\ CallSched(c, "yielded")
    /\ UNCHANGED <<pid, parent, chan, killed, nextpid, locals, proc, tick, idx,
                   skipped, clock, panicked>>

Yielded(c) ==
    /\ At(c, "yielded")
    /\ ReleasePtable(c)
    /\ Goto(c, "trapret")
    /\ UNCHANGED <<ptable, locals, cpuctl, clock, panicked>>

\* Last killed test of trap(), then iret to the interrupted code.
TrapReturn(c) ==
    /\ At(c, "trapret")
    /\ IF killed[proc[c]] /\ frame[proc[c]] = "user"
       THEN Goto(c, "exiting") /\ UNCHANGED flIF
       ELSE Goto(c, frame[proc[c]]) /\ flIF' = [flIF EXCEPT ![c] = TRUE]
    /\ frame' = [frame EXCEPT ![proc[c]] = "user"]
    /\ UNCHANGED <<ptable, np, ticks0, nsleep, savedena, cpuctl, ncli, intena,
                   clock, ptlock, panicked>>

-----------------------------------------------------------------------------
\* What a CPU does on its own: the scheduler, kernel code, the timer handler.
KernelStep(c) ==
    \/ SchedSti(c) \/ SchedAcquire(c) \/ SchedSkip(c) \/ SchedRun(c) \/ SchedDone(c)
    \/ Sched(c) \/ Forkret(c) \/ ForkretReturn(c) \/ SysRet(c)
    \/ ForkFill(c) \/ ForkPublish(c) \/ Exit(c) \/ ExitInit(c) \/ WaitAgain(c)
    \/ SleepCheck(c) \/ SleepSleep(c) \/ SleepWoke(c) \/ SleepReacquire(c)
    \/ TickCount(c) \/ TickWake(c) \/ TrapCheck(c)
    \/ Yield(c) \/ Yielded(c) \/ TrapReturn(c)

\* What a user program may ask for, or cause.
UserStep(c) ==
    \/ Fork(c) \/ CallExit(c) \/ Fault(c) \/ Wait(c)
    \/ \E k \in KillPids : Kill(c, k)
    \/ \E n \in SleepArgs : SleepCall(c, n)

\* panic() never returns: for(;;) hlt()
PanicLoop == panicked /\ UNCHANGED vars

Next ==
    \/ ~panicked /\ \E c \in CPU : KernelStep(c) \/ UserStep(c) \/ Timer(c)
    \/ PanicLoop

Spec == Init /\ [][Next]_vars

-----------------------------------------------------------------------------
(* Safety.                                                                 *)

\* Control points of CPU c at which the code holds ptable.lock, or tickslock.
HoldsPtable(c) ==
    \/ cpc[c] \in {"scan", "sched"}
    \/ At(c, "forkret") \/ At(c, "waitloop") \/ At(c, "sleepwoke") \/ At(c, "yielded")
HoldsTicks(c) == tick[c] = "wake" \/ At(c, "sleepchk") \/ At(c, "sleepacq")

LockOk(c) ==
    /\ (ptlock = c) <=> HoldsPtable(c)
    /\ (tickslock = c) <=> HoldsTicks(c)
    /\ ncli[c] = (IF ptlock = c THEN 1 ELSE 0) + (IF tickslock = c THEN 1 ELSE 0)
    /\ ncli[c] > 0 => ~flIF[c]

\* Both spinlocks are held exactly at the control points where the code has
\* acquired and not yet released them, although ptable.lock is acquired by one
\* thread and released by another across swtch; and cpu->ncli counts the locks
\* this CPU holds.  So acquire() never finds its own lock held, release() never
\* finds it free, and popcli() never goes below zero (the panics of spinlock.c).
LockDiscipline == \A c \in CPU : LockOk(c)

\* The four panics of sched() are unreachable: whenever a thread calls sched()
\* it holds ptable.lock and no other lock, has given up RUNNING, and interrupts
\* are off.
SchedAsserts ==
    \A c \in CPU : cpc[c] = "sched" =>
        /\ ptlock = c
        /\ ncli[c] = 1
        /\ state[proc[c]] # "RUNNING"
        /\ ~flIF[c]

\* A kernel stack is used by one CPU at a time and is not freed or handed to a
\* new process while a CPU is still on it: exit() marks the process ZOMBIE
\* before it has left its stack, and wait() frees that stack.  Conversely a
\* RUNNING process is on some CPU: none is lost to every scheduler.
StackSafe ==
    /\ \A c \in CPU : proc[c] # NoProc =>
        /\ state[proc[c]] \notin {"UNUSED", "EMBRYO"}
        /\ state[proc[c]] # "RUNNING" => cpc[c] = "sched"
        /\ \A d \in CPU \ {c} : proc[d] # proc[c]
    /\ \A p \in Slot : state[p] = "RUNNING" => \E c \in CPU : proc[c] = p

\* No lost wakeup between exit and wait: a process asleep in wait() has no
\* zombie child, own or inherited, to collect.
NoLostExit ==
    \A p \in Slot : state[p] = "SLEEPING" /\ chan[p] = p => Zombies(p) = {}

\* A process asleep in wait() has not been killed: wait() tests killed under
\* ptable.lock and kill() sets it under the same lock.
NoKilledWaiter ==
    \A p \in Slot : state[p] = "SLEEPING" /\ chan[p] = p => ~killed[p]

\* No lost wakeup between the clock and sys_sleep: while nobody holds
\* tickslock, a process asleep on ticks still has time to sleep.
NoMissedTick ==
    \A p \in Slot : state[p] = "SLEEPING" /\ chan[p] = TicksChan /\ tickslock = NoCPU
                    => Elapsed(p) < nsleep[p]

\* Every process but init has a parent that has not exited, so that somebody
\* can reap it: exit() hands children to init before the parent is a zombie.
LiveParents ==
    \A p \in Slot \ {initproc} :
        state[p] \notin {"UNUSED", "EMBRYO"} =>
            /\ parent[p] # NoProc
            /\ state[parent[p]] \in {"RUNNABLE", "RUNNING", "SLEEPING"}

\* Live slots have distinct positive pids, all below nextpid; a free slot has
\* pid 0.  kill() and wait() identify a process by its pid alone.
UniquePids ==
    \A p \in Slot :
        /\ state[p] = "UNUSED" <=> pid[p] = 0
        /\ pid[p] < nextpid
        /\ \A q \in Slot \ {p} : pid[p] = pid[q] => pid[p] = 0

\* The process table is consistent: its fields have their types, parents are alive,
\* pids identify processes, and no killed process is left asleep in wait().
TableConsistent == TypeOK /\ LiveParents /\ UniquePids /\ NoKilledWaiter

\* hlt is only executed with interrupts enabled, although release() restores
\* the intena left by whichever thread ran last: otherwise the CPU is lost.
HaltInterruptible == \A c \in CPU : cpc[c] = "hlt" /\ tick[c] = "none" => flIF[c]

\* The life cycle of a slot: each change of p->state follows one of these
\* edges, so a wakeup or a fork never resurrects a zombie or a free slot.
Edges == {<<"UNUSED", "EMBRYO">>, <<"EMBRYO", "RUNNABLE">>, <<"RUNNABLE", "RUNNING">>,
          <<"RUNNING", "RUNNABLE">>, <<"RUNNING", "SLEEPING">>, <<"RUNNING", "ZOMBIE">>,
          <<"SLEEPING", "RUNNABLE">>, <<"ZOMBIE", "UNUSED">>}
LifeCycle ==
    [][\A p \in Slot : state'[p] # state[p] => <<state[p], state'[p]>> \in Edges]_vars

-----------------------------------------------------------------------------
(* Liveness.  A CPU that spins on a lock which is free again and again     *)
(* gets it (strong fairness of its steps); the local APIC keeps a timer    *)
(* interrupt pending until the CPU enables interrupts, but does not hit    *)
(* the same two instructions every time; and init.c keeps calling wait().  *)
(* User programs otherwise owe nothing: a process may run in user mode for *)
(* ever.                                                                   *)
InitWaits(c) == proc[c] = initproc /\ Wait(c)

Fair ==
    \A c \in CPU : /\ SF_vars(~panicked /\ KernelStep(c))
                   /\ SF_vars(~panicked /\ (SchedSti(c) \/ SchedAcquire(c)))
                   /\ SF_vars(~panicked /\ ForkretReturn(c))
                   /\ SF_vars(~panicked /\ Timer(c))

\* init.c calls no sleep; it forks and waits for ever.
InitNeverSleeps == pc'[initproc] # "sleepchk"
LiveNext ==
    \/ ~panicked /\ \E c \in CPU : KernelStep(c) \/ (UserStep(c) /\ InitNeverSleeps) \/ Timer(c)
    \/ PanicLoop
LiveSpec ==
    /\ Init /\ [][LiveNext]_vars
    /\ Fair
    /\ \A c \in CPU : SF_vars(~panicked /\ InitWaits(c))

\* Every RUNNABLE process is run: the scan of scheduler() starves nobody, even
\* though it goes on behind the process that ran and an idle CPU halts.
EventuallyRuns ==
    \A p \in Slot : state[p] = "RUNNABLE" ~> (state[p] = "RUNNING" \/ panicked)

\* A killed process other than init stops: wherever it is, asleep on ticks
\* included, it comes back to a killed test and exits.
KilledExits ==
    \A p \in Slot \ {initproc} : (killed[p] /\ state[p] \in {"RUNNABLE", "RUNNING", "SLEEPING"})
                    ~> (state[p] \in {"ZOMBIE", "UNUSED"} \/ panicked)

\* A zombie whose parent exits without waiting is inherited and reaped by init.
OrphansReaped ==
    \A p \in Slot : (state[p] = "ZOMBIE" /\ parent[p] = initproc)
                    ~> (state[p] = "UNUSED" \/ panicked)

=============================================================================
