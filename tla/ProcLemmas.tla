----------------------------- MODULE ProcLemmas -----------------------------
(***************************************************************************)
(* Facts that the invariance proof of ProcProofs uses for every action:    *)
(* what the invariant says at one control point, and what a step that only *)
(* moves the running thread preserves; the steps that do no more, and      *)
(* those of sleep(), wait(), the timer interrupt and yield().              *)
(***************************************************************************)
EXTENDS ProcInv, TLAPS

USE NPROCAssumption, CPUAssumption, TicksAssumption, PidAssumption

\* The null proc pointer is no slot of ptable; initproc is one.
LEMMA SlotFacts == NoProc \notin Slot /\ initproc \in Slot /\ Slot \subseteq Nat
  BY DEF Slot, NoProc, initproc

\* The channels sleep() is called with: &ticks and the address of a slot.
LEMMA ChanFacts ==
  Slot \subseteq Chan /\ 0 \in Chan /\ TicksChan \in Chan /\ 0 \notin Slot /\ TicksChan \notin Slot
  BY DEF Slot, Chan, TicksChan

\* A CPU that runs a thread runs a RUNNING process no other CPU has.
LEMMA Running ==
  ASSUME NEW c \in CPU, IInv, cpc[c] = "proc"
  PROVE  /\ proc[c] \in Slot /\ state[proc[c]] = "RUNNING"
         /\ \A d \in CPU : proc[d] = proc[c] => d = c
         /\ \A d \in CPU : proc[d] # NoProc => proc[d] \in Slot
         /\ pc[proc[c]] \in PcLoc
<1> USE DEF IInv
<1>1. proc[c] \in Slot /\ \A d \in CPU : proc[d] # NoProc => proc[d] \in Slot
  BY SlotFacts DEF TypeOK, CpuType, CpuInv, CpuOk
<1>2. state[proc[c]] = "RUNNING"
  BY Zenon DEF CpuInv, CpuOk
<1>3. \A d \in CPU : proc[d] = proc[c] => d = c
  BY <1>1, SlotFacts, Zenon DEF CpuInv, CpuOk
<1>4. pc[proc[c]] \in PcLoc
  BY <1>1, Zenon DEF TypeOK, ThreadType
<1> QED  BY <1>1, <1>2, <1>3, <1>4, Zenon

\* The locks and the interrupt state of a CPU that runs a thread.
LEMMA ThreadLocks ==
  ASSUME NEW c \in CPU, IInv, cpc[c] = "proc", tick[c] = "none"
  PROVE  /\ ptlock = c <=> pc[proc[c]] \in ParkLoc
         /\ tickslock = c <=> pc[proc[c]] \in {"sleepchk", "sleepacq"}
         /\ ncli[c] = IF pc[proc[c]] \in ParkLoc \cup {"sleepchk", "sleepacq"} THEN 1 ELSE 0
         /\ pc[proc[c]] \notin {"user", "forkret2"} => ~flIF[c]
         /\ pc[proc[c]] # "forkret" => ~intena[c]
<1> USE DEF IInv, TableInv
<1>1. ptlock = c <=> pc[proc[c]] \in ParkLoc
  BY Zenon DEF LockDiscipline, LockOk, HoldsPtable, At, ParkLoc
<1>2. tickslock = c <=> pc[proc[c]] \in {"sleepchk", "sleepacq"}
  BY Zenon DEF LockDiscipline, LockOk, HoldsTicks, At
<1>3. ncli[c] = IF pc[proc[c]] \in ParkLoc \cup {"sleepchk", "sleepacq"} THEN 1 ELSE 0
  BY <1>1, <1>2 DEF LockDiscipline, LockOk, ParkLoc
<1>4. /\ pc[proc[c]] \notin {"user", "forkret2"} => ~flIF[c]
      /\ pc[proc[c]] # "forkret" => ~intena[c]
  BY Zenon DEF IntrInv, IntrOk
<1> QED  BY <1>1, <1>2, <1>3, <1>4, Zenon

\* The locks and the interrupt state of a CPU in scheduler() or in sched().
LEMMA CpuLocks ==
  ASSUME NEW c \in CPU, IInv, cpc[c] # "proc"
  PROVE  /\ ptlock = c <=> cpc[c] \in {"scan", "sched"}
         /\ tickslock = c <=> tick[c] = "wake"
         /\ ncli[c] = IF cpc[c] \in {"scan", "sched"} \/ tick[c] = "wake" THEN 1 ELSE 0
         /\ cpc[c] \in {"scan", "sched", "hlt"} => tick[c] = "none"
         /\ cpc[c] # "scan" => ~intena[c]
<1> USE DEF IInv, TableInv
<1>1. ptlock = c <=> cpc[c] \in {"scan", "sched"}
  BY Zenon DEF LockDiscipline, LockOk, HoldsPtable, At
<1>2. tickslock = c <=> tick[c] = "wake"
  BY Zenon DEF LockDiscipline, LockOk, HoldsTicks, At
<1>3. /\ cpc[c] \in {"scan", "sched", "hlt"} => tick[c] = "none"
      /\ cpc[c] # "scan" => ~intena[c]
  BY Zenon DEF IntrInv, IntrOk
<1>4. ncli[c] = IF cpc[c] \in {"scan", "sched"} \/ tick[c] = "wake" THEN 1 ELSE 0
  BY <1>1, <1>2, <1>3 DEF LockDiscipline, LockOk
<1> QED  BY <1>1, <1>2, <1>3, <1>4, Zenon

\* The locks and the interrupt state of a CPU inside the timer handler.
LEMMA TickLocks ==
  ASSUME NEW c \in CPU, IInv, tick[c] # "none"
  PROVE  /\ ptlock # c /\ ~flIF[c] /\ ~intena[c]
         /\ tickslock = c <=> tick[c] = "wake"
         /\ ncli[c] = IF tick[c] = "wake" THEN 1 ELSE 0
<1> USE DEF IInv, TableInv
<1>1. ptlock # c
  BY Zenon DEF LockDiscipline, LockOk, HoldsPtable, At, IntrInv, IntrOk
<1>2. tickslock = c <=> tick[c] = "wake"
  BY Zenon DEF LockDiscipline, LockOk, HoldsTicks, At
<1>3. ncli[c] = IF tick[c] = "wake" THEN 1 ELSE 0
  BY <1>1, <1>2 DEF LockDiscipline, LockOk
<1>4. ~flIF[c] /\ ~intena[c]
  BY Zenon DEF IntrInv, IntrOk
<1> QED  BY <1>1, <1>2, <1>3, <1>4, Zenon

\* A CPU with interrupts enabled holds no lock and is where a timer may hit.
LEMMA Interruptible ==
  ASSUME NEW c \in CPU, IInv, flIF[c]
  PROVE  /\ ptlock # c /\ tickslock # c /\ ncli[c] = 0 /\ ~intena[c]
         /\ \/ cpc[c] \in {"sti", "acquire", "hlt"}
            \/ cpc[c] = "proc" /\ pc[proc[c]] \in {"user", "forkret2"}
<1> USE DEF IInv, TableInv
<1>1. \/ cpc[c] \in {"sti", "acquire", "hlt"}
      \/ cpc[c] = "proc" /\ pc[proc[c]] \in {"user", "forkret2"}
  BY Zenon DEF IntrInv, IntrOk
<1>2. ncli[c] = 0
  BY DEF LockDiscipline, LockOk, TypeOK, LockType
<1>3. ptlock # c /\ tickslock # c
  BY <1>2 DEF LockDiscipline, LockOk
<1>4. ~intena[c]
  BY <1>1, Zenon DEF IntrInv, IntrOk
<1> QED  BY <1>1, <1>2, <1>3, <1>4, Zenon

\* popcli() out of the outermost pushcli() restores intena.
LEMMA PopcliOne ==
  ASSUME NEW c \in CPU, ncli[c] = 1, Popcli(c)
  PROVE  /\ ncli' = [ncli EXCEPT ![c] = 0]
         /\ flIF' = IF intena[c] THEN [flIF EXCEPT ![c] = TRUE] ELSE flIF
         /\ intena' = [intena EXCEPT ![c] = FALSE]
  BY DEF Popcli

\* The outermost pushcli() saves the interrupt flag.
LEMMA PushcliZero ==
  ASSUME NEW c \in CPU, NEW f \in BOOLEAN, TypeOK, ncli[c] = 0, Pushcli(c, f)
  PROVE  /\ ncli' = [ncli EXCEPT ![c] = 1]
         /\ flIF' = [flIF EXCEPT ![c] = FALSE]
         /\ intena' = [intena EXCEPT ![c] = f]
  BY DEF Pushcli

\* A step that leaves ptable alone keeps the invariants about it.
LEMMA PtableFrame ==
  ASSUME IInv, UNCHANGED ptable
  PROVE  LiveParents' /\ UniquePids' /\ NoLostExit' /\ NoKilledWaiter'
  BY DEF IInv, TableInv, ptable, LiveParents, UniquePids, NoLostExit, NoKilledWaiter, Zombies, Kids

\* A step that leaves ptable, the threads and cpu->proc alone keeps all of TableInv.
LEMMA ThreadFrame ==
  ASSUME IInv, UNCHANGED <<ptable, pc, np, savedena, proc>>
  PROVE  TableInv'
<1>1. SlotInv' /\ ForkInv'
  BY DEF IInv, TableInv, ptable, SlotInv, SlotOk, ForkInv
<1> QED  BY <1>1, PtableFrame, Zenon DEF TableInv

\* The step is one of CPU c: what it leaves alone of every other CPU.
Undisturbed(c) ==
    \A d \in CPU \ {c} :
        /\ proc'[d] = proc[d] /\ cpc'[d] = cpc[d] /\ tick'[d] = tick[d]
        /\ idx'[d] = idx[d] /\ skipped'[d] = skipped[d]
        /\ flIF'[d] = flIF[d] /\ ncli'[d] = ncli[d] /\ intena'[d] = intena[d]
        /\ ptlock' = d <=> ptlock = d
        /\ tickslock' = d <=> tickslock = d
        /\ proc[d] # NoProc => /\ state'[proc[d]] = state[proc[d]]
                               /\ cpc[d] = "proc" => pc'[proc[d]] = pc[proc[d]]
                               /\ proc'[c] # proc[d]

LocalInv(c) == CpuOk(c) /\ IntrOk(c) /\ ScanOk(c) /\ LockOk(c)

\* A step of CPU c that leaves the others alone only has to keep its own part
\* of the invariants about CPUs.
LEMMA OtherCpus ==
  ASSUME NEW c \in CPU, IInv, Undisturbed(c), LocalInv(c)'
  PROVE  CpuInv' /\ IntrInv' /\ ScanInv' /\ LockDiscipline'
<1> USE DEF IInv, TableInv, Undisturbed, LocalInv
<1> SUFFICES ASSUME NEW d \in CPU \ {c}
             PROVE  CpuOk(d)' /\ IntrOk(d)' /\ ScanOk(d)' /\ LockOk(d)'
  BY Zenon DEF CpuInv, IntrInv, ScanInv, LockDiscipline
<1>1. CpuOk(d)'
  BY DEF CpuInv, CpuOk
<1>2. IntrOk(d)'
  BY DEF CpuInv, CpuOk, IntrInv, IntrOk
<1>3. ScanOk(d)'
  BY DEF ScanInv, ScanOk
<1>4. LockOk(d)'
  BY DEF CpuInv, CpuOk, LockDiscipline, LockOk, HoldsPtable, HoldsTicks, At
<1> QED  BY <1>1, <1>2, <1>3, <1>4, Zenon

\* The step takes the running thread of CPU c, and no other, to loc.
Moved(c, loc) ==
    /\ pc' \in [Slot -> PcLoc] /\ pc'[proc[c]] = loc
    /\ \A d \in CPU \ {c} : proc[d] # NoProc =>
           proc[d] # proc[c] /\ pc'[proc[d]] = pc[proc[d]]

\* A step that only moves the running thread of CPU c to loc, where loc is not
\* inside fork, keeps what the invariant says of slots and of the other CPUs.
LEMMA GotoFrame ==
  ASSUME NEW c \in CPU, NEW loc \in PcLoc \ {"none", "dead", "alloced", "filled"}, IInv,
         cpc[c] = "proc", Goto(c, loc), UNCHANGED ptable, UNCHANGED <<np, savedena, proc>>
  PROVE  Moved(c, loc) /\ TableInv'
<1> USE DEF IInv, TableInv
<1>0. /\ proc[c] \in Slot /\ state[proc[c]] = "RUNNING"
      /\ \A d \in CPU : proc[d] = proc[c] => d = c
  BY Running, Zenon
<1>1. \A d \in CPU : proc[d] # NoProc => proc[d] \in Slot
  BY Zenon DEF TypeOK, CpuType
<1>2. pc' \in [Slot -> PcLoc] /\ pc'[proc[c]] = loc
  BY <1>0, Zenon DEF Goto, TypeOK, ThreadType
<1>3. \A d \in CPU \ {c} : proc[d] # NoProc =>
          proc[d] # proc[c] /\ pc'[proc[d]] = pc[proc[d]]
  BY <1>0, <1>1, Zenon DEF Goto, TypeOK, ThreadType
<1>4. SlotInv'
  BY <1>0 DEF ptable, Goto, TypeOK, ThreadType, SlotInv, SlotOk
<1>5. ForkInv'
  BY <1>0 DEF ptable, Goto, TypeOK, ThreadType, ForkInv
<1> QED  BY <1>2, <1>3, <1>4, <1>5, PtableFrame, Zenon DEF Moved

\* The locks and the interrupt state at the control point loc of a thread.
LocksAt(c, loc) ==
    /\ ptlock = c <=> loc \in ParkLoc
    /\ tickslock = c <=> loc \in {"sleepchk", "sleepacq"}
    /\ ncli[c] = IF loc \in ParkLoc \cup {"sleepchk", "sleepacq"} THEN 1 ELSE 0
    /\ flIF[c] => loc \in {"user", "forkret2"}
    /\ intena[c] => loc = "forkret"

\* What a step of CPU c may change of the locks and the interrupt state.
LockStep(c) ==
    /\ LockType'
    /\ ptlock' = ptlock \/ {ptlock, ptlock'} \subseteq {c, NoCPU}
    /\ tickslock' = tickslock \/ {tickslock, tickslock'} \subseteq {c, NoCPU}
    /\ \A d \in CPU \ {c} : flIF'[d] = flIF[d] /\ ncli'[d] = ncli[d] /\ intena'[d] = intena[d]

\* acquire() of a first lock, which CPU c does not hold: cli is pushed once.
LEMMA AcquireStep ==
  ASSUME NEW c \in CPU, NEW f \in BOOLEAN, TypeOK, ncli[c] = 0,
         \/ AcquirePtable(c, f) /\ UNCHANGED tickslock
         \/ AcquireTicks(c) /\ f = FALSE /\ UNCHANGED ptlock
  PROVE  LockStep(c) /\ ncli'[c] = 1 /\ ~flIF'[c] /\ intena'[c] = f
<1>1. Pushcli(c, f)
  BY Zenon DEF AcquirePtable, AcquireTicks
<1>2. /\ ncli' = [ncli EXCEPT ![c] = 1]
      /\ flIF' = [flIF EXCEPT ![c] = FALSE]
      /\ intena' = [intena EXCEPT ![c] = f]
  BY <1>1, PushcliZero, Zenon
<1>3. /\ ptlock' = ptlock \/ (ptlock = NoCPU /\ ptlock' = c)
      /\ tickslock' = tickslock \/ (tickslock = NoCPU /\ tickslock' = c)
  BY Zenon DEF AcquirePtable, AcquireTicks
<1> QED  BY <1>2, <1>3 DEF LockStep, LockType, TypeOK

\* release() of the only lock CPU c holds: popcli restores intena.
LEMMA ReleaseStep ==
  ASSUME NEW c \in CPU, TypeOK, ncli[c] = 1,
         \/ ReleasePtable(c) /\ ptlock = c /\ UNCHANGED tickslock
         \/ ReleaseTicks(c) /\ tickslock = c /\ UNCHANGED ptlock
  PROVE  /\ LockStep(c) /\ ncli'[c] = 0 /\ ~intena'[c]
         /\ (intena[c] => flIF'[c]) /\ (~flIF[c] /\ ~intena[c] => ~flIF'[c])
<1>1. Popcli(c)
  BY Zenon DEF ReleasePtable, ReleaseTicks
<1>2. /\ ncli' = [ncli EXCEPT ![c] = 0]
      /\ flIF' = IF intena[c] THEN [flIF EXCEPT ![c] = TRUE] ELSE flIF
      /\ intena' = [intena EXCEPT ![c] = FALSE]
  BY <1>1, PopcliOne, Zenon
<1>3. /\ ptlock' = ptlock \/ (ptlock = c /\ ptlock' = NoCPU)
      /\ tickslock' = tickslock \/ (tickslock = c /\ tickslock' = NoCPU)
  BY Zenon DEF ReleasePtable, ReleaseTicks
<1>4. /\ flIF' \in [CPU -> BOOLEAN]
      /\ (intena[c] => flIF'[c]) /\ (~flIF[c] /\ ~intena[c] => ~flIF'[c])
      /\ \A d \in CPU \ {c} : flIF'[d] = flIF[d]
  BY <1>2, Zenon DEF TypeOK, LockType
<1>5. LockType' /\ \A d \in CPU \ {c} : ncli'[d] = ncli[d] /\ intena'[d] = intena[d]
  BY <1>2, <1>3, <1>4 DEF LockType, TypeOK
<1>6. ncli'[c] = 0 /\ ~intena'[c]
  BY <1>2, Zenon DEF LockType, TypeOK
<1> QED  BY <1>3, <1>4, <1>5, <1>6, Zenon DEF LockStep

\* A step that keeps who is alive, parents and pids, and takes no thread into fork,
\* keeps what the invariant says of parents, pids and forks.
LEMMA LiveFrame ==
  ASSUME IInv, UNCHANGED <<pid, parent, nextpid, np>>,
         \A r \in Slot : state'[r] = state[r] \/ {state[r], state'[r]} \subseteq Live,
         \A r \in Slot : pc'[r] \in {"alloced", "filled"} => pc'[r] = pc[r]
  PROVE  ForkInv' /\ LiveParents' /\ UniquePids'
<1> np \in [Slot -> Slot] /\ parent \in [Slot -> Slot \cup {NoProc}]
  BY Zenon DEF IInv, TypeOK, TableType, ThreadType
<1> ForkInv /\ LiveParents /\ UniquePids
  BY Zenon DEF IInv, TableInv
<1>1. ForkInv'
  BY DEF ForkInv, Live
<1>2. LiveParents'
  BY Zenon DEF LiveParents, Live
<1>3. UniquePids'
  BY Zenon DEF UniquePids, Live
<1> QED  BY <1>1, <1>2, <1>3, Zenon

\* A step that makes no zombie, and puts no process to sleep nor kills one that
\* stays asleep, keeps what the invariant says of processes asleep in wait().
LEMMA WaitFrame ==
  ASSUME IInv, UNCHANGED parent,
         \A r \in Slot : state'[r] = "ZOMBIE" => state[r] = "ZOMBIE",
         \A r \in Slot : state'[r] = "SLEEPING" =>
             state[r] = "SLEEPING" /\ chan'[r] = chan[r] /\ (killed'[r] => killed[r])
  PROVE  NoLostExit' /\ NoKilledWaiter'
<1> NoLostExit /\ NoKilledWaiter
  BY Zenon DEF IInv, TableInv
<1> QED  BY DEF NoLostExit, NoKilledWaiter, Zombies, Kids

\* A step of the thread of CPU c leaves the other CPUs alone if it changes neither
\* the processes they run nor their control points.
LEMMA OthersRun ==
  ASSUME NEW c \in CPU, IInv, cpc[c] = "proc", LockStep(c), UNCHANGED <<proc, tick, idx, skipped>>,
         \A d \in CPU \ {c} : cpc'[d] = cpc[d],
         \A d \in CPU \ {c} : proc[d] # NoProc => /\ state'[proc[d]] = state[proc[d]]
                                                  /\ pc'[proc[d]] = pc[proc[d]]
  PROVE  Undisturbed(c)
<1> \A d \in CPU : proc[d] = proc[c] => d = c
  BY Running, Zenon
<1> QED  BY DEF LockStep, Undisturbed

\* A CPU that has released its locks, at a control point where it should hold none.
LEMMA NoLock ==
  ASSUME NEW c \in CPU, ptlock' # c, tickslock' # c, ncli'[c] = 0, tick'[c] # "wake",
         cpc'[c] \notin {"scan", "sched"},
         cpc'[c] = "proc" => pc'[proc'[c]] \notin ParkLoc \cup {"sleepchk", "sleepacq"}
  PROVE  LockOk(c)'
<1>1. ~HoldsPtable(c)' /\ ~HoldsTicks(c)'
  BY Zenon DEF HoldsPtable, HoldsTicks, At, ParkLoc
<1> QED  BY <1>1 DEF LockOk

\* A CPU that holds one of the two locks, at a control point where it should.
LEMMA OneLock ==
  ASSUME NEW c \in CPU, ncli'[c] = 1, ~flIF'[c],
         \/ ptlock' = c /\ HoldsPtable(c)' /\ tickslock' # c /\ ~HoldsTicks(c)'
         \/ tickslock' = c /\ HoldsTicks(c)' /\ ptlock' # c /\ ~HoldsPtable(c)'
  PROVE  LockOk(c)'
<1>1. /\ ncli'[c] = (IF ptlock' = c THEN 1 ELSE 0) + (IF tickslock' = c THEN 1 ELSE 0)
      /\ (ptlock' = c <=> HoldsPtable(c)') /\ (tickslock' = c <=> HoldsTicks(c)')
  OBVIOUS
<1> QED  BY <1>1, Zenon DEF LockOk

\* What the invariant says of a CPU whose thread has called sched().
LEMMA CallsSched ==
  ASSUME NEW c \in CPU, IInv, cpc[c] = "proc", tick[c] = "none", UNCHANGED <<proc, tick, idx, skipped>>,
         cpc'[c] = "sched", state'[proc[c]] \in {"RUNNABLE", "SLEEPING", "ZOMBIE"},
         ptlock' = c, tickslock' # c, ncli'[c] = 1, ~flIF'[c], ~intena'[c],
         proc[c] \in Slot, \A d \in CPU : proc[d] = proc[c] => d = c
  PROVE  LocalInv(c)'
<1>1. ScanOk(c)
  BY Zenon DEF IInv, ScanInv
<1>2. CpuOk(c)'
  BY SlotFacts, Zenon DEF CpuOk
<1>3. ScanOk(c)'
  BY <1>1, Zenon DEF ScanOk
<1>4. IntrOk(c)'
  BY Zenon DEF IntrOk
<1>5. LockOk(c)'
  BY OneLock, Zenon DEF HoldsPtable, HoldsTicks, At
<1> QED  BY <1>2, <1>3, <1>4, <1>5, Zenon DEF LocalInv

\* What the invariant says of a CPU whose thread goes on at loc.
LEMMA StillRunning ==
  ASSUME NEW c \in CPU, NEW loc, IInv, cpc[c] = "proc", tick[c] = "none",
         UNCHANGED <<proc, cpc, tick, idx, skipped>>,
         state'[proc[c]] = "RUNNING", pc'[proc[c]] = loc, LocksAt(c, loc)'
  PROVE  LocalInv(c)'
<1>1. ScanOk(c) /\ CpuOk(c)
  BY Zenon DEF IInv, ScanInv, CpuInv
<1>2. CpuOk(c)'
  BY <1>1, Zenon DEF CpuOk
<1>3. ScanOk(c)'
  BY <1>1, Zenon DEF ScanOk
<1>4. IntrOk(c)'
  BY Zenon DEF IntrOk, LocksAt
<1>5. LockOk(c)'
  BY DEF LocksAt, LockOk, HoldsPtable, HoldsTicks, At, ParkLoc
<1> QED  BY <1>2, <1>3, <1>4, <1>5, Zenon DEF LocalInv

\* A step that only moves the running thread of CPU c to loc keeps the invariant
\* if it leaves the locks and the interrupts as the code has them at loc.
LEMMA MoveStep ==
  ASSUME NEW c \in CPU, NEW loc \in PcLoc \ {"none", "dead", "alloced", "filled"}, IInv,
         cpc[c] = "proc", tick[c] = "none", Goto(c, loc), LockStep(c), LocksAt(c, loc)',
         UNCHANGED <<ptable, np, savedena, cpuctl, panicked>>,
         frame' \in [Slot -> {"user", "forkret2"}],
         ticks0' \in [Slot -> 0..(TICKMOD - 1)], nsleep' \in [Slot -> 0..(TICKMOD - 1)],
         ticks' = ticks
  PROVE  IInv'
<1>a. Moved(c, loc) /\ TableInv'
  BY GotoFrame, Zenon DEF cpuctl
<1>1. TypeOK'
  BY <1>a, Zenon DEF IInv, TypeOK, TableType, ThreadType, CpuType, LockStep, Moved, ptable, cpuctl
<1>2. Undisturbed(c)
  BY <1>a, OthersRun, Zenon DEF Moved, ptable, cpuctl
<1>3. LocalInv(c)'
  BY <1>a, Running, StillRunning, Zenon DEF Moved, ptable, cpuctl
<1> QED  BY <1>a, <1>1, <1>2, <1>3, OtherCpus, Zenon DEF IInv

\* forkret releases ptable.lock and with it restores the scheduler's interrupts.
LEMMA ForkretStep ==
  ASSUME NEW c \in CPU, IInv, Forkret(c) PROVE IInv'
<1>a. ncli[c] = 1 /\ ~flIF[c] /\ tickslock # c /\ ptlock = c
  BY Running, ThreadLocks, Zenon DEF Forkret, At, ParkLoc
<1>b. LockStep(c) /\ LocksAt(c, "forkret2")'
  BY <1>a, ReleaseStep, Zenon DEF Forkret, ReleasePtable, clock, LocksAt, ParkLoc, IInv
<1> QED  BY <1>a, <1>b, MoveStep, Zenon DEF Forkret, At, PcLoc, IInv, TypeOK, ThreadType, locals,
    clock

\* forkret returns to user mode.
LEMMA ForkretReturnStep ==
  ASSUME NEW c \in CPU, IInv, ForkretReturn(c) PROVE IInv'
<1>a. ncli[c] = 0 /\ ~intena[c] /\ tickslock # c /\ ptlock # c
  BY Running, ThreadLocks, Zenon DEF ForkretReturn, At, ParkLoc
<1>b. LockStep(c) /\ LocksAt(c, "user")'
  BY <1>a, Zenon DEF ForkretReturn, ToUser, clock, LockStep, LockType, TypeOK, LocksAt, ParkLoc,
    IInv
<1> QED  BY <1>a, <1>b, MoveStep, Zenon DEF ForkretReturn, At, PcLoc, IInv, TypeOK, ThreadType,
    ToUser, locals, clock

\* A system call returns to user mode, or to exit() if its process was killed.
LEMMA SysRetStep ==
  ASSUME NEW c \in CPU, IInv, SysRet(c) PROVE IInv'
<1>a. ncli[c] = 0 /\ ~flIF[c] /\ ~intena[c] /\ tickslock # c /\ ptlock # c
  BY Running, ThreadLocks, Zenon DEF SysRet, At, ParkLoc
<1>b. /\ LockStep(c)
      /\ \/ Goto(c, "exiting") /\ LocksAt(c, "exiting")'
         \/ Goto(c, "user") /\ LocksAt(c, "user")'
  BY <1>a, Zenon DEF SysRet, ToUser, clock, LockStep, LockType, TypeOK, LocksAt, ParkLoc, IInv
<1> QED  BY <1>a, <1>b, MoveStep, Zenon DEF SysRet, At, PcLoc, IInv, TypeOK, ThreadType, locals,
    clock

\* A process calls exit().
LEMMA CallExitStep ==
  ASSUME NEW c \in CPU, IInv, CallExit(c) PROVE IInv'
<1>a. ncli[c] = 0 /\ ~intena[c] /\ tickslock # c /\ ptlock # c
  BY Running, ThreadLocks, Zenon DEF CallExit, At, ParkLoc
<1>b. LockStep(c) /\ LocksAt(c, "exiting")'
  BY <1>a, Zenon DEF CallExit, clock, LockStep, LockType, TypeOK, LocksAt, ParkLoc, IInv
<1> QED  BY <1>a, <1>b, MoveStep, Zenon DEF CallExit, At, PcLoc, IInv, TypeOK, ThreadType, locals,
    clock

\* The first killed test of trap() changes no lock.
LEMMA TrapCheckStep ==
  ASSUME NEW c \in CPU, IInv, TrapCheck(c) PROVE IInv'
<1>a. ncli[c] = 0 /\ ~flIF[c] /\ ~intena[c] /\ tickslock # c /\ ptlock # c
  BY Running, ThreadLocks, Zenon DEF TrapCheck, At, ParkLoc
<1>b. /\ LockStep(c) /\ LocksAt(c, "exiting")' /\ LocksAt(c, "yield")'
      /\ Goto(c, "exiting") \/ Goto(c, "yield")
  BY <1>a, Zenon DEF TrapCheck, cpuint, clock, LockStep, LockType, TypeOK, LocksAt, ParkLoc, IInv
<1> QED  BY <1>a, <1>b, MoveStep, Zenon DEF TrapCheck, At, PcLoc, IInv, TypeOK, ThreadType,
    locals, clock

\* yield() releases ptable.lock; interrupts stay off until iret.
LEMMA YieldedStep ==
  ASSUME NEW c \in CPU, IInv, Yielded(c) PROVE IInv'
<1>a. ncli[c] = 1 /\ ~flIF[c] /\ ~intena[c] /\ tickslock # c /\ ptlock = c
  BY Running, ThreadLocks, Zenon DEF Yielded, At, ParkLoc
<1>b. LockStep(c) /\ LocksAt(c, "trapret")'
  BY <1>a, ReleaseStep, Zenon DEF Yielded, ReleasePtable, clock, LocksAt, ParkLoc, IInv
<1> QED  BY <1>a, <1>b, MoveStep, Zenon DEF Yielded, At, PcLoc, IInv, TypeOK, ThreadType, locals,
    clock

\* trap() returns to the interrupted code, or goes to exit().
LEMMA TrapReturnStep ==
  ASSUME NEW c \in CPU, IInv, TrapReturn(c) PROVE IInv'
<1>a. proc[c] \in Slot /\ ncli[c] = 0 /\ ~flIF[c] /\ ~intena[c] /\ tickslock # c /\ ptlock # c
  BY Running, ThreadLocks, Zenon DEF TrapReturn, At, ParkLoc
<1>b. /\ LockStep(c)
      /\ \/ Goto(c, "exiting") /\ LocksAt(c, "exiting")'
         \/ Goto(c, "user") /\ LocksAt(c, "user")'
         \/ Goto(c, "forkret2") /\ LocksAt(c, "forkret2")'
  BY <1>a, Zenon DEF TrapReturn, clock, LockStep, LockType, TypeOK, ThreadType, LocksAt, ParkLoc,
    IInv
<1> QED  BY <1>a, <1>b, MoveStep, Zenon DEF TrapReturn, At, PcLoc, IInv, TypeOK, ThreadType, clock

\* sys_sleep acquires tickslock.
LEMMA SleepCallStep ==
  ASSUME NEW c \in CPU, NEW n \in SleepArgs, IInv, SleepCall(c, n) PROVE IInv'
<1>a. proc[c] \in Slot /\ ncli[c] = 0 /\ tickslock # c /\ ptlock # c /\ ~intena[c]
  BY Running, ThreadLocks, Zenon DEF SleepCall, At, ParkLoc
<1>b. LockStep(c) /\ LocksAt(c, "sleepchk")'
  BY <1>a, AcquireStep, Zenon DEF SleepCall, AcquireTicks, LocksAt, ParkLoc, IInv
<1>c. ticks0' \in [Slot -> 0..(TICKMOD - 1)] /\ nsleep' \in [Slot -> 0..(TICKMOD - 1)]
  BY <1>a, Zenon DEF SleepCall, IInv, TypeOK, ThreadType
<1> QED  BY <1>a, <1>b, <1>c, MoveStep, Zenon DEF SleepCall, At, PcLoc, IInv, TypeOK, ThreadType

\* The loop of sys_sleep goes on to sleep() with tickslock held, or releases it.
LEMMA SleepCheckStep ==
  ASSUME NEW c \in CPU, IInv, SleepCheck(c) PROVE IInv'
<1>a. /\ proc[c] \in Slot /\ ncli[c] = 1 /\ ~flIF[c] /\ ~intena[c] /\ tickslock = c /\ ptlock # c
      /\ cpc[c] = "proc" /\ tick[c] = "none"
      /\ UNCHANGED <<ptable, frame, np, savedena, cpuctl, ticks, ptlock, panicked>>
  BY Running, ThreadLocks, Zenon DEF SleepCheck, At, ParkLoc
<1>1. CASE KeepSleeping(proc[c])
  <2>1. Goto(c, "sleepacq") /\ UNCHANGED <<flIF, ncli, intena, tickslock, ticks0, nsleep>>
    BY <1>1, Zenon DEF SleepCheck, cpuint
  <2>2. LockStep(c) /\ LocksAt(c, "sleepacq")'
    BY <1>a, <2>1, Zenon DEF LockStep, LocksAt, LockType, ParkLoc, IInv, TypeOK
  <2> QED  BY <1>a, <2>1, <2>2, MoveStep, Zenon DEF PcLoc, IInv, TypeOK, ThreadType
<1>2. CASE ~KeepSleeping(proc[c])
  <2>1. /\ Goto(c, "sysret") /\ ReleaseTicks(c)
        /\ ticks0' = [ticks0 EXCEPT ![proc[c]] = 0] /\ nsleep' = [nsleep EXCEPT ![proc[c]] = 0]
    BY <1>2, Zenon DEF SleepCheck
  <2>2. LockStep(c) /\ LocksAt(c, "sysret")'
    BY <1>a, <2>1, ReleaseStep, Zenon DEF ReleaseTicks, LocksAt, ParkLoc, IInv
  <2>3. ticks0' \in [Slot -> 0..(TICKMOD - 1)] /\ nsleep' \in [Slot -> 0..(TICKMOD - 1)]
    BY <1>a, <2>1 DEF IInv, TypeOK, ThreadType
  <2> QED  BY <1>a, <2>1, <2>2, <2>3, MoveStep, Zenon DEF PcLoc, IInv, TypeOK, ThreadType
<1> QED  BY <1>1, <1>2, Zenon

\* sleep() reacquires tickslock after waking.
LEMMA SleepReacquireStep ==
  ASSUME NEW c \in CPU, IInv, SleepReacquire(c) PROVE IInv'
<1>a. ncli[c] = 0 /\ ~flIF[c] /\ ~intena[c] /\ tickslock # c /\ ptlock # c
  BY Running, ThreadLocks, Zenon DEF SleepReacquire, At, ParkLoc
<1>b. LockStep(c) /\ LocksAt(c, "sleepchk")'
  BY <1>a, AcquireStep, Zenon DEF SleepReacquire, AcquireTicks, LocksAt, ParkLoc, IInv
<1> QED  BY <1>a, <1>b, MoveStep, Zenon DEF SleepReacquire, At, PcLoc, IInv, TypeOK, ThreadType,
    locals

-----------------------------------------------------------------------------
(* sleep and wait *)

\* A thread goes to sleep holding ptable.lock: on ticks, or on its own slot if wait()
\* has found no zombie child and it is not killed.
LEMMA BlockStep ==
  ASSUME NEW c \in CPU, NEW loc, NEW ch, IInv, cpc[c] = "proc", tick[c] = "none",
         pc[proc[c]] \in {"user", "waitloop", "sleepacq"}, CallSched(c, loc),
         \/ loc = "waitloop" /\ ch = proc[c] /\ MustSleep(proc[c])
         \/ loc = "sleepwoke" /\ ch = TicksChan,
         state' = [state EXCEPT ![proc[c]] = "SLEEPING"], chan' = [chan EXCEPT ![proc[c]] = ch],
         LockStep(c), ptlock' = c, tickslock' # c, ncli'[c] = 1, ~flIF'[c], ~intena'[c],
         UNCHANGED <<pid, parent, killed, nextpid, locals, proc, tick, idx, skipped, ticks, panicked>>
  PROVE  IInv'
<1> DEFINE p == proc[c]
<1> /\ p \in Slot /\ p = proc[c] /\ state[p] = "RUNNING"
    /\ \A d \in CPU : proc[d] = p => d = c
    /\ \A d \in CPU : proc[d] # NoProc => proc[d] \in Slot
  BY Running, Zenon
<1>b. pc' = [pc EXCEPT ![p] = loc] /\ cpc' = [cpc EXCEPT ![c] = "sched"] /\ loc \in PcLoc
  BY Zenon DEF CallSched, Goto, PcLoc
<1> UNCHANGED <<frame, np, ticks0, nsleep, savedena>>
  BY Zenon DEF locals
<1>c. /\ ch \in Chan
      /\ \/ loc = "waitloop" /\ ch = p /\ MustSleep(p)
         \/ loc = "sleepwoke" /\ ch = TicksChan /\ ch \notin Slot
  BY ChanFacts, Zenon
<1> HIDE DEF p
<1>1. TypeOK'
  BY <1>b, <1>c, Zenon DEF IInv, TypeOK, TableType, ThreadType, CpuType, LockStep, ProcState, CpcLoc
<1> /\ \A r \in Slot : state'[r] = (IF r = p THEN "SLEEPING" ELSE state[r])
    /\ \A r \in Slot : chan'[r] = (IF r = p THEN ch ELSE chan[r])
    /\ \A r \in Slot : pc'[r] = (IF r = p THEN loc ELSE pc[r])
    /\ cpc'[c] = "sched" /\ \A d \in CPU \ {c} : cpc'[d] = cpc[d]
  BY <1>b, Zenon DEF IInv, TypeOK, TableType, ThreadType, CpuType
<1> SlotInv /\ NoLostExit /\ NoKilledWaiter
  BY Zenon DEF IInv, TableInv
<1>2. Undisturbed(c)
  <2>1. \A d \in CPU \ {c} : proc[d] # NoProc => /\ state'[proc[d]] = state[proc[d]]
                                                 /\ pc'[proc[d]] = pc[proc[d]]
    OBVIOUS
  <2> QED  BY <2>1, OthersRun, Zenon
<1>3. LocalInv(c)'
  BY CallsSched, Zenon
<1>4. SlotInv'
  BY <1>c DEF SlotInv, SlotOk, Live
<1>5. ForkInv' /\ LiveParents' /\ UniquePids'
  BY <1>c, LiveFrame DEF Live
<1>6. NoLostExit' /\ NoKilledWaiter'
  BY <1>c DEF NoLostExit, NoKilledWaiter, Zombies, Kids, MustSleep
<1> QED  BY <1>1, <1>2, <1>3, <1>4, <1>5, <1>6, OtherCpus, Zenon DEF IInv, TableInv

\* A thread back from sched() in sleep() clears its channel and releases ptable.lock.
LEMMA WokeStep ==
  ASSUME NEW c \in CPU, NEW loc \in {"sysret", "sleepreacq"}, IInv, cpc[c] = "proc", tick[c] = "none",
         pc[proc[c]] \in {"waitloop", "sleepwoke"}, Goto(c, loc), LockStep(c), LocksAt(c, loc)',
         chan' = [chan EXCEPT ![proc[c]] = 0],
         UNCHANGED <<state, pid, parent, killed, nextpid, locals, cpuctl, ticks, panicked>>
  PROVE  IInv'
<1> DEFINE p == proc[c]
<1> /\ p \in Slot /\ p = proc[c] /\ state[p] = "RUNNING"
    /\ \A d \in CPU : proc[d] = p => d = c
    /\ \A d \in CPU : proc[d] # NoProc => proc[d] \in Slot
  BY Running, Zenon
<1>b. pc' = [pc EXCEPT ![p] = loc] /\ loc \in PcLoc
  BY Zenon DEF Goto, PcLoc
<1> UNCHANGED <<frame, np, ticks0, nsleep, savedena, proc, cpc, tick, idx, skipped>>
  BY Zenon DEF locals, cpuctl
<1> HIDE DEF p
<1>1. TypeOK'
  BY <1>b, ChanFacts, Zenon DEF IInv, TypeOK, TableType, ThreadType, CpuType, LockStep
<1> /\ \A r \in Slot : chan'[r] = (IF r = p THEN 0 ELSE chan[r])
    /\ \A r \in Slot : pc'[r] = (IF r = p THEN loc ELSE pc[r])
  BY <1>b, Zenon DEF IInv, TypeOK, TableType, ThreadType
<1> SlotInv
  BY Zenon DEF IInv, TableInv
<1>2. Undisturbed(c)
  BY OthersRun, Zenon
<1>3. LocalInv(c)'
  BY StillRunning, Zenon
<1>4. SlotInv'
  BY DEF SlotInv, SlotOk
<1>5. ForkInv' /\ LiveParents' /\ UniquePids' /\ NoLostExit' /\ NoKilledWaiter'
  BY LiveFrame, WaitFrame, Zenon
<1> QED  BY <1>1, <1>2, <1>3, <1>4, <1>5, OtherCpus, Zenon DEF IInv, TableInv

\* sleep(&ticks) swaps tickslock for ptable.lock and goes to sleep.
LEMMA SleepSleepStep ==
  ASSUME NEW c \in CPU, IInv, SleepSleep(c) PROVE IInv'
<1>a. ncli[c] = 1 /\ ~flIF[c] /\ ~intena[c] /\ tickslock = c
  BY Running, ThreadLocks, Zenon DEF SleepSleep, At, ParkLoc
<1>b. LockStep(c) /\ ptlock' = c /\ tickslock' # c /\ ncli'[c] = 1 /\ ~flIF'[c] /\ ~intena'[c]
  BY <1>a, Zenon DEF SleepSleep, SwapLocks, cpuint, LockStep, LockType, TypeOK, IInv
<1> QED  BY <1>b, BlockStep, Zenon DEF SleepSleep, At

\* sleep() wakes up and releases ptable.lock.
LEMMA SleepWokeStep ==
  ASSUME NEW c \in CPU, IInv, SleepWoke(c) PROVE IInv'
<1>a. ncli[c] = 1 /\ ~flIF[c] /\ ~intena[c] /\ tickslock # c /\ ptlock = c
  BY Running, ThreadLocks, Zenon DEF SleepWoke, At, ParkLoc
<1>b. LockStep(c) /\ LocksAt(c, "sleepreacq")'
  BY <1>a, ReleaseStep, Zenon DEF SleepWoke, ReleasePtable, clock, LocksAt, ParkLoc, IInv
<1> QED  BY <1>a, <1>b, WokeStep, Zenon DEF SleepWoke, At, clock

\* wait frees the slot q of a zombie child of p, in ptable and among the threads.
LEMMA ReapTable ==
  ASSUME IInv, NEW p \in Slot, NEW q \in Slot, state[p] = "RUNNING", \E c \in CPU : proc[c] = p,
         pc[p] \in {"user", "waitloop"}, state[q] = "ZOMBIE", parent[q] = p, q # initproc,
         \A r \in Slot : state'[r] = (IF r = q THEN "UNUSED" ELSE state[r]),
         \A r \in Slot : parent'[r] = (IF r = q THEN NoProc ELSE parent[r]),
         \A r \in Slot : pid'[r] = (IF r = q THEN 0 ELSE pid[r]),
         \A r \in Slot : killed'[r] => killed[r],
         \A r \in Slot : r # p => chan'[r] = chan[r],
         \A r \in Slot : pc'[r] = (IF r = q THEN "none" ELSE IF r = p THEN "sysret" ELSE pc[r]),
         UNCHANGED <<nextpid, np, savedena, proc>>
  PROVE  TableInv'
<1> /\ np \in [Slot -> Slot] /\ parent \in [Slot -> Slot \cup {NoProc}]
    /\ pid \in [Slot -> Nat] /\ nextpid \in 1..MAXPID + 1
  BY Zenon DEF IInv, TypeOK, TableType, ThreadType
<1> SlotInv /\ ForkInv /\ LiveParents /\ UniquePids /\ NoLostExit /\ NoKilledWaiter
  BY Zenon DEF IInv, TableInv
<1>1. SlotInv'
  BY SlotFacts DEF SlotInv, SlotOk, Live
<1>2. ForkInv'
  BY DEF ForkInv
<1>3. LiveParents'
  BY DEF LiveParents
<1>4. UniquePids'
  BY DEF UniquePids
<1>5. NoLostExit'
  <2> SUFFICES ASSUME NEW r \in Slot, state'[r] = "SLEEPING", chan'[r] = r,
                      NEW z \in Slot, parent'[z] = r, state'[z] = "ZOMBIE"
               PROVE  FALSE
    BY DEF NoLostExit, Zombies, Kids
  <2>1. state[r] = "SLEEPING" /\ chan[r] = r /\ parent[z] = r /\ state[z] = "ZOMBIE"
    BY SlotFacts
  <2> QED  BY <2>1 DEF NoLostExit, Zombies, Kids
<1>6. NoKilledWaiter'
  BY DEF NoKilledWaiter
<1> QED  BY <1>1, <1>2, <1>3, <1>4, <1>5, <1>6, Zenon DEF TableInv

\* wait frees a zombie child, which no CPU runs, and returns.
LEMMA ReapStep ==
  ASSUME NEW c \in CPU, IInv, cpc[c] = "proc", tick[c] = "none",
         pc[proc[c]] \in {"user", "waitloop"}, Reap(c), LockStep(c), LocksAt(c, "sysret")',
         ptlock \in {c, NoCPU},
         chan' = chan \/ chan' = [chan EXCEPT ![proc[c]] = 0],
         UNCHANGED <<locals, cpuctl, ticks, panicked>>
  PROVE  IInv'
<1> DEFINE p == proc[c]
<1> /\ p \in Slot /\ p = proc[c] /\ state[p] = "RUNNING"
    /\ \A d \in CPU : proc[d] = p => d = c
    /\ \A d \in CPU : proc[d] # NoProc => proc[d] \in Slot
  BY Running, Zenon
<1>a. PICK q \in Zombies(p) :
      /\ state' = [state EXCEPT ![q] = "UNUSED"] /\ pid' = [pid EXCEPT ![q] = 0]
      /\ parent' = [parent EXCEPT ![q] = NoProc] /\ killed' = [killed EXCEPT ![q] = FALSE]
      /\ pc' = [pc EXCEPT ![p] = "sysret", ![q] = "none"] /\ nextpid' = nextpid
  BY Zenon DEF Reap
<1> UNCHANGED <<frame, np, ticks0, nsleep, savedena, proc, cpc, tick, idx, skipped>>
  BY Zenon DEF locals, cpuctl
<1> HIDE DEF p
<1>b. q \in Slot /\ state[q] = "ZOMBIE" /\ parent[q] = p /\ q # initproc
  BY <1>a, Zenon DEF Zombies, Kids, IInv, TableInv, SlotInv, SlotOk, Live
<1>c. \A d \in CPU : proc[d] # q
  <2>1. \A d \in CPU : cpc[d] # "sched"
    BY Zenon DEF IInv, LockDiscipline, LockOk, HoldsPtable
  <2> QED  BY <1>b, <2>1, SlotFacts DEF IInv, CpuInv, CpuOk, TypeOK, CpuType, CpcLoc
<1>d. /\ \A r \in Slot : state'[r] = (IF r = q THEN "UNUSED" ELSE state[r])
      /\ \A r \in Slot : parent'[r] = (IF r = q THEN NoProc ELSE parent[r])
      /\ \A r \in Slot : pid'[r] = (IF r = q THEN 0 ELSE pid[r])
      /\ \A r \in Slot : killed'[r] => killed[r]
      /\ nextpid' = nextpid /\ \A r \in Slot : r # p => chan'[r] = chan[r]
  BY <1>a, Zenon DEF IInv, TypeOK, TableType
<1>e. \A r \in Slot : pc'[r] = (IF r = q THEN "none" ELSE IF r = p THEN "sysret" ELSE pc[r])
  BY <1>a, Zenon DEF IInv, TypeOK, ThreadType
<1>1. TypeOK'
  <2>1. TableType'
    BY <1>a, <1>b, ChanFacts DEF IInv, TypeOK, TableType, ProcState
  <2>2. ThreadType'
    BY <1>a, <1>b, Zenon DEF IInv, TypeOK, ThreadType, PcLoc
  <2>3. CpuType' /\ LockType'
    BY Zenon DEF IInv, TypeOK, CpuType, LockStep
  <2> QED  BY <2>1, <2>2, <2>3, Zenon DEF IInv, TypeOK
<1>2. Undisturbed(c)
  BY <1>b, <1>c, <1>d, <1>e, OthersRun, Zenon
<1>3. LocalInv(c)'
  BY <1>b, <1>c, <1>d, <1>e, StillRunning, Zenon
<1>4. TableInv'
  BY <1>b, <1>d, <1>e, ReapTable
<1> QED  BY <1>1, <1>2, <1>3, <1>4, OtherCpus, Zenon DEF IInv

\* wait goes to sleep: it holds ptable.lock, has no zombie child and is not killed.
LEMMA WaitSleepStep ==
  ASSUME NEW c \in CPU, IInv, cpc[c] = "proc", tick[c] = "none",
         pc[proc[c]] \in {"user", "waitloop"}, WaitSleep(c), LockStep(c),
         ptlock' = c, tickslock' # c, ncli'[c] = 1, ~flIF'[c], ~intena'[c],
         UNCHANGED <<locals, proc, tick, idx, skipped, ticks, panicked>>
  PROVE  IInv'
  BY BlockStep, Zenon DEF WaitSleep

\* sys_wait: acquire and the first pass of the loop.
LEMMA WaitStep ==
  ASSUME NEW c \in CPU, IInv, Wait(c) PROVE IInv'
<1>a. /\ ncli[c] = 0 /\ ~intena[c] /\ tickslock # c /\ ptlock # c
      /\ cpc[c] = "proc" /\ tick[c] = "none" /\ pc[proc[c]] = "user"
      /\ UNCHANGED <<locals, proc, tick, idx, skipped, ticks, tickslock, panicked>>
  BY Running, ThreadLocks, Zenon DEF Wait, At, ParkLoc, clock
<1>b. ASSUME PtableSection(c) PROVE ptlock = NoCPU /\ LockStep(c) /\ LocksAt(c, "sysret")'
  BY <1>a, <1>b, Zenon DEF PtableSection, LockStep, LockType, TypeOK, LocksAt, ParkLoc, IInv
<1>1. CASE PtableSection(c) /\ Reap(c) /\ UNCHANGED <<chan, cpc>>
  BY <1>a, <1>b, <1>1, ReapStep, Zenon DEF cpuctl
<1>2. CASE PtableSection(c) /\ GiveUp(proc[c]) /\ Goto(c, "sysret") /\ UNCHANGED <<ptable, cpc>>
  <2>1. LockStep(c) /\ LocksAt(c, "sysret")'
    BY <1>b, <1>2, Zenon
  <2> QED  BY <1>a, <1>2, <2>1, MoveStep, Zenon DEF PcLoc, IInv, TypeOK, ThreadType, locals, cpuctl
<1>3. CASE AcquirePtable(c, FALSE) /\ WaitSleep(c)
  <2>1. LockStep(c) /\ ptlock' = c /\ tickslock' # c /\ ncli'[c] = 1 /\ ~flIF'[c] /\ ~intena'[c]
    BY <1>a, <1>3, AcquireStep, Zenon DEF AcquirePtable, IInv
  <2> QED  BY <1>a, <1>3, <2>1, WaitSleepStep, Zenon
<1> QED  BY <1>1, <1>2, <1>3, Zenon DEF Wait

\* wait() back from sleep: another pass of the loop.
LEMMA WaitAgainStep ==
  ASSUME NEW c \in CPU, IInv, WaitAgain(c) PROVE IInv'
<1>a. /\ ncli[c] = 1 /\ ~flIF[c] /\ ~intena[c] /\ tickslock # c /\ ptlock = c
      /\ cpc[c] = "proc" /\ tick[c] = "none" /\ pc[proc[c]] = "waitloop"
      /\ UNCHANGED <<locals, proc, tick, idx, skipped, ticks, tickslock, panicked>>
  BY Running, ThreadLocks, Zenon DEF WaitAgain, At, ParkLoc, clock
<1>b. ASSUME ReleasePtable(c) PROVE LockStep(c) /\ LocksAt(c, "sysret")'
  BY <1>a, <1>b, ReleaseStep, Zenon DEF ReleasePtable, LocksAt, ParkLoc, IInv
<1>1. CASE /\ ReleasePtable(c) /\ Reap(c)
           /\ chan' = [chan EXCEPT ![proc[c]] = 0] /\ UNCHANGED cpc
  BY <1>a, <1>b, <1>1, ReapStep, Zenon DEF cpuctl
<1>2. CASE /\ GiveUp(proc[c]) /\ ReleasePtable(c) /\ Goto(c, "sysret")
           /\ chan' = [chan EXCEPT ![proc[c]] = 0]
           /\ UNCHANGED <<state, pid, parent, killed, nextpid, cpc>>
  BY <1>a, <1>b, <1>2, WokeStep, Zenon DEF cpuctl
<1>3. CASE WaitSleep(c) /\ UNCHANGED <<cpuint, ptlock>>
  <2>1. LockStep(c) /\ ptlock' = c /\ tickslock' # c /\ ncli'[c] = 1 /\ ~flIF'[c] /\ ~intena'[c]
    BY <1>a, <1>3, Zenon DEF cpuint, LockStep, LockType, TypeOK, IInv
  <2> QED  BY <1>a, <1>3, <2>1, WaitSleepStep, Zenon
<1> QED  BY <1>1, <1>2, <1>3, Zenon DEF WaitAgain

-----------------------------------------------------------------------------
(* The timer interrupt and yield *)

\* What a step of CPU c changes of scheduler()'s own state is that of CPU c.
CpuMoved(c) ==
    /\ CpuType' /\ proc' = proc
    /\ \A d \in CPU \ {c} : /\ cpc'[d] = cpc[d] /\ tick'[d] = tick[d]
                            /\ idx'[d] = idx[d] /\ skipped'[d] = skipped[d]

\* A step of CPU c that leaves ptable and the threads alone keeps the invariant if
\* CPU c keeps its own part.
LEMMA CpuStep ==
  ASSUME NEW c \in CPU, IInv, CpuMoved(c), LockStep(c), LocalInv(c)',
         UNCHANGED <<ptable, thread, panicked>>, ticks' \in 0..(TICKMOD - 1)
  PROVE  IInv'
<1>a. /\ UNCHANGED <<state, pid, parent, chan, killed, nextpid>>
      /\ UNCHANGED <<pc, frame, np, ticks0, nsleep, savedena>>
  BY Zenon DEF ptable, thread, locals
<1>1. TypeOK'
  BY <1>a, Zenon DEF CpuMoved, LockStep, IInv, TypeOK, TableType, ThreadType
<1>2. Undisturbed(c)
  <2>1. \A d \in CPU : proc[d] = proc[c] /\ proc[d] # NoProc => d = c
    BY Zenon DEF IInv, CpuInv, CpuOk
  <2>2. \A d \in CPU \ {c} : (ptlock' = d <=> ptlock = d) /\ (tickslock' = d <=> tickslock = d)
    BY DEF LockStep
  <2> QED  BY <1>a, <2>1, <2>2, Zenon DEF CpuMoved, LockStep, Undisturbed
<1>3. TableInv'
  BY <1>a, ThreadFrame, Zenon DEF CpuMoved
<1> QED  BY <1>1, <1>2, <1>3, OtherCpus, Zenon DEF IInv

\* The timer interrupts a thread in user mode or at the end of forkret, or a
\* scheduler that holds no lock.
LEMMA TimerStep ==
  ASSUME NEW c \in CPU, IInv, Timer(c) PROVE IInv'
<1>a. ncli[c] = 0 /\ tickslock # c /\ ptlock # c /\ ~intena[c] /\ tick[c] = "none" /\ flIF[c]
  BY Interruptible, Zenon DEF Timer
<1>b. UNCHANGED <<ptable, np, ticks0, nsleep, savedena, proc, idx, skipped, ncli, intena,
                  ticks, tickslock, ptlock, panicked>>
  BY Zenon DEF Timer, clock
<1>c. /\ tick' \in [CPU -> {"none", "lock", "wake"}] /\ tick'[c] \in {"none", "lock"}
      /\ \A d \in CPU \ {c} : tick'[d] = tick[d]
  BY Zenon DEF Timer, IInv, TypeOK, CpuType
<1>d. /\ LockStep(c) /\ (cpc[c] = "proc" \/ tick'[c] = "lock" => ~flIF'[c])
      /\ (cpc[c] # "proc" /\ tick'[c] = "none" => flIF'[c])
  BY <1>b, Zenon DEF Timer, LockStep, IInv, TypeOK, CpuType, LockType
<1>e. CpuOk(c) /\ ScanOk(c)
  BY Zenon DEF IInv, CpuInv, ScanInv
<1>1. CASE cpc[c] = "proc"
  <2>b. /\ Goto(c, "trapchk") /\ cpc' = cpc
        /\ frame' = [frame EXCEPT ![proc[c]] = pc[proc[c]]]
    BY <1>1, Zenon DEF Timer
  <2>c. Moved(c, "trapchk") /\ TableInv'
    BY <1>1, <1>b, <2>b, GotoFrame, Zenon DEF PcLoc
  <2>d. frame' \in [Slot -> {"user", "forkret2"}]
    BY <1>1, <1>a, <2>b, Running, Interruptible, Zenon DEF IInv, TypeOK, ThreadType
  <2>e. UNCHANGED <<state, pid, parent, chan, killed, nextpid>>
    BY <1>b, Zenon DEF ptable
  <2>1. TypeOK'
    <3>1. TableType' /\ ThreadType'
      BY <1>b, <2>c, <2>d, <2>e, Zenon DEF IInv, TypeOK, TableType, ThreadType, Moved
    <3>2. CpuType'
      BY <1>b, <1>c, <2>b, Zenon DEF IInv, TypeOK, CpuType
    <3> QED  BY <1>b, <1>d, <3>1, <3>2, Zenon DEF IInv, TypeOK, LockStep
  <2>2. Undisturbed(c)
    BY <1>b, <1>c, <1>d, <2>b, <2>c, <2>e, Zenon DEF Undisturbed, LockStep, Moved
  <2>3. LocalInv(c)'
    <3>1. state'[proc[c]] = "RUNNING" /\ pc'[proc[c]] = "trapchk" /\ cpc'[c] = "proc"
      BY <1>1, <2>b, <2>c, <2>e, Running, Zenon DEF Moved
    <3>2. CpuOk(c)' /\ ScanOk(c)'
      BY <1>1, <1>b, <1>e, <2>b, <3>1, Zenon DEF CpuOk, ScanOk
    <3>3. IntrOk(c)'
      BY <1>1, <1>a, <1>b, <1>c, <1>d, <3>1, Zenon DEF IntrOk
    <3>4. LockOk(c)'
      BY <1>a, <1>b, <1>c, <3>1, NoLock, Zenon DEF ParkLoc
    <3> QED  BY <3>2, <3>3, <3>4, Zenon DEF LocalInv
  <2> QED  BY <2>c, <2>1, <2>2, <2>3, OtherCpus, Zenon DEF IInv
<1>2. CASE cpc[c] # "proc"
  <2>b. cpc' = [cpc EXCEPT ![c] = IF @ = "hlt" THEN "sti" ELSE @] /\ UNCHANGED <<pc, frame>>
    BY <1>2, Zenon DEF Timer
  <2>c. cpc[c] \in {"sti", "acquire", "hlt"}
    BY <1>2, <1>a, Interruptible, Zenon
  <2>d. /\ cpc' \in [CPU -> CpcLoc] /\ cpc'[c] \in {"sti", "acquire"}
        /\ cpc[c] # "acquire" => cpc'[c] = "sti"
        /\ \A d \in CPU \ {c} : cpc'[d] = cpc[d]
    BY <2>b, <2>c, Zenon DEF IInv, TypeOK, CpuType, CpcLoc
  <2>1. CpuMoved(c)
    BY <1>b, <1>c, <2>d, Zenon DEF IInv, TypeOK, CpuType, CpuMoved
  <2>2. CpuOk(c)' /\ ScanOk(c)'
    BY <1>b, <1>e, <2>c, <2>d, Zenon DEF CpuOk, ScanOk
  <2>3. IntrOk(c)'
    BY <1>2, <1>a, <1>b, <1>c, <1>d, <2>d, Zenon DEF IntrOk
  <2>5. LockOk(c)'
    BY <1>a, <1>b, <1>c, <2>d, NoLock, Zenon
  <2>4. UNCHANGED <<ptable, thread, panicked>> /\ ticks' \in 0..(TICKMOD - 1)
    BY <1>b, <2>b, Zenon DEF thread, locals, IInv, TypeOK
  <2> QED  BY <1>d, <2>1, <2>2, <2>3, <2>4, <2>5, CpuStep, Zenon DEF LocalInv
<1> QED  BY <1>1, <1>2, Zenon

\* The timer handler acquires tickslock and counts the tick.
LEMMA TickCountStep ==
  ASSUME NEW c \in CPU, IInv, TickCount(c) PROVE IInv'
<1>a. ncli[c] = 0 /\ tickslock # c /\ ptlock # c /\ tick[c] = "lock"
  BY TickLocks, Zenon DEF TickCount
<1>b. tickslock' = c /\ UNCHANGED <<ptable, thread, proc, cpc, idx, skipped, ptlock, panicked>>
  BY Zenon DEF TickCount, AcquireTicks
<1>c. LockStep(c) /\ ncli'[c] = 1 /\ ~flIF'[c] /\ ~intena'[c]
  BY <1>a, <1>b, AcquireStep, Zenon DEF TickCount, IInv
<1>d. ticks' \in 0..(TICKMOD - 1)
  BY DEF TickCount, IInv, TypeOK
<1>e. CpuMoved(c) /\ tick'[c] = "wake"
  BY <1>b, Zenon DEF TickCount, CpuMoved, IInv, TypeOK, CpuType
<1>f. CpuOk(c) /\ IntrOk(c) /\ ScanOk(c)
  BY Zenon DEF IInv, CpuInv, IntrInv, ScanInv
<1>1. CpuOk(c)' /\ ScanOk(c)'
  BY <1>a, <1>b, <1>c, <1>f, Zenon DEF CpuOk, IntrOk, ScanOk, ptable
<1>2. IntrOk(c)'
  BY <1>a, <1>b, <1>c, <1>e, <1>f, Zenon DEF IntrOk, thread
<1>3. LockOk(c)'
  <2>1. HoldsTicks(c)' /\ ~HoldsPtable(c)'
    BY <1>a, <1>b, <1>e, <1>f, Zenon DEF HoldsPtable, HoldsTicks, At, IntrOk
  <2> QED  BY <1>a, <1>b, <1>c, <2>1, OneLock, Zenon
<1> QED  BY <1>b, <1>c, <1>d, <1>e, <1>1, <1>2, <1>3, CpuStep, Zenon DEF LocalInv

\* The timer handler wakes the sleepers on ticks and releases tickslock.
LEMMA TickWakeStep ==
  ASSUME NEW c \in CPU, IInv, TickWake(c) PROVE IInv'
<1>a. ncli[c] = 1 /\ ~flIF[c] /\ ~intena[c] /\ tickslock = c /\ tick[c] = "wake"
  BY TickLocks, Zenon DEF TickWake
<1>b. /\ ptlock = NoCPU /\ tickslock' = NoCPU
      /\ UNCHANGED <<pid, parent, chan, killed, nextpid, pc, frame, np, ticks0, nsleep, savedena>>
      /\ UNCHANGED <<proc, cpc, idx, skipped, intena, ticks, ptlock, panicked>>
  BY Zenon DEF TickWake, thread, locals
<1>c. /\ LockStep(c) /\ ncli'[c] = 0 /\ (flIF'[c] <=> cpc[c] # "proc")
      /\ tick' \in [CPU -> {"none", "lock", "wake"}] /\ tick'[c] = "none"
      /\ \A d \in CPU \ {c} : tick'[d] = tick[d]
  BY <1>a, <1>b DEF TickWake, LockStep, LockType, CpuType, TypeOK, IInv
<1>d. /\ state' \in [Slot -> ProcState]
      /\ \A q \in Slot : \/ state'[q] = state[q]
                         \/ state[q] = "SLEEPING" /\ chan[q] = TicksChan /\ state'[q] = "RUNNABLE"
  BY Zenon DEF TickWake, Wakeup1, IInv, TypeOK, TableType, ProcState
<1>e. \A d \in CPU : cpc[d] # "sched" /\ (proc[d] # NoProc => proc[d] \in Slot /\ state[proc[d]] = "RUNNING")
  BY <1>b DEF IInv, TypeOK, CpuType, CpcLoc, CpuInv, CpuOk, LockDiscipline, LockOk, HoldsPtable
<1>f. \A d \in CPU : proc[d] # NoProc => state'[proc[d]] = state[proc[d]]
  BY <1>d, <1>e, Zenon
<1>g. CpuOk(c) /\ IntrOk(c) /\ ScanOk(c) /\ SlotInv
  BY Zenon DEF IInv, TableInv, CpuInv, IntrInv, ScanInv
<1>1. TypeOK'
  BY <1>b, <1>c, <1>d, Zenon DEF IInv, TypeOK, TableType, ThreadType, CpuType, LockStep
<1>2. Undisturbed(c)
  <2>1. \A d \in CPU : proc[d] = proc[c] /\ proc[d] # NoProc => d = c
    BY Zenon DEF IInv, CpuInv, CpuOk
  <2> QED  BY <1>b, <1>c, <1>f, <2>1, Zenon DEF LockStep, Undisturbed
<1>3. LocalInv(c)'
  <2>1. CpuOk(c)' /\ ScanOk(c)'
    BY <1>b, <1>f, <1>g, Zenon DEF CpuOk, ScanOk
  <2>2. IntrOk(c)'
    BY <1>a, <1>b, <1>c, <1>g, Zenon DEF IntrOk
  <2>3. tick'[c] = "none" /\ ncli'[c] = 0
    BY <1>c, Zenon
  <2>4. cpc[c] \in {"sti", "acquire"} \/ (cpc[c] = "proc" /\ pc[proc[c]] = "trapchk")
    BY <1>a, <1>g, Zenon DEF IntrOk
  <2>5. LockOk(c)'
    BY <1>b, <2>3, <2>4, NoLock, Zenon DEF ParkLoc
  <2> QED  BY <2>1, <2>2, <2>5, Zenon DEF LocalInv
<1>4. SlotInv'
  BY <1>b, <1>d, <1>g, ChanFacts DEF SlotInv, SlotOk, ParkLoc, Live
<1>5. ForkInv' /\ LiveParents' /\ UniquePids' /\ NoLostExit' /\ NoKilledWaiter'
  BY <1>b, <1>d, LiveFrame, WaitFrame, Zenon DEF Live
<1> QED  BY <1>1, <1>2, <1>3, <1>4, <1>5, OtherCpus, Zenon DEF IInv, TableInv

\* yield() makes its process RUNNABLE and calls sched() under ptable.lock.
LEMMA YieldStep ==
  ASSUME NEW c \in CPU, IInv, Yield(c) PROVE IInv'
<1> DEFINE p == proc[c]
<1> /\ p \in Slot /\ p = proc[c] /\ state[p] = "RUNNING"
    /\ \A d \in CPU : proc[d] = p => d = c
    /\ \A d \in CPU : proc[d] # NoProc => proc[d] \in Slot
  BY Running, Zenon DEF Yield, At
<1>a. ncli[c] = 0 /\ tickslock # c
  BY ThreadLocks, Zenon DEF Yield, At, ParkLoc
<1>b. LockStep(c) /\ ptlock' = c /\ tickslock' # c /\ ncli'[c] = 1 /\ ~flIF'[c] /\ ~intena'[c]
  BY <1>a, AcquireStep, Zenon DEF Yield, AcquirePtable, clock, IInv
<1>c. /\ state' = [state EXCEPT ![p] = "RUNNABLE"] /\ pc' = [pc EXCEPT ![p] = "yielded"]
      /\ cpc' = [cpc EXCEPT ![c] = "sched"]
  BY Zenon DEF Yield, CallSched, Goto
<1> /\ UNCHANGED <<pid, parent, chan, killed, nextpid, frame, np, ticks0, nsleep, savedena,
                  proc, tick, idx, skipped, ticks, panicked>>
    /\ cpc[c] = "proc" /\ tick[c] = "none" /\ pc[p] = "yield"
  BY Zenon DEF Yield, At, CallSched, locals, clock
<1> HIDE DEF p
<1>1. TypeOK'
  BY <1>b, <1>c, Zenon DEF IInv, TypeOK, TableType, ThreadType, CpuType, LockStep, CpcLoc,
    ProcState, PcLoc
<1> /\ \A r \in Slot : state'[r] = (IF r = p THEN "RUNNABLE" ELSE state[r])
    /\ \A r \in Slot : pc'[r] = (IF r = p THEN "yielded" ELSE pc[r])
    /\ cpc'[c] = "sched" /\ \A d \in CPU \ {c} : cpc'[d] = cpc[d]
  BY <1>c, Zenon DEF IInv, TypeOK, TableType, ThreadType, CpuType
<1> SlotInv
  BY Zenon DEF IInv, TableInv
<1>2. Undisturbed(c)
  BY <1>b, OthersRun, Zenon
<1>3. LocalInv(c)'
  BY <1>b, CallsSched, Zenon
<1>4. SlotInv'
  BY DEF SlotInv, SlotOk, Live, ParkLoc
<1>5. ForkInv' /\ LiveParents' /\ UniquePids' /\ NoLostExit' /\ NoKilledWaiter'
  BY LiveFrame, WaitFrame, Zenon DEF Live
<1> QED  BY <1>1, <1>2, <1>3, <1>4, <1>5, OtherCpus, Zenon DEF IInv, TableInv

=============================================================================
