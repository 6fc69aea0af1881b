--------------------------- MODULE ProcStepProofs ---------------------------
(***************************************************************************)
(* The steps of kill(), of fork and of exit() keep the inductive invariant. *)
(***************************************************************************)
EXTENDS ProcLemmas

USE NPROCAssumption, CPUAssumption, TicksAssumption, PidAssumption

-----------------------------------------------------------------------------
(* kill *)

\* kill changes the state of a sleeping process only.
LEMMA KillFacts ==
  ASSUME TypeOK, NEW c \in CPU, NEW k \in KillPids, Kill(c, k)
  PROVE  /\ state' \in [Slot -> ProcState] /\ killed' \in [Slot -> BOOLEAN]
         /\ \A r \in Slot : \/ state'[r] = state[r]
                            \/ state[r] = "SLEEPING" /\ state'[r] = "RUNNABLE"
         /\ \A r \in Slot : state'[r] = "SLEEPING" => (killed'[r] => killed[r])
<1>1. CASE UNCHANGED <<state, killed>>
  BY <1>1, Zenon DEF TypeOK, TableType
<1>2. ASSUME NEW q \in Target(k), killed' = [killed EXCEPT ![q] = TRUE], state' = KillStates(q)
      PROVE  /\ state' \in [Slot -> ProcState] /\ killed' \in [Slot -> BOOLEAN]
             /\ \A r \in Slot : \/ state'[r] = state[r]
                                \/ state[r] = "SLEEPING" /\ state'[r] = "RUNNABLE"
             /\ \A r \in Slot : state'[r] = "SLEEPING" => (killed'[r] => killed[r])
  <2>0. q \in Slot
    BY Zenon DEF Target
  <2>1. CASE state[q] = "SLEEPING"
    BY <1>2, <2>0, <2>1, Zenon DEF KillStates, TypeOK, TableType, ProcState
  <2>2. CASE state[q] # "SLEEPING"
    BY <1>2, <2>0, <2>2, Zenon DEF KillStates, TypeOK, TableType
  <2> QED  BY <2>1, <2>2, Zenon
<1> QED  BY <1>1, <1>2, Zenon DEF Kill

\* Some process is killed, and if it sleeps it is woken.
LEMMA KillStep ==
  ASSUME NEW c \in CPU, NEW k \in KillPids, IInv, Kill(c, k) PROVE IInv'
<1> DEFINE p == proc[c]
<1> /\ p \in Slot /\ p = proc[c] /\ state[p] = "RUNNING"
    /\ \A d \in CPU : proc[d] = p => d = c
    /\ \A d \in CPU : proc[d] # NoProc => proc[d] \in Slot
  BY Running, Zenon DEF Kill, At
<1>a. ncli[c] = 0 /\ ~intena[c] /\ tickslock # c /\ ptlock # c
  BY ThreadLocks, Zenon DEF Kill, At, ParkLoc
<1> /\ cpc[c] = "proc" /\ tick[c] = "none" /\ pc[p] = "user"
    /\ UNCHANGED <<pid, parent, chan, nextpid, frame, np, ticks0, nsleep, savedena,
                   proc, cpc, tick, idx, skipped, ticks, panicked>>
  BY Zenon DEF Kill, At, locals, cpuctl, clock
<1>b. LockStep(c) /\ LocksAt(c, "sysret")'
  BY <1>a, Zenon DEF Kill, PtableSection, LockStep, LocksAt, ParkLoc, LockType, clock, IInv, TypeOK
<1>c. /\ state' \in [Slot -> ProcState] /\ killed' \in [Slot -> BOOLEAN]
      /\ \A r \in Slot : \/ state'[r] = state[r]
                         \/ state[r] = "SLEEPING" /\ state'[r] = "RUNNABLE"
      /\ \A r \in Slot : state'[r] = "SLEEPING" => (killed'[r] => killed[r])
  BY KillFacts, Zenon DEF IInv
<1>d. pc' = [pc EXCEPT ![p] = "sysret"]
  BY Zenon DEF Kill, Goto
<1>e. \A d \in CPU : cpc[d] # "sched"
  BY Zenon DEF Kill, PtableSection, IInv, LockDiscipline, LockOk, HoldsPtable
<1> HIDE DEF p
<1>1. TypeOK'
  BY <1>b, <1>c, <1>d, Zenon DEF IInv, TypeOK, TableType, ThreadType, CpuType, LockStep, PcLoc
<1>f. \A r \in Slot : pc'[r] = (IF r = p THEN "sysret" ELSE pc[r])
  BY <1>d, Zenon DEF IInv, TypeOK, ThreadType
<1>2. Undisturbed(c)
  <2>1. \A d \in CPU : proc[d] # NoProc => state[proc[d]] = "RUNNING"
    BY <1>e DEF IInv, TypeOK, CpuType, CpcLoc, CpuInv, CpuOk
  <2> QED  BY <1>b, <1>c, <1>f, <2>1, OthersRun
<1>3. LocalInv(c)'
  BY <1>b, <1>c, <1>f, StillRunning, Zenon
<1>4. SlotInv'
  <2>1. SlotInv
    BY Zenon DEF IInv, TableInv
  <2> QED  BY <1>c, <1>f, <2>1 DEF SlotInv, SlotOk, ParkLoc, Live
<1>5. ForkInv' /\ LiveParents' /\ UniquePids' /\ NoLostExit' /\ NoKilledWaiter'
  BY <1>c, <1>f, LiveFrame, WaitFrame, Zenon DEF Live
<1> QED  BY <1>1, <1>2, <1>3, <1>4, <1>5, OtherCpus, Zenon DEF IInv, TableInv

-----------------------------------------------------------------------------
(* fork *)

\* fork when the table is full returns to the system call's end.
LEMMA ForkFullStep ==
  ASSUME NEW c \in CPU, IInv, Fork(c), UNCHANGED <<ptable, np>>, Goto(c, "sysret") PROVE IInv'
<1>a. ncli[c] = 0 /\ ~intena[c] /\ tickslock # c /\ ptlock # c
  BY Running, ThreadLocks, Zenon DEF Fork, At, ParkLoc
<1>b. LockStep(c) /\ LocksAt(c, "sysret")'
  BY <1>a, Zenon DEF Fork, PtableSection, clock, LockStep, LockType, TypeOK, LocksAt, ParkLoc, IInv
<1> QED  BY <1>a, <1>b, MoveStep, Zenon DEF Fork, At, PcLoc, IInv, TypeOK, ThreadType, clock

\* allocproc takes the UNUSED slot q for the fork of p.
LEMMA AllocTable ==
  ASSUME IInv, NEW p \in Slot, NEW q \in Slot, state[p] = "RUNNING", \E c \in CPU : proc[c] = p,
         pc[p] = "user", state[q] = "UNUSED", q # initproc,
         \A r \in Slot : state'[r] = (IF r = q THEN "EMBRYO" ELSE state[r]),
         \A r \in Slot : pid'[r] = (IF r = q THEN nextpid ELSE pid[r]),
         \A r \in Slot : np'[r] = (IF r = p THEN q ELSE np[r]),
         \A r \in Slot : pc'[r] = (IF r = q THEN "forkret" ELSE IF r = p THEN "alloced" ELSE pc[r]),
         nextpid' = nextpid + 1, UNCHANGED <<parent, chan, killed, savedena, proc>>
  PROVE  TableInv'
<1> /\ np \in [Slot -> Slot] /\ parent \in [Slot -> Slot \cup {NoProc}]
    /\ pid \in [Slot -> Nat] /\ nextpid \in 1..MAXPID + 1
  BY Zenon DEF IInv, TypeOK, TableType, ThreadType
<1> SlotInv /\ ForkInv /\ LiveParents /\ UniquePids
  BY Zenon DEF IInv, TableInv
<1>1. SlotInv'
  BY DEF SlotInv, SlotOk, Live
<1>2. ForkInv'
  BY DEF ForkInv
<1>3. LiveParents'
  BY DEF LiveParents
<1>4. UniquePids'
  BY DEF UniquePids
<1>5. NoLostExit' /\ NoKilledWaiter'
  BY WaitFrame, Zenon
<1> QED  BY <1>1, <1>2, <1>3, <1>4, <1>5, Zenon DEF TableInv

\* allocproc takes an UNUSED slot, which no other CPU or fork refers to.
LEMMA ForkAllocStep ==
  ASSUME NEW c \in CPU, IInv, Fork(c), NEW q \in Unused, nextpid <= MAXPID, Allocproc(q),
         np' = [np EXCEPT ![proc[c]] = q],
         pc' = [pc EXCEPT ![proc[c]] = "alloced", ![q] = "forkret"]
  PROVE  IInv'
<1> DEFINE p == proc[c]
<1> /\ p \in Slot /\ p = proc[c] /\ state[p] = "RUNNING"
    /\ \A d \in CPU : proc[d] = p => d = c
    /\ \A d \in CPU : proc[d] # NoProc => proc[d] \in Slot
  BY Running, Zenon DEF Fork, At
<1>a. ncli[c] = 0 /\ ~intena[c] /\ tickslock # c /\ ptlock # c
  BY ThreadLocks, Zenon DEF Fork, At, ParkLoc
<1> /\ cpc[c] = "proc" /\ tick[c] = "none" /\ pc[p] = "user"
    /\ UNCHANGED <<parent, chan, killed, frame, ticks0, nsleep, savedena,
                   proc, cpc, tick, idx, skipped, ticks, panicked>>
  BY Zenon DEF Fork, Allocproc, At, cpuctl, clock
<1>b. LockStep(c) /\ LocksAt(c, "alloced")'
  BY <1>a, Zenon DEF Fork, PtableSection, LockStep, LocksAt, ParkLoc, LockType, clock, IInv, TypeOK
<1>c. /\ state' = [state EXCEPT ![q] = "EMBRYO"] /\ pid' = [pid EXCEPT ![q] = nextpid]
      /\ nextpid' = nextpid + 1
  BY Zenon DEF Allocproc
<1> HIDE DEF p
<1>d. q \in Slot /\ state[q] = "UNUSED" /\ q # initproc
  BY Zenon DEF Unused, IInv, TableInv, SlotInv, SlotOk, Live
<1>e. \A d \in CPU : proc[d] # q
  BY <1>d, SlotFacts DEF IInv, CpuInv, CpuOk, TypeOK, CpuType, CpcLoc
<1>1. TypeOK'
  <2>1. TableType'
    BY <1>c, <1>d DEF IInv, TypeOK, TableType, ProcState
  <2>2. ThreadType'
    BY <1>d, Zenon DEF IInv, TypeOK, ThreadType, PcLoc
  <2>3. CpuType' /\ LockType'
    BY <1>b, Zenon DEF IInv, TypeOK, CpuType, LockStep
  <2> QED  BY <2>1, <2>2, <2>3, Zenon DEF IInv, TypeOK
<1>f. /\ \A r \in Slot : state'[r] = (IF r = q THEN "EMBRYO" ELSE state[r])
      /\ \A r \in Slot : pid'[r] = (IF r = q THEN nextpid ELSE pid[r])
  BY <1>c, Zenon DEF IInv, TypeOK, TableType
<1>g. /\ \A r \in Slot : np'[r] = (IF r = p THEN q ELSE np[r])
      /\ \A r \in Slot : pc'[r] = (IF r = q THEN "forkret" ELSE IF r = p THEN "alloced" ELSE pc[r])
  BY Zenon DEF IInv, TypeOK, ThreadType
<1>h. state'[p] = "RUNNING" /\ pc'[p] = "alloced"
  BY <1>d, <1>f, <1>g, Zenon
<1>i. \A d \in CPU \ {c} : proc[d] # NoProc => /\ state'[proc[d]] = state[proc[d]]
                                               /\ pc'[proc[d]] = pc[proc[d]]
  BY <1>e, <1>f, <1>g, Zenon
<1>2. Undisturbed(c)
  BY <1>b, <1>i, OthersRun, Zenon
<1>3. LocalInv(c)'
  BY <1>b, <1>h, StillRunning, Zenon
<1>4. TableInv'
  BY <1>c, <1>d, <1>f, <1>g, AllocTable, Zenon
<1> QED  BY <1>1, <1>2, <1>3, <1>4, OtherCpus, Zenon DEF IInv

\* fork up to the return of allocproc.
LEMMA ForkStep ==
  ASSUME NEW c \in CPU, IInv, Fork(c) PROVE IInv'
<1>1. \/ Goto(c, "sysret") /\ UNCHANGED <<ptable, np>>
      \/ \E q \in Unused : /\ nextpid <= MAXPID /\ Allocproc(q)
                           /\ np' = [np EXCEPT ![proc[c]] = q]
                           /\ pc' = [pc EXCEPT ![proc[c]] = "alloced", ![q] = "forkret"]
  BY Zenon DEF Fork
<1> QED  BY <1>1, ForkFullStep, ForkAllocStep, Zenon

\* The slot a fork is building is an EMBRYO no CPU runs, with a thread in forkret.
LEMMA ForkFacts ==
  ASSUME NEW c \in CPU, IInv, cpc[c] = "proc", pc[proc[c]] \in {"alloced", "filled"}
  PROVE  LET q == np[proc[c]] IN
           /\ q \in Slot /\ q # proc[c] /\ q # initproc /\ state[q] = "EMBRYO" /\ pc[q] = "forkret"
           /\ \A d \in CPU : proc[d] # q
           /\ pc[proc[c]] = "filled" => parent[q] = proc[c]
<1> USE DEF IInv, TableInv
<1>0. proc[c] \in Slot /\ state[proc[c]] = "RUNNING"
  BY Running, Zenon
<1>1. /\ np[proc[c]] \in Slot /\ state[np[proc[c]]] = "EMBRYO"
      /\ pc[proc[c]] = "filled" => parent[np[proc[c]]] = proc[c]
  BY <1>0, Zenon DEF TypeOK, ThreadType, ForkInv
<1>2. np[proc[c]] # initproc /\ pc[np[proc[c]]] = "forkret"
  BY <1>1, Zenon DEF SlotInv, SlotOk, Live
<1>3. \A d \in CPU : proc[d] # np[proc[c]]
  BY <1>1, SlotFacts DEF CpuInv, CpuOk, TypeOK, CpuType, CpcLoc
<1> QED  BY <1>0, <1>1, <1>2, <1>3, Zenon

\* fork gives the slot q it is building its parent.
LEMMA FillTable ==
  ASSUME IInv, NEW p \in Slot, NEW q \in Slot, state[p] = "RUNNING", \E c \in CPU : proc[c] = p,
         pc[p] = "alloced", q = np[p], state[q] = "EMBRYO", q # initproc,
         \A r \in Slot : parent'[r] = (IF r = q THEN p ELSE parent[r]),
         \A r \in Slot : pc'[r] = (IF r = p THEN "filled" ELSE pc[r]),
         UNCHANGED <<state, pid, nextpid, chan, killed, np, savedena, proc>>
  PROVE  TableInv'
<1> np \in [Slot -> Slot] /\ parent \in [Slot -> Slot \cup {NoProc}]
  BY Zenon DEF IInv, TypeOK, TableType, ThreadType
<1> SlotInv /\ ForkInv /\ LiveParents /\ UniquePids /\ NoLostExit /\ NoKilledWaiter
  BY Zenon DEF IInv, TableInv
<1>1. SlotInv'
  BY DEF SlotInv, SlotOk, Live
<1>2. ForkInv'
  BY DEF ForkInv
<1>3. LiveParents' /\ UniquePids'
  BY DEF LiveParents, UniquePids
<1>4. NoLostExit' /\ NoKilledWaiter'
  BY DEF NoLostExit, NoKilledWaiter, Zombies, Kids
<1> QED  BY <1>1, <1>2, <1>3, <1>4, Zenon DEF TableInv

\* fork stores np->parent without the lock.
LEMMA ForkFillStep ==
  ASSUME NEW c \in CPU, IInv, ForkFill(c) PROVE IInv'
<1> DEFINE p == proc[c]
           q == np[p]
<1> /\ p \in Slot /\ p = proc[c] /\ q = np[p] /\ state[p] = "RUNNING"
    /\ \A d \in CPU : proc[d] = p => d = c
    /\ \A d \in CPU : proc[d] # NoProc => proc[d] \in Slot
  BY Running, Zenon DEF ForkFill, At
<1>a. ncli[c] = 0 /\ ~flIF[c] /\ ~intena[c] /\ tickslock # c /\ ptlock # c
  BY ThreadLocks, Zenon DEF ForkFill, At, ParkLoc
<1> /\ cpc[c] = "proc" /\ tick[c] = "none" /\ pc[p] = "alloced"
    /\ UNCHANGED <<state, pid, chan, killed, nextpid, frame, np, ticks0, nsleep, savedena,
                   proc, cpc, tick, idx, skipped, ticks, panicked>>
  BY Zenon DEF ForkFill, At, locals, cpuctl, clock
<1>b. LockStep(c) /\ LocksAt(c, "filled")'
  BY <1>a, Zenon DEF ForkFill, LockStep, LocksAt, ParkLoc, LockType, cpuint, clock, IInv, TypeOK
<1>c. parent' = [parent EXCEPT ![q] = p] /\ pc' = [pc EXCEPT ![p] = "filled"]
  BY Zenon DEF ForkFill, Goto
<1>d. q \in Slot /\ state[q] = "EMBRYO" /\ q # initproc
  BY ForkFacts, Zenon DEF ForkFill, At
<1> HIDE DEF p, q
<1>1. TypeOK'
  BY <1>b, <1>c, <1>d, Zenon DEF IInv, TypeOK, TableType, ThreadType, CpuType, LockStep, PcLoc
<1>e. /\ \A r \in Slot : parent'[r] = (IF r = q THEN p ELSE parent[r])
      /\ \A r \in Slot : pc'[r] = (IF r = p THEN "filled" ELSE pc[r])
  BY <1>c, Zenon DEF IInv, TypeOK, TableType, ThreadType
<1>2. Undisturbed(c)
  BY <1>b, <1>e, OthersRun, Zenon
<1>3. LocalInv(c)'
  BY <1>b, <1>e, StillRunning, Zenon
<1>4. TableInv'
  BY <1>d, <1>e, FillTable, Zenon
<1> QED  BY <1>1, <1>2, <1>3, <1>4, OtherCpus, Zenon DEF IInv

\* fork makes the slot q it has built RUNNABLE and forgets it.
LEMMA PublishTable ==
  ASSUME IInv, NEW p \in Slot, NEW q \in Slot, state[p] = "RUNNING", \E c \in CPU : proc[c] = p,
         pc[p] = "filled", q = np[p], state[q] = "EMBRYO", q # initproc, parent[q] = p,
         \A r \in Slot : state'[r] = (IF r = q THEN "RUNNABLE" ELSE state[r]),
         \A r \in Slot : np'[r] = (IF r = p THEN 1 ELSE np[r]),
         \A r \in Slot : pc'[r] = (IF r = p THEN "sysret" ELSE pc[r]),
         UNCHANGED <<pid, parent, nextpid, chan, killed, savedena, proc>>
  PROVE  TableInv'
<1> np \in [Slot -> Slot] /\ parent \in [Slot -> Slot \cup {NoProc}]
  BY Zenon DEF IInv, TypeOK, TableType, ThreadType
<1> SlotInv /\ ForkInv /\ LiveParents /\ UniquePids
  BY Zenon DEF IInv, TableInv
<1>1. SlotInv'
  BY DEF SlotInv, SlotOk, ParkLoc, Live
<1>2. ForkInv'
  BY DEF ForkInv
<1>3. LiveParents'
  <2> SUFFICES ASSUME NEW r \in Slot \ {initproc}, state'[r] \notin {"UNUSED", "EMBRYO"}
               PROVE  parent[r] # NoProc /\ state'[parent[r]] \in {"RUNNABLE", "RUNNING", "SLEEPING"}
    BY Zenon DEF LiveParents
  <2>1. CASE r = q
    BY <2>1, SlotFacts
  <2>2. CASE r # q
    <3>1. /\ parent[r] # NoProc /\ parent[r] \in Slot
          /\ state[parent[r]] \in {"RUNNABLE", "RUNNING", "SLEEPING"}
      BY <2>2 DEF LiveParents
    <3> QED  BY <3>1, Zenon
  <2> QED  BY <2>1, <2>2, Zenon
<1>4. UniquePids'
  BY DEF UniquePids
<1>5. NoLostExit' /\ NoKilledWaiter'
  BY WaitFrame, Zenon
<1> QED  BY <1>1, <1>2, <1>3, <1>4, <1>5, Zenon DEF TableInv

\* fork stores np->state = RUNNABLE without the lock.
LEMMA ForkPublishStep ==
  ASSUME NEW c \in CPU, IInv, ForkPublish(c) PROVE IInv'
<1> DEFINE p == proc[c]
           q == np[p]
<1> /\ p \in Slot /\ p = proc[c] /\ q = np[p] /\ state[p] = "RUNNING"
    /\ \A d \in CPU : proc[d] = p => d = c
    /\ \A d \in CPU : proc[d] # NoProc => proc[d] \in Slot
  BY Running, Zenon DEF ForkPublish, At
<1>a. ncli[c] = 0 /\ ~flIF[c] /\ ~intena[c] /\ tickslock # c /\ ptlock # c
  BY ThreadLocks, Zenon DEF ForkPublish, At, ParkLoc
<1> /\ cpc[c] = "proc" /\ tick[c] = "none" /\ pc[p] = "filled"
    /\ UNCHANGED <<pid, parent, chan, killed, nextpid, frame, ticks0, nsleep, savedena,
                   proc, cpc, tick, idx, skipped, ticks, panicked>>
  BY Zenon DEF ForkPublish, At, cpuctl, clock
<1>b. LockStep(c) /\ LocksAt(c, "sysret")'
  BY <1>a, Zenon DEF ForkPublish, LockStep, LocksAt, ParkLoc, LockType, cpuint, clock, IInv, TypeOK
<1>c. /\ state' = [state EXCEPT ![q] = "RUNNABLE"] /\ pc' = [pc EXCEPT ![p] = "sysret"]
      /\ np' = [np EXCEPT ![p] = 1]
  BY Zenon DEF ForkPublish, Goto
<1>d. /\ q \in Slot /\ state[q] = "EMBRYO" /\ q # initproc /\ parent[q] = p /\ 1 \in Slot
      /\ \A d \in CPU : proc[d] # q
  BY ForkFacts, SlotFacts, Zenon DEF ForkPublish, At, initproc
<1> HIDE DEF p, q
<1>1. TypeOK'
  BY <1>b, <1>c, <1>d, Zenon DEF IInv, TypeOK, TableType, ThreadType, CpuType, LockStep,
    ProcState, PcLoc
<1>e. /\ \A r \in Slot : state'[r] = (IF r = q THEN "RUNNABLE" ELSE state[r])
      /\ \A r \in Slot : np'[r] = (IF r = p THEN 1 ELSE np[r])
      /\ \A r \in Slot : pc'[r] = (IF r = p THEN "sysret" ELSE pc[r])
  BY <1>c, Zenon DEF IInv, TypeOK, TableType, ThreadType
<1>2. Undisturbed(c)
  BY <1>b, <1>d, <1>e, OthersRun, Zenon
<1>3. LocalInv(c)'
  BY <1>b, <1>d, <1>e, StillRunning, Zenon
<1>4. TableInv'
  BY <1>d, <1>e, PublishTable, Zenon
<1> QED  BY <1>1, <1>2, <1>3, <1>4, OtherCpus, Zenon DEF IInv

-----------------------------------------------------------------------------
(* exit *)

\* wakeup1 makes sleepers on its channel RUNNABLE, and changes nothing else.
LEMMA Wakeup1Facts ==
  ASSUME NEW st \in [Slot -> ProcState], NEW ch
  PROVE  /\ Wakeup1(st, ch) \in [Slot -> ProcState]
         /\ \A q \in Slot : \/ Wakeup1(st, ch)[q] = st[q]
                            \/ st[q] = "SLEEPING" /\ Wakeup1(st, ch)[q] = "RUNNABLE"
         /\ \A q \in Slot : chan[q] = ch => Wakeup1(st, ch)[q] # "SLEEPING"
  BY Zenon DEF Wakeup1, ProcState

\* exit leaves the caller a zombie, its parent awake, and init awake too when init
\* inherits a zombie.
LEMMA ExitStatesFacts ==
  ASSUME TypeOK, NEW p \in Slot
  PROVE  /\ ExitStates(p) \in [Slot -> ProcState] /\ ExitStates(p)[p] = "ZOMBIE"
         /\ \A q \in Slot \ {p} : \/ ExitStates(p)[q] = state[q]
                                  \/ state[q] = "SLEEPING" /\ ExitStates(p)[q] = "RUNNABLE"
         /\ \A q \in Slot \ {p} : chan[q] = parent[p] => ExitStates(p)[q] # "SLEEPING"
         /\ (\E z \in Slot : parent[z] = p /\ state[z] = "ZOMBIE")
              => \A q \in Slot \ {p} : chan[q] = initproc => ExitStates(p)[q] # "SLEEPING"
<1> DEFINE st == Wakeup1(state, parent[p])
           st2 == Wakeup1(st, initproc)
           inherits == \E q \in Slot : parent[q] = p /\ st[q] = "ZOMBIE"
<1>1. /\ st \in [Slot -> ProcState]
      /\ \A q \in Slot : st[q] = state[q] \/ (state[q] = "SLEEPING" /\ st[q] = "RUNNABLE")
      /\ \A q \in Slot : chan[q] = parent[p] => st[q] # "SLEEPING"
  BY Wakeup1Facts, Zenon DEF TypeOK, TableType
<1>2. /\ st2 \in [Slot -> ProcState]
      /\ \A q \in Slot : st2[q] = st[q] \/ (st[q] = "SLEEPING" /\ st2[q] = "RUNNABLE")
      /\ \A q \in Slot : chan[q] = initproc => st2[q] # "SLEEPING"
  BY <1>1, Wakeup1Facts
<1>3. ExitStates(p) = [(IF inherits THEN st2 ELSE st) EXCEPT ![p] = "ZOMBIE"]
  BY Zenon DEF ExitStates
<1>4. (\E z \in Slot : parent[z] = p /\ state[z] = "ZOMBIE") => inherits
  BY <1>1, Zenon
<1> HIDE DEF st, st2, inherits
<1>5. CASE inherits
  <2>1. ExitStates(p) = [st2 EXCEPT ![p] = "ZOMBIE"]
    BY <1>3, <1>5, Zenon
  <2>2. ExitStates(p) \in [Slot -> ProcState] /\ ExitStates(p)[p] = "ZOMBIE"
    BY <1>2, <2>1, Zenon DEF ProcState
  <2>3. \A q \in Slot \ {p} : ExitStates(p)[q] = st2[q]
    BY <1>2, <2>1, Zenon
  <2>4. \A q \in Slot \ {p} : \/ ExitStates(p)[q] = state[q]
                              \/ state[q] = "SLEEPING" /\ ExitStates(p)[q] = "RUNNABLE"
    BY <1>1, <1>2, <2>3, Zenon
  <2>5. \A q \in Slot \ {p} : chan[q] = parent[p] => ExitStates(p)[q] # "SLEEPING"
    BY <1>1, <1>2, <2>3, Zenon
  <2>6. (\E z \in Slot : parent[z] = p /\ state[z] = "ZOMBIE")
         => \A q \in Slot \ {p} : chan[q] = initproc => ExitStates(p)[q] # "SLEEPING"
    BY <1>1, <1>2, <2>3, Zenon
  <2> QED  BY <2>2, <2>4, <2>5, <2>6, Zenon
<1>6. CASE ~inherits
  <2>1. ExitStates(p) = [st EXCEPT ![p] = "ZOMBIE"]
    BY <1>3, <1>6, Zenon
  <2>2. ExitStates(p) \in [Slot -> ProcState] /\ ExitStates(p)[p] = "ZOMBIE"
    BY <1>1, <2>1, Zenon DEF ProcState
  <2>3. \A q \in Slot \ {p} : ExitStates(p)[q] = st[q]
    BY <1>1, <2>1, Zenon
  <2>4. \A q \in Slot \ {p} : \/ ExitStates(p)[q] = state[q]
                              \/ state[q] = "SLEEPING" /\ ExitStates(p)[q] = "RUNNABLE"
    BY <1>1, <2>3, Zenon
  <2>5. \A q \in Slot \ {p} : chan[q] = parent[p] => ExitStates(p)[q] # "SLEEPING"
    BY <1>1, <2>3, Zenon
  <2>6. (\E z \in Slot : parent[z] = p /\ state[z] = "ZOMBIE")
         => \A q \in Slot \ {p} : chan[q] = initproc => ExitStates(p)[q] # "SLEEPING"
    BY <1>1, <1>4, <1>6, <2>3, Zenon
  <2> QED  BY <2>2, <2>4, <2>5, <2>6, Zenon
<1> QED  BY <1>5, <1>6, Zenon

\* exit makes p a zombie, wakes who waits for it and hands its children to init.
LEMMA ExitTable ==
  ASSUME IInv, NEW p \in Slot, state[p] = "RUNNING", pc[p] = "exiting", p # initproc,
         state'[p] = "ZOMBIE",
         \A q \in Slot \ {p} : \/ state'[q] = state[q]
                               \/ state[q] = "SLEEPING" /\ state'[q] = "RUNNABLE",
         \A q \in Slot \ {p} : chan[q] = parent[p] => state'[q] # "SLEEPING",
         (\E z \in Slot : parent[z] = p /\ state[z] = "ZOMBIE")
           => \A q \in Slot \ {p} : chan[q] = initproc => state'[q] # "SLEEPING",
         \A q \in Slot : parent'[q] = (IF parent[q] = p THEN initproc ELSE parent[q]),
         \A q \in Slot : pc'[q] = (IF q = p THEN "dead" ELSE pc[q]),
         UNCHANGED <<pid, chan, killed, nextpid, np, savedena, proc>>
  PROVE  TableInv'
<1> np \in [Slot -> Slot] /\ parent \in [Slot -> Slot \cup {NoProc}]
  BY Zenon DEF IInv, TypeOK, TableType, ThreadType
<1> SlotInv /\ ForkInv /\ LiveParents /\ UniquePids /\ NoLostExit /\ NoKilledWaiter
  BY Zenon DEF IInv, TableInv
<1>1. SlotInv'
  BY SlotFacts DEF SlotInv, SlotOk, ParkLoc, Live
<1>2. ForkInv'
  BY DEF ForkInv
<1>3. LiveParents'
  <2>1. state'[initproc] \in Live
    BY SlotFacts DEF SlotInv, SlotOk, Live
  <2>2. ASSUME NEW q \in Slot \ {initproc}, state'[q] \notin {"UNUSED", "EMBRYO"}
        PROVE  parent'[q] # NoProc /\ state'[parent'[q]] \in Live
    <3>. q \in Slot \ {initproc} /\ state[q] \notin {"UNUSED", "EMBRYO"}
      BY <2>2, Zenon
    <3>1. parent[q] \in Slot /\ state[parent[q]] \in Live
      BY DEF LiveParents, Live
    <3>2. CASE parent[q] = p
      BY <2>1, <3>2, SlotFacts
    <3>3. CASE parent[q] # p
      <4>1. parent'[q] = parent[q] /\ parent[q] # NoProc
        BY <3>1, <3>3, SlotFacts, Zenon
      <4>2. state'[parent[q]] \in Live
        BY <3>1, <3>3, Zenon DEF Live
      <4> QED  BY <4>1, <4>2, Zenon
    <3> QED  BY <3>2, <3>3, Zenon
  <2> QED  BY <2>2, Zenon DEF LiveParents, Live
<1>4. UniquePids'
  BY DEF UniquePids
<1>5. NoLostExit'
  <2> SUFFICES ASSUME NEW q \in Slot, state'[q] = "SLEEPING", chan[q] = q,
                      NEW z \in Slot, parent'[z] = q, state'[z] = "ZOMBIE"
               PROVE  FALSE
    BY DEF NoLostExit, Zombies, Kids
  <2>1. q # p /\ state[q] = "SLEEPING"
    BY Zenon
  <2>2. parent[p] # p /\ parent[p] # q
    BY <2>1 DEF SlotInv, SlotOk
  <2>3. z # p /\ state[z] = "ZOMBIE"
    BY <2>2, Zenon
  <2>4. parent[z] # q
    BY <2>1, <2>3, Zenon DEF NoLostExit, Zombies, Kids
  <2>5. parent[z] = p /\ q = initproc
    BY <2>4, Zenon
  <2> QED  BY <2>1, <2>3, <2>5
<1>6. NoKilledWaiter'
  BY Zenon DEF NoKilledWaiter
<1> QED  BY <1>1, <1>2, <1>3, <1>4, <1>5, <1>6, Zenon DEF TableInv

\* exit() up to the call of sched().
LEMMA ExitStep ==
  ASSUME NEW c \in CPU, IInv, Exit(c) PROVE IInv'
<1> DEFINE p == proc[c]
<1> /\ p \in Slot /\ p = proc[c] /\ state[p] = "RUNNING"
    /\ \A d \in CPU : proc[d] = p => d = c
    /\ \A d \in CPU : proc[d] # NoProc => proc[d] \in Slot
  BY Running, Zenon DEF Exit, At
<1>a. ncli[c] = 0 /\ tickslock # c
  BY ThreadLocks, Zenon DEF Exit, At, ParkLoc
<1> /\ cpc[c] = "proc" /\ tick[c] = "none" /\ pc[p] = "exiting" /\ p # initproc /\ ptlock = NoCPU
    /\ UNCHANGED <<pid, chan, killed, nextpid, frame, np, ticks0, nsleep, savedena,
                   proc, tick, idx, skipped, ticks, panicked>>
  BY Zenon DEF Exit, At, AcquirePtable, locals, clock
<1>b. LockStep(c) /\ ptlock' = c /\ tickslock' # c /\ ncli'[c] = 1 /\ ~flIF'[c] /\ ~intena'[c]
  <2>1. AcquirePtable(c, FALSE) /\ UNCHANGED tickslock
    BY Zenon DEF Exit, clock
  <2>2. LockStep(c) /\ ncli'[c] = 1 /\ ~flIF'[c] /\ intena'[c] = FALSE
    BY <1>a, <2>1, AcquireStep, Zenon DEF IInv
  <2> QED  BY <1>a, <2>1, <2>2, Zenon DEF AcquirePtable
<1>c. /\ state' \in [Slot -> ProcState] /\ state'[p] = "ZOMBIE"
      /\ \A q \in Slot \ {p} : \/ state'[q] = state[q]
                               \/ state[q] = "SLEEPING" /\ state'[q] = "RUNNABLE"
      /\ \A q \in Slot \ {p} : chan[q] = parent[p] => state'[q] # "SLEEPING"
      /\ (\E z \in Slot : parent[z] = p /\ state[z] = "ZOMBIE")
           => \A q \in Slot \ {p} : chan[q] = initproc => state'[q] # "SLEEPING"
  <2>1. state' = ExitStates(p) /\ TypeOK
    BY Zenon DEF Exit, IInv
  <2> QED  BY <2>1, ExitStatesFacts
<1>d. /\ parent' \in [Slot -> Slot \cup {NoProc}]
      /\ \A q \in Slot : parent'[q] = IF parent[q] = p THEN initproc ELSE parent[q]
  BY SlotFacts, Zenon DEF Exit, Reparented, IInv, TypeOK, TableType
<1>e. pc' = [pc EXCEPT ![p] = "dead"] /\ cpc' = [cpc EXCEPT ![c] = "sched"]
  BY Zenon DEF Exit, CallSched, Goto
<1> HIDE DEF p
<1>1. TypeOK'
  BY <1>b, <1>c, <1>d, <1>e, Zenon DEF IInv, TypeOK, TableType, ThreadType, CpuType, LockStep,
    PcLoc, CpcLoc
<1>f. /\ \A r \in Slot : pc'[r] = (IF r = p THEN "dead" ELSE pc[r])
      /\ cpc'[c] = "sched" /\ \A d \in CPU \ {c} : cpc'[d] = cpc[d]
  BY <1>e, Zenon DEF IInv, TypeOK, ThreadType, CpuType
<1>2. Undisturbed(c)
  <2>1. \A d \in CPU : cpc[d] # "sched"
    BY Zenon DEF IInv, LockDiscipline, LockOk, HoldsPtable
  <2>2. \A d \in CPU : proc[d] # NoProc => state[proc[d]] = "RUNNING"
    BY <2>1, Zenon DEF IInv, TypeOK, CpuType, CpcLoc, CpuInv, CpuOk
  <2> QED  BY <1>b, <1>c, <1>f, <2>2, OthersRun, Zenon
<1>3. LocalInv(c)'
  BY <1>b, <1>c, <1>f, CallsSched, Zenon
<1>4. TableInv'
  BY <1>c, <1>d, <1>f, ExitTable, Zenon
<1> QED  BY <1>1, <1>2, <1>3, <1>4, OtherCpus, Zenon DEF IInv

\* init exits: the kernel panics and nothing else changes.
LEMMA ExitInitStep ==
  ASSUME NEW c \in CPU, IInv, ExitInit(c) PROVE IInv'
<1>1. UNCHANGED <<ptable, thread, cpuctl, cpuint, clock, ptlock>> /\ panicked' = TRUE
  BY Zenon DEF ExitInit
<1>2. UNCHANGED <<pc, frame, np, ticks0, nsleep, savedena, flIF, ncli, intena, ticks, tickslock>>
  BY <1>1, Zenon DEF thread, locals, cpuint, clock
<1>3. TypeOK'
  BY <1>1, <1>2, Zenon DEF IInv, TypeOK, TableType, ThreadType, CpuType, LockType, ptable, cpuctl
<1>4. CpuInv' /\ IntrInv' /\ ScanInv' /\ LockDiscipline'
  <2>1. CpuInv'
    BY <1>1, Zenon DEF IInv, CpuInv, CpuOk, ptable, cpuctl
  <2>2. IntrInv'
    BY <1>1, <1>2, Zenon DEF IInv, IntrInv, IntrOk, cpuctl
  <2>3. ScanInv'
    BY <1>1, <1>2, Zenon DEF IInv, ScanInv, ScanOk, cpuctl
  <2>4. LockDiscipline'
    BY <1>1, <1>2 DEF IInv, LockDiscipline, LockOk, HoldsPtable, HoldsTicks, At, cpuctl
  <2> QED  BY <2>1, <2>2, <2>3, <2>4, Zenon
<1>5. TableInv'
  BY <1>1, <1>2, ThreadFrame, Zenon DEF cpuctl
<1> QED  BY <1>3, <1>4, <1>5, Zenon DEF IInv

\* A fault marks the process killed and takes it to exit().
LEMMA FaultStep ==
  ASSUME NEW c \in CPU, IInv, Fault(c) PROVE IInv'
<1> DEFINE p == proc[c]
<1> /\ p \in Slot /\ p = proc[c] /\ state[p] = "RUNNING"
    /\ \A d \in CPU : proc[d] = p => d = c
    /\ \A d \in CPU : proc[d] # NoProc => proc[d] \in Slot
  BY Running, Zenon DEF Fault, At
<1>a. ncli[c] = 0 /\ ~intena[c] /\ tickslock # c /\ ptlock # c
  BY ThreadLocks, Zenon DEF Fault, At, ParkLoc
<1> /\ cpc[c] = "proc" /\ tick[c] = "none" /\ pc[p] = "user"
    /\ UNCHANGED <<state, pid, parent, chan, nextpid, frame, np, ticks0, nsleep, savedena,
                   proc, cpc, tick, idx, skipped, ticks, panicked>>
  BY Zenon DEF Fault, At, locals, cpuctl, clock
<1>b. LockStep(c) /\ LocksAt(c, "exiting")'
  BY <1>a, Zenon DEF Fault, LockStep, LocksAt, ParkLoc, LockType, clock, IInv, TypeOK
<1>c. killed' = [killed EXCEPT ![p] = TRUE] /\ pc' = [pc EXCEPT ![p] = "exiting"]
  BY Zenon DEF Fault, Goto
<1> HIDE DEF p
<1>1. TypeOK'
  BY <1>b, <1>c, Zenon DEF IInv, TypeOK, TableType, ThreadType, CpuType, LockStep, PcLoc
<1>d. /\ \A r \in Slot : pc'[r] = (IF r = p THEN "exiting" ELSE pc[r])
      /\ \A r \in Slot : r # p => (killed'[r] => killed[r])
  BY <1>c, Zenon DEF IInv, TypeOK, TableType, ThreadType
<1>2. Undisturbed(c)
  BY <1>b, <1>d, OthersRun, Zenon
<1>3. LocalInv(c)'
  BY <1>b, <1>d, StillRunning, Zenon
<1>4. SlotInv'
  <2>1. SlotInv
    BY Zenon DEF IInv, TableInv
  <2> QED  BY <1>d, <2>1 DEF SlotInv, SlotOk
<1>5. ForkInv' /\ LiveParents' /\ UniquePids' /\ NoLostExit' /\ NoKilledWaiter'
  BY <1>d, LiveFrame, WaitFrame, Zenon
<1> QED  BY <1>1, <1>2, <1>3, <1>4, <1>5, OtherCpus, Zenon DEF IInv, TableInv

=============================================================================
