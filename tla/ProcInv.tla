------------------------------ MODULE ProcInv ------------------------------
(***************************************************************************)
(* The inductive invariant behind the safety properties of Proc, which     *)
(* ProcProofs proves inductive.                                            *)
(***************************************************************************)
EXTENDS Proc

Live == {"RUNNABLE", "RUNNING", "SLEEPING"}

\* Where a thread that is not on a CPU resumes, always with ptable.lock held.
ParkLoc == {"forkret", "waitloop", "sleepwoke", "yielded"}

\* cpu->proc and the two control points agree; no process is on two CPUs.
CpuOk(c) ==
    /\ proc[c] = NoProc <=> cpc[c] \in {"sti", "acquire", "scan", "hlt"}
    /\ cpc[c] = "proc" => state[proc[c]] = "RUNNING"
    /\ cpc[c] = "sched" => state[proc[c]] \in {"RUNNABLE", "SLEEPING", "ZOMBIE"}
    /\ \A d \in CPU : proc[c] = proc[d] /\ proc[c] # NoProc => c = d
CpuInv == \A c \in CPU : CpuOk(c)

\* Where interrupts are on, and where the timer handler may be pending.  Only a
\* scheduler that has not switched since its acquire, or the forkret it switched
\* to, has interrupts to restore: every sched() saves an intena of 0.
IntrOk(c) ==
    /\ flIF[c] => /\ tick[c] = "none"
                  /\ \/ cpc[c] \in {"sti", "acquire", "hlt"}
                     \/ cpc[c] = "proc" /\ pc[proc[c]] \in {"user", "forkret2"}
    /\ tick[c] # "none" => \/ cpc[c] \in {"sti", "acquire"}
                           \/ cpc[c] = "proc" /\ pc[proc[c]] = "trapchk"
    /\ cpc[c] = "acquire" /\ tick[c] = "none" => flIF[c]
    /\ cpc[c] = "hlt" => flIF[c]
    /\ intena[c] => cpc[c] = "scan" \/ (cpc[c] = "proc" /\ pc[proc[c]] = "forkret")
IntrInv == \A c \in CPU : IntrOk(c)

\* scheduler(): once more slots have been skipped than passed in this scan, no
\* thread has run since this CPU's own acquire, so intena is the scheduler's.
ScanOk(c) ==
    /\ cpc[c] \in {"sti", "acquire", "hlt"} => idx[c] = 1 /\ skipped[c] <= NPROC
    /\ cpc[c] \in {"proc", "sched"} => idx[c] = proc[c] /\ skipped[c] = 0
    /\ cpc[c] = "scan" => /\ skipped[c] < NPROC + idx[c]
                          /\ intena[c] \/ skipped[c] < idx[c]
ScanInv == \A c \in CPU : ScanOk(c)

\* p->state, the control point of p, p->chan and p->parent.
SlotOk(p) ==
    /\ state[p] = "EMBRYO" => pc[p] = "forkret"
    /\ state[p] = "RUNNABLE" => pc[p] \in ParkLoc
    /\ state[p] = "SLEEPING" => \/ pc[p] = "waitloop" /\ chan[p] = p
                                \/ pc[p] = "sleepwoke" /\ chan[p] = TicksChan
    /\ state[p] = "ZOMBIE" => pc[p] = "dead"
    /\ state[p] = "UNUSED" => pc[p] = "none"
    /\ state[p] = "RUNNING" => /\ pc[p] \notin {"none", "dead"}
                               /\ \E c \in CPU : proc[c] = p
    /\ p = initproc => state[p] \in Live /\ parent[p] = NoProc
    /\ parent[p] # p
    /\ ~savedena[p]
SlotInv == \A p \in Slot : SlotOk(p)

\* The slot a fork is building belongs to that fork alone.
ForkInv ==
    \A p \in Slot : pc[p] \in {"alloced", "filled"} =>
        /\ state[np[p]] = "EMBRYO"
        /\ pc[p] = "filled" => parent[np[p]] = p
        /\ \A q \in Slot : pc[q] \in {"alloced", "filled"} /\ np[q] = np[p] => q = p

TableInv ==
    SlotInv /\ ForkInv /\ LiveParents /\ UniquePids /\ NoLostExit /\ NoKilledWaiter

IInv == TypeOK /\ CpuInv /\ IntrInv /\ ScanInv /\ LockDiscipline /\ TableInv

\* What IInv carries to the clock: who is about to sleep on ticks, and holds tickslock, has
\* time left; so has who sleeps there, unless the handler has counted and not yet woken.
TickInv ==
    \A p \in Slot :
        /\ pc[p] = "sleepacq" => Elapsed(p) < nsleep[p]
        /\ state[p] = "SLEEPING" /\ chan[p] = TicksChan =>
             Elapsed(p) < nsleep[p] \/ \E c \in CPU : tick[c] = "wake"

=============================================================================
