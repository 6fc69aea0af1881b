-------------------------------- MODULE Log ---------------------------------
(***************************************************************************)
(* The write-ahead log of the file system (log.c): begin_op, log_write,    *)
(* end_op with its commit, crashes between any two disk writes, and        *)
(* recovery.  Code under log.lock is one step; a disk write is one step    *)
(* and is atomic (a block is one sector).  The buffer cache appears as     *)
(* what bread returns: the cached copy, or the disk's once a clean buffer  *)
(* has been recycled (bio.c).                                              *)
(***************************************************************************)
EXTENDS Integers, Sequences, FiniteSets

CONSTANTS
    Proc,         \* processes making file system calls
    Val, Zero,    \* contents of a block, and what mkfs leaves there
    MAXOPBLOCKS,  \* what begin_op reserves for an operation
    OPBLOCKS,     \* the distinct blocks an operation writes at most
    LOGSIZE,      \* entries of struct logheader
    NLOG,         \* superblock.nlog: the header block and NLOG - 1 data blocks
    NBLOCK        \* blocks after the log

ASSUME LogAssumption ==
    /\ MAXOPBLOCKS \in Nat \ {0} /\ OPBLOCKS \in 0..MAXOPBLOCKS /\ LOGSIZE \in Nat /\ MAXOPBLOCKS <= LOGSIZE
    /\ NLOG \in Nat \ {0} /\ NBLOCK \in Nat \ {0}
    /\ Zero \in Val /\ IsFiniteSet(Proc)
\* What operations that run together write fits in the log's blocks: mkfs makes NLOG =
\* LOGSIZE, for which this is OPBLOCKS < MAXOPBLOCKS.
ASSUME GeometryAssumption ==
    OPBLOCKS <= NLOG - 1 /\ LOGSIZE - 2 * (MAXOPBLOCKS - OPBLOCKS) <= NLOG - 1

\* Block numbers relative to log.start, the header block.
Addr == 1..(NLOG + NBLOCK - 1)
Home == NLOG..(NLOG + NBLOCK - 1)

VARIABLES
    disk, hdr,          \* contents of the blocks; the header block
    cache, dirty,       \* what bread returns; B_DIRTY
    lh,                 \* log.lh, as the sequence of its n block numbers
    outstanding, committing,
    tail,               \* the loop variable of write_log and install_trans
    pc,                 \* where each process is in log.c
    wb,                 \* the block a process is in log_write for
    written,            \* the blocks its operation has logged
    rec,                \* where recover_from_log is, or "up"
    panicked

mem  == <<cache, dirty, lh, outstanding, committing>>
proc == <<pc, wb, written>>
vars == <<disk, hdr, mem, tail, proc, rec, panicked>>

PcLoc == {"out",     \* in no operation
          "sleep",   \* begin_op: asleep on &log
          "retry",   \* begin_op: woken
          "op",      \* between begin_op and end_op
          "append",  \* log_write: past the tests, before acquire
          "wlog", "head", "install", "clear",   \* commit: the next disk write
          "done"}    \* end_op: commit has returned

TypeOK ==
    /\ disk \in [Addr -> Val] /\ cache \in [Addr -> Val]
    /\ dirty \in [Home -> BOOLEAN]
    /\ hdr \in Seq(Home) /\ lh \in Seq(Home)
    /\ outstanding \in Nat /\ committing \in BOOLEAN
    /\ tail \in Nat
    /\ pc \in [Proc -> PcLoc]
    /\ wb \in [Proc -> Home]
    /\ written \in [Proc -> SUBSET Home]
    /\ rec \in {"read", "install", "clear", "up"}
    /\ panicked \in BOOLEAN

\* mkfs has written the disk; the kernel starts with initlog.
Init ==
    /\ disk = [a \in Addr |-> Zero] /\ hdr = <<>>
    /\ cache = disk
    /\ dirty = [b \in Home |-> FALSE]
    /\ lh = <<>> /\ outstanding = 0 /\ committing = FALSE
    /\ tail = 0
    /\ pc = [p \in Proc |-> "out"]
    /\ wb = [p \in Proc |-> NLOG]
    /\ written = [p \in Proc |-> {}]
    /\ rec = "read"
    /\ panicked = FALSE

-----------------------------------------------------------------------------
\* Mutant: the test does not count the operations already admitted.
LogSpaceNoReserve == Len(lh) + MAXOPBLOCKS <= LOGSIZE
\* begin_op: every admitted operation may still write MAXOPBLOCKS blocks.
LogSpace == Len(lh) + (outstanding + 1) * MAXOPBLOCKS <= LOGSIZE

\* wakeup(&log)
Woken == [q \in Proc |-> IF pc[q] = "sleep" THEN "retry" ELSE pc[q]]

\* begin_op, up to its return or to its next sleep
BeginOp(p) ==
    /\ pc[p] \in {"out", "retry"}
    /\ IF ~committing /\ LogSpace
       THEN outstanding' = outstanding + 1 /\ pc' = [pc EXCEPT ![p] = "op"]
       ELSE pc' = [pc EXCEPT ![p] = "sleep"] /\ UNCHANGED outstanding
    /\ UNCHANGED <<disk, hdr, cache, dirty, lh, committing, tail, wb, written, rec, panicked>>

\* The unlocked tests of log_write.
TooBig == Len(lh) >= LOGSIZE \/ Len(lh) >= NLOG - 1

\* bread(b), a change of its data, and log_write up to acquire.  The caller has
\* the buffer locked until log_write has returned, and keeps to OPBLOCKS.
LogWrite(p, b, v) ==
    /\ pc[p] = "op"
    /\ Cardinality(written[p] \cup {b}) <= OPBLOCKS
    /\ \A q \in Proc : pc[q] = "append" => wb[q] # b
    /\ cache' = [cache EXCEPT ![b] = v]
    /\ IF TooBig \/ outstanding < 1
       THEN panicked' = TRUE /\ UNCHANGED proc
       ELSE /\ pc' = [pc EXCEPT ![p] = "append"]
            /\ wb' = [wb EXCEPT ![p] = b]
            /\ UNCHANGED <<written, panicked>>
    /\ UNCHANGED <<disk, hdr, dirty, lh, outstanding, committing, tail, rec>>

\* log.lh.block[i] = b for some i < n
InLog(b) == \E i \in 1..Len(lh) : lh[i] = b

\* log absorption: a block already in the header keeps its place.
Logged(b) == IF InLog(b) THEN lh ELSE Append(lh, b)

\* Mutant: the buffer is not pinned.
LogAppendClean(p) ==
    /\ pc[p] = "append"
    /\ lh' = Logged(wb[p])
    /\ written' = [written EXCEPT ![p] = @ \cup {wb[p]}]
    /\ pc' = [pc EXCEPT ![p] = "op"]
    /\ wb' = [wb EXCEPT ![p] = NLOG]
    /\ UNCHANGED <<disk, hdr, cache, dirty, outstanding, committing, tail, rec, panicked>>
\* The locked part of log_write; the caller's brelse follows.
LogAppend(p) ==
    /\ pc[p] = "append"
    /\ lh' = Logged(wb[p])
    /\ dirty' = [dirty EXCEPT ![wb[p]] = TRUE]
    /\ written' = [written EXCEPT ![p] = @ \cup {wb[p]}]
    /\ pc' = [pc EXCEPT ![p] = "op"]
    /\ wb' = [wb EXCEPT ![p] = NLOG]
    /\ UNCHANGED <<disk, hdr, cache, outstanding, committing, tail, rec, panicked>>

\* end_op under log.lock: the last one out commits, the others wake waiters.
EndOp(p) ==
    /\ pc[p] = "op"
    /\ outstanding' = outstanding - 1
    /\ written' = [written EXCEPT ![p] = {}]
    /\ IF committing
       THEN panicked' = TRUE /\ UNCHANGED <<committing, pc>>
       ELSE /\ committing' = (outstanding = 1)
            /\ pc' = IF outstanding = 1
                     THEN [pc EXCEPT ![p] = IF lh = <<>> THEN "done" ELSE "wlog"]
                     ELSE [Woken EXCEPT ![p] = "out"]
            /\ UNCHANGED panicked
    /\ UNCHANGED <<disk, hdr, cache, dirty, lh, tail, wb, rec>>

-----------------------------------------------------------------------------
(* commit(), one disk write at a time.                                     *)

\* The end of a round of a loop over lh.
Advance(p, next) ==
    IF tail + 1 < Len(lh) THEN tail' = tail + 1 /\ UNCHANGED pc
                          ELSE tail' = 0 /\ pc' = [pc EXCEPT ![p] = next]

\* write_log: a cached block goes to the next block of the log
WriteLog(p) ==
    /\ pc[p] = "wlog"
    /\ disk' = [disk EXCEPT ![tail + 1] = cache[lh[tail + 1]]]
    /\ cache' = [cache EXCEPT ![tail + 1] = cache[lh[tail + 1]]]
    /\ Advance(p, "head")
    /\ UNCHANGED <<hdr, dirty, lh, outstanding, committing, wb, written, rec, panicked>>

\* write_head: the true point at which the current transaction commits
WriteHead(p) ==
    /\ pc[p] = "head"
    /\ hdr' = lh
    /\ pc' = [pc EXCEPT ![p] = "install"]
    /\ UNCHANGED <<disk, mem, tail, wb, written, rec, panicked>>

\* One round of install_trans: a block of the log goes to its home; bwrite
\* leaves its buffer clean.
InstallBlock ==
    LET b == lh[tail + 1] IN
    /\ disk' = [disk EXCEPT ![b] = cache[tail + 1]]
    /\ cache' = [cache EXCEPT ![b] = cache[tail + 1]]
    /\ dirty' = [dirty EXCEPT ![b] = FALSE]

Install(p) ==
    /\ pc[p] = "install"
    /\ InstallBlock
    /\ Advance(p, "clear")
    /\ UNCHANGED <<hdr, lh, outstanding, committing, wb, written, rec, panicked>>

\* Mutant: log.lh.n keeps its value.
ClearNoReset(p) ==
    /\ pc[p] = "clear"
    /\ hdr' = <<>>
    /\ pc' = [pc EXCEPT ![p] = "done"]
    /\ UNCHANGED <<disk, mem, tail, wb, written, rec, panicked>>
\* log.lh.n = 0; write_head
Clear(p) ==
    /\ pc[p] = "clear"
    /\ lh' = <<>> /\ hdr' = <<>>
    /\ pc' = [pc EXCEPT ![p] = "done"]
    /\ UNCHANGED <<disk, cache, dirty, outstanding, committing, tail, wb, written, rec, panicked>>

\* Mutant: the waiters are not woken.
CommitDoneNoWake(p) ==
    /\ pc[p] = "done"
    /\ committing' = FALSE
    /\ pc' = [pc EXCEPT ![p] = "out"]
    /\ UNCHANGED <<disk, hdr, cache, dirty, lh, outstanding, tail, wb, written, rec, panicked>>
\* The last lines of end_op.
CommitDone(p) ==
    /\ pc[p] = "done"
    /\ committing' = FALSE
    /\ pc' = [Woken EXCEPT ![p] = "out"]
    /\ UNCHANGED <<disk, hdr, cache, dirty, lh, outstanding, tail, wb, written, rec, panicked>>

-----------------------------------------------------------------------------
(* The buffer cache, crashes and recovery.                                 *)

\* bget may recycle a buffer that is neither in use nor dirty.
Recycled(b) == ~dirty[b] /\ \A q \in Proc : pc[q] = "append" => wb[q] # b

\* A clean buffer is recycled; the next bread of its block reads the disk.
Evict(b) ==
    /\ Recycled(b)
    /\ cache' = [cache EXCEPT ![b] = disk[b]]
    /\ UNCHANGED <<disk, hdr, dirty, lh, outstanding, committing, tail, proc, rec, panicked>>

\* Power failure, or a reset after a panic: memory is lost.
Crash ==
    /\ cache' = disk
    /\ dirty' = [b \in Home |-> FALSE]
    /\ lh' = <<>> /\ outstanding' = 0 /\ committing' = FALSE /\ tail' = 0
    /\ pc' = [p \in Proc |-> "out"]
    /\ wb' = [p \in Proc |-> NLOG]
    /\ written' = [p \in Proc |-> {}]
    /\ rec' = "read" /\ panicked' = FALSE
    /\ UNCHANGED <<disk, hdr>>

\* initlog: read_head
ReadHead ==
    /\ rec = "read"
    /\ lh' = hdr
    /\ rec' = IF hdr = <<>> THEN "clear" ELSE "install"
    /\ UNCHANGED <<disk, hdr, cache, dirty, outstanding, committing, tail, proc, panicked>>

RecoverBlock ==
    /\ rec = "install"
    /\ InstallBlock
    /\ IF tail + 1 < Len(lh) THEN tail' = tail + 1 /\ UNCHANGED rec
                             ELSE tail' = 0 /\ rec' = "clear"
    /\ UNCHANGED <<hdr, lh, outstanding, committing, proc, panicked>>

\* Mutant: the header is cleared before the blocks are home.
RecoverClearEarly ==
    /\ rec \in {"install", "clear"} /\ hdr' = <<>>
    /\ lh' = <<>> /\ rec' = "up" /\ tail' = 0
    /\ UNCHANGED <<disk, cache, dirty, outstanding, committing, proc, panicked>>
\* recover_from_log: log.lh.n = 0; write_head
RecoverClear ==
    /\ rec = "clear" /\ hdr' = <<>>
    /\ lh' = <<>> /\ rec' = "up"
    /\ UNCHANGED <<disk, cache, dirty, outstanding, committing, tail, proc, panicked>>

-----------------------------------------------------------------------------
CommitStep(p) == WriteLog(p) \/ WriteHead(p) \/ Install(p) \/ Clear(p) \/ CommitDone(p)

ProcStep(p) ==
    \/ BeginOp(p) \/ LogAppend(p) \/ EndOp(p) \/ CommitStep(p)
    \/ \E b \in Home, v \in Val : LogWrite(p, b, v)

Recover == ReadHead \/ RecoverBlock \/ RecoverClear

Next ==
    \/ ~panicked /\ rec = "up" /\ \E p \in Proc : ProcStep(p)
    \/ ~panicked /\ rec = "up" /\ \E b \in Home : Evict(b)
    \/ ~panicked /\ Recover
    \/ Crash

Spec == Init /\ [][Next]_vars

-----------------------------------------------------------------------------
(* Safety.                                                                 *)

\* The blocks after the log as recovery would leave them: a block named in the
\* on-disk header comes from the log.
Recovered(d, h) ==
    [b \in Home |-> IF \E i \in 1..Len(h) : h[i] = b
                    THEN d[CHOOSE i \in 1..Len(h) : h[i] = b]
                    ELSE d[b]]
Stable == Recovered(disk, hdr)
Current == IF rec = "up" THEN [b \in Home |-> cache[b]] ELSE Stable
Active == {p \in Proc : pc[p] \in {"op", "append"}}

Disk == INSTANCE AtomicDisk WITH Block <- Home, stable <- Stable, current <- Current,
                                 active <- Active

\* Concurrent operations, absorption, group commit, installation and recovery,
\* with crashes anywhere (in recovery too), are the atomic disk: after a crash
\* every operation is there entirely or not at all, and no committed one is lost.
CrashAtomic == Disk!Spec

\* No operation that keeps to OPBLOCKS meets the panic "too big a transaction" of
\* log_write, although it tests the size without the lock, and the other panics of
\* log.c are unreachable.
NoPanic == ~panicked

\* While nobody is in an operation or a commit, what operations have written is
\* what a crash would bring back: end_op does not return before its commit.
QuiescentDurable ==
    rec = "up" /\ outstanding = 0 /\ ~committing => Stable = Current /\ lh = <<>>

\* A buffer that differs from its block on disk is in use or pinned by B_DIRTY,
\* and a pinned buffer is in the log, so that a commit will unpin it.
PinnedUntilInstalled ==
    rec = "up" /\ ~panicked => \A b \in Home :
        /\ cache[b] # disk[b] => dirty[b] \/ \E q \in Proc : pc[q] = "append" /\ wb[q] = b
        /\ dirty[b] => InLog(b)

\* Somebody who will call wakeup(&log) is at work whenever a process sleeps in
\* begin_op: no waiter is left behind by the last end_op.
WaiterHasWaker ==
    (\E p \in Proc : pc[p] = "sleep") => committing \/ outstanding > 0

\* A commit runs alone: no operation can change a block it is copying.
CommitAlone == committing => outstanding = 0 /\ Active = {}

\* The header outgrows neither struct logheader nor the blocks of the log, although
\* log_write tests its length without the lock.
HeaderFits == Len(lh) <= LOGSIZE /\ Len(lh) <= NLOG - 1

\* The log and the cache agree at every step: commits run alone, no waiter is left
\* behind, the header fits, and no buffer that differs from the disk can be recycled.
LogConsistent == TypeOK /\ CommitAlone /\ WaiterHasWaker /\ HeaderFits /\ PinnedUntilInstalled

-----------------------------------------------------------------------------
(* Liveness, with or without crashes: the scheduler runs every process       *)
(* (EventuallyRuns of Proc), the disk answers, and an operation makes         *)
(* finitely many writes (strong fairness of its end_op).  Nothing is assumed  *)
(* of the order in which woken processes get the lock.                        *)
Running == ~panicked /\ rec = "up"
LiveSpec ==
    /\ Spec
    /\ WF_vars(~panicked /\ Recover)
    /\ \A p \in Proc : /\ WF_vars(Running /\ (LogAppend(p) \/ CommitStep(p)))
                       /\ SF_vars(Running /\ EndOp(p))
                       /\ WF_vars(Running /\ pc[p] = "retry" /\ BeginOp(p))

\* A process that sleeps in begin_op is woken.
WaiterWoken == \A p \in Proc : pc[p] = "sleep" ~> pc[p] # "sleep"

\* end_op returns: a commit is never blocked by operations that want to start.
CommitReturns == \A p \in Proc : pc[p] \in {"wlog", "head", "install", "clear", "done"}
                                 ~> pc[p] = "out"

\* begin_op and end_op return: nobody waits for ever for the log.
LogProgress == WaiterWoken /\ CommitReturns
=============================================================================
