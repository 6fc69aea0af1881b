-------------------------------- MODULE Bio --------------------------------
(***************************************************************************)
(* The buffer cache (bio.c), the sleeping lock of each buffer              *)
(* (sleeplock.c) and the disk driver (ide.c, or memide.c for a RAM disk).  *)
(* A process reads a block, perhaps changes it and writes it out (bwrite)  *)
(* or leaves it to the log (the B_DIRTY of log_write), and releases it.    *)
(* Every section under bcache.lock, a sleeplock's lk or idelock is a step. *)
(***************************************************************************)
EXTENDS Naturals, Sequences, FiniteSets

CONSTANTS Proc, Block, Val,  \* processes, block numbers, contents
          NBUF, MAXPIN,      \* buffers; how many the log may leave dirty
          MAXFAILED,         \* bound: buffers at a time that the drive could not read
          NoBlock            \* the blockno of a buffer that was never used
ASSUME BioAssumption == /\ NBUF \in Nat \ {0} /\ MAXPIN \in Nat /\ MAXFAILED \in Nat
                        /\ IsFiniteSet(Proc) /\ NoBlock \notin Block

VARIABLES blockno, refcnt, valid, dirty, data,  \* struct buf
          locked,                               \* b->lock.locked
          lru,                                  \* the list from head.next, most recent first
          idequeue,                             \* buffers waiting for the disk
          disk,                                 \* the blocks on the disk
          pc, mine,                             \* control point and buffer of each process
          panicked,
          failed,                               \* buffers whose read the drive gave an error for
          memide                                \* memide.c is linked instead of ide.c

bufs == <<blockno, refcnt, valid, dirty, data>>
vars == <<bufs, locked, lru, idequeue, disk, pc, mine, panicked, failed, memide>>

Buf == 1..NBUF
PcLoc == {"out", "lock", "locksleep", "rw", "iosleep", "have", "changed", "unref"}

TypeOK ==
    /\ blockno \in [Buf -> Block \cup {NoBlock}] /\ refcnt \in [Buf -> 0..Cardinality(Proc)]
    /\ valid \in [Buf -> BOOLEAN] /\ dirty \in [Buf -> BOOLEAN] /\ data \in [Buf -> Val]
    /\ locked \in [Buf -> BOOLEAN] /\ disk \in [Block -> Val]
    /\ lru \in [Buf -> Buf] /\ \A b \in Buf : \E i \in Buf : lru[i] = b
    /\ idequeue \in Seq(Buf) /\ \A i, j \in 1..Len(idequeue) : idequeue[i] = idequeue[j] => i = j
    /\ pc \in [Proc -> PcLoc] /\ mine \in [Proc -> Buf] /\ panicked \in BOOLEAN
    /\ failed \subseteq Buf /\ memide \in BOOLEAN

\* binit: the list ends with the buffer that was inserted first.
Init ==
    /\ blockno = [b \in Buf |-> NoBlock] /\ refcnt = [b \in Buf |-> 0]
    /\ valid = [b \in Buf |-> FALSE] /\ dirty = [b \in Buf |-> FALSE]
    /\ disk \in [Block -> Val] /\ \E v \in Val : data = [b \in Buf |-> v]
    /\ locked = [b \in Buf |-> FALSE]
    /\ lru = [i \in Buf |-> NBUF + 1 - i]
    /\ idequeue = <<>>
    /\ pc = [p \in Proc |-> "out"] /\ mine = [p \in Proc |-> 1]
    /\ panicked = FALSE /\ failed = {} /\ memide \in BOOLEAN

Goto(p, loc) == pc' = [pc EXCEPT ![p] = loc]

\* wakeup(chan): every process asleep there runs again.
WakeAll(f, S, from, to) == [p \in Proc |-> IF p \in S /\ f[p] = from THEN to ELSE f[p]]

-----------------------------------------------------------------------------
(* bread, bwrite, brelse *)

Cached(k) == {b \in Buf : blockno[b] = k}

UnusedDirty(b) == refcnt[b] = 0

\* The buffers bget may recycle.
Unused(b) == refcnt[b] = 0 /\ ~dirty[b]
\* b->flags = 0.
ResetFlags(b) == valid' = [valid EXCEPT ![b] = FALSE] /\ dirty' = [dirty EXCEPT ![b] = FALSE]

\* bget under bcache.lock: the cached buffer, else the least recently used one that
\* nobody references and the log does not keep.
Bget(p, k) ==
    LET pos == {i \in Buf : Unused(lru[i])}
        b == lru[CHOOSE i \in pos : \A j \in pos : j <= i]
    IN
    /\ pc[p] = "out" /\ ~panicked
    /\ \/ \E c \in Cached(k) :
            /\ refcnt' = [refcnt EXCEPT ![c] = @ + 1]
            /\ mine' = [mine EXCEPT ![p] = c]
            /\ Goto(p, "lock")
            /\ UNCHANGED <<blockno, valid, dirty, panicked>>
       \/ /\ Cached(k) = {} /\ pos # {}
          /\ blockno' = [blockno EXCEPT ![b] = k] /\ refcnt' = [refcnt EXCEPT ![b] = 1]
          /\ ResetFlags(b)
          /\ mine' = [mine EXCEPT ![p] = b]
          /\ Goto(p, "lock")
          /\ UNCHANGED panicked
       \/ /\ Cached(k) = {} /\ pos = {}
          /\ panicked' = TRUE                           \* "bget: no buffers"
          /\ UNCHANGED <<blockno, refcnt, valid, dirty, mine, pc>>
    /\ UNCHANGED <<data, locked, lru, idequeue, disk>>

\* acquiresleep(&b->lock), then the test of B_VALID in bread.
AcquireUnchecked(p) ==
    LET b == mine[p] IN
    /\ pc[p] = "lock"
    /\ locked' = [locked EXCEPT ![b] = TRUE]
    /\ Goto(p, IF valid[b] THEN "have" ELSE "rw")
    /\ UNCHANGED <<bufs, lru, idequeue, disk, mine, panicked>>
Acquiresleep(p) ==
    LET b == mine[p] IN
    /\ pc[p] = "lock"
    /\ \/ locked[b] /\ Goto(p, "locksleep") /\ UNCHANGED locked
       \/ /\ ~locked[b]
          /\ locked' = [locked EXCEPT ![b] = TRUE]
          /\ Goto(p, IF valid[b] THEN "have" ELSE "rw")
    /\ UNCHANGED <<bufs, lru, idequeue, disk, mine, panicked>>

\* The holder changes the contents of its buffer.
Change(p) ==
    /\ pc[p] = "have"
    /\ \E v \in Val : v # data[mine[p]] /\ data' = [data EXCEPT ![mine[p]] = v]
    /\ Goto(p, "changed")
    /\ UNCHANGED <<blockno, refcnt, valid, dirty, locked, lru, idequeue, disk, mine, panicked>>

\* bwrite: B_DIRTY, then iderw.
Bwrite(p) ==
    /\ pc[p] \in {"have", "changed"}
    /\ dirty' = [dirty EXCEPT ![mine[p]] = TRUE]
    /\ Goto(p, "rw")
    /\ UNCHANGED <<blockno, refcnt, valid, data, locked, lru, idequeue, disk, mine, panicked>>

\* log_write marks the buffer and leaves the writing to commit.
Pinned == {b \in Buf : dirty[b] /\ \A p \in Proc : mine[p] = b => pc[p] \notin {"rw", "iosleep"}}
LogWrite(p) ==
    /\ pc[p] = "changed" /\ Cardinality(Pinned \ {mine[p]}) < MAXPIN
    /\ dirty' = [dirty EXCEPT ![mine[p]] = TRUE]
    /\ Goto(p, "have")
    /\ UNCHANGED <<blockno, refcnt, valid, data, locked, lru, idequeue, disk, mine, panicked>>

ReleasesleepNoWake(p) ==
    /\ pc[p] = "have"
    /\ locked' = [locked EXCEPT ![mine[p]] = FALSE]
    /\ Goto(p, "unref")
    /\ UNCHANGED <<bufs, lru, idequeue, disk, mine, panicked>>

\* brelse, releasesleep: everybody asleep on the lock is woken.
Releasesleep(p) ==
    LET b == mine[p] IN
    /\ pc[p] = "have"
    /\ locked' = [locked EXCEPT ![b] = FALSE]
    /\ pc' = [WakeAll(pc, {q \in Proc : mine[q] = b}, "locksleep", "lock") EXCEPT ![p] = "unref"]
    /\ UNCHANGED <<bufs, lru, idequeue, disk, mine, panicked>>
\* The buffer at position n of the list is moved to head.next.
MovedToFront(n) == [i \in Buf |-> IF i = 1 THEN lru[n] ELSE IF i <= n THEN lru[i - 1] ELSE lru[i]]
\* brelse under bcache.lock: an unreferenced buffer moves to the front of the list.
Unref(p) ==
    LET b == mine[p] IN
    /\ pc[p] = "unref"
    /\ refcnt' = [refcnt EXCEPT ![b] = @ - 1]
    /\ lru' = IF refcnt[b] = 1 THEN MovedToFront(CHOOSE n \in Buf : lru[n] = b) ELSE lru
    /\ Goto(p, "out")
    /\ UNCHANGED <<blockno, valid, dirty, data, locked, idequeue, disk, mine, panicked>>

-----------------------------------------------------------------------------
(* The driver *)

\* b->flags |= B_VALID, b->flags &= ~B_DIRTY.
MarkDone(b) == valid' = [valid EXCEPT ![b] = TRUE] /\ dirty' = [dirty EXCEPT ![b] = FALSE]

\* iderw, memide.c: at once.
MemRw(p) ==
    LET b == mine[p] IN
    /\ memide /\ pc[p] = "rw"
    /\ IF dirty[b] THEN disk' = [disk EXCEPT ![blockno[b]] = data[b]] /\ UNCHANGED data
                   ELSE data' = [data EXCEPT ![b] = disk[blockno[b]]] /\ UNCHANGED disk
    /\ MarkDone(b)
    /\ Goto(p, "have")
    /\ UNCHANGED <<blockno, refcnt, locked, lru, idequeue, mine, panicked>>

\* iderw, ide.c: append to the queue and sleep; the head of the queue is the request
\* the disk works on, so starting it changes nothing else here.
Iderw(p) ==
    /\ ~memide /\ pc[p] = "rw"
    /\ idequeue' = Append(idequeue, mine[p])
    /\ Goto(p, "iosleep")
    /\ UNCHANGED <<bufs, locked, lru, disk, mine, panicked>>

\* A write has reached the disk; a read copies the block, unless the drive reports an
\* error: the buffer then keeps what it held.
Transfer(b) ==
    \/ dirty[b] /\ disk' = [disk EXCEPT ![blockno[b]] = data[b]] /\ failed' = failed \ {b} /\ UNCHANGED data
    \/ ~dirty[b] /\ data' = [data EXCEPT ![b] = disk[blockno[b]]] /\ failed' = failed \ {b} /\ UNCHANGED disk
    \/ ~dirty[b] /\ failed' = failed \cup {b} /\ Cardinality(failed') <= MAXFAILED /\ UNCHANGED <<data, disk>>

IdeintrNoWake ==
    LET b == Head(idequeue) IN
    /\ idequeue # <<>>
    /\ idequeue' = Tail(idequeue)
    /\ Transfer(b) /\ MarkDone(b)
    /\ pc' = IF Len(idequeue) = 1 THEN WakeAll(pc, {p \in Proc : mine[p] = b}, "iosleep", "have") ELSE pc
    /\ UNCHANGED <<blockno, refcnt, locked, lru, mine, panicked, memide>>
\* ideintr: the request at the head is done, and its buffer valid either way.
Ideintr ==
    LET b == Head(idequeue) IN
    /\ idequeue # <<>>
    /\ idequeue' = Tail(idequeue)
    /\ Transfer(b) /\ MarkDone(b)
    /\ pc' = WakeAll(pc, {p \in Proc : mine[p] = b}, "iosleep", "have")
    /\ UNCHANGED <<blockno, refcnt, locked, lru, mine, panicked, memide>>

Step(p) == Acquiresleep(p) \/ Releasesleep(p) \/ Unref(p) \/ MemRw(p) \/ Iderw(p)
Use(p) == Change(p) \/ Bwrite(p) \/ LogWrite(p) \/ \E k \in Block : Bget(p, k)
Next == Ideintr \/ (UNCHANGED <<failed, memide>> /\ \E p \in Proc : Step(p) \/ Use(p))
Spec == Init /\ [][Next]_vars

-----------------------------------------------------------------------------
Holder(b) == {p \in Proc : mine[p] = b /\ pc[p] \in {"rw", "iosleep", "have", "changed"}}

\* A block is in at most one buffer, and a buffer in at most one process's hands: two
\* processes never work on two copies of a block.
OneCopy ==
    /\ \A b, c \in Buf : blockno[b] = blockno[c] /\ blockno[b] # NoBlock => b = c
    /\ \A b \in Buf : Cardinality(Holder(b)) <= 1 /\ (locked[b] <=> Holder(b) # {})

\* A clean buffer that nobody is changing holds what is on the disk ("buffer has been
\* read from disk"), unless the drive could not read it.
ValidIsRead ==
    \A b \in Buf : /\ valid[b] /\ ~dirty[b] /\ b \notin failed
                   /\ \A p \in Proc : mine[p] = b => pc[p] # "changed"
                   => data[b] = disk[blockno[b]]

\* The queue holds exactly the buffers whose owners sleep in iderw, each with its
\* work still to do: no request is lost or completed twice.
QueueExact ==
    {idequeue[i] : i \in DOMAIN idequeue} = {mine[p] : p \in {q \in Proc : pc[q] = "iosleep"}}
    /\ \A i \in 1..Len(idequeue) : ~valid[idequeue[i]] \/ dirty[idequeue[i]]

\* What a reader of block k would see: only the process that has the block locked can
\* change it.  Recycling, eviction, write-back and reading keep it, but for a read that
\* failed.
Seen(k) == IF \E b \in Cached(k) : valid[b] THEN data[CHOOSE b \in Cached(k) : TRUE] ELSE disk[k]
BlockStable ==
    [][\A k \in Block : Seen(k)' # Seen(k) /\ Cached(k) \cap (failed \cup failed') = {} =>
         \E p \in Proc : pc[p] = "have" /\ blockno[mine[p]] = k /\ pc'[p] = "changed"]_vars

\* One buffer for each process beyond those the log keeps is enough.
NoPanic == ~panicked

\* Nobody sleeps for a lock that nobody holds.
SleepersHaveHolder ==
    \A p \in Proc : pc[p] = "locksleep" => locked[mine[p]]

\* What a process finds in the cache is right: a valid buffer is the block, a sleeper is
\* woken, and there always is a buffer.
CacheConsistent == TypeOK /\ ValidIsRead /\ SleepersHaveHolder /\ NoPanic
=============================================================================
