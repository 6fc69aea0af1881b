-------------------------------- MODULE Pipe --------------------------------
(***************************************************************************)
(* pipe.c: one pipe shared by the processes of its two ends.  p->lock is   *)
(* held from acquire to release or sleep, so what pipewrite and piperead   *)
(* do between two sleeps is one step.  The exception is the moment before  *)
(* a sleep: the process has read proc->killed and still holds p->lock, but *)
(* kill() takes only ptable.lock and can come in between ("park").         *)
(***************************************************************************)
EXTENDS Naturals, Sequences, FiniteSets

CONSTANTS Reader, Writer,  \* the processes that hold each end open at first
          Free,            \* the holder of a lock that nobody holds
          Killable,        \* the processes kill() is called for
          PIPESIZE, UINT,  \* buffer size; number of values of a uint
          Byte, MAXN       \* what is written; largest n of a call
ASSUME PipeAssumption == /\ Reader \cap Writer = {} /\ Free \notin Reader \cup Writer
                         /\ Killable \subseteq Reader \cup Writer
                         /\ PIPESIZE \in Nat \ {0} /\ MAXN \in Nat
                         /\ UINT \in Nat /\ UINT % PIPESIZE = 0 /\ UINT >= 2 * PIPESIZE

VARIABLES data, nread, nwrite, readopen, writeopen,  \* struct pipe
          freed,    \* kfree((char*)p) has been called
          lock,     \* the holder of p->lock, or Free
          hasfd,    \* the processes with a descriptor for their end
          pc,       \* where each process is
          buf,      \* writers: bytes left to write; readers: bytes asked for
          got,      \* readers: what the last successful read returned
          killed

pipe == <<data, nread, nwrite, readopen, writeopen, freed>>
vars == <<pipe, lock, hasfd, pc, buf, got, killed>>

Proc == Reader \cup Writer
PcLoc == {"user", "run", "park", "asleep"}

\* p->nwrite - p->nread, as a uint.
Size == (nwrite + UINT - nread) % UINT

\* The bytes in the buffer, oldest first.
Contents == [i \in 1..Size |-> data[((nread + i - 1) % UINT) % PIPESIZE]]

Least(a, b) == IF a < b THEN a ELSE b
Bufs == UNION {[1..n -> Byte] : n \in 0..MAXN}

TypeOK ==
    /\ data \in [0..(PIPESIZE - 1) -> Byte]
    /\ nread \in 0..(UINT - 1) /\ nwrite \in 0..(UINT - 1) /\ Size <= PIPESIZE
    /\ {readopen, writeopen, freed} \subseteq BOOLEAN
    /\ lock \in Proc \cup {Free} /\ hasfd \subseteq Proc
    /\ pc \in [Proc -> PcLoc] /\ killed \in [Proc -> BOOLEAN]
    /\ \A p \in Writer : buf[p] \in Bufs
    /\ \A p \in Reader : buf[p] \in 0..MAXN
    /\ got \in [Reader -> Bufs]

\* pipealloc: the page comes from kalloc with whatever it held.
Init ==
    /\ data \in [0..(PIPESIZE - 1) -> Byte]
    /\ nread = 0 /\ nwrite = 0
    /\ readopen = TRUE /\ writeopen = TRUE /\ freed = FALSE
    /\ lock = Free /\ hasfd = Proc
    /\ pc = [p \in Proc |-> "user"]
    /\ buf = [p \in Proc |-> IF p \in Writer THEN <<>> ELSE 0]
    /\ got = [r \in Reader |-> <<>>]
    /\ killed = [p \in Proc |-> FALSE]

\* wakeup(&p->nread) and wakeup(&p->nwrite): readers sleep on the one, writers on
\* the other.  A woken process runs again once it has p->lock.
Wake(S, f) == [p \in Proc |-> IF p \in S /\ f[p] = "asleep" THEN "run" ELSE f[p]]

-----------------------------------------------------------------------------
(* System calls enter the two routines through a descriptor. *)

CallWrite(p) ==
    /\ p \in Writer \cap hasfd /\ pc[p] = "user" /\ ~killed[p]
    /\ \E b \in Bufs : buf' = [buf EXCEPT ![p] = b]
    /\ pc' = [pc EXCEPT ![p] = "run"]
    /\ UNCHANGED <<pipe, lock, hasfd, got, killed>>

CallRead(p) ==
    /\ p \in Reader \cap hasfd /\ pc[p] = "user" /\ ~killed[p]
    /\ \E n \in 0..MAXN : buf' = [buf EXCEPT ![p] = n]
    /\ pc' = [pc EXCEPT ![p] = "run"]
    /\ UNCHANGED <<pipe, lock, hasfd, got, killed>>

StoreNoWrap(s, k) ==
    /\ data' = [j \in 0..(PIPESIZE - 1) |->
                  IF j + 1 \in 1..k THEN s[j + 1] ELSE data[j]]
    /\ nwrite' = (nwrite + k) % UINT

\* p->data[p->nwrite++ % PIPESIZE] = addr[i], k times.
Store(s, k) ==
    /\ data' = [j \in 0..(PIPESIZE - 1) |->
                  LET I == {i \in 1..k : ((nwrite + i - 1) % UINT) % PIPESIZE = j}
                  IN  IF I = {} THEN data[j] ELSE s[CHOOSE i \in I : TRUE]]
    /\ nwrite' = (nwrite + k) % UINT
\* p->nread + PIPESIZE - p->nwrite: how much fits before the buffer is full.
Room == PIPESIZE - Size
\* pipewrite, after acquire or after sleep has reacquired p->lock.
WriteRun(p) ==
    LET k == Least(Room, Len(buf[p])) IN
    /\ p \in Writer /\ pc[p] = "run" /\ lock = Free
    /\ Store(buf[p], k)
    /\ \/ /\ k = Len(buf[p])                            \* all copied
          /\ pc' = [Wake(Reader, pc) EXCEPT ![p] = "user"]
          /\ buf' = [buf EXCEPT ![p] = <<>>]
          /\ lock' = Free
       \/ /\ k < Len(buf[p]) /\ (~readopen \/ killed[p])     \* full: return -1
          /\ pc' = [pc EXCEPT ![p] = "user"]
          /\ buf' = [buf EXCEPT ![p] = <<>>]
          /\ lock' = Free
       \/ /\ k < Len(buf[p]) /\ readopen /\ ~killed[p]       \* full: sleep
          /\ pc' = [Wake(Reader, pc) EXCEPT ![p] = "park"]
          /\ buf' = [buf EXCEPT ![p] = SubSeq(buf[p], k + 1, Len(buf[p]))]
          /\ lock' = p
    /\ UNCHANGED <<nread, readopen, writeopen, freed, hasfd, got, killed>>

\* The test that keeps a reader asleep.
Empty == nread = nwrite /\ writeopen
\* piperead, after acquire or after sleep has reacquired p->lock.
ReadRun(p) ==
    LET k == Least(buf[p], Size) IN
    /\ p \in Reader /\ pc[p] = "run" /\ lock = Free
    /\ \/ /\ Empty /\ killed[p]                         \* return -1
          /\ pc' = [pc EXCEPT ![p] = "user"]
          /\ buf' = [buf EXCEPT ![p] = 0]
          /\ UNCHANGED <<lock, nread, got>>
       \/ /\ Empty /\ ~killed[p]
          /\ pc' = [pc EXCEPT ![p] = "park"] /\ lock' = p
          /\ UNCHANGED <<nread, got, buf>>
       \/ /\ ~Empty
          /\ got' = [got EXCEPT ![p] = SubSeq(Contents, 1, k)]
          /\ nread' = (nread + k) % UINT
          /\ pc' = [Wake(Writer, pc) EXCEPT ![p] = "user"]
          /\ buf' = [buf EXCEPT ![p] = 0]
          /\ UNCHANGED lock
    /\ UNCHANGED <<data, nwrite, readopen, writeopen, freed, hasfd, killed>>
\* sleep(chan, &p->lock): SLEEPING under ptable.lock, then p->lock is released.
Sleep(p) ==
    /\ pc[p] = "park"
    /\ pc' = [pc EXCEPT ![p] = "asleep"] /\ lock' = Free
    /\ UNCHANGED <<pipe, hasfd, buf, got, killed>>

-----------------------------------------------------------------------------
(* The last fileclose of an end calls pipeclose. *)

PipecloseNoWake(writable) ==
    /\ lock = Free
    /\ writeopen' = (writeopen /\ ~writable)
    /\ readopen' = (readopen /\ writable)
    /\ pc' = Wake(IF writable THEN {} ELSE Writer, pc)
    /\ freed' = (~writeopen' /\ ~readopen')

PipecloseFree(writable) ==
    /\ lock = Free
    /\ writeopen' = (writeopen /\ ~writable)
    /\ readopen' = (readopen /\ writable)
    /\ pc' = Wake(IF writable THEN Reader ELSE Writer, pc)
    /\ freed' = TRUE

\* pipeclose(p, writable), with the end's other processes asleep or outside.
Pipeclose(writable) ==
    /\ lock = Free
    /\ writeopen' = (writeopen /\ ~writable)
    /\ readopen' = (readopen /\ writable)
    /\ pc' = Wake(IF writable THEN Reader ELSE Writer, pc)
    /\ freed' = (~writeopen' /\ ~readopen')
Close(p) ==
    LET end == IF p \in Writer THEN Writer ELSE Reader IN
    /\ p \in hasfd /\ pc[p] = "user"
    /\ hasfd' = hasfd \ {p}
    /\ \/ hasfd \cap end # {p} /\ UNCHANGED <<readopen, writeopen, freed, pc>>
       \/ hasfd \cap end = {p} /\ Pipeclose(p \in Writer)
    /\ UNCHANGED <<data, nread, nwrite, lock, buf, got, killed>>

\* kill(): ptable.lock only.
Kill(p) ==
    /\ p \in Killable /\ ~killed[p]
    /\ killed' = [killed EXCEPT ![p] = TRUE]
    /\ pc' = Wake({p}, pc)
    /\ UNCHANGED <<pipe, lock, hasfd, buf, got>>

Run(p) == WriteRun(p) \/ ReadRun(p) \/ Sleep(p)
Next == \E p \in Proc : CallWrite(p) \/ CallRead(p) \/ Run(p) \/ Close(p) \/ Kill(p)

Spec == Init /\ [][Next]_vars

-----------------------------------------------------------------------------
\* No wakeup is lost on the way to a reader: one that sleeps while nobody is inside
\* the pipe has a writer that may still come ("pipe-empty") and nothing to read, but for
\* what a killed writer left: it returns from a full pipe without a wakeup.
ReaderSleepsOnEmpty ==
    \A p \in Reader : pc[p] = "asleep" /\ lock = Free =>
        writeopen /\ (Size = 0 \/ \E w \in Writer : killed[w])

\* And one that sleeps in pipewrite faces a full buffer and a reader that may come.
WriterSleepsOnFull ==
    \A p \in Writer : pc[p] = "asleep" /\ lock = Free => Size = PIPESIZE /\ readopen

\* Neither side sleeps in front of something it could do.
NoLostWakeup == ReaderSleepsOnEmpty /\ WriterSleepsOnFull

\* kfree of the pipe happens once both ends are closed: no process is inside, or can
\* come in through a descriptor it still holds.
NoUseAfterFree ==
    freed => hasfd = {} /\ \A p \in Proc : pc[p] = "user"

\* The counters stay within the buffer of each other, and the page outlives its users.
PipeConsistent == TypeOK /\ NoUseAfterFree

\* The pipe is the bounded queue of Fifo: nothing is lost, duplicated, reordered or
\* made up, also when nread and nwrite wrap around or a writer fails half way.
F == INSTANCE Fifo WITH SIZE <- PIPESIZE, q <- Contents, out <- got, eof <- ~writeopen
IsFifo == F!Spec
=============================================================================
