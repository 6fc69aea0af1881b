------------------------------- MODULE Icache -------------------------------
(***************************************************************************)
(* The inode cache of fs.c: iget, idup, ilock, iunlock, iput, iupdate and  *)
(* ialloc, driven by the calls that create, open, unlink and close a file  *)
(* in one directory.  A process holds the directory's lock while it looks  *)
(* a name up or changes an entry.  Each section under icache.lock or under *)
(* the lock of a disk buffer is a step.  On one CPU nothing can come       *)
(* between the last iupdate of iput and its acquire of icache.lock, as the *)
(* kernel runs with interrupts off and neither sleeps: ncpu tells whether  *)
(* they are one step or two.                                               *)
(***************************************************************************)
EXTENDS Naturals, FiniteSets, FiniteSetsExt

CONSTANTS Proc, NINODES,  \* processes; inodes on the disk
          NINODE,         \* entries of the cache
          None

VARIABLES dtype, dnlink,                        \* struct dinode, type zero or not
          inum, ref, valid, type, nlink, lock,  \* struct inode
          dir,                                  \* inums with an entry in the directory
          dirlock,                              \* the process that has the directory locked
          pc, ip,                               \* control point and inode of a call
          op,                                   \* the call
          file,                                 \* the inode of an open file
          panicked,
          ncpu                                  \* 1, or 2 for several

icache == <<inum, ref, valid, type, nlink, lock>>
vars == <<dtype, dnlink, icache, dir, dirlock, pc, ip, op, file, panicked, ncpu>>

Inum == 1..NINODES
Slot == 1..NINODE
PcLoc == {"user", "dirlock", "iget", "ilock", "body", "update", "iput", "free", "reset"}

TypeOK ==
    /\ dtype \in [Inum -> BOOLEAN] /\ dnlink \in [Inum -> 0..1]
    /\ inum \in [Slot -> Inum] /\ ref \in [Slot -> 0..(2 * Cardinality(Proc))]
    /\ valid \in [Slot -> BOOLEAN] /\ type \in [Slot -> BOOLEAN] /\ nlink \in [Slot -> 0..1]
    /\ lock \in [Slot -> Proc \cup {None}]
    /\ dir \subseteq Inum /\ dirlock \in Proc \cup {None}
    /\ pc \in [Proc -> PcLoc] /\ ip \in [Proc -> Slot \cup Inum] /\ op \in [Proc -> {"create", "open", "unlink", "close"}]
    /\ file \in [Proc -> Slot \cup {None}] /\ panicked \in BOOLEAN /\ ncpu \in {1, 2}

Init ==
    /\ dtype = [i \in Inum |-> FALSE] /\ dnlink = [i \in Inum |-> 0]
    /\ inum = [s \in Slot |-> 1] /\ ref = [s \in Slot |-> 0]
    /\ valid = [s \in Slot |-> FALSE] /\ type = [s \in Slot |-> FALSE] /\ nlink = [s \in Slot |-> 0]
    /\ lock = [s \in Slot |-> None]
    /\ dir = {} /\ dirlock = None
    /\ pc = [p \in Proc |-> "user"] /\ ip = [p \in Proc |-> 1] /\ op = [p \in Proc |-> "close"]
    /\ file = [p \in Proc |-> None] /\ panicked = FALSE /\ ncpu \in {1, 2}

Goto(p, loc) == pc' = [pc EXCEPT ![p] = loc]

-----------------------------------------------------------------------------
(* The calls, up to the inode they work on. *)

\* ialloc: the first inode that is free on the disk, marked under its buffer's lock.
FreeInum == {i \in Inum : ~dtype[i]}
Ialloc(p) ==
    /\ pc[p] = "user" /\ file[p] = None /\ dirlock = None /\ FreeInum # {}
    /\ dirlock' = p
    /\ dtype' = [dtype EXCEPT ![Min(FreeInum)] = TRUE]
    /\ dnlink' = [dnlink EXCEPT ![Min(FreeInum)] = 0]
    /\ ip' = [ip EXCEPT ![p] = Min(FreeInum)] /\ op' = [op EXCEPT ![p] = "create"]
    /\ Goto(p, "iget")
    /\ UNCHANGED <<icache, dir, file, panicked>>

\* dirlookup, with the directory locked: sys_open and sys_unlink find an entry.
Dirlookup(p) == \E i \in dir, o \in {"open", "unlink"} :
    /\ pc[p] = "user" /\ dirlock = None
    /\ o = "open" => file[p] = None
    /\ dirlock' = p
    /\ ip' = [ip EXCEPT ![p] = i] /\ op' = [op EXCEPT ![p] = o]
    /\ Goto(p, "iget")
    /\ UNCHANGED <<dtype, dnlink, icache, dir, file, panicked>>

\* The entry of the cache iget returns: the one for the inode, else the first empty one.
Hit(i) == {s \in Slot : ref[s] > 0 /\ inum[s] = i}
Empty == {s \in Slot : ref[s] = 0}

\* iget under icache.lock.  sys_open unlocks the directory, the others keep it.
Iget(p) ==
    LET i == ip[p] IN
    /\ pc[p] = "iget"
    /\ \/ \E s \in Hit(i) :
            /\ ref' = [ref EXCEPT ![s] = @ + 1] /\ ip' = [ip EXCEPT ![p] = s]
            /\ Goto(p, "ilock")
            /\ UNCHANGED <<inum, valid, panicked>>
       \/ /\ Hit(i) = {} /\ Empty # {}
          /\ LET s == Min(Empty) IN
               /\ inum' = [inum EXCEPT ![s] = i] /\ ref' = [ref EXCEPT ![s] = 1]
               /\ valid' = [valid EXCEPT ![s] = FALSE] /\ ip' = [ip EXCEPT ![p] = s]
          /\ Goto(p, "ilock")
          /\ UNCHANGED panicked
       \/ /\ Hit(i) = {} /\ Empty = {}
          /\ panicked' = TRUE                           \* "iget: no inodes"
          /\ UNCHANGED <<inum, ref, valid, ip, pc>>
    /\ dirlock' = IF op[p] = "open" THEN None ELSE dirlock
    /\ UNCHANGED <<dtype, dnlink, type, nlink, lock, dir, op, file>>

\* ilock: the sleeping lock, then the inode from the disk if it is not valid.
Ilock(p) ==
    LET s == ip[p] IN
    /\ pc[p] = "ilock" /\ lock[s] = None
    /\ lock' = [lock EXCEPT ![s] = p]
    /\ IF valid[s] THEN UNCHANGED <<valid, type, nlink, panicked>>
       ELSE /\ type' = [type EXCEPT ![s] = dtype[inum[s]]]
            /\ nlink' = [nlink EXCEPT ![s] = dnlink[inum[s]]]
            /\ valid' = [valid EXCEPT ![s] = TRUE]
            /\ panicked' = (panicked \/ ~dtype[inum[s]])    \* "ilock: no type"
    /\ Goto(p, "body")
    /\ UNCHANGED <<dtype, dnlink, inum, ref, dir, dirlock, ip, op, file>>

\* create sets nlink to 1; sys_unlink clears the entry, unlocks the directory and
\* takes one off; sys_open only unlocks and keeps the inode for its file.
Body(p) ==
    LET s == ip[p] IN
    /\ pc[p] = "body"
    /\ \/ /\ op[p] = "create"
          /\ nlink' = [nlink EXCEPT ![s] = 1]
          /\ Goto(p, "update") /\ UNCHANGED <<lock, dir, dirlock, file, panicked>>
       \/ /\ op[p] = "unlink" /\ nlink[s] = 1
          /\ dir' = dir \ {inum[s]} /\ dirlock' = None
          /\ nlink' = [nlink EXCEPT ![s] = 0]
          /\ Goto(p, "update") /\ UNCHANGED <<lock, file, panicked>>
       \/ /\ op[p] = "unlink" /\ nlink[s] = 0
          /\ panicked' = TRUE                           \* "unlink: nlink < 1"
          /\ UNCHANGED <<nlink, lock, dir, dirlock, file, pc>>
       \/ /\ op[p] = "open"
          /\ lock' = [lock EXCEPT ![s] = None] /\ file' = [file EXCEPT ![p] = s]
          /\ Goto(p, "user") /\ UNCHANGED <<nlink, dir, dirlock, panicked>>
    /\ UNCHANGED <<dtype, dnlink, inum, ref, valid, type, ip, op>>

\* iupdate copies the inode to the disk.  create then adds the entry, unlocks the
\* directory and keeps the inode; sys_unlink goes on to iput.
Iupdate(p) ==
    LET s == ip[p] IN
    /\ pc[p] = "update"
    /\ dtype' = [dtype EXCEPT ![inum[s]] = type[s]]
    /\ dnlink' = [dnlink EXCEPT ![inum[s]] = nlink[s]]
    /\ lock' = [lock EXCEPT ![s] = None]
    /\ \/ /\ op[p] = "create"
          /\ dir' = dir \cup {inum[s]} /\ dirlock' = None
          /\ file' = [file EXCEPT ![p] = s]
          /\ Goto(p, "user")
       \/ /\ op[p] = "unlink"
          /\ Goto(p, "iput") /\ UNCHANGED <<dir, dirlock, file>>
    /\ UNCHANGED <<inum, ref, valid, type, nlink, ip, op, panicked>>

\* fileclose, or exit: iput of the file's inode.
Close(p) ==
    /\ pc[p] = "user" /\ file[p] # None
    /\ ip' = [ip EXCEPT ![p] = file[p]] /\ op' = [op EXCEPT ![p] = "close"]
    /\ file' = [file EXCEPT ![p] = None]
    /\ Goto(p, "iput")
    /\ UNCHANGED <<dtype, dnlink, icache, dir, dirlock, panicked>>

-----------------------------------------------------------------------------
(* iput *)

LastRefAny(s) == valid[s] /\ nlink[s] = 0

LastRefNever(s) == FALSE

\* The last reference to an inode without links frees it.
LastRef(s) == ref[s] = 1 /\ valid[s] /\ nlink[s] = 0
Iput(p) ==
    LET s == ip[p] IN
    /\ pc[p] = "iput"
    /\ \/ LastRef(s) /\ Goto(p, "free") /\ UNCHANGED ref
       \/ ~LastRef(s) /\ ref' = [ref EXCEPT ![s] = @ - 1] /\ Goto(p, "user")
    /\ UNCHANGED <<dtype, dnlink, inum, valid, type, nlink, lock, dir, dirlock, ip, op, file, panicked>>

\* flags = 0, ref--, under icache.lock.
Reset(s) == valid' = [valid EXCEPT ![s] = FALSE] /\ ref' = [ref EXCEPT ![s] = @ - 1]

\* itrunc, type = 0 and iupdate, without icache.lock and without the inode's lock.
Free(p) ==
    LET s == ip[p] IN
    /\ pc[p] = "free"
    /\ type' = [type EXCEPT ![s] = FALSE]
    /\ dtype' = [dtype EXCEPT ![inum[s]] = FALSE]
    /\ dnlink' = [dnlink EXCEPT ![inum[s]] = nlink[s]]
    /\ \/ ncpu = 1 /\ Reset(s) /\ Goto(p, "user")
       \/ ncpu > 1 /\ Goto(p, "reset") /\ UNCHANGED <<ref, valid>>
    /\ UNCHANGED <<inum, nlink, lock, dir, dirlock, ip, op, file, panicked>>

FreeDone(p) ==
    /\ pc[p] = "reset"
    /\ Reset(ip[p]) /\ Goto(p, "user")
    /\ UNCHANGED <<dtype, dnlink, inum, type, nlink, lock, dir, dirlock, ip, op, file, panicked>>

\* A panic stops every CPU.
Next == ~panicked /\ UNCHANGED ncpu /\ \E p \in Proc :
                        \/ Ialloc(p) \/ Dirlookup(p) \/ Iget(p) \/ Ilock(p) \/ Body(p) \/ Iupdate(p)
                        \/ Close(p) \/ Iput(p) \/ Free(p) \/ FreeDone(p)
Spec == Init /\ [][Next]_vars

-----------------------------------------------------------------------------
\* The processes that hold a reference to entry s: an open file, or a call past iget.
Refs(s) == {<<p, "file">> : p \in {q \in Proc : file[q] = s}}
           \cup {<<p, "call">> : p \in {q \in Proc : ip[q] = s /\ pc[q] \in PcLoc \ {"user", "dirlock", "iget"}}}

\* ip->ref counts exactly the pointers to the entry, so an entry is recycled when, and
\* only when, nobody can reach it; an inode is never in two entries.
RefExact ==
    /\ \A s \in Slot : ref[s] = Cardinality(Refs(s))
    /\ \A s, t \in Slot : ref[s] > 0 /\ ref[t] > 0 /\ inum[s] = inum[t] => s = t

\* On one CPU, the information in a valid entry is the inode on the disk, except while a
\* call that has it locked is about to write it back.
ValidCoherent ==
    ncpu = 1 =>
        \A s \in Slot : /\ ref[s] > 0 /\ valid[s]
                        /\ \A p \in Proc : ip[p] = s => pc[p] # "update"
                        => type[s] = dtype[inum[s]] /\ nlink[s] = dnlink[inum[s]]

\* "an inode is allocated if its type (on disk) is non-zero": an inode that has a name is
\* allocated, and counts its link.
NamedIsAllocated == \A i \in dir : dtype[i] /\ dnlink[i] = 1
\* It is on one CPU.  On two, create can write a reallocated inode as free.
LinkedAllocated == ncpu = 1 => NamedIsAllocated

\* On one CPU, an open file keeps its inode, although its name may be gone: nobody frees
\* or reallocates it.
OpenAllocated ==
    ncpu = 1 => \A p \in Proc : file[p] # None => dtype[inum[file[p]]] /\ (valid[file[p]] => type[file[p]])

\* An allocated inode has a name or somebody who will free it: none is lost.
NoLostInode ==
    \A i \in Inum : dtype[i] =>
        \/ i \in dir \/ \E s \in Slot : ref[s] > 0 /\ inum[s] = i
        \/ \E p \in Proc : pc[p] = "iget" /\ ip[p] = i

\* On one CPU the panics of iget and ilock are out of reach.
NoPanic == ncpu = 1 => ~panicked
=============================================================================
