------------------------------- MODULE Names --------------------------------
(***************************************************************************)
(* Directories and the calls on names: dirlookup, dirlink and namex of     *)
(* fs.c, and open, create, mkdir, mknod, link, unlink, chdir and close of  *)
(* sysfile.c.  What a process does while it has an inode locked is one     *)
(* step, unless it waits for a second lock; unlocking and iput go together *)
(* (Icache has the steps of iget, ilock and iput).  A path is a sequence   *)
(* of elements, the directory entries of an inode a function on names.     *)
(***************************************************************************)
EXTENDS Naturals, Sequences, FiniteSets, FiniteSetsExt

CONSTANTS Proc, None,
          NINODES,     \* inodes on the disk; the first is the root
          Name,        \* names of files, besides "." and ".."
          Programs,    \* sets of calls, [op, abs, path, new]: the processes make those of one
          MAXLINK      \* bound: sys_link is not called with more links than this
ASSUME NamesAssumption == NINODES \in Nat \ {0} /\ Name \cap {".", ".."} = {} /\ None \notin Proc

VARIABLES ino,         \* the inodes: [type, nlink, ent, ref]
          lock,        \* the process that has an inode locked
          cwd, file,   \* the current directory and the open file of a process, 0 if none
          cl,          \* the call a process is in: [pc, op, path, new, ip, dp]
          panicked,
          calls        \* the calls they make

vars == <<ino, lock, cwd, file, cl, panicked, calls>>

Inum == 1..NINODES
Root == 1
Elem == Name \cup {".", ".."}
NoEnt == [n \in Elem |-> 0]
FreeIno == [type |-> "free", nlink |-> 0, ent |-> NoEnt, ref |-> 0]
Dots(i, parent) == [NoEnt EXCEPT !["."] = i, ![".."] = parent]
Idle == [pc |-> "user", op |-> "close", path |-> <<>>, new |-> <<>>, ip |-> 0, dp |-> 0]
MaxRef == 3 * Cardinality(Proc)

TypeOK ==
    /\ \A i \in Inum : /\ ino[i].type \in {"free", "dir", "file", "dev"}
                       /\ ino[i].nlink \in 0..(MAXLINK + 1) /\ ino[i].ref \in 0..MaxRef
                       /\ ino[i].ent \in [Elem -> {0} \cup Inum]
    /\ lock \in [Inum -> Proc \cup {None}]
    /\ cwd \in [Proc -> Inum] /\ file \in [Proc -> Inum \cup {0}]
    /\ \A p \in Proc : cl[p].ip \in Inum \cup {0} /\ cl[p].dp \in Inum \cup {0}

\* The file system mkfs makes, and processes at the root.
Init ==
    /\ ino = [i \in Inum |-> IF i # Root THEN FreeIno
                             ELSE [type |-> "dir", nlink |-> 1, ent |-> Dots(Root, Root), ref |-> Cardinality(Proc)]]
    /\ lock = [i \in Inum |-> None]
    /\ cwd = [p \in Proc |-> Root] /\ file = [p \in Proc |-> 0]
    /\ cl = [p \in Proc |-> Idle] /\ panicked = "" /\ calls \in Programs

-----------------------------------------------------------------------------
(* Inodes: t is the table of inodes. *)

Iget(t, i) == [t EXCEPT ![i].ref = @ + 1]

\* iput: the last reference to an inode without links truncates and frees it.
Iput(t, i) == IF t[i].ref = 1 /\ t[i].nlink = 0 THEN [t EXCEPT ![i] = FreeIno]
              ELSE [t EXCEPT ![i].ref = @ - 1]

\* A process may lock i; "ilock: no type" when i is free.
CanLock(i) == lock[i] = None /\ ino[i].type # "free"

\* dirlink, the name not being in the directory.
Dirlink(t, d, n, i) == [t EXCEPT ![d].ent[n] = i]
IsDirEmpty(i) == \A n \in Name : ino[i].ent[n] = 0

Upd(p, c) == cl' = [cl EXCEPT ![p] = c]
Goto(p, loc) == Upd(p, [cl[p] EXCEPT !.pc = loc])
Return(p) == Upd(p, Idle)

Panic(msg) == panicked' = msg /\ UNCHANGED <<ino, lock, cwd, file, cl>>

-----------------------------------------------------------------------------
(* Calls and paths *)

NameiParent(op) == op \in {"create", "mkdir", "mknod", "unlink", "newlink"}

\* namex begins at the root or at the current directory.
Call(p) == \E c \in calls :
    LET start == IF c.abs THEN Root ELSE cwd[p] IN
    /\ cl[p].pc = "user"
    /\ ino' = Iget(ino, start)
    /\ Upd(p, [pc |-> "namex", op |-> c.op, path |-> c.path, new |-> c.new, ip |-> start, dp |-> 0])
    /\ UNCHANGED <<lock, cwd, file, panicked>>

\* A call whose path leads nowhere returns -1; sys_link takes back its link first.
NoPath(p, t) ==
    /\ ino' = t
    /\ IF cl[p].op = "newlink" THEN Upd(p, [cl[p] EXCEPT !.pc = "linkbad", !.ip = cl[p].dp, !.dp = 0])
       ELSE Return(p)

\* One turn of the loop of namex, with the directory locked.
NamexStep(p) ==
    LET c    == cl[p]
        next == ino[c.ip].ent[Head(c.path)]
    IN
    /\ c.pc = "namex" /\ c.path # <<>> /\ CanLock(c.ip)
    /\ \/ /\ ino[c.ip].type # "dir"
          /\ NoPath(p, Iput(ino, c.ip))
       \/ /\ ino[c.ip].type = "dir" /\ NameiParent(c.op) /\ Len(c.path) = 1
          /\ Goto(p, "found") /\ UNCHANGED ino          \* stop one level early
       \/ /\ ino[c.ip].type = "dir" /\ ~(NameiParent(c.op) /\ Len(c.path) = 1)
          /\ \/ next = 0 /\ NoPath(p, Iput(ino, c.ip))
             \/ /\ next # 0
                /\ ino' = Iput(Iget(ino, next), c.ip)
                /\ Upd(p, [c EXCEPT !.ip = next, !.path = Tail(@)])
    /\ UNCHANGED <<lock, cwd, file, panicked>>

\* The path is at its end: "/" has no parent and no last element.
NamexEnd(p) ==
    LET c == cl[p] IN
    /\ c.pc = "namex" /\ c.path = <<>>
    /\ IF NameiParent(c.op) THEN NoPath(p, Iput(ino, c.ip))
       ELSE Goto(p, "found") /\ UNCHANGED ino
    /\ UNCHANGED <<lock, cwd, file, panicked>>

\* ilock of an inode that is free on the disk.
IlockPanic(p) ==
    LET c == cl[p] IN
    /\ c.pc \in {"namex", "found", "exists", "unlink", "linkbad"} /\ (c.pc = "namex" => c.path # <<>>)
    /\ lock[c.ip] = None /\ ino[c.ip].type = "free"
    /\ Panic("ilock: no type")

-----------------------------------------------------------------------------
(* create *)

FreeInums == {i \in Inum : ino[i].type = "free"}
NewType(op) == CASE op = "mkdir" -> "dir" [] op = "mknod" -> "dev" [] OTHER -> "file"

DotDotLinkNone(ty) == 0
DotDotLink(ty) == IF ty = "dir" THEN 1 ELSE 0

\* The new inode i named n in d: nlink 1, and "." and ".." for a directory, whose ".."
\* counts as a link to d.
CreateNew(t, d, n, i, ty) ==
    LET new == [type |-> ty, nlink |-> 1, ent |-> IF ty = "dir" THEN Dots(i, d) ELSE NoEnt, ref |-> t[i].ref + 1]
        t1  == [t EXCEPT ![i] = new, ![d].nlink = @ + DotDotLink(ty)]
    IN  Dirlink(t1, d, n, i)

\* create with the parent locked: the name exists, or a new inode is made (nobody else
\* can have it locked) and stays locked when the parent is let go.
Create(p) ==
    LET c == cl[p]
        n == Head(c.path)
        old == ino[c.ip].ent[n]
        i == Min(FreeInums)
    IN
    /\ c.pc = "found" /\ c.op \in {"create", "mkdir", "mknod"} /\ CanLock(c.ip)
    /\ \/ /\ old # 0
          /\ ino' = Iput(Iget(ino, old), c.ip)
          /\ Upd(p, [c EXCEPT !.pc = "exists", !.ip = old])
          /\ UNCHANGED <<lock, panicked>>
       \/ /\ old = 0 /\ FreeInums = {}
          /\ panicked' = "ialloc: no inodes" /\ UNCHANGED <<ino, lock, cl>>
       \/ /\ old = 0 /\ FreeInums # {}
          /\ ino' = Iput(CreateNew(ino, c.ip, n, i, NewType(c.op)), c.ip)
          /\ lock' = [lock EXCEPT ![i] = p]
          /\ Upd(p, [c EXCEPT !.pc = "created", !.ip = i])
          /\ UNCHANGED panicked
    /\ UNCHANGED <<cwd, file>>

\* A name that exists is good only for open with O_CREATE, and only if it is a file.
Exists(p) ==
    LET c == cl[p] IN
    /\ c.pc = "exists" /\ CanLock(c.ip)
    /\ IF c.op = "create" /\ ino[c.ip].type = "file"
       THEN Goto(p, "created") /\ lock' = [lock EXCEPT ![c.ip] = p] /\ UNCHANGED ino
       ELSE Return(p) /\ ino' = Iput(ino, c.ip) /\ UNCHANGED lock
    /\ UNCHANGED <<cwd, file, panicked>>

\* The rest of open (which fails when there is no descriptor), mkdir and mknod.
Created(p) ==
    LET c == cl[p]
        keep == c.op = "create" /\ file[p] = 0
    IN
    /\ c.pc = "created"
    /\ lock' = [lock EXCEPT ![c.ip] = None]
    /\ file' = [file EXCEPT ![p] = IF keep THEN c.ip ELSE @]
    /\ ino' = IF keep THEN ino ELSE Iput(ino, c.ip)
    /\ Return(p)
    /\ UNCHANGED <<cwd, panicked>>

-----------------------------------------------------------------------------
(* open, chdir, close *)

Open(p) ==
    LET c == cl[p]
        ok == /\ file[p] = 0
              /\ ino[c.ip].type = "dir" => c.op = "open"       \* O_RDONLY only
    IN
    /\ c.pc = "found" /\ c.op \in {"open", "openw"} /\ CanLock(c.ip)
    /\ file' = [file EXCEPT ![p] = IF ok THEN c.ip ELSE @]
    /\ ino' = IF ok THEN ino ELSE Iput(ino, c.ip)
    /\ Return(p)
    /\ UNCHANGED <<lock, cwd, panicked>>

\* What sys_chdir puts: the old directory, or the new one if it is not a directory.
DroppedNew(p, ok) == cl[p].ip
Dropped(p, ok) == IF ok THEN cwd[p] ELSE cl[p].ip
Chdir(p) ==
    LET c == cl[p]
        ok == ino[c.ip].type = "dir"
    IN
    /\ c.pc = "found" /\ c.op = "chdir" /\ CanLock(c.ip)
    /\ ino' = Iput(ino, Dropped(p, ok))
    /\ cwd' = [cwd EXCEPT ![p] = IF ok THEN c.ip ELSE @]
    /\ Return(p)
    /\ UNCHANGED <<lock, file, panicked>>

Close(p) ==
    /\ cl[p].pc = "user" /\ file[p] # 0
    /\ ino' = Iput(ino, file[p])
    /\ file' = [file EXCEPT ![p] = 0]
    /\ UNCHANGED <<lock, cwd, cl, panicked>>

-----------------------------------------------------------------------------
(* link *)

Linkable(i) == ino[i].type # "dir"

\* sys_link counts the link before it makes it, and lets go of the inode's lock.
Link(p) ==
    LET c == cl[p] IN
    /\ c.pc = "found" /\ c.op = "link" /\ CanLock(c.ip)
    /\ \/ ~Linkable(c.ip) /\ ino' = Iput(ino, c.ip) /\ Return(p)
       \/ /\ Linkable(c.ip)
          /\ ino[c.ip].nlink <= MAXLINK
          /\ ino' = Iget([ino EXCEPT ![c.ip].nlink = @ + 1], Root)
          /\ Upd(p, [pc |-> "namex", op |-> "newlink", path |-> c.new, new |-> <<>>, ip |-> Root, dp |-> c.ip])
    /\ UNCHANGED <<lock, cwd, file, panicked>>

\* dirlink in the directory of the new name.
NewLink(p) ==
    LET c == cl[p]
        n == Head(c.path)
    IN
    /\ c.pc = "found" /\ c.op = "newlink" /\ CanLock(c.ip)
    /\ IF ino[c.ip].ent[n] # 0 THEN NoPath(p, Iput(ino, c.ip))
       ELSE ino' = Iput(Iput(Dirlink(ino, c.ip, n, c.dp), c.ip), c.dp) /\ Return(p)
    /\ UNCHANGED <<lock, cwd, file, panicked>>

LinkBad(p) ==
    LET c == cl[p] IN
    /\ c.pc = "linkbad" /\ CanLock(c.ip)
    /\ ino' = Iput([ino EXCEPT ![c.ip].nlink = @ - 1], c.ip)
    /\ Return(p)
    /\ UNCHANGED <<lock, cwd, file, panicked>>

-----------------------------------------------------------------------------
(* unlink *)

IsDotNever(n) == FALSE
IsDot(n) == n \in {".", ".."}

\* The parent stays locked.
HoldDir(p, d) == lock' = [lock EXCEPT ![d] = p]

\* sys_unlink with the parent locked: find the inode, and wait for its lock.
Unlink(p) ==
    LET c == cl[p]
        n == Head(c.path)
        i == ino[c.ip].ent[n]
    IN
    /\ c.pc = "found" /\ c.op = "unlink" /\ CanLock(c.ip)
    /\ IF IsDot(n) \/ i = 0
       THEN ino' = Iput(ino, c.ip) /\ Return(p) /\ UNCHANGED lock
       ELSE /\ ino' = Iget(ino, i) /\ HoldDir(p, c.ip)
            /\ Upd(p, [c EXCEPT !.pc = "unlink", !.ip = i, !.dp = c.ip])
    /\ UNCHANGED <<cwd, file, panicked>>

\* With both locked: clear the entry, take ".." off the parent's links, let the parent go.
UnlinkEntry(p) ==
    LET c == cl[p]
        t == [ino EXCEPT ![c.dp].ent[Head(c.path)] = 0,
                         ![c.dp].nlink = @ - DotDotLink(ino[c.ip].type)]
    IN
    /\ c.pc = "unlink" /\ CanLock(c.ip)
    /\ \/ /\ ino[c.ip].nlink < 1
          /\ panicked' = "unlink: nlink < 1" /\ UNCHANGED <<ino, lock, cl>>
       \/ /\ ino[c.ip].nlink > 0 /\ ino[c.ip].type = "dir" /\ ~IsDirEmpty(c.ip)
          /\ ino' = Iput(Iput(ino, c.ip), c.dp)
          /\ lock' = [lock EXCEPT ![c.dp] = None]
          /\ Return(p) /\ UNCHANGED panicked
       \/ /\ ino[c.ip].nlink > 0 /\ (ino[c.ip].type = "dir" => IsDirEmpty(c.ip))
          /\ ino' = Iput(t, c.dp)
          /\ lock' = [lock EXCEPT ![c.dp] = None, ![c.ip] = p]
          /\ Upd(p, [c EXCEPT !.pc = "drop", !.dp = 0]) /\ UNCHANGED panicked
    /\ UNCHANGED <<cwd, file>>

UnlinkDrop(p) ==
    LET c == cl[p] IN
    /\ c.pc = "drop"
    /\ ino' = Iput([ino EXCEPT ![c.ip].nlink = @ - 1], c.ip)
    /\ lock' = [lock EXCEPT ![c.ip] = None]
    /\ Return(p)
    /\ UNCHANGED <<cwd, file, panicked>>

Next == /\ panicked = "" /\ UNCHANGED calls
        /\ \E p \in Proc : \/ Call(p) \/ NamexStep(p) \/ NamexEnd(p) \/ IlockPanic(p)
                           \/ Create(p) \/ Exists(p) \/ Created(p) \/ Open(p) \/ Chdir(p) \/ Close(p)
                           \/ Link(p) \/ NewLink(p) \/ LinkBad(p)
                           \/ Unlink(p) \/ UnlinkEntry(p) \/ UnlinkDrop(p)
Spec == Init /\ [][Next]_vars

-----------------------------------------------------------------------------
\* The entries that name i, "." and ".." aside.
Dirs == {d \in Inum : ino[d].type = "dir"}
Entries(i) == {<<d, n>> \in Dirs \X Name : ino[d].ent[n] = i}
Linked(d) == d = Root \/ Entries(d) # {}
\* The links to i: its entries, and ".." of the directories in it that have a name.
LinkNum(i) ==
    (IF i = Root THEN 1 ELSE Cardinality(Entries(i)))
    + Cardinality({d \in Dirs \ {Root} : Linked(d) /\ ino[d].ent[".."] = i})

\* ip->ref counts the pointers to the inode, on every path and every early return of
\* every call: none is leaked, so the inode can go, and none is put twice.
RefExact ==
    \A i \in Inum :
        ino[i].ref = Cardinality({p \in Proc : cwd[p] = i}) + Cardinality({p \in Proc : file[p] = i})
                     + Cardinality({p \in Proc : cl[p].ip = i}) + Cardinality({p \in Proc : cl[p].dp = i})

\* nlink never counts fewer links than there are, whatever calls are under way: so no
\* name is left of an inode that iput frees.
LinkCount == \A i \in Inum : ino[i].type # "free" => ino[i].nlink >= LinkNum(i)

\* Directories are a tree: a directory has at most one name, and while it has it ".." is
\* the directory the name is in, which itself is still there.
Tree == \A d \in Dirs \ {Root} :
            /\ Cardinality(Entries(d)) <= 1
            /\ \A e \in Entries(d) : ino[d].ent[".."] = e[1]
            /\ ino[d].ent["."] = d

\* The lock a process is about to take.
Wants(p) == IF cl[p].pc \in {"found", "exists", "unlink", "linkbad"} \/ (cl[p].pc = "namex" /\ cl[p].path # <<>>)
            THEN {cl[p].ip} ELSE {}
\* No process waits, through a chain of holders, for itself: unlink alone holds a lock
\* while it waits for another, and goes from parent to child.
NoWaitCycle ==
    \A S \in SUBSET Proc \ {{}} : \E p \in S : \A i \in Wants(p) : lock[i] \notin S

\* What stops the system is running out of inodes, or ".." of a directory that is removed
\* and somebody's current directory, whose parent is gone too: no other name leads to a
\* free inode, and no inode loses more links than it has.
OnlyOutOfInodes ==
    \/ panicked \in {"", "ialloc: no inodes"}
    \/ panicked = "ilock: no type" /\ \E p \in Proc : ~Linked(cwd[p])
=============================================================================
