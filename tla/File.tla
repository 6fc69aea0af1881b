-------------------------------- MODULE File --------------------------------
(***************************************************************************)
(* The open-file table and the descriptors: file.c, the descriptor calls   *)
(* of sysfile.c, pipealloc, and what fork and exit do to files.  Every     *)
(* section under ftable.lock or icache.lock is a step of its own; a        *)
(* descriptor table is private to its process.  Inodes count their         *)
(* references here and are modelled in Icache; the bytes of a pipe are in  *)
(* Pipe.                                                                   *)
(***************************************************************************)
EXTENDS Naturals, FiniteSets, FiniteSetsExt

CONSTANTS Proc, Init1,       \* processes; the first one
          NFILE, NOFILE,     \* open files per system, descriptors per process
          Inode, Pipe,       \* inodes that can be named, pages for pipes
          RootIno,           \* the inode of "/"
          None               \* a null pointer
ASSUME FileAssumption ==
    Init1 \in Proc /\ RootIno \in Inode /\ NFILE \in Nat \ {0} /\ NOFILE \in Nat \ {0}

VARIABLES ref, ftype, obj, writable,  \* struct file: f->type, f->pipe or f->ip, f->writable
          iref,                       \* ip->ref
          ends,                       \* ends[p]: open ends of the pipe in page p; {} is a free page
          ofile, cwd,                 \* proc->ofile, proc->cwd
          pc, held                    \* control point; the files, then inode, a call holds

ftable == <<ref, ftype, obj, writable>>
vars == <<ftable, iref, ends, ofile, cwd, pc, held>>

FileIx == 1..NFILE
Fd == 0..(NOFILE - 1)
PcLoc == {"none", "user", "openalloc", "openfd", "pipe1", "pipepage", "pipefd", "bad", "drop", "exit"}

\* What a call in progress still owns: files not yet in a descriptor, inodes not yet
\* in a file, and the copy ff that fileclose made of the last reference to a file.
NoHold == [files |-> {}, ip |-> None, ff |-> None, next |-> "user"]

TypeOK ==
    /\ ref \in [FileIx -> 0..(NFILE + NOFILE * Cardinality(Proc))]
    /\ ftype \in [FileIx -> {"NONE", "PIPE", "INODE"}]
    /\ obj \in [FileIx -> Inode \cup Pipe \cup {None}] /\ writable \in [FileIx -> BOOLEAN]
    /\ ends \in [Pipe -> SUBSET {"r", "w"}] /\ iref \in [Inode -> Nat]
    /\ ofile \in [Proc -> [Fd -> FileIx \cup {None}]] /\ cwd \in [Proc -> Inode \cup {None}]
    /\ pc \in [Proc -> PcLoc]
    /\ \A p \in Proc : held[p].files \subseteq FileIx /\ held[p].ip \in Inode \cup {None}

Init ==
    /\ ref = [f \in FileIx |-> 0] /\ ftype = [f \in FileIx |-> "NONE"]
    /\ obj = [f \in FileIx |-> None] /\ writable = [f \in FileIx |-> FALSE]
    /\ ends = [k \in Pipe |-> {}]
    /\ ofile = [p \in Proc |-> [d \in Fd |-> None]]
    /\ cwd = [p \in Proc |-> IF p = Init1 THEN RootIno ELSE None]
    /\ iref = [i \in Inode |-> IF i = RootIno THEN 1 ELSE 0]
    /\ pc = [p \in Proc |-> IF p = Init1 THEN "user" ELSE "none"]
    /\ held = [p \in Proc |-> NoHold]

Goto(p, loc) == pc' = [pc EXCEPT ![p] = loc]

\* filealloc: the first free entry.
FreeFile == {f \in FileIx : ref[f] = 0}
Filealloc == Min(FreeFile)

\* fdalloc: the lowest free descriptor.
FreeFd(p) == {d \in Fd : ofile[p][d] = None}
Fdalloc(p) == Min(FreeFd(p))

\* fileclose(f), the section under ftable.lock: the last reference frees the entry
\* and leaves a copy ff whose pipe end or inode is dropped after the release.
Fileclose(p, f, next) ==
    /\ ref' = [ref EXCEPT ![f] = @ - 1]
    /\ IF ref[f] > 1
       THEN /\ held' = [held EXCEPT ![p].files = @ \ {f}]
            /\ Goto(p, next) /\ UNCHANGED ftype
       ELSE /\ ftype' = [ftype EXCEPT ![f] = "NONE"]
            /\ held' = [held EXCEPT ![p].files = @ \ {f}, ![p].next = next,
                                    ![p].ff = [type |-> ftype[f], obj |-> obj[f], w |-> writable[f]]]
            /\ Goto(p, "drop")

\* Mutant: a process that exits goes back to its program after the first file.
DropToUser(p) ==
    LET ff == held[p].ff IN
    /\ pc[p] = "drop"
    /\ ends' = IF ff.type = "PIPE"
               THEN [ends EXCEPT ![ff.obj] = @ \ {IF ff.w THEN "w" ELSE "r"}] ELSE ends
    /\ iref' = IF ff.type = "INODE" THEN [iref EXCEPT ![ff.obj] = @ - 1] ELSE iref
    /\ held' = [held EXCEPT ![p].ff = None, ![p].next = "user"]
    /\ Goto(p, IF held[p].next = "exit" THEN "user" ELSE held[p].next)
    /\ UNCHANGED <<ftable, ofile, cwd>>

\* The rest of fileclose: pipeclose, or iput inside a transaction.
Drop(p) ==
    LET ff == held[p].ff IN
    /\ pc[p] = "drop"
    /\ ends' = IF ff.type = "PIPE"
               THEN [ends EXCEPT ![ff.obj] = @ \ {IF ff.w THEN "w" ELSE "r"}] ELSE ends
    /\ iref' = IF ff.type = "INODE" THEN [iref EXCEPT ![ff.obj] = @ - 1] ELSE iref
    /\ held' = [held EXCEPT ![p].ff = None, ![p].next = "user"]
    /\ Goto(p, held[p].next)
    /\ UNCHANGED <<ftable, ofile, cwd>>

-----------------------------------------------------------------------------
(* sys_open *)

\* namei has returned the inode with a reference.
Open(p) ==
    /\ pc[p] = "user" /\ Goto(p, "openalloc")
    /\ \E i \in Inode : /\ iref' = [iref EXCEPT ![i] = @ + 1]
                        /\ held' = [held EXCEPT ![p].ip = i]
    /\ UNCHANGED <<ftable, ends, ofile, cwd>>

\* filealloc, or the error path: iunlockput.
OpenAlloc(p) ==
    /\ pc[p] = "openalloc"
    /\ \/ /\ FreeFile # {}
          /\ ref' = [ref EXCEPT ![Filealloc] = 1]
          /\ held' = [held EXCEPT ![p].files = {Filealloc}]
          /\ Goto(p, "openfd") /\ UNCHANGED iref
       \/ /\ FreeFile = {}
          /\ iref' = [iref EXCEPT ![held[p].ip] = @ - 1]
          /\ held' = [held EXCEPT ![p].ip = None]
          /\ Goto(p, "user") /\ UNCHANGED ref
    /\ UNCHANGED <<ftype, obj, writable, ends, ofile, cwd>>

\* f->writable from omode.
OpenModes(p, f, w) == writable' = [writable EXCEPT ![f] = w]

\* fdalloc and the fields of f, or the error path: fileclose(f) of a file without a
\* type, then iunlockput.  Nobody else can name f yet, so the fields are set at once.
OpenFd(p) == \E f \in held[p].files :
    /\ pc[p] = "openfd"
    /\ \/ /\ FreeFd(p) # {}
          /\ ofile' = [ofile EXCEPT ![p][Fdalloc(p)] = f]
          /\ ftype' = [ftype EXCEPT ![f] = "INODE"]
          /\ obj' = [obj EXCEPT ![f] = held[p].ip]
          /\ \E w \in BOOLEAN : OpenModes(p, f, w)
          /\ held' = [held EXCEPT ![p] = NoHold]
          /\ Goto(p, "user") /\ UNCHANGED ref
       \/ /\ FreeFd(p) = {}
          /\ Fileclose(p, f, "bad")
          /\ UNCHANGED <<obj, writable, ofile>>
    /\ UNCHANGED <<iref, ends, cwd>>

\* The error path closes the files that are left, or drops the inode.
Bad(p) ==
    /\ pc[p] = "bad"
    /\ \/ /\ held[p].files = {}
          /\ iref' = [iref EXCEPT ![held[p].ip] = @ - 1]
          /\ held' = [held EXCEPT ![p].ip = None]
          /\ Goto(p, "user") /\ UNCHANGED <<ref, ftype>>
       \/ \E f \in held[p].files :
            /\ Fileclose(p, f, IF held[p].files = {f} THEN "user" ELSE "bad")
            /\ UNCHANGED iref
    /\ UNCHANGED <<obj, writable, ends, ofile, cwd>>

-----------------------------------------------------------------------------
(* sys_pipe and pipealloc *)

\* *f0 = filealloc(), then *f1 = filealloc(), or bad.
PipeFile(p) ==
    /\ pc[p] \in {"user", "pipe1"}
    /\ \/ /\ FreeFile # {}
          /\ ref' = [ref EXCEPT ![Filealloc] = 1]
          /\ held' = [held EXCEPT ![p].files = @ \cup {Filealloc}]
          /\ Goto(p, IF pc[p] = "user" THEN "pipe1" ELSE "pipepage")
       \/ /\ FreeFile = {} /\ pc[p] = "pipe1"
          /\ Goto(p, "bad") /\ UNCHANGED <<ref, held>>
    /\ UNCHANGED <<ftype, obj, writable, iref, ends, ofile, cwd>>

\* kalloc, which does not return when memory is short, and the fields of both files;
\* which of the two was allocated first makes no difference.
PipePage(p) == \E k \in Pipe, f0, f1 \in held[p].files :
    /\ pc[p] = "pipepage" /\ f0 # f1 /\ ends[k] = {}
    /\ ends' = [ends EXCEPT ![k] = {"r", "w"}]
    /\ ftype' = [ftype EXCEPT ![f0] = "PIPE", ![f1] = "PIPE"]
    /\ obj' = [obj EXCEPT ![f0] = k, ![f1] = k]
    /\ writable' = [writable EXCEPT ![f0] = FALSE, ![f1] = TRUE]
    /\ Goto(p, "pipefd")
    /\ UNCHANGED <<ref, iref, ofile, cwd, held>>

\* Both descriptors, or the error path: clear the one that was set, close both files.
PipeFd(p) == \E rf, wf \in held[p].files :
    /\ pc[p] = "pipefd" /\ ~writable[rf] /\ writable[wf]
    /\ \/ /\ Cardinality(FreeFd(p)) >= 2
          /\ LET d0 == Fdalloc(p)
                 d1 == Min(FreeFd(p) \ {d0})
             IN  ofile' = [ofile EXCEPT ![p][d0] = rf, ![p][d1] = wf]
          /\ held' = [held EXCEPT ![p] = NoHold]
          /\ Goto(p, "user")
       \/ /\ Cardinality(FreeFd(p)) < 2
          /\ Goto(p, "bad") /\ UNCHANGED <<ofile, held>>
    /\ UNCHANGED <<ftable, iref, ends, cwd>>
-----------------------------------------------------------------------------
(* Descriptors *)

\* sys_dup: fdalloc, then filedup.
Dup(p) == \E d \in Fd :
    /\ pc[p] = "user" /\ ofile[p][d] # None /\ FreeFd(p) # {}
    /\ ofile' = [ofile EXCEPT ![p][Fdalloc(p)] = ofile[p][d]]
    /\ ref' = [ref EXCEPT ![ofile[p][d]] = @ + 1]
    /\ UNCHANGED <<ftype, obj, writable, iref, ends, cwd, pc, held>>

\* sys_close.
Close(p) == \E d \in Fd :
    /\ pc[p] = "user" /\ ofile[p][d] # None
    /\ ofile' = [ofile EXCEPT ![p][d] = None]
    /\ Fileclose(p, ofile[p][d], "user")
    /\ UNCHANGED <<obj, writable, iref, ends, cwd>>

\* sys_chdir: namei's reference replaces the one of the old directory.
Chdir(p) == \E i \in Inode :
    /\ pc[p] = "user" /\ i # cwd[p]
    /\ cwd' = [cwd EXCEPT ![p] = i]
    /\ iref' = [iref EXCEPT ![i] = @ + 1, ![cwd[p]] = @ - 1]
    /\ UNCHANGED <<ftable, ends, ofile, pc, held>>

\* Mutant: one reference for each file, not for each descriptor.
ForkFilesOnce(p, q) ==
    /\ ofile' = [ofile EXCEPT ![q] = ofile[p]]
    /\ ref' = [f \in FileIx |-> ref[f] + (IF \E d \in Fd : ofile[p][d] = f THEN 1 ELSE 0)]

\* fork: filedup of every descriptor and idup of the directory.  The sections
\* commute with every other step: the parent keeps its own references meanwhile.
ForkFiles(p, q) ==
    /\ ofile' = [ofile EXCEPT ![q] = ofile[p]]
    /\ ref' = [f \in FileIx |-> ref[f] + Cardinality({d \in Fd : ofile[p][d] = f})]
Fork(p, q) ==
    /\ pc[p] = "user" /\ pc[q] = "none"
    /\ ForkFiles(p, q)
    /\ cwd' = [cwd EXCEPT ![q] = cwd[p]]
    /\ iref' = [iref EXCEPT ![cwd[p]] = @ + 1]
    /\ Goto(q, "user")
    /\ UNCHANGED <<ftype, obj, writable, ends, held>>

\* exit: every descriptor in turn, then the directory.
Exit(p) ==
    LET D == {d \in Fd : ofile[p][d] # None} IN
    /\ pc[p] = "exit" \/ (pc[p] = "user" /\ p # Init1)
    /\ \/ /\ D # {}
          /\ ofile' = [ofile EXCEPT ![p][Min(D)] = None]
          /\ Fileclose(p, ofile[p][Min(D)], "exit")
          /\ UNCHANGED <<obj, writable, iref, cwd>>
       \/ /\ D = {}
          /\ iref' = [iref EXCEPT ![cwd[p]] = @ - 1]
          /\ cwd' = [cwd EXCEPT ![p] = None]
          /\ Goto(p, "none")
          /\ UNCHANGED <<ftable, ofile, held>>
    /\ UNCHANGED ends

Call(p) == OpenAlloc(p) \/ OpenFd(p) \/ Bad(p) \/ PipeFile(p) \/ PipePage(p) \/ PipeFd(p)
Next == \E p \in Proc : \/ Call(p) \/ Drop(p) \/ Open(p) \/ Dup(p) \/ Close(p) \/ Chdir(p)
                        \/ Exit(p) \/ \E q \in Proc : Fork(p, q)
Spec == Init /\ [][Next]_vars

\* A process inside a call runs on: no lock here is held across a sleep.
LiveSpec == Spec /\ \A p \in Proc : WF_vars(pc[p] # "user" /\ (Call(p) \/ Drop(p) \/ Exit(p)))

-----------------------------------------------------------------------------
\* f->ref is the number of descriptors for f in all processes, plus the calls that
\* hold it on the way in or out: no file is leaked by an error path of sys_open,
\* sys_pipe or pipealloc, and none is freed while a descriptor names it.
FileRefs ==
    \A f \in FileIx : ref[f] = Cardinality({<<p, d>> \in Proc \X Fd : ofile[p][d] = f})
                               + Cardinality({p \in Proc : f \in held[p].files})

\* ip->ref is the number of files, current directories and calls that hold the inode.
InodeRefs ==
    \A i \in Inode : iref[i] =
        Cardinality({f \in FileIx : ftype[f] = "INODE" /\ obj[f] = i})
      + Cardinality({p \in Proc : cwd[p] = i}) + Cardinality({p \in Proc : held[p].ip = i})
      + Cardinality({p \in Proc : /\ held[p].ff # None
                                  /\ held[p].ff.type = "INODE" /\ held[p].ff.obj = i})

\* An end of a pipe is open exactly while one file, or one fileclose under way,
\* stands for it: the end of file comes with the last descriptor, neither before nor
\* never, and a page is freed only when nothing points to it.
PipeEnds ==
    \A k \in Pipe, w \in BOOLEAN :
        Cardinality({f \in FileIx : ftype[f] = "PIPE" /\ obj[f] = k /\ writable[f] = w})
      + Cardinality({p \in Proc : /\ held[p].ff # None /\ held[p].ff.type = "PIPE"
                                  /\ held[p].ff.obj = k /\ held[p].ff.w = w})
      = (IF (IF w THEN "w" ELSE "r") \in ends[k] THEN 1 ELSE 0)

\* The three counts of a file's life agree with what they count, whatever the calls
\* of other processes do in between and whichever error path a call takes.
RefsExact == TypeOK /\ FileRefs /\ InodeRefs /\ PipeEnds

\* exit gives everything back: a dead process owns no descriptor, no directory and
\* no reference, and every exit gets there.
ExitReturns == \A p \in Proc : (pc[p] = "exit" \/ held[p].next = "exit") ~> pc[p] = "none"
=============================================================================
