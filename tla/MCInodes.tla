------------------------------ MODULE MCInodes ------------------------------
(***************************************************************************)
(* An instance of the inode cache and of the calls on names for TLC: a     *)
(* behaviour is one of the cache or one of the names; they share no state. *)
(***************************************************************************)
EXTENDS Names, TLC

CONSTANTS CacheProc, NINODE
VARIABLES part,
          dtype, dnlink, inum, ref, valid, type, nlink, ilk, dir, dirlock, pc, ip, iop, cfile, cpanic, ncpu

cache == <<dtype, dnlink, inum, ref, valid, type, nlink, ilk, dir, dirlock, pc, ip, iop, cfile, cpanic, ncpu>>

I == INSTANCE Icache WITH Proc <- CacheProc, NINODES <- 2, lock <- ilk, file <- cfile, op <- iop, panicked <- cpanic

C(op, abs, path) == [op |-> op, abs |-> abs, path |-> path, new |-> <<>>]
L(old, new) == [op |-> "link", abs |-> TRUE, path |-> old, new |-> new]

\* One level of directories, two names, every call.
Flat == {C("mkdir", TRUE, <<"a">>), C("create", TRUE, <<"a", "b">>), C("create", FALSE, <<"b">>),
         C("mknod", TRUE, <<"a">>), C("unlink", TRUE, <<"a">>),
         C("unlink", FALSE, <<".">>), C("openw", TRUE, <<"a", "..">>), C("chdir", TRUE, <<"a">>),
         C("mkdir", TRUE, <<>>), L(<<"a">>, <<"b">>), L(<<"b">>, <<"a", "b">>)}

\* A directory in a directory.
Deep == {C("mkdir", TRUE, <<"a">>), C("mkdir", TRUE, <<"a", "b">>), C("unlink", TRUE, <<"a", "b">>),
         C("unlink", TRUE, <<"a">>), C("chdir", TRUE, <<"a", "b">>), C("open", FALSE, <<"..">>)}

Both == {Flat, Deep}

MCInit == /\ Init /\ I!Init
          /\ \/ part = "names" /\ ncpu = 1
             \/ part = "cache" /\ calls = Flat
MCNext == /\ UNCHANGED part
          /\ \/ part = "names" /\ Next /\ UNCHANGED cache
             \/ part = "cache" /\ I!Next /\ UNCHANGED vars
MCSpec == MCInit /\ [][MCNext]_<<part, vars, cache>>

Perms == Permutations(Proc) \cup Permutations(CacheProc)

-----------------------------------------------------------------------------
\* iget, idup and iput count the references to an inode exactly, in the cache and on
\* every return path of every call on names.
ReferencesExact == IF part = "cache" THEN I!RefExact ELSE RefExact

\* On one CPU iput frees no inode that has a name or is open.
InUseAllocated == I!LinkedAllocated /\ I!OpenAllocated

\* Inodes on the disk, in the cache and in directories agree: none is lost to iput, on one
\* CPU a valid entry of the cache is the inode on the disk, directories are a tree, and the
\* panics of fs.c but for the lack of inodes are unreachable.
InodesConsistent ==
    IF part = "cache" THEN I!TypeOK /\ I!NoLostInode /\ I!ValidCoherent /\ I!NoPanic
                      ELSE TypeOK /\ Tree /\ OnlyOutOfInodes
=============================================================================
