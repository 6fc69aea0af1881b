------------------------------ MODULE MCMemory ------------------------------
(***************************************************************************)
(* An instance for TLC of the kernel's memory, of malloc, and of the       *)
(* library functions: a behaviour is one of the three; they share no state.*)
(***************************************************************************)
EXTENDS Vm

CONSTANTS FIRST, LIMIT, HDR, MINCORE, MAXBYTES, DIRSIZ, BITS, CELLS, MAXSTR, MAXPATH, MAXRE
VARIABLES part, ptr, size, freep, brk, alloc, gaps, mret, x

heap == <<ptr, size, freep, brk, alloc, gaps, mret>>
H == INSTANCE Umalloc WITH ret <- mret
S == INSTANCE Strings

MCInit == /\ Init /\ H!Init
          /\ \/ part \in {"kernel", "malloc"} /\ x = <<"none">>
             \/ part = "library" /\ S!Init
MCNext == /\ UNCHANGED <<part, x>>
          /\ \/ part = "kernel" /\ Next /\ UNCHANGED heap
             \/ part = "malloc" /\ H!Next /\ UNCHANGED vars
MCSpec == MCInit /\ [][MCNext]_<<part, vars, heap, x>>

\* The memory of the processes and the tables they have, whichever pages these are in:
\* states that differ by a permutation of the pages are the same.
Shape ==
    IF part # "kernel" THEN <<part, heap, x>>
    ELSE <<[p \in Proc |-> Space(p)],
           [p \in Proc |-> {v \in 0..(KERNBASE \div U - 1) : Live(p) /\ Pgtab(tab, pgdir[p], v) # 0}],
           sz, Cardinality(free), panicked>>

Perms == Permutations(Proc)

SomeGrows == {-2, 3}

-----------------------------------------------------------------------------
\* kalloc and kfree hand every page to one owner, the pages mapped are those p->sz says,
\* and the panics of vm.c are unreachable.
PagesConsistent == TypeOK /\ PagesExact /\ SizeMapped /\ OnlyOutOfMemory

\* malloc and free neither lose nor share memory, give as much as was asked for, leave no
\* two free neighbours, and return 0 only when there is no memory.
HeapConsistent == H!TypeOK /\ H!Partition /\ H!RoomForBytes /\ H!Joined /\ H!NullOnlyWhenFull

\* The functions of string.c, ulib.c, printf.c, grep.c and fs.c compute what they are for.
LibraryExact ==
    /\ S!MoveExact /\ S!CopyBounded /\ S!CompareExact /\ S!GetsLine
    /\ S!PathElements /\ S!NameFound /\ S!PrintExact /\ S!MatchExact
=============================================================================
