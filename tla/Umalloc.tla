------------------------------- MODULE Umalloc ------------------------------
(***************************************************************************)
(* malloc and free of umalloc.c: a circular list of free blocks in the     *)
(* order of their addresses.  An address counts units of a header; base is *)
(* at 0, below the heap.                                                   *)
(***************************************************************************)
EXTENDS Naturals, FiniteSets

CONSTANTS FIRST,     \* the first address of the heap
          LIMIT,     \* the end of the memory sbrk can give
          HDR,       \* sizeof(Header), in bytes
          MINCORE,   \* 4096: the least that morecore asks for
          MAXBYTES   \* bound: the largest request

VARIABLES ptr, size,     \* the headers, at every address
          freep,         \* None before the first call
          brk,           \* the end of the heap
          alloc,         \* the blocks the program has: address to number of bytes
          gaps,          \* units the program got from sbrk itself
          ret            \* what malloc returned last, and for how many bytes
vars == <<ptr, size, freep, brk, alloc, gaps, ret>>

None == LIMIT + 1
base == 0
Addr == {base} \cup FIRST..(LIMIT - 1)

TypeOK ==
    /\ ptr \in [Addr -> Addr] /\ size \in [Addr -> 0..LIMIT]
    /\ freep \in Addr \cup {None} /\ brk \in FIRST..LIMIT
    /\ DOMAIN alloc \subseteq Addr \ {base} /\ \A a \in DOMAIN alloc : alloc[a] \in 0..MAXBYTES
    /\ gaps \subseteq Addr

Init == /\ ptr = [a \in Addr |-> base] /\ size = [a \in Addr |-> 0]
        /\ freep = None /\ brk = FIRST
        /\ alloc = [a \in {} |-> 0] /\ gaps = {} /\ ret = <<"none", 0>>

Heap(pt, sz, fp) == [ptr |-> pt, size |-> sz, freep |-> fp]

-----------------------------------------------------------------------------
(* free *)

\* The loop that finds the block to insert bp after.
InOrder(h, p, bp) == bp > p /\ bp < h.ptr[p]
AtEnds(h, p, bp) == p >= h.ptr[p] /\ (bp > p \/ bp < h.ptr[p])
RECURSIVE Place(_, _, _)
Place(h, p, bp) == IF InOrder(h, p, bp) \/ AtEnds(h, p, bp) THEN p ELSE Place(h, h.ptr[p], bp)

\* Join with the upper neighbour, or link to it.
JoinUp(h, p, bp) ==
    LET q == h.ptr[p] IN
    IF bp + h.size[bp] = q
    THEN [h EXCEPT !.size[bp] = @ + h.size[q], !.ptr[bp] = h.ptr[q]]
    ELSE [h EXCEPT !.ptr[bp] = q]
\* Join with the lower neighbour, or link from it.
JoinDown(h, p, bp) ==
    IF p + h.size[p] = bp
    THEN [h EXCEPT !.size[p] = @ + h.size[bp], !.ptr[p] = h.ptr[bp]]
    ELSE [h EXCEPT !.ptr[p] = bp]
Freed(h, bp) ==
    LET p == Place(h, h.freep, bp) IN [JoinDown(JoinUp(h, p, bp), p, bp) EXCEPT !.freep = p]

RECURSIVE Walk(_, _, _)
Walk(pt, a, seen) == IF a \in seen THEN seen ELSE Walk(pt, pt[a], seen \cup {a})

\* The headers of blocks that are there.  An address that is no longer the start of one
\* holds data of the program and is 0 here; so is the ptr of a block the program has.
Set(h, mine) ==
    LET list == Walk(h.ptr, h.freep, {}) IN
    /\ ptr' = [a \in Addr |-> IF a \in list THEN h.ptr[a] ELSE base]
    /\ size' = [a \in Addr |-> IF a \in list \cup mine THEN h.size[a] ELSE 0]
    /\ freep' = h.freep

free(a) ==
    /\ a \in DOMAIN alloc
    /\ alloc' = [b \in DOMAIN alloc \ {a} |-> alloc[b]]
    /\ Set(Freed(Heap(ptr, size, freep), a), DOMAIN alloc')
    /\ ret' = <<"none", 0>>
    /\ UNCHANGED <<brk, gaps>>

-----------------------------------------------------------------------------
(* malloc *)

nunits(nbytes) == (nbytes + HDR - 1) \div HDR + 1

\* The first fit from p on, with the block before it; None if p comes back to freep.
RECURSIVE Fit(_, _, _, _)
Fit(h, prevp, p, n) ==
    IF h.size[p] >= n THEN <<prevp, p>>
    ELSE IF p = h.freep THEN <<None, None>> ELSE Fit(h, p, h.ptr[p], n)

\* The whole block, or the tail of it.
CarveHead(h, prevp, p, n) ==
    IF h.size[p] = n THEN [h EXCEPT !.ptr[prevp] = h.ptr[p], !.freep = prevp]
    ELSE [h EXCEPT !.size[p] = @ - n, !.size[p + n] = n, !.freep = prevp]
Carve(h, prevp, p, n) ==
    IF h.size[p] = n THEN [h EXCEPT !.ptr[prevp] = h.ptr[p], !.freep = prevp]
    ELSE LET s == h.size[p] - n IN [h EXCEPT !.size[p] = s, !.size[p + s] = n, !.freep = prevp]
Carved(h, p, n) == IF h.size[p] = n THEN p ELSE p + h.size[p] - n

Take(h, f, n, nbytes) ==
    /\ alloc' = [b \in DOMAIN alloc \cup {Carved(h, f[2], n)} |->
                   IF b = Carved(h, f[2], n) THEN nbytes ELSE alloc[b]]
    /\ Set(Carve(h, f[1], f[2], n), DOMAIN alloc')
    /\ ret' = <<"block", nbytes>>

\* How much morecore asks sbrk for.
CoreUnits(n) == IF n < MINCORE THEN MINCORE ELSE n

malloc(nbytes) ==
    LET n == nunits(nbytes)
        h == IF freep = None THEN Heap([ptr EXCEPT ![base] = base], [size EXCEPT ![base] = 0], base)
                             ELSE Heap(ptr, size, freep)
        f == Fit(h, h.freep, h.ptr[h.freep], n)
        nu == CoreUnits(n)
        g == Freed([h EXCEPT !.size[brk] = nu], brk)
        f2 == Fit(g, g.freep, g.ptr[g.freep], n)
    IN
    \/ /\ f[2] # None
       /\ Take(h, f, n, nbytes) /\ UNCHANGED <<brk, gaps>>
    \/ /\ f[2] = None /\ brk + nu <= LIMIT       \* morecore
       /\ Take(g, f2, n, nbytes) /\ brk' = brk + nu /\ UNCHANGED gaps
    \/ /\ f[2] = None /\ brk + nu > LIMIT
       /\ Set(h, DOMAIN alloc) /\ ret' = <<"null", nbytes>> /\ UNCHANGED <<alloc, brk, gaps>>

\* The program may call sbrk as well: what morecore gets next is not adjacent.
sbrk == /\ brk < LIMIT
        /\ gaps' = gaps \cup {brk} /\ brk' = brk + 1
        /\ ret' = <<"none", 0>>
        /\ UNCHANGED <<ptr, size, freep, alloc>>

Next == (\E n \in 0..MAXBYTES : malloc(n)) \/ (\E a \in DOMAIN alloc : free(a)) \/ sbrk
Spec == Init /\ [][Next]_vars

-----------------------------------------------------------------------------
Block(a) == a..(a + size[a] - 1)
FreeList == IF freep = None THEN {} ELSE Walk(ptr, freep, {}) \ {base}

\* The blocks of the program and the free blocks do not overlap, and nothing of what sbrk
\* gave to malloc is lost, through any sequence of calls.
Partition ==
    LET blocks == DOMAIN alloc \cup FreeList IN
    /\ \A a, b \in blocks : a # b => Block(a) \cap Block(b) = {}
    /\ UNION {Block(a) : a \in blocks} = (FIRST..(brk - 1)) \ gaps

\* A block has room for its bytes after the header.
RoomForBytes == \A a \in DOMAIN alloc : (size[a] - 1) * HDR >= alloc[a]

\* The list goes once around in the order of the addresses, and free neighbours are joined:
\* memory does not stay in pieces once it is free.
Joined ==
    freep # None =>
        LET all == FreeList \cup {base} IN
        /\ \A a \in all : ptr[a] \in all /\ ~\E b \in all : a < b /\ (b < ptr[a] \/ ptr[a] <= a) /\ b # ptr[a]
        /\ \A a, b \in FreeList : a + size[a] # b

\* malloc gives up only when no free block is large enough and sbrk has failed.
NullOnlyWhenFull ==
    ret[1] = "null" => /\ \A a \in FreeList : (size[a] - 1) * HDR < ret[2]
                       /\ brk + CoreUnits(nunits(ret[2])) > LIMIT
=============================================================================
