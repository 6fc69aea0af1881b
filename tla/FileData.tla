------------------------------ MODULE FileData ------------------------------
(***************************************************************************)
(* File contents: the block allocator (balloc, bfree), the map of a file   *)
(* (bmap, itrunc), readi and writei of fs.c, and fileread and filewrite of *)
(* file.c.  The unit is a 4-byte word, so that an indirect block is a      *)
(* block of NINDIRECT words.  writei and readi run with the inode locked   *)
(* and are one step; filewrite takes the lock once per chunk.              *)
(***************************************************************************)
EXTENDS Naturals, Sequences, FiniteSets, FiniteSetsExt, SequencesExt

CONSTANTS Inode, File, Proc, None,
          Word,                        \* what blocks hold at first
          WriteData, ReadLens,         \* what is written and how much is read by a call
          BSIZE, NDIRECT, NINDIRECT,   \* in words and in blocks
          NBLOCKS,                     \* data blocks on the disk
          LOGSIZE
ASSUME FileDataAssumption == /\ BSIZE \in Nat \ {0} /\ NINDIRECT \in 1..BSIZE /\ NDIRECT \in Nat \ {0}
                             /\ 0 \notin Word /\ LOGSIZE >= 6

VARIABLES bitmap,      \* blocks in use
          blk,         \* contents of the data blocks
          size, addrs, \* struct inode
          ip, off,     \* struct file
          todo,        \* todo[p]: the file and the words of a filewrite under way, or None
          moved,       \* the words the last fileread or round of filewrite moved
          logged,      \* blocks the last transaction passed to log_write
          panicked     \* what panic() was called with, or ""

fs == <<bitmap, blk, size, addrs>>
vars == <<fs, ip, off, todo, moved, logged, panicked>>

BlockNo == 1..NBLOCKS
Zero == [k \in 0..(BSIZE - 1) |-> 0]
MAXFILE == NDIRECT + NINDIRECT
ChunkNoSlack == (LOGSIZE - 1 - 1 - 2) * BSIZE
Chunk == ((LOGSIZE - 1 - 1 - 2) \div 2) * BSIZE
Least(a, b) == IF a < b THEN a ELSE b

TypeOK ==
    /\ bitmap \subseteq BlockNo
    /\ \A b \in BlockNo : DOMAIN blk[b] = 0..(BSIZE - 1)
    /\ size \in [Inode -> 0..(MAXFILE * BSIZE)] /\ addrs \in [Inode -> [0..NDIRECT -> 0..NBLOCKS]]
    /\ ip \in [File -> Inode \cup {None}] /\ off \in [File -> 0..(MAXFILE * BSIZE)]
    /\ panicked \in STRING

\* Blocks that were in use before hold old data.
Init ==
    /\ bitmap = {} /\ \E w \in Word : blk = [b \in BlockNo |-> [k \in 0..(BSIZE - 1) |-> w]]
    /\ size = [i \in Inode |-> 0] /\ addrs = [i \in Inode |-> [k \in 0..NDIRECT |-> 0]]
    /\ ip = [f \in File |-> None] /\ off = [f \in File |-> 0]
    /\ todo = [p \in Proc |-> None] /\ moved = <<>> /\ logged = {} /\ panicked = ""

-----------------------------------------------------------------------------
(* Blocks and the map of a file.  A state of the file system under change is *)
(* a record: the four variables, the blocks logged, and whether it panicked. *)

Cur == [bm |-> bitmap, blk |-> blk, ad |-> addrs, log |-> {}, bad |-> "", ret |-> 0]

\* balloc: the first free block, marked in the bitmap and zeroed.
Balloc(st) ==
    IF BlockNo \subseteq st.bm THEN [st EXCEPT !.bad = "balloc: out of blocks"]
    ELSE LET b == Min(BlockNo \ st.bm) IN
         [st EXCEPT !.bm = @ \cup {b}, !.blk[b] = Zero,
                    !.log = @ \cup {<<"bitmap", 0>>, <<"data", b>>}, !.ret = b]

\* bmap: the address of block bn of inode i, allocated if there is none.
BmapDirect(st, i, bn) ==
    LET a == st.ad[i][bn]
        s == IF a = 0 THEN Balloc(st) ELSE [st EXCEPT !.ret = a]
    IN  [s EXCEPT !.ad[i][bn] = s.ret]

BmapIndirect(st, i, bn) ==
    LET s1 == BmapDirect(st, i, NDIRECT)
        d  == s1.ret
        a  == s1.blk[d][bn]
        s2 == Balloc(s1)
    IN  IF s1.bad # "" THEN s1
        ELSE IF a # 0 THEN [s1 EXCEPT !.ret = a]
        ELSE IF s2.bad # "" THEN s2
        ELSE [s2 EXCEPT !.blk[d][bn] = s2.ret, !.log = @ \cup {<<"data", d>>}]

Bmap(st, i, bn) ==
    IF bn < NDIRECT THEN BmapDirect(st, i, bn)
    ELSE IF bn - NDIRECT < NINDIRECT THEN BmapIndirect(st, i, bn - NDIRECT)
    ELSE [st EXCEPT !.bad = "bmap: out of range"]

\* What bmap finds without allocating.
Mapped(i, bn) ==
    IF bn < NDIRECT THEN addrs[i][bn]
    ELSE IF addrs[i][NDIRECT] = 0 THEN 0 ELSE blk[addrs[i][NDIRECT]][bn - NDIRECT]

\* writei(ip, src, off, n), the loop: block by block in the code, word by word here.
PutWord(st, i, o, w) ==
    LET s == Bmap(st, i, o \div BSIZE) IN
    IF s.bad # "" THEN s
    ELSE [s EXCEPT !.blk[s.ret][o % BSIZE] = w, !.log = @ \cup {<<"data", s.ret>>}]
WriteLoopStuck(st, i, src, o) ==
    FoldLeft(LAMBDA s, k : IF s.bad # "" THEN s ELSE PutWord(s, i, o + k - 1, src[1]), st, [k \in 1..Len(src) |-> k])
WriteLoop(st, i, src, o) ==
    FoldLeft(LAMBDA s, k : IF s.bad # "" THEN s ELSE PutWord(s, i, o + k - 1, src[k]), st, [k \in 1..Len(src) |-> k])

\* The tests of writei: no hole, and no file beyond MAXFILE blocks.
CanWrite(i, o, n) == o <= size[i] /\ o + n <= MAXFILE * BSIZE
\* The blocks of inode i, each as often as the map names it.
Ptrs(i) ==
    [k \in {k \in 0..NDIRECT : addrs[i][k] # 0} |-> addrs[i][k]]
IndPtrs(i) ==
    IF addrs[i][NDIRECT] = 0 THEN {}
    ELSE {k \in 0..(NINDIRECT - 1) : blk[addrs[i][NDIRECT]][k] # 0}
BlocksOf(i) ==
    {addrs[i][k] : k \in DOMAIN Ptrs(i)} \cup {blk[addrs[i][NDIRECT]][k] : k \in IndPtrs(i)}

-----------------------------------------------------------------------------
(* Calls *)

\* sys_open, with the inode found, and close.
Open(f) ==
    /\ ip[f] = None
    /\ \E i \in Inode : ip' = [ip EXCEPT ![f] = i]
    /\ off' = [off EXCEPT ![f] = 0]
    /\ UNCHANGED <<fs, todo, moved, logged, panicked>>
Close(f) ==
    /\ ip[f] # None /\ \A p \in Proc : todo[p] # None => todo[p].f # f
    /\ ip' = [ip EXCEPT ![f] = None] /\ off' = [off EXCEPT ![f] = 0]
    /\ UNCHANGED <<fs, todo, moved, logged, panicked>>

CallWrite(p) == \E f \in File, s \in WriteData :
    /\ todo[p] = None /\ ip[f] # None
    /\ todo' = [todo EXCEPT ![p] = [f |-> f, s |-> s]]
    /\ UNCHANGED <<fs, ip, off, moved, logged, panicked>>

\* One round of the loop of filewrite: a transaction of at most Chunk words, and the
\* end of the call when everything is written or writei fails.
WriteChunk(p) ==
    LET f  == todo[p].f
        i  == ip[f]
        n1 == Least(Len(todo[p].s), Chunk)
        st == WriteLoop(Cur, i, SubSeq(todo[p].s, 1, n1), off[f])
        grown == off[f] + n1 > size[i]
    IN
    /\ todo[p] # None
    /\ \/ /\ ~CanWrite(i, off[f], n1)                   \* writei returns -1
          /\ todo' = [todo EXCEPT ![p] = None]
          /\ logged' = {}
          /\ UNCHANGED <<fs, off, moved, panicked>>
       \/ /\ CanWrite(i, off[f], n1) /\ st.bad # ""
          /\ panicked' = st.bad
          /\ UNCHANGED <<fs, off, todo, moved, logged>>
       \/ /\ CanWrite(i, off[f], n1) /\ st.bad = ""
          /\ bitmap' = st.bm /\ blk' = st.blk /\ addrs' = st.ad
          /\ size' = [size EXCEPT ![i] = IF grown THEN off[f] + n1 ELSE @]
          /\ logged' = st.log \cup (IF grown THEN {<<"inode", i>>} ELSE {})
          /\ off' = [off EXCEPT ![f] = @ + n1]
          /\ todo' = [todo EXCEPT ![p] = IF n1 = Len(@.s) THEN None
                                         ELSE [@ EXCEPT !.s = SubSeq(@, n1 + 1, Len(@))]]
          /\ moved' = SubSeq(todo[p].s, 1, n1)
          /\ UNCHANGED panicked
    /\ UNCHANGED ip

\* fileread: readi clips the request to the size of the file.
Fileread(f) == \E n \in ReadLens :
    LET i == ip[f]
        m == Least(n, size[i] - off[f])
    IN
    /\ ip[f] # None
    /\ moved' = [k \in 1..m |-> LET o == off[f] + k - 1 IN blk[Mapped(i, o \div BSIZE)][o % BSIZE]]
    /\ off' = [off EXCEPT ![f] = @ + m]
    /\ UNCHANGED <<fs, ip, todo, logged, panicked>>

\* iput of the last reference to an unlinked inode: itrunc frees every block, direct,
\* indirect and the indirect block itself; the inode is then free for a new file.
ItruncLeak(i) ==
    /\ bitmap' = bitmap \ {addrs[i][k] : k \in DOMAIN Ptrs(i)}
    /\ addrs' = [addrs EXCEPT ![i] = [k \in 0..NDIRECT |-> 0]]
    /\ size' = [size EXCEPT ![i] = 0]
Itrunc(i) ==
    /\ bitmap' = bitmap \ BlocksOf(i)
    /\ addrs' = [addrs EXCEPT ![i] = [k \in 0..NDIRECT |-> 0]]
    /\ size' = [size EXCEPT ![i] = 0]
FreeInode(i) ==
    /\ \A f \in File : ip[f] # i
    /\ Itrunc(i)
    /\ panicked' = IF BlocksOf(i) \subseteq bitmap THEN "" ELSE "freeing free block"
    /\ logged' = {<<"bitmap", 0>>, <<"inode", i>>}
    /\ UNCHANGED <<blk, ip, off, todo, moved>>

Next == /\ panicked = ""
        /\ \/ \E p \in Proc : CallWrite(p) \/ WriteChunk(p)
           \/ \E f \in File : Open(f) \/ Close(f) \/ Fileread(f)
           \/ \E i \in Inode : FreeInode(i)
Spec == Init /\ [][Next]_vars

-----------------------------------------------------------------------------
\* Every block in use belongs to one file, in one place of its map, and every block a
\* map names is in use: nothing is leaked or shared, whatever is written and removed.
PtrCount(i) == Cardinality(DOMAIN Ptrs(i)) + Cardinality(IndPtrs(i))
BlocksExact ==
    /\ bitmap = UNION {BlocksOf(i) : i \in Inode}
    /\ Cardinality(bitmap) = MapThenSumSet(PtrCount, Inode)

\* A file has a block for every word of its size: readi never meets a hole, so it never
\* allocates outside a transaction.
NoHoles ==
    \A i \in Inode : \A o \in 0..(MAXFILE * BSIZE - 1) : o < size[i] => Mapped(i, o \div BSIZE) # 0

\* Out of blocks is the only panic: bmap stays in range and bfree finds its block in use.
OnlyOutOfBlocks == panicked \in {"", "balloc: out of blocks"}

\* Blocks are owned once, files have no holes, and only a full disk stops the system.
BlocksConsistent == TypeOK /\ BlocksExact /\ NoHoles /\ OnlyOutOfBlocks

\* The words of file i, as its map tells them.
Content(i) == [k \in 1..size[i] |-> blk[Mapped(i, (k - 1) \div BSIZE)][(k - 1) % BSIZE]]

\* Reads and writes through shared offsets, in chunks of different processes, direct and
\* indirect, are reads and writes of a sequence.
B == INSTANCE ByteFile WITH MAXN <- MAXFILE * BSIZE, content <- [i \in Inode |-> Content(i)]
IsByteFile == B!Spec

\* "write a few blocks at a time to avoid exceeding the maximum log transaction size":
\* what one transaction logs fits the log, unaligned, at the indirect block and all.
ChunkFitsLog == [][Cardinality(logged') <= LOGSIZE - 1]_vars
=============================================================================
