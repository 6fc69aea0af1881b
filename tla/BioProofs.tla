----------------------------- MODULE BioProofs -----------------------------
(***************************************************************************)
(* The safety properties of Bio for every number of processes, blocks and  *)
(* buffers.                                                                *)
(***************************************************************************)
EXTENDS BioStepProofs, FiniteSetTheorems

\* The facts about finite sets that the proofs of the steps take as a hypothesis.
LEMMA Counted == FiniteSetFacts
<1>1. CardinalityType /\ Subset
  BY FS_CardinalityType, FS_Subset, Zenon DEF CardinalityType, Subset
<1>2. EmptySet /\ Singleton
  BY FS_EmptySet, FS_Singleton, Zenon DEF EmptySet, Singleton
<1>3. AddElement /\ RemoveElement
  BY FS_AddElement, FS_RemoveElement, Zenon DEF AddElement, RemoveElement
<1>4. Interval
  BY FS_Interval, Zenon DEF Interval
<1>5. Union /\ Product
  BY FS_Union, FS_Product, Zenon DEF Union, Product
<1>6. Greatest
  <2> SUFFICES ASSUME NEW n \in Nat, NEW S \in SUBSET (1..n), S # {} PROVE \E i \in S : \A j \in S : j <= i
    BY Zenon DEF Greatest
  <2> DEFINE T == {n - i : i \in S}
  <2>1. T \in SUBSET Nat /\ T # {}
    <3>1. \A i \in S : n - i \in Nat
      OBVIOUS
    <3> QED  BY <3>1, Zenon
  <2>2. PICK t \in T : \A u \in T : ~(<<u, t>> \in OpToRel(<, Nat))
    BY <2>1, NatLessThanWellFounded, WFMin, Zenon
  <2>3. \A u \in T : ~(u < t)
    BY <2>1, <2>2, Zenon DEF OpToRel
  <2>4. PICK i \in S : t = n - i
    BY Zenon
  <2>5. \A j \in S : n - j \in T
    BY Zenon
  <2> HIDE DEF T
  <2>6. ASSUME NEW j \in S PROVE j <= i
    <3>1. ~(n - j < t)
      BY <2>3, <2>5, Zenon
    <3> QED  BY <2>4, <3>1
  <2> QED  BY <2>6, Zenon
<1> QED  BY <1>1, <1>2, <1>3, <1>4, <1>5, <1>6, Zenon DEF FiniteSetFacts

\* References, owners, flags, queue and contents of the buffers agree in every state.
THEOREM BioInvariant == Spec => []IInv
<1>1. Init => IInv
  BY Counted, InitInv, Zenon
<1>2. IInv /\ [Next]_vars => IInv'
  BY Counted, NextStep, Zenon
<1> QED  BY <1>1, <1>2, PTL DEF Spec

-----------------------------------------------------------------------------
(* What the cache promises *)

\* A block is in one buffer and a buffer in one process's hands, which has its lock.
THEOREM OneCopyOfABlock == Spec => []OneCopy
<1>1. IInv => OneCopy
  <2> SUFFICES ASSUME IInv PROVE OneCopy
    BY Zenon
  <2>1. ASSUME NEW b \in Buf PROVE Cardinality(Holder(b)) <= 1 /\ (locked[b] <=> Holder(b) # {})
    <3>1. locked[b] <=> Holder(b) # {}
      BY DEF IInv, LockInv, Holder, HolderLoc
    <3>2. CASE Holder(b) = {}
      BY <3>1, <3>2, FS_EmptySet
    <3>3. CASE Holder(b) # {}
      <4>1. PICK p \in Proc : p \in Holder(b)
        BY <3>3, Zenon DEF Holder
      <4>2. Holder(b) = {p}
        BY <4>1 DEF IInv, LockInv, Holder, HolderLoc
      <4>3. Cardinality(Holder(b)) = 1
        BY <4>2, FS_Singleton, Zenon
      <4> QED  BY <3>1, <4>3
    <3> QED  BY <3>2, <3>3, Zenon
  <2> QED  BY <2>1, Zenon DEF OneCopy, IInv, BlockInv
<1> QED  BY <1>1, BioInvariant, PTL

\* The driver's queue is exactly the requests that processes sleep for.
THEOREM NoRequestIsLost == Spec => []QueueExact
<1>1. IInv => QueueExact
  <2> SUFFICES ASSUME IInv PROVE QueueExact
    BY Zenon
  <2>1. DOMAIN idequeue = 1..Len(idequeue)
    BY DEF IInv, TypeOK
  <2>2. ASSUME NEW b PROVE b \in {idequeue[i] : i \in DOMAIN idequeue} <=> b \in {mine[p] : p \in {q \in Proc : pc[q] = "iosleep"}}
    <3>1. b \in {idequeue[i] : i \in DOMAIN idequeue} <=> \E i \in 1..Len(idequeue) : idequeue[i] = b
      BY <2>1, Zenon
    <3>2. b \in {mine[p] : p \in {q \in Proc : pc[q] = "iosleep"}} <=> \E p \in Proc : pc[p] = "iosleep" /\ mine[p] = b
      BY Zenon
    <3> QED  BY <3>1, <3>2 DEF IInv, QueueInv
  <2>3. {idequeue[i] : i \in DOMAIN idequeue} = {mine[p] : p \in {q \in Proc : pc[q] = "iosleep"}}
    BY <2>2, Zenon
  <2>4. \A i \in 1..Len(idequeue) : ~valid[idequeue[i]] \/ dirty[idequeue[i]]
    BY Zenon DEF IInv, QueueInv, FlagInv
  <2> QED  BY <2>3, <2>4, Zenon DEF QueueExact
<1> QED  BY <1>1, BioInvariant, PTL

\* Each process in its own buffer and each pinned buffer leave one for p.
LEMMA BufferLeft ==
  ASSUME IInv, NEW p \in Proc, pc[p] = "out", NBUF >= Cardinality(Proc) + MAXPIN
  PROVE  \E i \in Buf : Unused(lru[i])
<1> SUFFICES ASSUME \A i \in Buf : ~Unused(lru[i]) PROVE FALSE
  BY Zenon
<1> DEFINE Others == Proc \ {p}
           InHands == {mine[q] : q \in Others}
           f == [q \in Others |-> mine[q]]
<1>1. \A b \in Buf : refcnt[b] # 0 \/ dirty[b]
  BY DEF IInv, TypeOK, Unused
<1>2. Buf \in SUBSET (InHands \cup Pinned)
  <2> SUFFICES ASSUME NEW b \in Buf, b \notin InHands PROVE b \in Pinned
    BY Zenon
  <2>1. Users(b) = {}
    BY Zenon DEF Users
  <2>2. refcnt[b] = 0
    BY <2>1, FS_EmptySet, Zenon DEF IInv, RefInv
  <2>3. \A q \in Proc : mine[q] = b => pc[q] = "out"
    BY <2>1, Zenon DEF Users
  <2> QED  BY <1>1, <2>2, <2>3, Zenon DEF Pinned
<1>3. IsFiniteSet(Others) /\ Cardinality(Others) = Cardinality(Proc) - 1 /\ Cardinality(Proc) \in Nat
  BY BioAssumption, FS_RemoveElement, FS_CardinalityType, Zenon
<1>4. f \in Surjection(Others, InHands)
  BY Zenon DEF Surjection
<1>5. IsFiniteSet(InHands) /\ Cardinality(InHands) <= Cardinality(Others) /\ Cardinality(InHands) \in Nat
  <2> HIDE DEF Others, InHands, f
  <2> QED  BY <1>3, <1>4, FS_Surjection, FS_CardinalityType, Zenon
<1>6. /\ IsFiniteSet(InHands \cup Pinned) /\ Cardinality(InHands \cup Pinned) \in Nat
      /\ Cardinality(InHands \cup Pinned) <= Cardinality(InHands) + Cardinality(Pinned)
  <2> HIDE DEF InHands
  <2>1. IsFiniteSet(InHands \cup Pinned)
        /\ Cardinality(InHands \cup Pinned) = Cardinality(InHands) + Cardinality(Pinned) - Cardinality(InHands \cap Pinned)
    BY <1>5, Counted, PinnedFinite, FS_Union, Zenon
  <2>2. InHands \cap Pinned \in SUBSET Pinned
    BY Zenon
  <2>3. Cardinality(InHands \cap Pinned) \in Nat /\ Cardinality(InHands \cup Pinned) \in Nat
    BY <2>1, <2>2, Counted, PinnedFinite, FS_Subset, FS_CardinalityType, Zenon
  <2> QED  BY <1>5, <2>1, <2>3, Counted, PinnedFinite
<1>7. Cardinality(Buf) = NBUF /\ Cardinality(Buf) <= Cardinality(InHands \cup Pinned)
  <2> HIDE DEF InHands
  <2>1. Cardinality(Buf) = NBUF
    BY BioAssumption, FS_Interval DEF Buf
  <2> QED  BY <1>2, <1>6, <2>1, FS_Subset, Zenon
<1>8. Cardinality(Pinned) <= MAXPIN
  BY Zenon DEF IInv, PinInv
<1> HIDE DEF InHands, Others
<1> QED  BY <1>3, <1>5, <1>6, <1>7, <1>8, Counted, PinnedFinite, BioAssumption

\* With one buffer for each process beyond those that the log may keep, bget always
\* finds one: what a process finds in the cache is right and nobody is left asleep.
THEOREM CacheIsConsistent ==
  ASSUME NBUF >= Cardinality(Proc) + MAXPIN
  PROVE  Spec => []CacheConsistent
<1>1. Init => ~panicked
  BY Zenon DEF Init
<1>2. IInv /\ ~panicked /\ [Next]_vars => ~panicked'
  <2> SUFFICES ASSUME IInv, ~panicked, [Next]_vars, panicked' # panicked PROVE FALSE
    BY Zenon
  <2>1. PICK p \in Proc, k \in Block : Bget(p, k)
    BY Zenon DEF Next, vars, Ideintr, Step, Use, Acquiresleep, Releasesleep, Unref, MemRw, Iderw,
      Change, Bwrite, LogWrite
  <2>2. pc[p] = "out" /\ {i \in Buf : Unused(lru[i])} = {}
    BY <2>1, Zenon DEF Bget
  <2> QED  BY <2>2, BufferLeft, Zenon
<1>3. IInv /\ ~panicked => CacheConsistent
  BY Zenon DEF IInv, LockInv, CacheConsistent, NoPanic
<1> QED  BY <1>1, <1>2, <1>3, BioInvariant, PTL DEF Spec

-----------------------------------------------------------------------------
(* Who may change what a reader sees *)

\* Seen(k) is the contents of the one valid buffer of k, else the disk's.
LEMMA SeenIs ==
  IInv => \A k \in Block : /\ \A b \in Buf : blockno[b] = k /\ valid[b] => Seen(k) = data[b]
                           /\ (\A b \in Buf : blockno[b] = k => ~valid[b]) => Seen(k) = disk[k]
<1> SUFFICES ASSUME IInv, NEW k \in Block
             PROVE  /\ \A b \in Buf : blockno[b] = k /\ valid[b] => Seen(k) = data[b]
                    /\ (\A b \in Buf : blockno[b] = k => ~valid[b]) => Seen(k) = disk[k]
  BY Zenon
<1>1. ASSUME NEW b \in Buf, blockno[b] = k, valid[b] PROVE Seen(k) = data[b]
  <2>1. Cached(k) = {b}
    BY <1>1, BioAssumption, Zenon DEF IInv, BlockInv, Cached
  <2> QED  BY <1>1, <2>1, Zenon DEF Seen
<1>2. ASSUME \A b \in Buf : blockno[b] = k => ~valid[b] PROVE Seen(k) = disk[k]
  BY <1>2, Zenon DEF Seen, Cached
<1> QED  BY <1>1, <1>2, Zenon

\* The same after a step.
LEMMA SeenIsNext ==
  IInv' => \A k \in Block : /\ \A b \in Buf : blockno'[b] = k /\ valid'[b] => Seen(k)' = data'[b]
                            /\ (\A b \in Buf : blockno'[b] = k => ~valid'[b]) => Seen(k)' = disk'[k]
<1>1. (IInv => \A k \in Block : /\ \A b \in Buf : blockno[b] = k /\ valid[b] => Seen(k) = data[b]
                                /\ (\A b \in Buf : blockno[b] = k => ~valid[b]) => Seen(k) = disk[k])'
  BY SeenIs, PTL
<1> QED  BY <1>1, Zenon

\* Recycling a buffer that nobody uses changes no block.
LEMMA RecycleSeenSame ==
  ASSUME IInv, IInv', NEW b \in Buf, NEW k \in Block, NEW j \in Block, Cached(j) = {}, Unused(b),
         Cached(k) \cap failed = {}, blockno' = [blockno EXCEPT ![b] = j], ResetFlags(b),
         data' = data, disk' = disk
  PROVE  Seen(k)' = Seen(k)
<1>1. /\ \A c \in Buf : blockno[c] = k /\ valid[c] => Seen(k) = data[c]
      /\ (\A c \in Buf : blockno[c] = k => ~valid[c]) => Seen(k) = disk[k]
  BY SeenIs, Zenon
<1>2. /\ \A c \in Buf : blockno'[c] = k /\ valid'[c] => Seen(k)' = data'[c]
      /\ (\A c \in Buf : blockno'[c] = k => ~valid'[c]) => Seen(k)' = disk'[k]
  BY SeenIsNext, Zenon
<1>3. /\ \A c \in Buf : c # b => blockno'[c] = blockno[c] /\ valid'[c] = valid[c]
      /\ blockno'[b] = j /\ ~valid'[b]
  BY DEF IInv, TypeOK, ResetFlags
<1>4. CASE \E c \in Buf : c # b /\ blockno[c] = k /\ valid[c]
  <2>1. PICK c \in Buf : c # b /\ blockno[c] = k /\ valid[c]
    BY <1>4, Zenon
  <2>2. Seen(k) = data[c] /\ Seen(k)' = data'[c]
    BY <1>1, <1>2, <1>3, <2>1, Zenon
  <2> QED  BY <2>2, Zenon
<1>5. CASE ~ \E c \in Buf : c # b /\ blockno[c] = k /\ valid[c]
  <2>1. Seen(k)' = disk[k]
    BY <1>2, <1>3, <1>5, Zenon
  <2>2. CASE blockno[b] = k /\ valid[b]
    <3>1. ~dirty[b] /\ b \notin failed
      BY <2>2, Zenon DEF Unused, Cached
    <3>2. \A q \in Proc : mine[q] = b => pc[q] # "changed"
      BY Counted, InUse, Zenon DEF Unused
    <3>3. data[b] = disk[k]
      BY <2>2, <3>1, <3>2, Zenon DEF IInv, ValidIsRead
    <3> QED  BY <1>1, <2>1, <2>2, <3>3, Zenon
  <2>3. CASE ~(blockno[b] = k /\ valid[b])
    BY <1>1, <1>5, <2>1, <2>3, Zenon
  <2> QED  BY <2>2, <2>3, Zenon
<1> QED  BY <1>4, <1>5, Zenon

\* The driver's work on buffer b changes no block, but for a read that failed.
LEMMA DoneSeenSame ==
  ASSUME IInv, IInv', NEW b \in Buf, NEW k \in Block, blockno' = blockno,
         Cached(k) \cap (failed \cup failed') = {}, ~valid[b] \/ dirty[b], blockno[b] \in Block, MarkDone(b),
         b \notin failed' => data'[b] = disk'[blockno[b]],
         dirty[b] => data' = data, ~dirty[b] => disk' = disk,
         \A c \in Buf : c # b => data'[c] = data[c],
         \A j \in Block : j # blockno[b] => disk'[j] = disk[j]
  PROVE  Seen(k)' = Seen(k)
<1>1. /\ \A c \in Buf : blockno[c] = k /\ valid[c] => Seen(k) = data[c]
      /\ (\A c \in Buf : blockno[c] = k => ~valid[c]) => Seen(k) = disk[k]
  BY SeenIs, Zenon
<1>2. /\ \A c \in Buf : blockno'[c] = k /\ valid'[c] => Seen(k)' = data'[c]
      /\ (\A c \in Buf : blockno'[c] = k => ~valid'[c]) => Seen(k)' = disk'[k]
  BY SeenIsNext, Zenon
<1>3. /\ valid'[b] /\ \A c \in Buf : c # b => valid'[c] = valid[c]
  BY DEF IInv, TypeOK, MarkDone
<1>4. CASE blockno[b] = k
  <2>1. b \notin failed' /\ Seen(k)' = data'[b]
    BY <1>2, <1>3, <1>4, Zenon DEF Cached
  <2>2. CASE dirty[b]
    BY <1>1, <1>4, <2>1, <2>2 DEF IInv, BlockInv
  <2>3. CASE ~dirty[b]
    <3>1. \A c \in Buf : blockno[c] = k => ~valid[c]
      BY <1>4, <2>3, BioAssumption DEF IInv, BlockInv
    <3> QED  BY <1>1, <1>4, <2>1, <2>3, <3>1, Zenon
  <2> QED  BY <2>2, <2>3, Zenon
<1>5. CASE blockno[b] # k
  <2>1. CASE \E c \in Buf : blockno[c] = k /\ valid[c]
    <3>1. PICK c \in Buf : blockno[c] = k /\ valid[c]
      BY <2>1, Zenon
    <3>2. c # b /\ valid'[c] /\ blockno'[c] = k /\ data'[c] = data[c]
      BY <1>3, <1>5, <3>1, Zenon
    <3> QED  BY <1>1, <1>2, <3>1, <3>2
  <2>2. CASE \A c \in Buf : blockno[c] = k => ~valid[c]
    <3>1. \A c \in Buf : blockno'[c] = k => ~valid'[c]
      BY <1>3, <1>5, <2>2, Zenon
    <3>2. Seen(k)' = disk'[k] /\ Seen(k) = disk[k]
      BY <1>1, <1>2, <2>2, <3>1, Zenon
    <3> QED  BY <1>5, <3>2, Zenon
  <2> QED  BY <2>1, <2>2, Zenon
<1> QED  BY <1>4, <1>5, Zenon

\* Only the process that has a block locked changes what a reader of it would see.
LEMMA SeenStep ==
  IInv /\ IInv' /\ [Next]_vars =>
    [\A k \in Block : Seen(k)' # Seen(k) /\ Cached(k) \cap (failed \cup failed') = {} =>
       \E p \in Proc : pc[p] = "have" /\ blockno[mine[p]] = k /\ pc'[p] = "changed"]_vars
<1> DEFINE Ok(k) == Seen(k)' # Seen(k) /\ Cached(k) \cap (failed \cup failed') = {} =>
                    \E p \in Proc : pc[p] = "have" /\ blockno[mine[p]] = k /\ pc'[p] = "changed"
<1>1. ASSUME NEW k \in Block, UNCHANGED <<blockno, valid, data, disk>> PROVE Ok(k)
  <2>1. Seen(k)' = Seen(k)
    BY <1>1 DEF Seen, Cached
  <2> QED  BY <2>1, Zenon
<1>2. ASSUME IInv, IInv', Ideintr, NEW k \in Block PROVE Ok(k)
  <2>1. PICK p \in Proc : pc[p] = "iosleep" /\ mine[p] = Head(idequeue)
    BY <1>2, Counted, HeadOwner, Zenon
  <2>2. PICK b \in Buf : b = mine[p]
    BY <1>2, Zenon DEF IInv, TypeOK
  <2>3. /\ blockno[b] \in Block /\ (~valid[b] \/ dirty[b])
        /\ MarkDone(b) /\ Transfer(b) /\ blockno' = blockno
    BY <1>2, <2>1, <2>2, Zenon DEF Ideintr, IInv, BlockInv, FlagInv
  <2>4. /\ b \notin failed' => data'[b] = disk'[blockno[b]]
        /\ dirty[b] => data' = data
        /\ ~dirty[b] => disk' = disk
        /\ \A c \in Buf : c # b => data'[c] = data[c]
        /\ \A j \in Block : j # blockno[b] => disk'[j] = disk[j]
    BY <1>2, <2>3, Counted, TransferFacts, Zenon
  <2> QED  BY <1>2, <2>3, <2>4, DoneSeenSame, Zenon
<1>3. ASSUME IInv, IInv', NEW p \in Proc, MemRw(p), NEW k \in Block PROVE Ok(k)
  <2>1. PICK b \in Buf : b = mine[p]
    BY <1>3, Zenon DEF IInv, TypeOK
  <2>2. /\ blockno[b] \in Block /\ (~valid[b] \/ dirty[b])
        /\ MarkDone(b) /\ blockno' = blockno
    BY <1>3, <2>1, Zenon DEF MemRw, IInv, BlockInv, FlagInv
  <2>3. /\ data'[b] = disk'[blockno[b]]
        /\ dirty[b] => data' = data
        /\ ~dirty[b] => disk' = disk
        /\ \A c \in Buf : c # b => data'[c] = data[c]
        /\ \A j \in Block : j # blockno[b] => disk'[j] = disk[j]
    BY <1>3, <2>1, <2>2 DEF MemRw, IInv, TypeOK
  <2> QED  BY <1>3, <2>2, <2>3, DoneSeenSame, Zenon
<1>4. ASSUME IInv, IInv', NEW p \in Proc, Change(p), NEW k \in Block PROVE Ok(k)
  <2>1. PICK b \in Buf : b = mine[p]
    BY <1>4, Zenon DEF IInv, TypeOK
  <2>2. /\ pc[p] = "have" /\ pc'[p] = "changed"
        /\ \A c \in Buf : c # b => data'[c] = data[c]
        /\ UNCHANGED <<blockno, valid, disk>>
    <3>1. data \in [Buf -> Val] /\ pc \in [Proc -> PcLoc]
      BY <1>4, Zenon DEF IInv, TypeOK
    <3>2. PICK v \in Val : data' = [data EXCEPT ![b] = v]
      BY <1>4, <2>1, Zenon DEF Change
    <3>3. pc[p] = "have" /\ pc' = [pc EXCEPT ![p] = "changed"] /\ UNCHANGED <<blockno, valid, disk>>
      BY <1>4, Zenon DEF Change, Goto
    <3> QED  BY <3>1, <3>2, <3>3, Zenon
  <2>3. CASE blockno[b] = k
    BY <2>1, <2>2, <2>3, Zenon
  <2>4. CASE blockno[b] # k
    <3>1. Cached(k)' = Cached(k) /\ \A c \in Cached(k) : data'[c] = data[c] /\ valid'[c] = valid[c]
      BY <2>2, <2>4, Zenon DEF Cached
    <3>2. (CHOOSE c \in Cached(k) : TRUE)' = CHOOSE c \in Cached(k) : TRUE
      BY <3>1, Zenon
    <3> QED  BY <2>2, <3>1, <3>2, Zenon DEF Seen
  <2> QED  BY <2>3, <2>4, Zenon
<1>5. ASSUME IInv, IInv', NEW p \in Proc, NEW j \in Block, Bget(p, j), NEW k \in Block PROVE Ok(k)
  <2>1. PICK pos : pos = {i \in Buf : Unused(lru[i])}
    BY Zenon
  <2>2. PICK b : b = lru[CHOOSE i \in pos : \A l \in pos : l <= i]
    BY Zenon
  <2>3. UNCHANGED <<data, disk>>
    BY <1>5, Zenon DEF Bget
  <2>4. \/ UNCHANGED <<blockno, valid>>
        \/ Cached(j) = {} /\ pos # {} /\ blockno' = [blockno EXCEPT ![b] = j] /\ ResetFlags(b)
    BY <1>5, <2>1, <2>2, Zenon DEF Bget
  <2>5. CASE UNCHANGED <<blockno, valid>>
    BY <1>1, <2>3, <2>5, Zenon
  <2>6. CASE Cached(j) = {} /\ pos # {} /\ blockno' = [blockno EXCEPT ![b] = j] /\ ResetFlags(b)
    <3>1. b \in Buf /\ Unused(b)
      BY <1>5, <2>1, <2>2, <2>6, Counted, RecycledUnused, Zenon
    <3>2. Cached(k) \cap failed = {} => Seen(k)' = Seen(k)
      BY <1>5, <2>3, <2>6, <3>1, RecycleSeenSame, Zenon
    <3> QED  BY <3>2, Zenon
  <2> QED  BY <2>4, <2>5, <2>6, Zenon
<1> SUFFICES ASSUME IInv, IInv', [Next]_vars, NEW k \in Block PROVE Ok(k)
  BY Zenon
<1> HIDE DEF Ok
<1>6. CASE UNCHANGED vars
  BY <1>1, <1>6, Zenon DEF vars, bufs
<1>7. ASSUME NEW p \in Proc, Step(p) PROVE Ok(k)
  BY <1>1, <1>3, <1>7, Zenon DEF Step, Acquiresleep, Releasesleep, Unref, Iderw, bufs
<1>8. ASSUME NEW p \in Proc, Use(p) PROVE Ok(k)
  BY <1>1, <1>4, <1>5, <1>8, Zenon DEF Use, Bwrite, LogWrite
<1> QED  BY <1>2, <1>6, <1>7, <1>8, Zenon DEF Next

\* Only the process that has a block locked changes what a reader of it would see:
\* recycling, eviction, write-back and reading keep it, but for a read that failed.
THEOREM BlocksAreStable == Spec => BlockStable
<1>1. IInv /\ IInv' /\ [Next]_vars =>
        [\A k \in Block : Seen(k)' # Seen(k) /\ Cached(k) \cap (failed \cup failed') = {} =>
           \E p \in Proc : pc[p] = "have" /\ blockno[mine[p]] = k /\ pc'[p] = "changed"]_vars
  BY SeenStep, Zenon
<1> QED  BY <1>1, BioInvariant, PTL DEF Spec, BlockStable

=============================================================================
