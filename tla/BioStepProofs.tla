--------------------------- MODULE BioStepProofs ---------------------------
(***************************************************************************)
(* Every step of Bio keeps the invariant of BioInv, and only the holder of *)
(* a block changes it, given the facts about finite sets of Counting.      *)
(***************************************************************************)
EXTENDS BioInv, Counting, TLAPS

-----------------------------------------------------------------------------
(* References and pins. *)

\* There are finitely many users of a buffer.
LEMMA UsersFinite ==
  ASSUME FiniteSetFacts, NEW b PROVE IsFiniteSet(Users(b)) /\ Cardinality(Users(b)) \in 0..Cardinality(Proc)
<1>1. IsFiniteSet(Proc) /\ Users(b) \in SUBSET Proc
  BY BioAssumption, Zenon DEF Users
<1> QED  BY <1>1 DEF FiniteSetFacts, Subset, CardinalityType

\* A buffer in use has a reference.
LEMMA InUse ==
  ASSUME FiniteSetFacts, IInv, NEW p \in Proc, pc[p] # "out"
  PROVE  mine[p] \in Buf /\ refcnt[mine[p]] # 0
<1>1. mine[p] \in Buf /\ p \in Users(mine[p])
  BY Zenon DEF IInv, TypeOK, Users
<1>2. Cardinality(Users(mine[p])) # 0
  BY <1>1, UsersFinite, Zenon DEF FiniteSetFacts, EmptySet
<1> QED  BY <1>1, <1>2, Zenon DEF IInv, RefInv

\* refcnt is right, and in its range, when users and counts are as before.
LEMMA UsersSame ==
  ASSUME FiniteSetFacts, IInv, mine' = mine, refcnt' = refcnt, \A q \in Proc : pc'[q] = "out" <=> pc[q] = "out"
  PROVE  RefInv'
<1>1. \A b \in Buf : Users(b)' = Users(b)
  BY Zenon DEF Users
<1> QED  BY <1>1, Zenon DEF IInv, RefInv

\* The pinned buffers are finitely many.
LEMMA PinnedFinite ==
  ASSUME FiniteSetFacts PROVE IsFiniteSet(Pinned) /\ Cardinality(Pinned) \in Nat
<1>1. IsFiniteSet(Buf) /\ Pinned \in SUBSET Buf
  BY BioAssumption DEF FiniteSetFacts, Interval, Buf, Pinned
<1> QED  BY <1>1, Zenon DEF FiniteSetFacts, Subset, CardinalityType

\* They are no more than before when none is added.
LEMMA PinnedFewer ==
  ASSUME FiniteSetFacts, IInv, Pinned' \subseteq Pinned PROVE PinInv'
<1>1. Cardinality(Pinned') <= Cardinality(Pinned) /\ Cardinality(Pinned') \in Nat
  <2>1. Pinned' \in SUBSET Pinned
    BY Zenon
  <2> QED  BY <2>1, PinnedFinite, Zenon DEF FiniteSetFacts, Subset, CardinalityType
<1>2. Cardinality(Pinned) <= MAXPIN
  BY Zenon DEF IInv, PinInv
<1> QED  BY <1>1, <1>2, PinnedFinite, BioAssumption DEF PinInv

-----------------------------------------------------------------------------
(* bget *)

\* A set of positions in the list has a last one.
LEMMA LastPosition ==
  ASSUME FiniteSetFacts, NEW S \in SUBSET Buf, S # {}
  PROVE  (CHOOSE i \in S : \A j \in S : j <= i) \in S
<1>1. \E i \in S : \A j \in S : j <= i
  BY BioAssumption, Zenon DEF FiniteSetFacts, Greatest, Buf
<1> QED  BY <1>1, Zenon

\* The buffer that bget recycles is one that it may.
LEMMA RecycledUnused ==
  ASSUME FiniteSetFacts, IInv, NEW pos, pos = {i \in Buf : Unused(lru[i])}, pos # {},
         NEW b, b = lru[CHOOSE i \in pos : \A j \in pos : j <= i]
  PROVE  b \in Buf /\ Unused(b)
<1>1. pos \in SUBSET Buf
  BY Zenon
<1>2. (CHOOSE i \in pos : \A j \in pos : j <= i) \in pos
  BY <1>1, LastPosition, Zenon
<1> QED  BY <1>2 DEF IInv, TypeOK

\* A process that is outside takes a reference.
LEMMA TakeReference ==
  ASSUME FiniteSetFacts, IInv, NEW p \in Proc, pc[p] = "out", NEW b \in Buf,
         mine' = [mine EXCEPT ![p] = b], Goto(p, "lock"),
         refcnt' = [refcnt EXCEPT ![b] = refcnt[b] + 1]
  PROVE  RefInv' /\ refcnt' \in [Buf -> 0..Cardinality(Proc)]
<1>1. /\ \A q \in Proc : /\ mine'[q] = IF q = p THEN b ELSE mine[q]
                         /\ pc'[q] = IF q = p THEN "lock" ELSE pc[q]
  BY Zenon DEF IInv, TypeOK, Goto
<1>2. Users(b)' = Users(b) \cup {p} /\ p \notin Users(b)
  BY <1>1, Zenon DEF Users
<1>3. \A c \in Buf : c # b => Users(c)' = Users(c)
  BY <1>1, Zenon DEF Users
<1>4. Cardinality(Users(b)') = Cardinality(Users(b)) + 1
  BY <1>2, UsersFinite, Zenon DEF FiniteSetFacts, AddElement
<1>5. \A c \in Buf : refcnt'[c] = IF c = b THEN refcnt[b] + 1 ELSE refcnt[c]
  BY Zenon DEF IInv, TypeOK
<1>6. \A c \in Buf : refcnt[c] = Cardinality(Users(c))
  BY Zenon DEF IInv, RefInv
<1>7. RefInv'
  BY <1>3, <1>4, <1>5, <1>6, Zenon DEF RefInv
<1>8. \A c \in Buf : refcnt'[c] \in 0..Cardinality(Proc)
  <2>1. \A c \in Buf : Cardinality(Users(c)') \in 0..Cardinality(Proc)
    <3>1. \A c \in Buf : Users(c)' \in SUBSET Proc
      BY Zenon DEF Users
    <3> QED  BY <3>1, BioAssumption DEF FiniteSetFacts, Subset, CardinalityType
  <2> QED  BY <1>7, <2>1, Zenon DEF RefInv
<1>9. refcnt' = [c \in Buf |-> refcnt'[c]]
  BY Zenon DEF IInv, TypeOK
<1> QED  BY <1>7, <1>8, <1>9, Zenon

\* What p gains or loses outside the holder's part changes no pin.
LEMMA PinnedSame ==
  ASSUME NEW p \in Proc, dirty' = dirty, pc[p] \notin {"rw", "iosleep"}, pc'[p] \notin {"rw", "iosleep"},
         \A q \in Proc : q # p => mine'[q] = mine[q] /\ (pc'[q] \in {"rw", "iosleep"} <=> pc[q] \in {"rw", "iosleep"})
  PROVE  Pinned' = Pinned
BY Zenon DEF Pinned

\* The queue and the sleepers are as before.
LEMMA QueueSame ==
  ASSUME FiniteSetFacts, IInv, idequeue' = idequeue,
         \A q \in Proc : (pc'[q] = "iosleep" <=> pc[q] = "iosleep") /\ (pc[q] = "iosleep" => mine'[q] = mine[q])
  PROVE  QueueInv'
<1>1. \A i \in 1..Len(idequeue) : \E q \in Proc : pc[q] = "iosleep" /\ mine[q] = idequeue[i]
  BY Zenon DEF IInv, QueueInv
<1>2. \A q \in Proc : pc[q] = "iosleep" => \E i \in 1..Len(idequeue) : idequeue[i] = mine[q]
  BY Zenon DEF IInv, QueueInv
<1>3. ASSUME NEW i \in 1..Len(idequeue) PROVE \E q \in Proc : pc'[q] = "iosleep" /\ mine'[q] = idequeue[i]
  BY <1>1, Zenon
<1>4. ASSUME NEW q \in Proc, pc'[q] = "iosleep" PROVE \E i \in 1..Len(idequeue) : idequeue[i] = mine'[q]
  BY <1>2, <1>4, Zenon
<1> QED  BY <1>3, <1>4, Zenon DEF QueueInv

\* bget finds the block in the cache.
LEMMA BgetCached ==
  ASSUME FiniteSetFacts, IInv, NEW p \in Proc, NEW k \in Block, NEW c \in Cached(k), pc[p] = "out",
         refcnt' = [refcnt EXCEPT ![c] = refcnt[c] + 1], mine' = [mine EXCEPT ![p] = c], Goto(p, "lock"),
         UNCHANGED <<blockno, valid, dirty, data, locked, lru, idequeue, disk, panicked, failed, memide>>
  PROVE  IInv'
<1>1. c \in Buf /\ blockno[c] = k
  BY Zenon DEF Cached
<1>2. RefInv' /\ refcnt' \in [Buf -> 0..Cardinality(Proc)]
  BY <1>1, TakeReference, Zenon
<1>3. /\ mine' \in [Proc -> Buf] /\ pc' \in [Proc -> PcLoc]
      /\ \A q \in Proc : q # p => mine'[q] = mine[q] /\ pc'[q] = pc[q]
      /\ mine'[p] = c /\ pc'[p] = "lock"
  BY <1>1, Zenon DEF IInv, TypeOK, Goto, PcLoc
<1>4. TypeOK'
  BY <1>2, <1>3 DEF IInv, TypeOK
<1>5. BlockInv'
  BY <1>1, <1>3, Zenon DEF IInv, BlockInv
<1>6. LockInv'
  BY <1>3 DEF IInv, LockInv, SleepersHaveHolder, HolderLoc
<1>7. FlagInv'
  BY <1>3, Zenon DEF IInv, FlagInv
<1>8. QueueInv'
  BY <1>3, QueueSame, Zenon
<1>9. ValidIsRead'
  BY <1>3 DEF IInv, ValidIsRead
<1>10. PinInv'
  BY <1>3, PinnedSame, PinnedFewer, Zenon
<1> QED  BY <1>2, <1>4, <1>5, <1>6, <1>7, <1>8, <1>9, <1>10, Zenon DEF IInv

\* bget recycles a buffer that nobody uses.
LEMMA BgetRecycled ==
  ASSUME FiniteSetFacts, IInv, NEW p \in Proc, NEW k \in Block, NEW b \in Buf, pc[p] = "out", Cached(k) = {}, Unused(b),
         blockno' = [blockno EXCEPT ![b] = k], refcnt' = [refcnt EXCEPT ![b] = 1], ResetFlags(b),
         mine' = [mine EXCEPT ![p] = b], Goto(p, "lock"),
         UNCHANGED <<data, locked, lru, idequeue, disk, panicked, failed, memide>>
  PROVE  IInv'
<1>1. refcnt[b] = 0 /\ ~dirty[b] /\ refcnt' = [refcnt EXCEPT ![b] = refcnt[b] + 1]
  BY DEF Unused
<1>2. RefInv' /\ refcnt' \in [Buf -> 0..Cardinality(Proc)]
  BY <1>1, TakeReference, Zenon
<1>3. /\ mine' \in [Proc -> Buf] /\ pc' \in [Proc -> PcLoc]
      /\ \A q \in Proc : q # p => mine'[q] = mine[q] /\ pc'[q] = pc[q]
      /\ mine'[p] = b /\ pc'[p] = "lock"
  BY Zenon DEF IInv, TypeOK, Goto, PcLoc
<1>4. \A q \in Proc : pc[q] # "out" => mine[q] # b
  BY <1>1, InUse, Zenon
<1>5. ~locked[b]
  BY <1>4, Zenon DEF IInv, LockInv, HolderLoc
<1>6. /\ \A c \in Buf : c # b => blockno'[c] = blockno[c] /\ valid'[c] = valid[c]
      /\ blockno'[b] = k /\ valid'[b] = FALSE /\ dirty' = dirty
  <2>1. dirty' = dirty
    BY <1>1 DEF IInv, TypeOK, ResetFlags
  <2> QED  BY <2>1 DEF IInv, TypeOK, ResetFlags
<1>7. TypeOK'
  <2>1. blockno' \in [Buf -> Block \cup {NoBlock}] /\ valid' \in [Buf -> BOOLEAN] /\ dirty' \in [Buf -> BOOLEAN]
    BY <1>6 DEF IInv, TypeOK, ResetFlags
  <2> QED  BY <1>2, <1>3, <2>1, ZenonT(30) DEF IInv, TypeOK
<1>8. BlockInv'
  <2>1. \A c \in Buf : blockno[c] # k
    BY Zenon DEF Cached
  <2>2. \A c, d \in Buf : blockno'[c] = blockno'[d] /\ blockno'[c] # NoBlock => c = d
    BY <1>6, <2>1 DEF IInv, BlockInv
  <2>3. \A c \in Buf : (dirty'[c] => valid'[c]) /\ (valid'[c] => blockno'[c] \in Block)
    BY <1>1, <1>6, Zenon DEF IInv, BlockInv
  <2>4. ASSUME NEW q \in Proc, pc'[q] # "out" PROVE blockno'[mine'[q]] \in Block
    <3>1. CASE q = p
      BY <1>3, <1>6, <3>1, Zenon
    <3>2. CASE q # p
      <4>1. mine[q] \in Buf /\ blockno[mine[q]] \in Block /\ mine'[q] = mine[q] /\ mine[q] # b
        BY <1>3, <1>4, <2>4, <3>2, Zenon DEF IInv, TypeOK, BlockInv
      <4> QED  BY <1>6, <4>1, Zenon
    <3> QED  BY <3>1, <3>2, Zenon
  <2> QED  BY <2>2, <2>3, <2>4, Zenon DEF BlockInv
<1>9. LockInv'
  BY <1>3, <1>5 DEF IInv, LockInv, SleepersHaveHolder, HolderLoc
<1>10. FlagInv'
  BY <1>3, <1>4, <1>6, ZenonT(30) DEF IInv, TypeOK, FlagInv
<1>11. QueueInv'
  BY <1>3, QueueSame, Zenon
<1>12. ValidIsRead'
  BY <1>3, <1>6 DEF IInv, ValidIsRead
<1>13. PinInv'
  BY <1>3, <1>6, PinnedSame, PinnedFewer, Zenon
<1> QED  BY <1>2, <1>7, <1>8, <1>9, <1>10, <1>11, <1>12, <1>13, Zenon DEF IInv

\* bget, whichever way it goes.
LEMMA BgetStep ==
  ASSUME FiniteSetFacts, IInv, NEW p \in Proc, NEW k \in Block, Bget(p, k), UNCHANGED <<failed, memide>>
  PROVE  IInv'
<1>1. PICK pos : pos = {i \in Buf : Unused(lru[i])}
  BY Zenon
<1>2. PICK b : b = lru[CHOOSE i \in pos : \A j \in pos : j <= i]
  BY Zenon
<1>3. /\ pc[p] = "out"
      /\ UNCHANGED <<data, locked, lru, idequeue, disk>>
  BY Zenon DEF Bget
<1>4. \/ \E c \in Cached(k) :
            /\ refcnt' = [refcnt EXCEPT ![c] = refcnt[c] + 1]
            /\ mine' = [mine EXCEPT ![p] = c]
            /\ Goto(p, "lock")
            /\ UNCHANGED <<blockno, valid, dirty, panicked>>
      \/ /\ Cached(k) = {} /\ pos # {}
         /\ blockno' = [blockno EXCEPT ![b] = k] /\ refcnt' = [refcnt EXCEPT ![b] = 1]
         /\ ResetFlags(b)
         /\ mine' = [mine EXCEPT ![p] = b]
         /\ Goto(p, "lock")
         /\ UNCHANGED panicked
      \/ /\ panicked' = TRUE
         /\ UNCHANGED <<blockno, refcnt, valid, dirty, mine, pc>>
  BY <1>1, <1>2, Zenon DEF Bget
<1>5. CASE \E c \in Cached(k) :
            /\ refcnt' = [refcnt EXCEPT ![c] = refcnt[c] + 1]
            /\ mine' = [mine EXCEPT ![p] = c]
            /\ Goto(p, "lock")
            /\ UNCHANGED <<blockno, valid, dirty, panicked>>
  BY <1>3, <1>5, BgetCached, Zenon
<1>6. CASE /\ Cached(k) = {} /\ pos # {}
           /\ blockno' = [blockno EXCEPT ![b] = k] /\ refcnt' = [refcnt EXCEPT ![b] = 1]
           /\ ResetFlags(b)
           /\ mine' = [mine EXCEPT ![p] = b]
           /\ Goto(p, "lock")
           /\ UNCHANGED panicked
  <2>1. b \in Buf /\ Unused(b)
    BY <1>1, <1>2, <1>6, RecycledUnused, Zenon
  <2> QED  BY <1>3, <1>6, <2>1, BgetRecycled, Zenon
<1>7. CASE panicked' = TRUE /\ UNCHANGED <<blockno, refcnt, valid, dirty, mine, pc>>
  <2>1. TypeOK' /\ BlockInv'
    BY <1>3, <1>7, Zenon DEF IInv, TypeOK, BlockInv
  <2>2. LockInv' /\ FlagInv'
    BY <1>3, <1>7, Zenon DEF IInv, LockInv, FlagInv, SleepersHaveHolder
  <2>3. ValidIsRead' /\ QueueInv'
    BY <1>3, <1>7 DEF IInv, ValidIsRead, QueueInv
  <2>4. RefInv' /\ PinInv'
    BY <1>3, <1>7, UsersSame, Zenon DEF IInv, PinInv, Pinned
  <2> QED  BY <2>1, <2>2, <2>3, <2>4, Zenon DEF IInv
<1> QED  BY <1>4, <1>5, <1>6, <1>7, Zenon

-----------------------------------------------------------------------------
(* The sleeping lock *)

\* acquiresleep takes the lock or sleeps for it.
LEMMA AcquiresleepStep ==
  ASSUME FiniteSetFacts, IInv, NEW p \in Proc, Acquiresleep(p), UNCHANGED <<failed, memide>>
  PROVE  IInv'
<1>1. PICK b \in Buf : b = mine[p]
  BY Zenon DEF IInv, TypeOK
<1>2. PICK loc \in {"locksleep", "have", "rw"} :
         /\ pc[p] = "lock" /\ Goto(p, loc)
         /\ IF locked[b] THEN loc = "locksleep" /\ locked' = locked
            ELSE /\ locked' = [locked EXCEPT ![b] = TRUE]
                 /\ valid[b] => loc = "have"
                 /\ ~valid[b] => loc = "rw"
         /\ UNCHANGED <<blockno, refcnt, valid, dirty, data, lru, idequeue, disk, mine, panicked>>
  BY <1>1, Zenon DEF Acquiresleep, bufs, Goto
<1>3. /\ pc' \in [Proc -> PcLoc] /\ pc'[p] = loc
      /\ \A q \in Proc : q # p => pc'[q] = pc[q]
  BY <1>2, Zenon DEF IInv, TypeOK, Goto, PcLoc
<1>4. locked' \in [Buf -> BOOLEAN] /\ locked'[b] = TRUE /\ \A c \in Buf : c # b => locked'[c] = locked[c]
  BY <1>2 DEF IInv, TypeOK
<1>5. TypeOK'
  BY <1>2, <1>3, <1>4, SMTT(30) DEF IInv, TypeOK
<1>6. RefInv' /\ BlockInv'
  <2>1. RefInv'
    BY <1>2, <1>3, UsersSame, Zenon
  <2> QED  BY <1>2, <1>3, <2>1, Zenon DEF IInv, BlockInv
<1>7. LockInv'
  <2>1. ~locked[b] => \A q \in Proc : ~(mine[q] = b /\ pc[q] \in HolderLoc)
    BY DEF IInv, LockInv
  <2>2. (\A q \in Proc : pc'[q] \in HolderLoc => locked'[mine'[q]]) /\ SleepersHaveHolder'
    <3>1. \A q \in Proc : mine[q] \in Buf /\ (locked[mine[q]] => locked'[mine[q]])
      BY <1>4, Zenon DEF IInv, TypeOK
    <3>2. \A q \in Proc : q # p /\ pc'[q] \in HolderLoc \cup {"locksleep"} => locked[mine[q]]
      BY <1>3, Zenon DEF IInv, LockInv, SleepersHaveHolder
    <3> QED  BY <1>1, <1>2, <1>4, <3>1, <3>2, Zenon DEF SleepersHaveHolder
  <2>3. ASSUME NEW c \in Buf, locked'[c] PROVE \E q \in Proc : mine'[q] = c /\ pc'[q] \in HolderLoc
    <3>1. CASE locked[c]
      BY <1>2, <1>3, <3>1 DEF IInv, LockInv, HolderLoc
    <3>2. CASE ~locked[c]
      BY <1>1, <1>2, <1>3, <1>4, <2>3, <3>2, Zenon DEF HolderLoc
    <3> QED  BY <3>1, <3>2, Zenon
  <2>4. \A q, r \in Proc : mine'[q] = mine'[r] /\ pc'[q] \in HolderLoc /\ pc'[r] \in HolderLoc => q = r
    BY <1>1, <1>2, <1>3, <2>1 DEF IInv, LockInv, HolderLoc
  <2> QED  BY <2>2, <2>3, <2>4, Zenon DEF LockInv
<1>8. FlagInv'
  BY <1>1, <1>2, <1>3, Zenon DEF IInv, FlagInv
<1>9. QueueInv'
  BY <1>2, <1>3, QueueSame, Zenon
<1>10. ValidIsRead'
  <2>1. ASSUME NEW c \in Buf, \A q \in Proc : mine'[q] = c => pc'[q] # "changed"
        PROVE  \A q \in Proc : mine[q] = c => pc[q] # "changed"
    BY <1>2, <1>3, <2>1, Zenon
  <2> QED  BY <1>2, <2>1, Zenon DEF IInv, ValidIsRead
<1>11. Pinned' \subseteq Pinned
  BY <1>2, <1>3, Zenon DEF Pinned
<1>12. PinInv'
  BY <1>11, PinnedFewer, Zenon
<1> QED  BY <1>5, <1>6, <1>7, <1>8, <1>9, <1>10, <1>12, Zenon DEF IInv

\* The step of a process that holds its buffer and only changes what is in it.
LEMMA HolderMoves ==
  ASSUME FiniteSetFacts, IInv, NEW p \in Proc, NEW loc \in HolderLoc, pc[p] \in HolderLoc, Goto(p, loc),
         UNCHANGED <<blockno, refcnt, locked, lru, mine, panicked, memide>>
  PROVE  /\ pc' \in [Proc -> PcLoc] /\ pc'[p] = loc
         /\ \A q \in Proc : q # p => pc'[q] = pc[q]
         /\ \A q \in Proc : q # p /\ pc[q] \in HolderLoc => mine[q] # mine[p]
         /\ RefInv' /\ LockInv'
<1>1. /\ pc' \in [Proc -> PcLoc] /\ pc'[p] = loc
      /\ \A q \in Proc : q # p => pc'[q] = pc[q]
  BY Zenon DEF IInv, TypeOK, Goto, PcLoc, HolderLoc
<1>2. \A q \in Proc : q # p /\ pc[q] \in HolderLoc => mine[q] # mine[p]
  BY Zenon DEF IInv, LockInv
<1>3. RefInv'
  BY <1>1, UsersSame, Zenon DEF HolderLoc
<1>4. LockInv'
  <2>1. \A q \in Proc : pc'[q] \in HolderLoc <=> pc[q] \in HolderLoc
    BY <1>1, Zenon
  <2>2. \A q \in Proc : pc'[q] = "locksleep" => pc[q] = "locksleep"
    BY <1>1, Zenon DEF HolderLoc
  <2> QED  BY <2>1, <2>2, Zenon DEF IInv, LockInv, SleepersHaveHolder
<1> QED  BY <1>1, <1>2, <1>3, <1>4, Zenon

\* The holder changes the contents.
LEMMA ChangeStep ==
  ASSUME FiniteSetFacts, IInv, NEW p \in Proc, Change(p), UNCHANGED <<failed, memide>>
  PROVE  IInv'
<1>1. PICK b \in Buf : b = mine[p]
  BY Zenon DEF IInv, TypeOK
<1>2. PICK v \in Val : data' = [data EXCEPT ![b] = v]
  BY <1>1, Zenon DEF Change
<1>3. /\ pc[p] = "have" /\ Goto(p, "changed")
      /\ UNCHANGED <<blockno, refcnt, valid, dirty, locked, lru, idequeue, disk, mine, panicked>>
  BY Zenon DEF Change
<1>4. /\ pc' \in [Proc -> PcLoc] /\ pc'[p] = "changed"
      /\ \A q \in Proc : q # p => pc'[q] = pc[q]
      /\ RefInv' /\ LockInv'
  BY <1>3, HolderMoves, Zenon DEF HolderLoc
<1>5. data' \in [Buf -> Val] /\ \A c \in Buf : c # b => data'[c] = data[c]
  BY <1>2, Zenon DEF IInv, TypeOK
<1>6. TypeOK'
  BY <1>3, <1>4, <1>5, Zenon DEF IInv, TypeOK
<1>7. BlockInv'
  BY <1>3, <1>4, Zenon DEF IInv, BlockInv
<1>8. FlagInv'
  BY <1>3, <1>4, Zenon DEF IInv, FlagInv
<1>9. QueueInv'
  BY <1>3, <1>4, QueueSame, Zenon
<1>10. ValidIsRead'
  <2>1. ASSUME NEW c \in Buf, \A q \in Proc : mine'[q] = c => pc'[q] # "changed"
        PROVE  c # b /\ \A q \in Proc : mine[q] = c => pc[q] # "changed"
    BY <1>1, <1>3, <1>4, <2>1, Zenon
  <2> QED  BY <1>3, <1>5, <2>1, Zenon DEF IInv, ValidIsRead
<1>11. PinInv'
  BY <1>3, <1>4, PinnedSame, PinnedFewer, Zenon
<1> QED  BY <1>4, <1>6, <1>7, <1>8, <1>9, <1>10, <1>11, Zenon DEF IInv

\* bwrite: the holder marks the buffer for iderw.
LEMMA BwriteStep ==
  ASSUME FiniteSetFacts, IInv, NEW p \in Proc, Bwrite(p), UNCHANGED <<failed, memide>>
  PROVE  IInv'
<1>1. PICK b \in Buf : b = mine[p]
  BY Zenon DEF IInv, TypeOK
<1>2. /\ pc[p] \in {"have", "changed"} /\ Goto(p, "rw") /\ dirty' = [dirty EXCEPT ![b] = TRUE]
      /\ UNCHANGED <<blockno, refcnt, valid, data, locked, lru, idequeue, disk, mine, panicked>>
  BY <1>1, Zenon DEF Bwrite
<1>3. /\ pc' \in [Proc -> PcLoc] /\ pc'[p] = "rw"
      /\ \A q \in Proc : q # p => pc'[q] = pc[q]
      /\ \A q \in Proc : q # p /\ pc[q] \in HolderLoc => mine[q] # b
      /\ RefInv' /\ LockInv'
  BY <1>1, <1>2, HolderMoves, Zenon DEF HolderLoc
<1>4. dirty' \in [Buf -> BOOLEAN] /\ dirty'[b] /\ \A c \in Buf : c # b => dirty'[c] = dirty[c]
  BY <1>2, Zenon DEF IInv, TypeOK
<1>5. valid[b]
  BY <1>1, <1>2, Zenon DEF IInv, FlagInv
<1>6. TypeOK'
  BY <1>2, <1>3, <1>4, Zenon DEF IInv, TypeOK
<1>7. BlockInv'
  BY <1>2, <1>3, <1>4, <1>5, Zenon DEF IInv, BlockInv
<1>8. FlagInv'
  BY <1>1, <1>2, <1>3, <1>4, Zenon DEF IInv, TypeOK, FlagInv, HolderLoc
<1>9. QueueInv'
  BY <1>2, <1>3, QueueSame, Zenon
<1>10. ValidIsRead'
  <2>1. ASSUME NEW c \in Buf, c # b, \A q \in Proc : mine'[q] = c => pc'[q] # "changed"
        PROVE  \A q \in Proc : mine[q] = c => pc[q] # "changed"
    BY <1>1, <1>2, <1>3, <2>1, Zenon
  <2> QED  BY <1>2, <1>4, <2>1 DEF IInv, ValidIsRead
<1>11. Pinned' \subseteq Pinned
  BY <1>1, <1>2, <1>3, <1>4, Zenon DEF Pinned
<1>12. PinInv'
  BY <1>11, PinnedFewer, Zenon
<1> QED  BY <1>3, <1>6, <1>7, <1>8, <1>9, <1>10, <1>12, Zenon DEF IInv

\* log_write: the holder marks the buffer and keeps it.
LEMMA LogWriteStep ==
  ASSUME FiniteSetFacts, IInv, NEW p \in Proc, LogWrite(p), UNCHANGED <<failed, memide>>
  PROVE  IInv'
<1>1. PICK b \in Buf : b = mine[p]
  BY Zenon DEF IInv, TypeOK
<1>2. /\ pc[p] = "changed" /\ Goto(p, "have") /\ dirty' = [dirty EXCEPT ![b] = TRUE]
      /\ UNCHANGED <<blockno, refcnt, valid, data, locked, lru, idequeue, disk, mine, panicked>>
  BY <1>1, Zenon DEF LogWrite
<1>3. /\ pc' \in [Proc -> PcLoc] /\ pc'[p] = "have"
      /\ \A q \in Proc : q # p => pc'[q] = pc[q]
      /\ \A q \in Proc : q # p /\ pc[q] \in HolderLoc => mine[q] # b
      /\ RefInv' /\ LockInv'
  BY <1>1, <1>2, HolderMoves, Zenon DEF HolderLoc
<1>4. dirty' \in [Buf -> BOOLEAN] /\ dirty'[b] /\ \A c \in Buf : c # b => dirty'[c] = dirty[c]
  BY <1>2, Zenon DEF IInv, TypeOK
<1>5. valid[b]
  BY <1>1, <1>2, Zenon DEF IInv, FlagInv
<1>6. TypeOK'
  BY <1>2, <1>3, <1>4, Zenon DEF IInv, TypeOK
<1>7. BlockInv'
  BY <1>2, <1>3, <1>4, <1>5, Zenon DEF IInv, BlockInv
<1>8. FlagInv'
  BY <1>1, <1>2, <1>3, <1>4, <1>5, Zenon DEF IInv, TypeOK, FlagInv, HolderLoc
<1>9. QueueInv'
  BY <1>2, <1>3, QueueSame, Zenon
<1>10. ValidIsRead'
  <2>1. ASSUME NEW c \in Buf, c # b, \A q \in Proc : mine'[q] = c => pc'[q] # "changed"
        PROVE  \A q \in Proc : mine[q] = c => pc[q] # "changed"
    BY <1>1, <1>2, <1>3, <2>1, Zenon
  <2> QED  BY <1>2, <1>4, <2>1, Zenon DEF IInv, ValidIsRead
<1>11. PinInv'
  <2>1. Pinned' \in SUBSET ((Pinned \ {b}) \cup {b})
    BY <1>1, <1>2, <1>3, <1>4, Zenon DEF Pinned
  <2>2. /\ IsFiniteSet(Pinned \ {b}) /\ Cardinality(Pinned \ {b}) \in Nat
        /\ IsFiniteSet((Pinned \ {b}) \cup {b})
        /\ Cardinality((Pinned \ {b}) \cup {b}) = Cardinality(Pinned \ {b}) + 1
    <3>1. IsFiniteSet(Pinned \ {b}) /\ Cardinality(Pinned \ {b}) \in Nat /\ b \notin Pinned \ {b}
      BY PinnedFinite, Zenon DEF FiniteSetFacts, RemoveElement, CardinalityType
    <3> QED  BY <3>1, Zenon DEF FiniteSetFacts, AddElement
  <2>3. Cardinality(Pinned') <= Cardinality((Pinned \ {b}) \cup {b}) /\ Cardinality(Pinned') \in Nat
    BY <2>1, <2>2, Zenon DEF FiniteSetFacts, Subset, CardinalityType
  <2>4. Cardinality(Pinned \ {b}) < MAXPIN
    BY <1>1, Zenon DEF LogWrite
  <2> QED  BY <2>2, <2>3, <2>4, BioAssumption DEF PinInv
<1> QED  BY <1>3, <1>6, <1>7, <1>8, <1>9, <1>10, <1>11, Zenon DEF IInv

\* releasesleep frees the lock and wakes whoever sleeps for it.
LEMMA ReleasesleepStep ==
  ASSUME FiniteSetFacts, IInv, NEW p \in Proc, Releasesleep(p), UNCHANGED <<failed, memide>>
  PROVE  IInv'
<1>1. PICK b \in Buf : b = mine[p]
  BY Zenon DEF IInv, TypeOK
<1>2. /\ pc[p] = "have" /\ locked' = [locked EXCEPT ![b] = FALSE]
      /\ pc' = [WakeAll(pc, {q \in Proc : mine[q] = b}, "locksleep", "lock") EXCEPT ![p] = "unref"]
      /\ UNCHANGED <<blockno, refcnt, valid, dirty, data, lru, idequeue, disk, mine, panicked>>
  BY <1>1, Zenon DEF Releasesleep, bufs
<1>3. /\ pc' \in [Proc -> PcLoc] /\ pc'[p] = "unref"
      /\ \A q \in Proc : q # p => pc'[q] = IF mine[q] = b /\ pc[q] = "locksleep" THEN "lock" ELSE pc[q]
  <2>1. WakeAll(pc, {q \in Proc : mine[q] = b}, "locksleep", "lock") \in [Proc -> PcLoc]
    BY Zenon DEF IInv, TypeOK, PcLoc, WakeAll
  <2> QED  BY <1>2, <2>1, Zenon DEF PcLoc, WakeAll
<1>4. locked' \in [Buf -> BOOLEAN] /\ ~locked'[b] /\ \A c \in Buf : c # b => locked'[c] = locked[c]
  BY <1>2, Zenon DEF IInv, TypeOK
<1>5. \A q \in Proc : q # p /\ pc[q] \in HolderLoc => mine[q] # b
  BY <1>1, <1>2, Zenon DEF IInv, LockInv, HolderLoc
<1>6. TypeOK'
  BY <1>2, <1>3, <1>4 DEF IInv, TypeOK
<1>7. RefInv' /\ BlockInv'
  <2>1. \A q \in Proc : pc'[q] = "out" <=> pc[q] = "out"
    BY <1>2, <1>3, Zenon
  <2>2. RefInv'
    BY <1>2, <2>1, UsersSame, Zenon
  <2> QED  BY <1>2, <2>1, <2>2, ZenonT(30) DEF IInv, BlockInv
<1>8. LockInv'
  <2>1. \A q \in Proc : pc'[q] \in HolderLoc <=> q # p /\ pc[q] \in HolderLoc
    BY <1>3, Zenon DEF HolderLoc
  <2>2. \A q \in Proc : pc'[q] \in HolderLoc => locked'[mine'[q]]
    BY <1>2, <1>4, <1>5, <2>1, Zenon DEF IInv, TypeOK, LockInv
  <2>3. ASSUME NEW c \in Buf, locked'[c] PROVE \E q \in Proc : mine'[q] = c /\ pc'[q] \in HolderLoc
    BY <1>1, <1>2, <1>4, <2>1, <2>3 DEF IInv, LockInv
  <2>4. \A q, r \in Proc : mine'[q] = mine'[r] /\ pc'[q] \in HolderLoc /\ pc'[r] \in HolderLoc => q = r
    BY <1>2, <2>1, Zenon DEF IInv, LockInv
  <2>5. ASSUME NEW q \in Proc, pc'[q] = "locksleep" PROVE locked'[mine'[q]]
    <3>1. q # p /\ mine[q] # b /\ pc[q] = "locksleep" /\ mine[q] \in Buf
      BY <1>3, <2>5, Zenon DEF IInv, TypeOK
    <3> QED  BY <1>2, <1>4, <3>1, Zenon DEF IInv, LockInv, SleepersHaveHolder
  <2> QED  BY <2>2, <2>3, <2>4, <2>5, Zenon DEF LockInv, SleepersHaveHolder
<1>9. FlagInv'
  BY <1>2, <1>3, Zenon DEF IInv, FlagInv
<1>10. QueueInv'
  BY <1>2, <1>3, QueueSame, Zenon
<1>11. ValidIsRead'
  <2>1. \A q \in Proc : pc'[q] = "changed" <=> pc[q] = "changed"
    BY <1>2, <1>3, Zenon
  <2> QED  BY <1>2, <2>1, Zenon DEF IInv, ValidIsRead
<1>12. PinInv'
  BY <1>2, <1>3, PinnedSame, PinnedFewer, Zenon
<1> QED  BY <1>6, <1>7, <1>8, <1>9, <1>10, <1>11, <1>12, Zenon DEF IInv

\* Moving a buffer to the front keeps every buffer in the list.
LEMMA FrontKeepsAll ==
  ASSUME FiniteSetFacts, IInv, NEW n \in Buf
  PROVE  MovedToFront(n) \in [Buf -> Buf] /\ \A c \in Buf : \E i \in Buf : MovedToFront(n)[i] = c
<1> DEFINE m == MovedToFront(n)
<1>1. /\ m \in [Buf -> Buf]
      /\ \A i \in Buf : m[i] = IF i = 1 THEN lru[n] ELSE IF i <= n THEN lru[i - 1] ELSE lru[i]
  <2>1. \A i \in Buf : i # 1 => i - 1 \in Buf
    BY BioAssumption DEF Buf
  <2>2. lru \in [Buf -> Buf]
    BY Zenon DEF IInv, TypeOK
  <2> QED  BY <2>1, <2>2, Zenon DEF MovedToFront
<1>2. ASSUME NEW c \in Buf PROVE \E i \in Buf : m[i] = c
  <2> HIDE DEF m
  <2>1. PICK i \in Buf : lru[i] = c
    BY Zenon DEF IInv, TypeOK
  <2>2. CASE i = n
    <3>1. 1 \in Buf
      BY BioAssumption DEF Buf
    <3> QED  BY <1>1, <2>1, <2>2, <3>1, Zenon
  <2>3. CASE i < n
    <3>1. i + 1 \in Buf /\ i + 1 # 1 /\ i + 1 <= n /\ (i + 1) - 1 = i
      BY <2>3, BioAssumption DEF Buf
    <3> QED  BY <1>1, <2>1, <3>1, Zenon
  <2>4. CASE i > n
    <3>1. i # 1 /\ ~(i <= n)
      BY <2>4, BioAssumption DEF Buf
    <3> QED  BY <1>1, <2>1, <3>1, Zenon
  <2> QED  BY <2>2, <2>3, <2>4, BioAssumption DEF Buf
<1> QED  BY <1>1, <1>2, Zenon

\* brelse drops the reference.
LEMMA UnrefStep ==
  ASSUME FiniteSetFacts, IInv, NEW p \in Proc, Unref(p), UNCHANGED <<failed, memide>>
  PROVE  IInv'
<1>1. PICK b \in Buf : b = mine[p]
  BY Zenon DEF IInv, TypeOK
<1>2. /\ pc[p] = "unref" /\ Goto(p, "out") /\ refcnt' = [refcnt EXCEPT ![b] = refcnt[b] - 1]
      /\ UNCHANGED <<blockno, valid, dirty, data, locked, idequeue, disk, mine, panicked>>
  BY <1>1, Zenon DEF Unref
<1>3. /\ pc' \in [Proc -> PcLoc] /\ pc'[p] = "out"
      /\ \A q \in Proc : q # p => pc'[q] = pc[q]
  BY <1>2, Zenon DEF IInv, TypeOK, Goto, PcLoc
<1>4. lru' \in [Buf -> Buf] /\ \A c \in Buf : \E i \in Buf : lru'[i] = c
  <2>1. PICK n \in Buf : n = CHOOSE i \in Buf : lru[i] = b
    BY Zenon DEF IInv, TypeOK
  <2>2. lru' = lru \/ lru' = MovedToFront(n)
    BY <1>1, <2>1, Zenon DEF Unref
  <2>3. CASE lru' = lru
    BY <2>3, Zenon DEF IInv, TypeOK
  <2>4. CASE lru' = MovedToFront(n)
    BY <2>4, FrontKeepsAll, Zenon
  <2> QED  BY <2>2, <2>3, <2>4, Zenon
<1>5. RefInv' /\ refcnt' \in [Buf -> 0..Cardinality(Proc)]
  <2>1. Users(b)' = Users(b) \ {p} /\ p \in Users(b)
    BY <1>1, <1>2, <1>3, Zenon DEF Users
  <2>2. \A c \in Buf : c # b => Users(c)' = Users(c)
    BY <1>1, <1>2, <1>3, Zenon DEF Users
  <2>3. Cardinality(Users(b)') = Cardinality(Users(b)) - 1
    BY <2>1, UsersFinite, Zenon DEF FiniteSetFacts, RemoveElement
  <2>4. \A c \in Buf : refcnt'[c] = IF c = b THEN refcnt[b] - 1 ELSE refcnt[c]
    BY <1>2, Zenon DEF IInv, TypeOK
  <2>5. \A c \in Buf : refcnt[c] = Cardinality(Users(c))
    BY Zenon DEF IInv, RefInv
  <2>6. RefInv'
    BY <2>2, <2>3, <2>4, <2>5, Zenon DEF RefInv
  <2>7. \A c \in Buf : refcnt'[c] \in 0..Cardinality(Proc)
    <3>1. \A c \in Buf : Users(c)' \in SUBSET Proc
      BY Zenon DEF Users
    <3>2. \A c \in Buf : Cardinality(Users(c)') \in 0..Cardinality(Proc)
      BY <3>1, BioAssumption DEF FiniteSetFacts, Subset, CardinalityType
    <3> QED  BY <2>6, <3>2, Zenon DEF RefInv
  <2>8. refcnt' = [c \in Buf |-> refcnt'[c]]
    BY <1>2, Zenon DEF IInv, TypeOK
  <2> QED  BY <2>6, <2>7, <2>8, Zenon
<1>6. TypeOK'
  BY <1>2, <1>3, <1>4, <1>5, ZenonT(30) DEF IInv, TypeOK
<1>7. BlockInv'
  BY <1>2, <1>3, Zenon DEF IInv, BlockInv
<1>8. LockInv'
  <2>1. \A q \in Proc : pc'[q] \in HolderLoc <=> pc[q] \in HolderLoc
    BY <1>2, <1>3, Zenon DEF HolderLoc
  <2>2. \A q \in Proc : pc'[q] = "locksleep" => pc[q] = "locksleep"
    BY <1>3, Zenon
  <2> QED  BY <1>2, <2>1, <2>2, Zenon DEF IInv, LockInv, SleepersHaveHolder
<1>9. FlagInv'
  BY <1>2, <1>3, Zenon DEF IInv, FlagInv
<1>10. QueueInv'
  BY <1>2, <1>3, QueueSame, Zenon
<1>11. ValidIsRead'
  <2>1. \A q \in Proc : pc'[q] = "changed" <=> pc[q] = "changed"
    BY <1>2, <1>3, Zenon
  <2> QED  BY <1>2, <2>1, Zenon DEF IInv, ValidIsRead
<1>12. PinInv'
  BY <1>2, <1>3, PinnedSame, PinnedFewer, Zenon
<1> QED  BY <1>5, <1>6, <1>7, <1>8, <1>9, <1>10, <1>11, <1>12, Zenon DEF IInv

-----------------------------------------------------------------------------
(* The driver *)

\* memide.c does the work at once.
LEMMA MemRwStep ==
  ASSUME FiniteSetFacts, IInv, NEW p \in Proc, MemRw(p), UNCHANGED <<failed, memide>>
  PROVE  IInv'
<1>1. PICK b \in Buf : b = mine[p]
  BY Zenon DEF IInv, TypeOK
<1>2. /\ pc[p] = "rw" /\ Goto(p, "have") /\ MarkDone(b)
      /\ UNCHANGED <<blockno, refcnt, locked, lru, idequeue, mine, panicked>>
  BY <1>1, ZenonT(30) DEF MemRw
<1>3. /\ pc' \in [Proc -> PcLoc] /\ pc'[p] = "have"
      /\ \A q \in Proc : q # p => pc'[q] = pc[q]
      /\ \A q \in Proc : q # p /\ pc[q] \in HolderLoc => mine[q] # b
      /\ RefInv' /\ LockInv'
  BY <1>1, <1>2, HolderMoves, Zenon DEF HolderLoc
<1>4. blockno[b] \in Block
  BY <1>1, <1>2, Zenon DEF IInv, BlockInv
<1>5. /\ data' \in [Buf -> Val] /\ disk' \in [Block -> Val] /\ data'[b] = disk'[blockno[b]]
      /\ \A c \in Buf : c # b => data'[c] = data[c]
      /\ \A k \in Block : k # blockno[b] => disk'[k] = disk[k]
  <2>1. data \in [Buf -> Val] /\ disk \in [Block -> Val]
    BY Zenon DEF IInv, TypeOK
  <2>2. CASE disk' = [disk EXCEPT ![blockno[b]] = data[b]] /\ data' = data
    BY <1>4, <2>1, <2>2, Zenon
  <2>3. CASE data' = [data EXCEPT ![b] = disk[blockno[b]]] /\ disk' = disk
    BY <1>4, <2>1, <2>3, Zenon
  <2> QED  BY <1>1, <2>2, <2>3, Zenon DEF MemRw
<1>6. /\ valid' \in [Buf -> BOOLEAN] /\ dirty' \in [Buf -> BOOLEAN] /\ valid'[b] /\ ~dirty'[b]
      /\ \A c \in Buf : c # b => valid'[c] = valid[c] /\ dirty'[c] = dirty[c]
  BY <1>2, Zenon DEF IInv, TypeOK, MarkDone
<1>7. TypeOK'
  BY <1>2, <1>3, <1>5, <1>6 DEF IInv, TypeOK
<1>8. BlockInv'
  BY <1>2, <1>3, <1>4, <1>6, Zenon DEF IInv, BlockInv
<1>9. FlagInv'
  <2>1. \A q \in Proc : q # p /\ pc[q] \in HolderLoc =>
                        mine[q] \in Buf /\ valid'[mine[q]] = valid[mine[q]] /\ dirty'[mine[q]] = dirty[mine[q]]
    BY <1>3, <1>6, Zenon DEF IInv, TypeOK
  <2> QED  BY <1>1, <1>2, <1>3, <1>6, <2>1 DEF IInv, FlagInv, HolderLoc
<1>10. QueueInv'
  BY <1>2, <1>3, QueueSame, ZenonT(30)
<1>11. ValidIsRead'
  <2> SUFFICES ASSUME NEW c \in Buf, valid'[c], ~dirty'[c], c \notin failed,
                      \A q \in Proc : mine'[q] = c => pc'[q] # "changed"
               PROVE  data'[c] = disk'[blockno'[c]]
    BY Zenon DEF ValidIsRead
  <2>1. CASE c = b
    BY <1>2, <1>5, <2>1, Zenon
  <2>2. CASE c # b
    <3>1. valid[c] /\ ~dirty[c] /\ \A q \in Proc : mine[q] = c => pc[q] # "changed"
      BY <1>2, <1>3, <1>6, <2>2
    <3>2. blockno[c] # blockno[b] /\ blockno[c] \in Block
      BY <1>4, <2>2, <3>1, BioAssumption, ZenonT(30) DEF IInv, BlockInv
    <3> QED  BY <1>2, <1>5, <2>2, <3>1, <3>2 DEF IInv, ValidIsRead
  <2> QED  BY <2>1, <2>2, Zenon
<1>12. Pinned' \subseteq Pinned
  BY <1>1, <1>2, <1>3, <1>6 DEF Pinned
<1>13. PinInv'
  BY <1>12, PinnedFewer, Zenon
<1> QED  BY <1>3, <1>7, <1>8, <1>9, <1>10, <1>11, <1>13, Zenon DEF IInv

\* iderw puts the request in the queue.
LEMMA IderwStep ==
  ASSUME FiniteSetFacts, IInv, NEW p \in Proc, Iderw(p), UNCHANGED <<failed, memide>>
  PROVE  IInv'
<1>1. PICK b \in Buf : b = mine[p]
  BY Zenon DEF IInv, TypeOK
<1>2. /\ pc[p] = "rw" /\ Goto(p, "iosleep") /\ idequeue' = Append(idequeue, b)
      /\ UNCHANGED <<blockno, refcnt, valid, dirty, data, locked, lru, disk, mine, panicked>>
  BY <1>1, ZenonT(30) DEF Iderw, bufs
<1>3. /\ pc' \in [Proc -> PcLoc] /\ pc'[p] = "iosleep"
      /\ \A q \in Proc : q # p => pc'[q] = pc[q]
      /\ \A q \in Proc : q # p /\ pc[q] \in HolderLoc => mine[q] # b
      /\ RefInv' /\ LockInv'
  BY <1>1, <1>2, HolderMoves, Zenon DEF HolderLoc
<1>4. PICK n \in Nat : n = Len(idequeue)
  BY DEF IInv, TypeOK
<1>5. /\ idequeue' \in Seq(Buf) /\ Len(idequeue') = n + 1 /\ idequeue'[n + 1] = b
      /\ \A i \in 1..n : idequeue'[i] = idequeue[i]
  BY <1>2, <1>4 DEF IInv, TypeOK
<1>6. ASSUME NEW i \in 1..n PROVE idequeue[i] # b
  <2>1. PICK q \in Proc : pc[q] = "iosleep" /\ mine[q] = idequeue[i]
    BY <1>4, Zenon DEF IInv, QueueInv
  <2>2. q # p /\ pc[q] \in HolderLoc
    BY <1>2, <2>1, Zenon DEF HolderLoc
  <2> QED  BY <1>3, <2>1, <2>2, Zenon
<1>7. \A i, j \in 1..Len(idequeue') : idequeue'[i] = idequeue'[j] => i = j
  <2>1. \A i, j \in 1..n : idequeue[i] = idequeue[j] => i = j
    BY <1>4, Zenon DEF IInv, TypeOK
  <2> QED  BY <1>5, <1>6, <2>1
<1>8. TypeOK'
  BY <1>2, <1>3, <1>5, <1>7, Zenon DEF IInv, TypeOK
<1>9. BlockInv' /\ FlagInv'
  BY <1>2, <1>3, ZenonT(30) DEF IInv, BlockInv, FlagInv
<1>10. QueueInv'
  <2>1. \A i \in 1..n : \E q \in Proc : pc[q] = "iosleep" /\ mine[q] = idequeue[i]
    BY <1>4, Zenon DEF IInv, QueueInv
  <2>2. \A q \in Proc : pc[q] = "iosleep" => \E i \in 1..n : idequeue[i] = mine[q]
    BY <1>4, Zenon DEF IInv, QueueInv
  <2>3. ASSUME NEW i \in 1..(n + 1) PROVE \E q \in Proc : pc'[q] = "iosleep" /\ mine'[q] = idequeue'[i]
    <3>1. CASE i = n + 1
      BY <1>1, <1>2, <1>3, <1>5, <3>1, Zenon
    <3>2. CASE i \in 1..n
      BY <1>2, <1>3, <1>5, <2>1, <3>2
    <3> QED  BY <3>1, <3>2
  <2>4. ASSUME NEW q \in Proc, pc'[q] = "iosleep" PROVE \E i \in 1..(n + 1) : idequeue'[i] = mine'[q]
    <3>1. CASE q = p
      BY <1>1, <1>2, <1>5, <3>1
    <3>2. CASE q # p
      <4>1. PICK i \in 1..n : idequeue[i] = mine[q]
        BY <1>3, <2>2, <2>4, <3>2, Zenon
      <4> QED  BY <1>2, <1>5, <4>1
    <3> QED  BY <3>1, <3>2, Zenon
  <2> QED  BY <1>5, <2>3, <2>4, ZenonT(30) DEF QueueInv
<1>11. ValidIsRead'
  <2>1. \A q \in Proc : pc'[q] = "changed" <=> pc[q] = "changed"
    BY <1>2, <1>3, Zenon
  <2> QED  BY <1>2, <2>1, Zenon DEF IInv, ValidIsRead
<1>12. Pinned' \subseteq Pinned
  BY <1>2, <1>3, Zenon DEF Pinned
<1>13. PinInv'
  BY <1>12, PinnedFewer, Zenon
<1> QED  BY <1>3, <1>8, <1>9, <1>10, <1>11, <1>13, Zenon DEF IInv

\* What a transfer leaves alone, and what it makes equal.
LEMMA TransferFacts ==
  ASSUME FiniteSetFacts, IInv, NEW b \in Buf, blockno[b] \in Block, Transfer(b)
  PROVE  /\ data' \in [Buf -> Val] /\ disk' \in [Block -> Val] /\ failed' \subseteq Buf
         /\ b \notin failed' => data'[b] = disk'[blockno[b]]
         /\ dirty[b] => data' = data
         /\ ~dirty[b] => disk' = disk
         /\ \A c \in Buf : c # b => data'[c] = data[c] /\ (c \in failed' <=> c \in failed)
         /\ \A k \in Block : k # blockno[b] => disk'[k] = disk[k]
<1>1. data \in [Buf -> Val] /\ disk \in [Block -> Val] /\ failed \subseteq Buf
  BY Zenon DEF IInv, TypeOK
<1>2. CASE dirty[b] /\ disk' = [disk EXCEPT ![blockno[b]] = data[b]] /\ failed' = failed \ {b} /\ data' = data
  BY <1>1, <1>2, Zenon
<1>3. CASE ~dirty[b] /\ data' = [data EXCEPT ![b] = disk[blockno[b]]] /\ failed' = failed \ {b} /\ disk' = disk
  BY <1>1, <1>3, Zenon
<1>4. CASE ~dirty[b] /\ failed' = failed \cup {b} /\ data' = data /\ disk' = disk
  BY <1>1, <1>4, Zenon
<1> QED  BY <1>2, <1>3, <1>4, Zenon DEF Transfer

\* The request at the head of the queue belongs to one process, and ideintr wakes it.
LEMMA HeadOwner ==
  ASSUME FiniteSetFacts, IInv, Ideintr
  PROVE  \E p \in Proc : pc[p] = "iosleep" /\ mine[p] = Head(idequeue) /\ Goto(p, "have")
<1>1. Len(idequeue) \in Nat /\ 1 \in 1..Len(idequeue) /\ Head(idequeue) = idequeue[1]
  BY DEF IInv, TypeOK, Ideintr
<1>2. PICK p \in Proc : pc[p] = "iosleep" /\ mine[p] = Head(idequeue)
  BY <1>1 DEF IInv, QueueInv
<1>3. \A q \in Proc : (mine[q] = Head(idequeue) /\ pc[q] = "iosleep") <=> q = p
  BY <1>2 DEF IInv, LockInv, HolderLoc
<1>4. pc' = [q \in Proc |-> IF q = p THEN "have" ELSE pc[q]]
  BY <1>3, Zenon DEF Ideintr, WakeAll
<1>5. Goto(p, "have")
  BY <1>4, Zenon DEF Goto, IInv, TypeOK
<1> QED  BY <1>2, <1>5, Zenon

\* ideintr finishes the request.
LEMMA IdeintrStep ==
  ASSUME FiniteSetFacts, IInv, Ideintr
  PROVE  IInv'
<1>1. PICK p \in Proc : pc[p] = "iosleep" /\ mine[p] = Head(idequeue) /\ Goto(p, "have")
  BY HeadOwner, Zenon
<1>2. PICK b \in Buf : b = mine[p]
  BY Zenon DEF IInv, TypeOK
<1>3. MarkDone(b) /\ Transfer(b) /\ idequeue' = Tail(idequeue) /\ idequeue # <<>> /\ b = Head(idequeue)
  BY <1>1, <1>2, Zenon DEF Ideintr
<1>same. UNCHANGED <<blockno, refcnt, locked, lru, mine, panicked, memide>>
  BY Zenon DEF Ideintr
<1>4. /\ pc' \in [Proc -> PcLoc] /\ pc'[p] = "have"
      /\ \A q \in Proc : q # p => pc'[q] = pc[q]
      /\ \A q \in Proc : q # p /\ pc[q] \in HolderLoc => mine[q] # b
      /\ RefInv' /\ LockInv'
  BY <1>1, <1>2, <1>same, HolderMoves, Zenon DEF HolderLoc
<1>5. blockno[b] \in Block
  BY <1>1, <1>2, Zenon DEF IInv, BlockInv
<1>6. /\ data' \in [Buf -> Val] /\ disk' \in [Block -> Val] /\ failed' \subseteq Buf
      /\ b \notin failed' => data'[b] = disk'[blockno[b]]
      /\ \A c \in Buf : c # b => data'[c] = data[c] /\ (c \in failed' <=> c \in failed)
      /\ \A k \in Block : k # blockno[b] => disk'[k] = disk[k]
  BY <1>3, <1>5, TransferFacts, Zenon
<1>7. /\ valid' \in [Buf -> BOOLEAN] /\ dirty' \in [Buf -> BOOLEAN] /\ valid'[b] /\ ~dirty'[b]
      /\ \A c \in Buf : c # b => valid'[c] = valid[c] /\ dirty'[c] = dirty[c]
  BY <1>3, Zenon DEF IInv, TypeOK, MarkDone
<1>8. PICK n \in Nat \ {0} : n = Len(idequeue)
  BY <1>3 DEF IInv, TypeOK
<1>9. /\ idequeue' \in Seq(Buf) /\ Len(idequeue') = n - 1 /\ idequeue[1] = b
      /\ \A i \in 1..(n - 1) : idequeue'[i] = idequeue[i + 1]
  BY <1>3, <1>8 DEF IInv, TypeOK
<1>10. \A i, j \in 1..n : idequeue[i] = idequeue[j] => i = j
  BY <1>8, Zenon DEF IInv, TypeOK
<1>11. \A i, j \in 1..Len(idequeue') : idequeue'[i] = idequeue'[j] => i = j
  <2> SUFFICES ASSUME NEW i \in 1..(n - 1), NEW j \in 1..(n - 1), idequeue'[i] = idequeue'[j] PROVE i = j
    BY <1>9, Zenon
  <2>1. i + 1 \in 1..n /\ j + 1 \in 1..n /\ idequeue[i + 1] = idequeue[j + 1]
    BY <1>8, <1>9
  <2>2. i + 1 = j + 1
    BY <1>10, <2>1, Zenon
  <2> QED  BY <2>2
<1>12. TypeOK'
  <2>1. /\ blockno' \in [Buf -> Block \cup {NoBlock}] /\ refcnt' \in [Buf -> 0..Cardinality(Proc)]
        /\ locked' \in [Buf -> BOOLEAN] /\ lru' \in [Buf -> Buf] /\ \A c \in Buf : \E i \in Buf : lru'[i] = c
        /\ mine' \in [Proc -> Buf] /\ panicked' \in BOOLEAN /\ memide' \in BOOLEAN
    BY <1>same, Zenon DEF IInv, TypeOK
  <2> QED  BY <1>4, <1>6, <1>7, <1>9, <1>11, <2>1, ZenonT(30) DEF TypeOK
<1>13. BlockInv'
  BY <1>1, <1>same, <1>4, <1>5, <1>7, Zenon DEF IInv, BlockInv
<1>14. FlagInv'
  <2>1. \A q \in Proc : q # p /\ pc[q] \in HolderLoc =>
                        mine[q] \in Buf /\ valid'[mine[q]] = valid[mine[q]] /\ dirty'[mine[q]] = dirty[mine[q]]
    BY <1>4, <1>7, Zenon DEF IInv, TypeOK
  <2> QED  BY <1>2, <1>same, <1>4, <1>7, <2>1 DEF IInv, FlagInv, HolderLoc
<1>15. QueueInv'
  <2>1. ASSUME NEW i \in 1..(n - 1) PROVE \E q \in Proc : pc'[q] = "iosleep" /\ mine'[q] = idequeue'[i]
    <3>1. i + 1 \in 1..n /\ i + 1 # 1 /\ 1 \in 1..n
      BY <1>8
    <3>2. idequeue[i + 1] # b /\ idequeue'[i] = idequeue[i + 1]
      BY <1>9, <1>10, <3>1, Zenon
    <3>3. PICK q \in Proc : pc[q] = "iosleep" /\ mine[q] = idequeue[i + 1]
      BY <1>8, <3>1, Zenon DEF IInv, QueueInv
    <3> QED  BY <1>2, <1>same, <1>4, <3>2, <3>3, Zenon
  <2>2. ASSUME NEW q \in Proc, pc'[q] = "iosleep" PROVE \E i \in 1..(n - 1) : idequeue'[i] = mine'[q]
    <3>1. pc[q] = "iosleep" /\ mine[q] # b
      BY <1>4, <2>2, Zenon DEF HolderLoc
    <3>2. PICK i \in 1..n : idequeue[i] = mine[q]
      BY <1>8, <3>1, Zenon DEF IInv, QueueInv
    <3>3. i - 1 \in 1..(n - 1) /\ (i - 1) + 1 = i
      BY <1>8, <1>9, <3>1, <3>2
    <3> QED  BY <1>same, <1>9, <3>2, <3>3, Zenon
  <2> QED  BY <1>9, <2>1, <2>2, ZenonT(30) DEF QueueInv
<1>16. ValidIsRead'
  <2> SUFFICES ASSUME NEW c \in Buf, valid'[c], ~dirty'[c], c \notin failed',
                      \A q \in Proc : mine'[q] = c => pc'[q] # "changed"
               PROVE  data'[c] = disk'[blockno'[c]]
    BY Zenon DEF ValidIsRead
  <2>1. CASE c = b
    BY <1>same, <1>6, <2>1, Zenon
  <2>2. CASE c # b
    <3>0. valid[c] /\ ~dirty[c] /\ c \notin failed
      BY <1>6, <1>7, <2>2, Zenon
    <3>1. \A q \in Proc : mine[q] = c => pc[q] # "changed"
      BY <1>1, <1>same, <1>4, Zenon
    <3>2. blockno[c] # blockno[b] /\ blockno[c] \in Block
      BY <1>5, <2>2, <3>0, BioAssumption, Zenon DEF IInv, BlockInv
    <3>3. data[c] = disk[blockno[c]]
      BY <3>0, <3>1, Zenon DEF IInv, ValidIsRead
    <3> QED  BY <1>same, <1>6, <2>2, <3>2, <3>3, Zenon
  <2> QED  BY <2>1, <2>2, Zenon
<1>17. Pinned' \subseteq Pinned
  BY <1>2, <1>same, <1>4, <1>7 DEF Pinned
<1>18. PinInv'
  BY <1>17, PinnedFewer, Zenon
<1> QED  BY <1>4, <1>12, <1>13, <1>14, <1>15, <1>16, <1>18, Zenon DEF IInv

-----------------------------------------------------------------------------
(* The invariant *)

\* It holds when binit is done.
LEMMA InitInv ==
  ASSUME FiniteSetFacts PROVE Init => IInv
<1> SUFFICES ASSUME Init PROVE IInv
  BY Zenon
<1>1. Cardinality(Proc) \in Nat
  BY BioAssumption, Zenon DEF FiniteSetFacts, CardinalityType
<1>2. lru \in [Buf -> Buf] /\ \A c \in Buf : \E i \in Buf : lru[i] = c
  <2>1. \A i \in Buf : NBUF + 1 - i \in Buf /\ NBUF + 1 - (NBUF + 1 - i) = i
    BY BioAssumption DEF Buf
  <2>2. lru = [i \in Buf |-> NBUF + 1 - i]
    BY Zenon DEF Init
  <2> QED  BY <2>1, <2>2, Zenon
<1>3. TypeOK
  <2>1. /\ blockno \in [Buf -> Block \cup {NoBlock}] /\ refcnt \in [Buf -> 0..Cardinality(Proc)]
        /\ valid \in [Buf -> BOOLEAN] /\ dirty \in [Buf -> BOOLEAN] /\ data \in [Buf -> Val]
        /\ locked \in [Buf -> BOOLEAN] /\ disk \in [Block -> Val]
    BY <1>1 DEF Init
  <2>2. pc \in [Proc -> PcLoc] /\ mine \in [Proc -> Buf]
    BY BioAssumption DEF Init, PcLoc, Buf
  <2>3. idequeue \in Seq(Buf) /\ \A i, j \in 1..Len(idequeue) : idequeue[i] = idequeue[j] => i = j
    BY DEF Init
  <2>4. failed \subseteq Buf /\ memide \in BOOLEAN /\ panicked \in BOOLEAN
    BY Zenon DEF Init
  <2> QED  BY <1>2, <2>1, <2>2, <2>3, <2>4, Zenon DEF TypeOK
<1>4. RefInv
  <2>1. \A b \in Buf : Users(b) = {}
    BY Zenon DEF Init, Users
  <2> QED  BY <2>1, Zenon DEF FiniteSetFacts, EmptySet, Init, RefInv
<1>5. BlockInv /\ LockInv /\ FlagInv /\ ValidIsRead
  BY Zenon DEF Init, BlockInv, LockInv, FlagInv, ValidIsRead, SleepersHaveHolder, HolderLoc
<1>6. QueueInv
  <2>1. idequeue = <<>> /\ \A p \in Proc : pc[p] # "iosleep"
    BY Zenon DEF Init
  <2> QED  BY <2>1 DEF QueueInv
<1>7. PinInv
  <2>1. Pinned = {}
    BY Zenon DEF Init, Pinned
  <2> QED  BY <2>1, BioAssumption DEF FiniteSetFacts, EmptySet, PinInv
<1> QED  BY <1>3, <1>4, <1>5, <1>6, <1>7, Zenon DEF IInv

\* Every step keeps it.
LEMMA NextStep ==
  ASSUME FiniteSetFacts PROVE IInv /\ [Next]_vars => IInv'
<1> SUFFICES ASSUME FiniteSetFacts, IInv, [Next]_vars PROVE IInv'
  BY Zenon
<1>1. CASE Ideintr
  BY <1>1, IdeintrStep, Zenon
<1>2. ASSUME NEW p \in Proc, Step(p), UNCHANGED <<failed, memide>> PROVE IInv'
  BY <1>2, AcquiresleepStep, ReleasesleepStep, UnrefStep, MemRwStep, IderwStep, Zenon DEF Step
<1>3. ASSUME NEW p \in Proc, Use(p), UNCHANGED <<failed, memide>> PROVE IInv'
  BY <1>3, ChangeStep, BwriteStep, LogWriteStep, BgetStep, Zenon DEF Use
<1>4. CASE UNCHANGED vars
  <2>1. /\ UNCHANGED <<blockno, refcnt, valid, dirty, data>>
        /\ UNCHANGED <<locked, lru, idequeue, disk, pc, mine, panicked, failed, memide>>
    BY <1>4, Zenon DEF vars, bufs
  <2>2. TypeOK' /\ BlockInv' /\ LockInv'
    BY <2>1, Zenon DEF IInv, TypeOK, BlockInv, LockInv, SleepersHaveHolder
  <2>3. FlagInv' /\ QueueInv' /\ ValidIsRead'
    BY <2>1, Zenon DEF IInv, FlagInv, QueueInv, ValidIsRead
  <2>4. RefInv' /\ PinInv'
    BY <2>1, UsersSame, Zenon DEF IInv, PinInv, Pinned
  <2> QED  BY <2>2, <2>3, <2>4, Zenon DEF IInv
<1> QED  BY <1>1, <1>2, <1>3, <1>4, Zenon DEF Next

=============================================================================
