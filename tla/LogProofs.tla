------------------------------ MODULE LogProofs ------------------------------
(***************************************************************************)
(* The write-ahead log implements the atomic disk, and keeps its safety    *)
(* properties, for any processes, blocks and sizes that its assumptions    *)
(* allow.                                                                  *)
(***************************************************************************)
EXTENDS LogStepProofs, FiniteSetTheorems

USE LogAssumption

\* The facts about finite sets that the proofs of the steps take as a hypothesis.
LEMMA Counted == FiniteSetFacts
<1>1. CardinalityType /\ Subset
  BY FS_CardinalityType, FS_Subset, Zenon DEF CardinalityType, Subset
<1>2. EmptySet /\ Singleton
  BY FS_EmptySet, FS_Singleton, Zenon DEF EmptySet, Singleton
<1>3. AddElement /\ RemoveElement
  BY FS_AddElement, FS_RemoveElement, Zenon DEF AddElement, RemoveElement
<1>4. Interval
  BY FS_Interval, Zenon DEF Interval
<1>5. Union /\ Product
  BY FS_Union, FS_Product, Zenon DEF Union, Product
<1>6. Greatest
  <2> SUFFICES ASSUME NEW n \in Nat, NEW S \in SUBSET (1..n), S # {} PROVE \E i \in S : \A j \in S : j <= i
    BY Zenon DEF Greatest
  <2> DEFINE T == {n - i : i \in S}
  <2>1. T \in SUBSET Nat /\ T # {}
    <3>1. \A i \in S : n - i \in Nat
      OBVIOUS
    <3> QED  BY <3>1, Zenon
  <2>2. PICK t \in T : \A u \in T : ~(<<u, t>> \in OpToRel(<, Nat))
    BY <2>1, NatLessThanWellFounded, WFMin, Zenon
  <2>3. \A u \in T : ~(u < t)
    BY <2>1, <2>2, Zenon DEF OpToRel
  <2>4. PICK i \in S : t = n - i
    BY Zenon
  <2>5. \A j \in S : n - j \in T
    BY Zenon
  <2> HIDE DEF T
  <2>6. ASSUME NEW j \in S PROVE j <= i
    <3>1. ~(n - j < t)
      BY <2>3, <2>5, Zenon
    <3> QED  BY <2>4, <3>1
  <2> QED  BY <2>6, Zenon
<1> QED  BY <1>1, <1>2, <1>3, <1>4, <1>5, <1>6, Zenon DEF FiniteSetFacts

-----------------------------------------------------------------------------
(* The cache, crashes and recovery. *)

\* A step that changes nothing.
LEMMA StutterStep ==
  ASSUME IInv, UNCHANGED vars PROVE IInv'
<1>1. UNCHANGED <<disk, hdr, cache, dirty, lh, outstanding, committing, tail, pc, wb, written, rec, panicked>>
  BY Zenon DEF vars, mem, proc
<1>2. TypeOK' /\ Active' = Active
  BY <1>1, Zenon DEF IInv, TypeOK, Active
<1>3. CountInv' /\ OpInv'
  BY <1>1, <1>2, Zenon DEF IInv, CountInv, OpInv, WaiterHasWaker, InLog
<1>4. SpaceInv'
  BY <1>1, <1>2, SpaceKept, Zenon DEF IInv
<1>5. HeaderInv' /\ PinnedUntilInstalled'
  BY <1>1 DEF IInv, HeaderInv, Distinct, PinnedUntilInstalled, InLog
<1>6. CommitInv => CommitInv'
  BY <1>1, <1>2 DEF CommitInv, CopiedTo, InstalledTo
<1>7. RecoverInv => RecoverInv'
  BY <1>1, Zenon DEF RecoverInv, RecoveredTo
<1> QED  BY <1>1, <1>2, <1>3, <1>4, <1>5, <1>6, <1>7, Zenon DEF IInv

\* A buffer that may be recycled is the block on the disk: recycling changes nothing.
LEMMA EvictFacts ==
  ASSUME NEW b \in Home, IInv, rec = "up", ~panicked, Evict(b) PROVE UNCHANGED vars
<1>1. cache[b] = disk[b]
  BY Zenon DEF Evict, Recycled, IInv, PinnedUntilInstalled
<1>2. cache' = cache
  BY <1>1, Zenon DEF Evict, IInv, TypeOK
<1> QED  BY <1>2, Zenon DEF Evict, vars, mem, proc

\* With nothing but recovery at work, counts and reservations are empty.
LEMMA Quiet ==
  ASSUME \A q \in Proc : pc'[q] = "out" /\ written'[q] = {}, outstanding' = 0, committing' = FALSE, ~panicked'
  PROVE  CountInv' /\ OpInv' /\ SpaceInv'
<1>1. Active' = {}
  BY Zenon DEF Active
<1> QED  BY Counted, <1>1, NoOperation, FS_EmptySet, Zenon DEF CountInv, WaiterHasWaker, CommitLoc

\* In recovery no process is in an operation.
LEMMA InRecovery ==
  ASSUME IInv, rec # "up"
  PROVE  /\ \A q \in Proc : pc[q] = "out" /\ written[q] = {}
         /\ outstanding = 0 /\ committing = FALSE /\ RecoverInv /\ ~panicked
<1>1. RecoverInv /\ ~panicked /\ \A q \in Proc : pc[q] = "out"
  BY Zenon DEF IInv, RecoverInv
<1>2. Active = {}
  BY <1>1, Zenon DEF Active
<1>3. outstanding = 0
  BY <1>2, FS_EmptySet, Zenon DEF IInv, CountInv
<1>4. committing = FALSE
  BY <1>1, Zenon DEF IInv, TypeOK, CountInv, CommitLoc
<1> QED  BY <1>1, <1>2, <1>3, <1>4, Zenon DEF IInv, OpInv

\* A crash loses the memory.
LEMMA CrashStep ==
  ASSUME IInv, Crash PROVE IInv'
<1>1. TypeOK'
  <2>1. NLOG \in Home
    BY DEF Home
  <2>2. pc' \in [Proc -> PcLoc] /\ wb' \in [Proc -> Home] /\ written' \in [Proc -> SUBSET Home]
    BY <2>1, Zenon DEF Crash, PcLoc
  <2>3. dirty' \in [Home -> BOOLEAN] /\ cache' \in [Addr -> Val]
    BY Zenon DEF Crash, IInv, TypeOK
  <2>4. /\ disk' = disk /\ hdr' = hdr /\ lh' = <<>> /\ outstanding' = 0 /\ committing' = FALSE
        /\ tail' = 0 /\ rec' = "read" /\ panicked' = FALSE
    BY Zenon DEF Crash
  <2>5. committing' \in BOOLEAN /\ panicked' \in BOOLEAN
    BY <2>4, Zenon
  <2>6. hdr' \in Seq(Home) /\ lh' \in Seq(Home)
    BY <2>4 DEF IInv, TypeOK
  <2>7. disk' \in [Addr -> Val] /\ outstanding' \in Nat /\ tail' \in Nat /\ rec' \in {"read", "install", "clear", "up"}
    BY <2>4, Zenon DEF IInv, TypeOK
  <2> QED  BY <2>2, <2>3, <2>5, <2>6, <2>7, Zenon DEF TypeOK
<1>2. CountInv' /\ OpInv' /\ SpaceInv'
  BY Quiet, Zenon DEF Crash
<1>3. HeaderInv' /\ PinnedUntilInstalled'
  <2>1. lh' = <<>> /\ hdr' = hdr /\ rec' = "read"
    BY Zenon DEF Crash
  <2> QED  BY <2>1 DEF IInv, HeaderInv, Distinct, PinnedUntilInstalled
<1>4. RecoverInv' /\ rec' # "up"
  BY Zenon DEF Crash, RecoverInv
<1> QED  BY <1>1, <1>2, <1>3, <1>4, Zenon DEF IInv

\* initlog reads the header.
LEMMA ReadHeadStep ==
  ASSUME IInv, ReadHead PROVE IInv'
<1>1. /\ rec = "read" /\ lh' = hdr /\ rec' = IF hdr = <<>> THEN "clear" ELSE "install"
      /\ UNCHANGED <<disk, hdr, cache, dirty, outstanding, committing, tail, pc, wb, written, panicked>>
  BY Zenon DEF ReadHead, proc
<1>2. /\ \A q \in Proc : pc[q] = "out" /\ written[q] = {}
      /\ outstanding = 0 /\ committing = FALSE /\ RecoverInv /\ ~panicked
  BY <1>1, InRecovery, Zenon
<1>3. CountInv' /\ OpInv' /\ SpaceInv'
  BY <1>1, <1>2, Quiet, Zenon
<1>4. TypeOK' /\ HeaderInv' /\ PinnedUntilInstalled'
  BY <1>1 DEF IInv, TypeOK, HeaderInv, Distinct, PinnedUntilInstalled
<1>5. RecoverInv'
  <2>1. rec' = "install" => Len(lh') > 0
    BY <1>1 DEF IInv, TypeOK
  <2>2. rec' = "clear" => Len(lh') = 0
    BY <1>1
  <2>3. tail' = 0
    BY <1>1, <1>2, Zenon DEF RecoverInv
  <2>4. RecoveredTo(tail)'
    BY <2>3 DEF RecoveredTo
  <2>5. rec' = "clear" => RecoveredTo(Len(lh))'
    BY <2>2 DEF RecoveredTo
  <2> QED  BY <1>1, <1>2, <2>1, <2>3, <2>4, <2>5, Zenon DEF RecoverInv
<1>6. rec' # "up"
  BY <1>1, Zenon
<1> QED  BY <1>3, <1>4, <1>5, <1>6, Zenon DEF IInv

\* Recovery copies one block home.
LEMMA RecoverBlockStep ==
  ASSUME IInv, RecoverBlock PROVE IInv'
<1> DEFINE t == tail + 1
<1>1. /\ rec = "install" /\ InstallBlock
      /\ UNCHANGED <<hdr, lh, outstanding, committing, pc, wb, written, panicked>>
  BY Zenon DEF RecoverBlock, proc
<1>2. \/ t < Len(lh) /\ tail' = t /\ rec' = "install"
      \/ t >= Len(lh) /\ tail' = 0 /\ rec' = "clear"
  BY <1>1 DEF RecoverBlock, IInv, TypeOK
<1>3. /\ \A q \in Proc : pc[q] = "out" /\ written[q] = {}
      /\ outstanding = 0 /\ committing = FALSE /\ RecoverInv /\ ~panicked
  BY <1>1, InRecovery, Zenon
<1>4. /\ tail \in Nat /\ Len(lh) \in Nat /\ tail < Len(lh) /\ lh = hdr /\ RecoveredTo(tail)
      /\ cache = disk /\ ~panicked
  BY <1>1, <1>3 DEF IInv, TypeOK, RecoverInv
<1>5. t \in 1..Len(lh)
  BY <1>4
<1>6. /\ lh[t] \in Home /\ t \in Addr /\ t \notin Home /\ Home \subseteq Addr
  BY <1>5, HomeAfterLog, Zenon DEF IInv
<1>7. /\ disk' = [disk EXCEPT ![lh[t]] = disk[t]] /\ cache' = disk'
      /\ dirty' = [dirty EXCEPT ![lh[t]] = FALSE]
  BY <1>1, <1>4, Zenon DEF InstallBlock
<1> HIDE DEF t
<1>8. CountInv' /\ OpInv' /\ SpaceInv'
  BY <1>1, <1>3, Quiet, Zenon
<1>9. TypeOK'
  <2>1. disk' \in [Addr -> Val] /\ cache' \in [Addr -> Val] /\ dirty' \in [Home -> BOOLEAN]
    BY <1>6, <1>7, Zenon DEF IInv, TypeOK
  <2>2. tail' \in Nat
    BY <1>2, <1>5
  <2> QED  BY <1>1, <1>2, <2>1, <2>2, Zenon DEF IInv, TypeOK
<1>10. HeaderInv' /\ PinnedUntilInstalled' /\ rec' # "up"
  BY <1>1, <1>2 DEF IInv, HeaderInv, Distinct, PinnedUntilInstalled
<1>11. \A i \in 1..t : disk'[lh[i]] = disk'[i]
  <2> SUFFICES ASSUME NEW i \in 1..t PROVE disk'[lh[i]] = disk'[i]
    BY Zenon
  <2>1. i \in 1..Len(lh) /\ (i = t \/ i \in 1..tail)
    BY <1>4, <1>5 DEF t
  <2>2. /\ lh[i] \in Addr /\ i \in Addr /\ i # lh[t]
    BY <2>1, <1>5, HomeAfterLog, Zenon DEF IInv
  <2>3. disk'[i] = disk[i]
    BY <1>7, <2>2, Zenon DEF IInv, TypeOK
  <2>4. CASE i = t
    BY <2>2, <2>3, <2>4, <1>7, Zenon DEF IInv, TypeOK
  <2>5. CASE i # t
    <3>1. lh[i] # lh[t]
      BY <2>1, <2>5, <1>5, HomeAfterLog, Zenon DEF IInv
    <3> QED  BY <2>1, <2>2, <2>3, <2>5, <3>1, <1>4, <1>7, Zenon DEF IInv, TypeOK, RecoveredTo
  <2> QED  BY <2>4, <2>5, Zenon
<1>12. RecoverInv'
  <2>1. \A b \in Home : ~dirty'[b]
    BY <1>3, <1>7, Zenon DEF RecoverInv, IInv, TypeOK
  <2>2. rec' = "install" => tail' < Len(lh') /\ RecoveredTo(tail)'
    BY <1>1, <1>2, <1>11, Zenon DEF RecoveredTo
  <2>3. rec' = "clear" => tail' = 0 /\ RecoveredTo(Len(lh))'
    <3>1. rec' = "clear" => t = Len(lh)
      BY <1>2, <1>4, <1>5
    <3> QED  BY <1>1, <1>2, <1>11, <3>1, Zenon DEF RecoveredTo
  <2>4. rec' # "read" /\ lh' = hdr' /\ ~panicked' /\ cache' = disk' /\ \A q \in Proc : pc'[q] = "out"
    BY <1>1, <1>2, <1>3, <1>4, <1>7, Zenon
  <2> QED  BY <2>1, <2>2, <2>3, <2>4, Zenon DEF RecoverInv
<1> QED  BY <1>8, <1>9, <1>10, <1>12, Zenon DEF IInv

\* Recovery empties the header, and the system is up.
LEMMA RecoverClearStep ==
  ASSUME IInv, RecoverClear PROVE IInv'
<1>1. /\ rec = "clear" /\ hdr' = <<>> /\ lh' = <<>> /\ rec' = "up"
      /\ UNCHANGED <<disk, cache, dirty, outstanding, committing, tail, pc, wb, written, panicked>>
  BY Zenon DEF RecoverClear, proc
<1>2. /\ \A q \in Proc : pc[q] = "out" /\ written[q] = {}
      /\ outstanding = 0 /\ committing = FALSE /\ RecoverInv /\ ~panicked
  BY <1>1, InRecovery, Zenon
<1>3. CountInv' /\ OpInv' /\ SpaceInv'
  BY <1>1, <1>2, Quiet, Zenon
<1>4. TypeOK' /\ HeaderInv'
  BY <1>1 DEF IInv, TypeOK, HeaderInv, Distinct
<1>5. PinnedUntilInstalled'
  BY <1>1, <1>2, Zenon DEF RecoverInv, PinnedUntilInstalled
<1>6. CommitInv'
  BY <1>1, <1>2, Zenon DEF RecoverInv, CommitInv
<1> QED  BY <1>1, <1>3, <1>4, <1>5, <1>6, Zenon DEF IInv

\* The kernel starts on the disk mkfs has made.
LEMMA InitInv ==
  ASSUME Init PROVE IInv
<1>1. TypeOK
  <2>1. NLOG \in Home
    BY DEF Home
  <2>2. pc \in [Proc -> PcLoc] /\ wb \in [Proc -> Home] /\ written \in [Proc -> SUBSET Home]
    BY <2>1, Zenon DEF Init, PcLoc
  <2>3. dirty \in [Home -> BOOLEAN] /\ disk \in [Addr -> Val] /\ cache \in [Addr -> Val]
    BY Zenon DEF Init
  <2>4. /\ hdr = <<>> /\ lh = <<>> /\ outstanding = 0 /\ committing = FALSE
        /\ tail = 0 /\ rec = "read" /\ panicked = FALSE
    BY Zenon DEF Init
  <2>5. committing \in BOOLEAN /\ panicked \in BOOLEAN
    BY <2>4, Zenon
  <2>6. hdr \in Seq(Home) /\ lh \in Seq(Home)
    BY <2>4
  <2>7. outstanding \in Nat /\ tail \in Nat /\ rec \in {"read", "install", "clear", "up"}
    BY <2>4, Zenon
  <2> QED  BY <2>2, <2>3, <2>5, <2>6, <2>7, Zenon DEF TypeOK
<1>2. Active = {}
  BY Zenon DEF Init, Active
<1>3. CountInv
  BY <1>2, FS_EmptySet, Zenon DEF Init, CountInv, WaiterHasWaker, CommitLoc
<1>4. OpInv /\ SpaceInv
  BY <1>2, FS_EmptySet DEF Init, OpInv, SpaceInv
<1>5. HeaderInv /\ PinnedUntilInstalled
  BY DEF Init, HeaderInv, Distinct, PinnedUntilInstalled
<1>6. RecoverInv /\ rec # "up"
  BY Zenon DEF Init, RecoverInv
<1> QED  BY <1>1, <1>3, <1>4, <1>5, <1>6, Zenon DEF IInv

-----------------------------------------------------------------------------
(* Every step keeps the invariant. *)

\* Each step of a process, of recovery and of the disk, and a crash, keep the invariant.
LEMMA NextStep ==
  ASSUME IInv, [Next]_vars PROVE IInv'
<1>1. ASSUME NEW p \in Proc, ~panicked, rec = "up", ProcStep(p) PROVE IInv'
  BY Counted, <1>1, BeginOpStep, LogAppendStep, EndOpStep, LogWriteStep, WriteLogStep,
    WriteHeadStep, InstallStep,
     ClearStep, CommitDoneStep, Zenon DEF ProcStep, CommitStep
<1>2. ASSUME NEW b \in Home, ~panicked, rec = "up", Evict(b) PROVE IInv'
  BY <1>2, EvictFacts, StutterStep, Zenon
<1>3. CASE Recover
  BY <1>3, ReadHeadStep, RecoverBlockStep, RecoverClearStep, Zenon DEF Recover
<1>4. CASE Crash
  BY <1>4, CrashStep, Zenon
<1>5. CASE UNCHANGED vars
  BY <1>5, StutterStep, Zenon
<1> QED  BY <1>1, <1>2, <1>3, <1>4, <1>5, Zenon DEF Next

\* The invariant holds in every behaviour of the log.
THEOREM LogInvariant == Spec => []IInv
<1>1. Init => IInv
  BY InitInv, Zenon
<1>2. IInv /\ [Next]_vars => IInv'
  BY NextStep, Zenon
<1> QED  BY <1>1, <1>2, PTL DEF Spec

-----------------------------------------------------------------------------
(* The safety properties. *)

\* Commits run alone, begin_op leaves no waiter behind, the header outgrows neither struct
\* logheader nor the log, and no buffer that differs from the disk can be recycled.
THEOREM LogIsConsistent == Spec => []LogConsistent
<1>1. IInv => LogConsistent
  <2>1. IInv => CommitAlone
    BY FS_EmptySet, Zenon DEF IInv, CountInv, CommitAlone
  <2> QED  BY <2>1, Zenon DEF IInv, CountInv, HeaderInv, Distinct, HeaderFits, LogConsistent
<1> QED  BY <1>1, LogInvariant, PTL

\* With an empty header, recovery leaves the blocks as they are.
LEMMA RecoveredEmpty ==
  ASSUME NEW d PROVE Recovered(d, <<>>) = [b \in Home |-> d[b]]
BY DEF Recovered

\* Once the last end_op has returned, what operations wrote is what a crash brings back.
THEOREM EndOpDurable == Spec => []QuiescentDurable
<1>1. ASSUME IInv, rec = "up", outstanding = 0, ~committing PROVE Stable = Current /\ lh = <<>>
  <2>1. Active = {}
    BY Counted, <1>1, ActiveFacts, FS_EmptySet, Zenon DEF IInv, CountInv
  <2>2. \A q \in Proc : pc[q] # "append" /\ pc[q] \notin CommitLoc
    BY <1>1, <2>1, Zenon DEF Active, IInv, CountInv
  <2>3. lh = <<>> /\ hdr = <<>>
    BY <1>1, <2>1, <2>2, Zenon DEF IInv, CommitInv, CommitLoc
  <2>4. ~panicked => \A b \in Home : cache[b] = disk[b]
    BY <1>1, <2>2, <2>3 DEF IInv, PinnedUntilInstalled, InLog
  <2>5. ~panicked
    BY <1>1, <2>1, Zenon DEF IInv, CountInv
  <2> QED  BY <1>1, <2>3, <2>4, <2>5, RecoveredEmpty DEF Stable, Current
<1>2. IInv => QuiescentDurable
  BY <1>1, Zenon DEF QuiescentDurable
<1> QED  BY <1>2, LogInvariant, PTL

\* An operation that logs fewer blocks than begin_op reserves for it meets no panic of log.c, if
\* the log is as mkfs makes it (NLOG = LOGSIZE) or not much smaller.
THEOREM NoLogPanic ==
  ASSUME OPBLOCKS < MAXOPBLOCKS, OPBLOCKS < NLOG - 1,
         LOGSIZE - 2 * (MAXOPBLOCKS - OPBLOCKS) < NLOG - 1
  PROVE  Spec => []NoPanic
<1>1. Init => NoPanic
  BY Zenon DEF Init, NoPanic
<1>2. ASSUME IInv, NoPanic, [Next]_vars PROVE NoPanic'
  <2>1. ASSUME NEW p \in Proc, NEW b \in Home, NEW v \in Val, rec = "up", LogWrite(p, b, v) PROVE ~panicked'
    <3>1. p \in Active
      BY <2>1, Zenon DEF LogWrite, Active
    <3>2. outstanding # 0
      BY Counted, <1>2, <3>1, ActiveFacts, FS_EmptySet, Zenon DEF IInv, CountInv
    <3>3. Len(lh) \in Nat /\ Cardinality(written[p]) \in Nat /\ Cardinality(written[p]) <= OPBLOCKS
      <4>1. written[p] \in SUBSET Home /\ Len(lh) \in Nat
        BY <1>2 DEF IInv, TypeOK
      <4> QED  BY Counted, <1>2, <4>1, BlocksFinite, Zenon DEF IInv, OpInv
    <3>4. \/ Len(lh) <= Cardinality(written[p])
          \/ Len(lh) + 2 * MAXOPBLOCKS <= LOGSIZE + Cardinality(written[p]) + OPBLOCKS
      BY <1>2, <3>1, Zenon DEF IInv, SpaceInv
    <3>5. ~TooBig
      BY <3>3, <3>4 DEF TooBig
    <3>6. ~(outstanding < 1)
      BY <1>2, <3>2 DEF IInv, TypeOK
    <3>7. panicked' = panicked
      BY <2>1, <3>5, <3>6, Zenon DEF LogWrite
    <3> QED  BY <1>2, <3>7, Zenon DEF NoPanic
  <2>2. ASSUME NEW p \in Proc, rec = "up", EndOp(p) PROVE ~panicked'
    <3>1. ~committing
      BY <1>2, <2>2, InOperation, Zenon DEF EndOp
    <3>2. panicked' = panicked
      BY <2>2, <3>1, Zenon DEF EndOp
    <3> QED  BY <1>2, <3>2, Zenon DEF NoPanic
  <2>3. ASSUME NEW p \in Proc, BeginOp(p) \/ LogAppend(p) \/ CommitStep(p) PROVE ~panicked'
    <3>1. panicked' = panicked
      BY <2>3, Zenon DEF BeginOp, LogAppend, CommitStep, WriteLog, WriteHead, Install, Clear,
        CommitDone
    <3> QED  BY <1>2, <3>1, Zenon DEF NoPanic
  <2>4. ASSUME NEW b \in Home, Evict(b) PROVE ~panicked'
    <3>1. panicked' = panicked
      BY <2>4, Zenon DEF Evict
    <3> QED  BY <1>2, <3>1, Zenon DEF NoPanic
  <2>5. CASE Recover \/ Crash
    <3>1. panicked' = panicked \/ panicked' = FALSE
      BY <2>5, Zenon DEF Recover, ReadHead, RecoverBlock, RecoverClear, Crash
    <3> QED  BY <1>2, <3>1, Zenon DEF NoPanic
  <2>6. CASE UNCHANGED vars
    <3>1. panicked' = panicked
      BY <2>6, Zenon DEF vars
    <3> QED  BY <1>2, <3>1, Zenon DEF NoPanic
  <2> QED  BY <1>2, <2>1, <2>2, <2>3, <2>4, <2>5, <2>6, Zenon DEF Next, ProcStep, NoPanic
<1> QED  BY <1>1, <1>2, LogInvariant, PTL DEF Spec

-----------------------------------------------------------------------------
(* The log implements the atomic disk. *)

\* A block that the header names comes from the log, any other from its home.
LEMMA RecoveredAt ==
  ASSUME NEW d, NEW h \in Seq(Home), Distinct(h)
  PROVE  /\ \A i \in 1..Len(h) : Recovered(d, h)[h[i]] = d[i]
         /\ \A b \in Home : (\A i \in 1..Len(h) : h[i] # b) => Recovered(d, h)[b] = d[b]
         /\ DOMAIN Recovered(d, h) = Home
         /\ Recovered(d, h) = [b \in Home |-> Recovered(d, h)[b]]
<1>1. ASSUME NEW i \in 1..Len(h) PROVE Recovered(d, h)[h[i]] = d[i]
  <2>1. h[i] \in Home
    OBVIOUS
  <2>2. PICK j \in 1..Len(h) : j = CHOOSE k \in 1..Len(h) : h[k] = h[i]
    BY Zenon
  <2>3. h[j] = h[i]
    BY <2>2, Zenon
  <2>4. j = i
    BY <2>3, Zenon DEF Distinct
  <2> QED  BY <2>1, <2>2, <2>4, Zenon DEF Recovered
<1> QED  BY <1>1, Zenon DEF Recovered

\* Two disks that agree where recovery looks are recovered alike.
LEMMA RecoveredSame ==
  ASSUME NEW d, NEW e, NEW h \in Seq(Home), Distinct(h), NEW k \in Seq(Home), Distinct(k),
         \A b \in Home : Recovered(d, h)[b] = Recovered(e, k)[b]
  PROVE  Recovered(d, h) = Recovered(e, k)
<1>1. Recovered(d, h) = [b \in Home |-> Recovered(d, h)[b]] /\ Recovered(e, k) = [b \in Home |-> Recovered(e, k)[b]]
  BY RecoveredAt
<1> QED  BY <1>1, Zenon

\* A block that is written to its home, while the header names it, is recovered as before.
LEMMA InstalledSame ==
  ASSUME TypeOK, HeaderInv, hdr' = hdr, hdr = lh, NEW t \in 1..Len(lh),
         \A x \in Addr : x # lh[t] => disk'[x] = disk[x]
  PROVE  Recovered(disk', hdr') = Recovered(disk, hdr)
<1>1. hdr \in Seq(Home) /\ Distinct(hdr)
  BY Zenon DEF TypeOK, HeaderInv
<1>2. ASSUME NEW b \in Home PROVE Recovered(disk', hdr)[b] = Recovered(disk, hdr)[b]
  <2>1. CASE \E i \in 1..Len(hdr) : hdr[i] = b
    <3>1. PICK i \in 1..Len(hdr) : hdr[i] = b
      BY <2>1, Zenon
    <3>2. i \in Addr /\ i # lh[t]
      BY HomeAfterLog, Zenon
    <3>3. disk'[i] = disk[i]
      BY <3>2, Zenon
    <3>4. Recovered(disk', hdr)[hdr[i]] = disk'[i] /\ Recovered(disk, hdr)[hdr[i]] = disk[i]
      BY <1>1, RecoveredAt
    <3> QED  BY <3>1, <3>3, <3>4, Zenon
  <2>2. CASE \A i \in 1..Len(hdr) : hdr[i] # b
    <3>1. b # lh[t] /\ b \in Addr
      BY <2>2, HomeAfterLog, Zenon
    <3>2. Recovered(disk', hdr)[b] = disk'[b] /\ Recovered(disk, hdr)[b] = disk[b]
      BY <1>1, <2>2, RecoveredAt
    <3> QED  BY <3>1, <3>2, Zenon
  <2> QED  BY <2>1, <2>2, Zenon
<1> QED  BY <1>1, <1>2, RecoveredSame

\* When the blocks the header names are home, recovery changes nothing.
LEMMA HomeSame ==
  ASSUME NEW d, NEW h \in Seq(Home), Distinct(h), \A i \in 1..Len(h) : d[h[i]] = d[i]
  PROVE  Recovered(d, h) = [b \in Home |-> d[b]]
<1>1. Recovered(d, h) = [b \in Home |-> Recovered(d, h)[b]]
  BY RecoveredAt, Zenon
<1>2. ASSUME NEW b \in Home PROVE Recovered(d, h)[b] = d[b]
  <2>1. CASE \E i \in 1..Len(h) : h[i] = b
    <3>1. PICK i \in 1..Len(h) : h[i] = b
      BY <2>1, Zenon
    <3>2. Recovered(d, h)[h[i]] = d[i]
      BY RecoveredAt, Zenon
    <3> QED  BY <3>1, <3>2, Zenon
  <2>2. CASE \A i \in 1..Len(h) : h[i] # b
    BY <2>2, RecoveredAt
  <2> QED  BY <2>1, <2>2, Zenon
<1> QED  BY <1>1, <1>2, Zenon

\* What a step may do to the atomic disk but change its contents or its operations.
Quietly == Stable' = Stable /\ Current' = Current /\ Active' = Active

\* begin_op admits an operation to the atomic disk, or changes nothing there.
LEMMA BeginOpMaps ==
  ASSUME NEW p \in Proc, IInv, BeginOp(p) PROVE Disk!Begin(p) \/ Quietly
<1>1. UNCHANGED <<disk, hdr, cache, rec>> /\ p \notin Active
  BY Zenon DEF BeginOp, Active
<1>2. Stable' = Stable /\ Current' = Current
  BY <1>1, Zenon DEF Stable, Current
<1>3. Active' = Active \cup {p} \/ Active' = Active
  BY Zenon DEF BeginOp, Active, IInv, TypeOK
<1> QED  BY <1>1, <1>2, <1>3, Zenon DEF Disk!Begin, Quietly

\* A change of a cached block is a write of the atomic disk.
LEMMA LogWriteMaps ==
  ASSUME NEW p \in Proc, NEW b \in Home, NEW v \in Val, IInv, rec = "up", LogWrite(p, b, v)
  PROVE  Disk!Write(p, b, v)
<1>1. UNCHANGED <<disk, hdr, rec>> /\ cache' = [cache EXCEPT ![b] = v] /\ p \in Active
  BY Zenon DEF LogWrite, Active
<1>2. Stable' = Stable
  BY <1>1, Zenon DEF Stable
<1>3. Current' = [Current EXCEPT ![b] = v]
  <2>1. Home \subseteq Addr
    BY DEF Home, Addr
  <2> QED  BY <1>1, <2>1, Zenon DEF Current, IInv, TypeOK
<1>4. Active' = Active
  BY Zenon DEF LogWrite, Active, IInv, TypeOK, proc
<1> QED  BY <1>1, <1>2, <1>3, <1>4, Zenon DEF Disk!Write

\* end_op takes the operation out; its commit comes later.
LEMMA EndOpMaps ==
  ASSUME NEW p \in Proc, IInv, rec = "up", EndOp(p) PROVE Disk!End(p)
<1>1. /\ UNCHANGED <<disk, hdr, cache, rec>> /\ p \in Active /\ ~committing
      /\ pc' = IF outstanding = 1
               THEN [pc EXCEPT ![p] = IF lh = <<>> THEN "done" ELSE "wlog"]
               ELSE [Woken EXCEPT ![p] = "out"]
  BY InOperation, Zenon DEF EndOp
<1>2. Stable' = Stable /\ Current' = Current
  BY <1>1, Zenon DEF Stable, Current
<1>3. Active' = Active \ {p}
  BY <1>1, Zenon DEF Active, Woken, IInv, TypeOK
<1> QED  BY <1>1, <1>2, <1>3, Zenon DEF Disk!End

\* Neither the header nor the cached blocks, nor the operations, change.
LEMMA MemoryMaps ==
  ASSUME NEW p \in Proc, IInv, rec = "up", LogAppend(p) \/ CommitDone(p) PROVE Quietly
<1>1. UNCHANGED <<disk, hdr, cache, rec>>
  BY Zenon DEF LogAppend, CommitDone
<1>2. Stable' = Stable /\ Current' = Current
  BY <1>1, Zenon DEF Stable, Current
<1>3. Active' = Active
  BY Zenon DEF LogAppend, CommitDone, Woken, Active, IInv, TypeOK
<1> QED  BY <1>2, <1>3, Zenon DEF Quietly

\* A step of commit() or recovery has no operation before or after it.
LEMMA StaysInactive ==
  ASSUME NEW p \in Proc, IInv, pc[p] \in CommitLoc,
         NEW loc \in CommitLoc, pc' = [pc EXCEPT ![p] = loc]
  PROVE  Active = {} /\ Active' = {}
<1>1. Active = {}
  BY Counted, InCommit, Zenon
<1> QED  BY <1>1, Zenon DEF Active, IInv, TypeOK, CommitLoc

\* A block of the log is written while the on-disk header is empty: no one sees it.
LEMMA WriteLogMaps ==
  ASSUME NEW p \in Proc, IInv, WriteLog(p) PROVE Quietly
<1>1. /\ pc[p] = "wlog" /\ UNCHANGED <<hdr, rec>>
      /\ disk' = [disk EXCEPT ![tail + 1] = cache[lh[tail + 1]]]
      /\ cache' = [cache EXCEPT ![tail + 1] = cache[lh[tail + 1]]]
      /\ pc' = pc \/ pc' = [pc EXCEPT ![p] = "head"]
  BY Zenon DEF WriteLog, Advance
<1>2. rec = "up" /\ hdr = <<>> /\ tail \in Nat /\ tail < Len(lh)
  <2>1. rec = "up" /\ \A q \in Proc : pc[q] \notin {"install", "clear"}
    BY Counted, <1>1, InCommit, Zenon DEF CommitLoc
  <2> QED  BY <1>1, <2>1, Zenon DEF IInv, TypeOK, CommitInv
<1>3. tail + 1 \in Addr /\ tail + 1 \notin Home /\ Home \subseteq Addr
  <2>1. tail + 1 \in 1..Len(lh)
    BY <1>2 DEF IInv, TypeOK
  <2> QED  BY <2>1, HomeAfterLog, Zenon DEF IInv
<1>4. \A b \in Home : disk'[b] = disk[b] /\ cache'[b] = cache[b]
  BY <1>1, <1>3, Zenon DEF IInv, TypeOK
<1>5. Stable' = Stable /\ Current' = Current
  <2>1. Stable = [b \in Home |-> disk[b]]
    BY <1>2, RecoveredEmpty, Zenon DEF Stable
  <2>2. Stable' = [b \in Home |-> disk'[b]]
    <3>1. Stable' = Recovered(disk', <<>>)
      BY <1>1, <1>2, Zenon DEF Stable
    <3> QED  BY <3>1, RecoveredEmpty, Zenon
  <2>3. Current = [b \in Home |-> cache[b]] /\ Current' = [b \in Home |-> cache'[b]]
    BY <1>1, <1>2, Zenon DEF Current
  <2> QED  BY <1>4, <2>1, <2>2, <2>3, Zenon
<1>6. Active' = Active
  <2>1. pc' = [pc EXCEPT ![p] = "wlog"] \/ pc' = [pc EXCEPT ![p] = "head"]
    BY <1>1, Zenon DEF IInv, TypeOK
  <2> QED  BY <1>1, <2>1, StaysInactive, Zenon DEF CommitLoc
<1> QED  BY <1>5, <1>6, Zenon DEF Quietly

\* write_head is the commit of the atomic disk: everything that operations have written
\* becomes what a crash brings back, at a point where no operation is on.
LEMMA WriteHeadMaps ==
  ASSUME NEW p \in Proc, IInv, ~panicked, WriteHead(p) PROVE Disk!Commit
<1>1. /\ pc[p] = "head" /\ hdr' = lh /\ pc' = [pc EXCEPT ![p] = "install"] /\ UNCHANGED <<disk, cache, rec>>
  BY Zenon DEF WriteHead, mem
<1>2. rec = "up" /\ \A q \in Proc : pc[q] # "append"
  BY Counted, <1>1, InCommit, Zenon DEF CommitLoc
<1>3. CopiedTo(Len(lh))
  BY <1>1, <1>2, Zenon DEF IInv, CommitInv
<1>4. Active = {} /\ Active' = {}
  BY <1>1, StaysInactive, Zenon DEF CommitLoc
<1>5. Current' = Current /\ Current = [b \in Home |-> cache[b]]
  BY <1>1, <1>2, Zenon DEF Current
<1>6. ASSUME NEW b \in Home PROVE Recovered(disk, lh)[b] = cache[b]
  <2>1. lh \in Seq(Home) /\ Distinct(lh)
    BY Zenon DEF IInv, TypeOK, HeaderInv
  <2>2. CASE InLog(b)
    <3>1. PICK i \in 1..Len(lh) : lh[i] = b
      BY <2>2, Zenon DEF InLog
    <3>2. Recovered(disk, lh)[lh[i]] = disk[i]
      BY <2>1, RecoveredAt, Zenon
    <3> QED  BY <1>3, <3>1, <3>2, Zenon DEF CopiedTo
  <2>3. CASE ~InLog(b)
    <3>1. disk[b] = cache[b]
      BY <1>2, <2>3, Zenon DEF IInv, PinnedUntilInstalled
    <3>2. Recovered(disk, lh)[b] = disk[b]
      BY <2>1, <2>3, RecoveredAt DEF InLog
    <3> QED  BY <3>1, <3>2, Zenon
  <2> QED  BY <2>2, <2>3, Zenon
<1>7. Stable' = Current
  <2>1. lh \in Seq(Home) /\ Distinct(lh)
    BY Zenon DEF IInv, TypeOK, HeaderInv
  <2>2. Recovered(disk, lh) = [b \in Home |-> Recovered(disk, lh)[b]]
    BY <2>1, RecoveredAt, Zenon
  <2> QED  BY <1>1, <1>5, <1>6, <2>2, Zenon DEF Stable
<1> QED  BY <1>4, <1>5, <1>7, Zenon DEF Disk!Commit

\* install_trans copies to its home a block that recovery takes from the log.
LEMMA InstallMaps ==
  ASSUME NEW p \in Proc, IInv, Install(p) PROVE Quietly
<1>1. /\ pc[p] = "install" /\ InstallBlock /\ UNCHANGED <<hdr, lh, rec>>
      /\ pc' = pc \/ pc' = [pc EXCEPT ![p] = "clear"]
  BY Zenon DEF Install, Advance
<1>2. rec = "up" /\ hdr = lh /\ tail \in Nat /\ tail < Len(lh) /\ CopiedTo(Len(lh))
  <2>1. rec = "up"
    BY Counted, <1>1, InCommit, Zenon DEF CommitLoc
  <2> QED  BY <1>1, <2>1, Zenon DEF IInv, TypeOK, CommitInv
<1>3. cache[tail + 1] = cache[lh[tail + 1]]
  BY <1>2 DEF CopiedTo, IInv, TypeOK
<1>4. /\ cache' = cache /\ tail + 1 \in 1..Len(lh)
      /\ \A x \in Addr : x # lh[tail + 1] => disk'[x] = disk[x]
  BY <1>1, <1>2, <1>3, InstallFacts, Zenon DEF IInv
<1>5. Stable' = Stable
  BY <1>1, <1>2, <1>4, InstalledSame, Zenon DEF Stable, IInv
<1>6. Current' = Current
  BY <1>1, <1>2, <1>4, Zenon DEF Current
<1>7. Active' = Active
  <2>1. pc' = [pc EXCEPT ![p] = "install"] \/ pc' = [pc EXCEPT ![p] = "clear"]
    BY <1>1, Zenon DEF IInv, TypeOK
  <2> QED  BY <1>1, <2>1, StaysInactive, Zenon DEF CommitLoc
<1> QED  BY <1>5, <1>6, <1>7, Zenon DEF Quietly

\* The header is emptied when every block it names is the same at home and in the log.
LEMMA ClearMaps ==
  ASSUME NEW p \in Proc, IInv, Clear(p) PROVE Quietly
<1>1. /\ pc[p] = "clear" /\ hdr' = <<>> /\ pc' = [pc EXCEPT ![p] = "done"] /\ UNCHANGED <<disk, cache, rec>>
  BY Zenon DEF Clear
<1>2. rec = "up" /\ hdr = lh /\ CopiedTo(Len(lh)) /\ InstalledTo(Len(lh))
  <2>1. rec = "up"
    BY Counted, <1>1, InCommit, Zenon DEF CommitLoc
  <2> QED  BY <1>1, <2>1, Zenon DEF IInv, CommitInv
<1>3. \A i \in 1..Len(hdr) : disk[hdr[i]] = disk[i]
  BY <1>2, Zenon DEF CopiedTo, InstalledTo
<1>4. Stable' = Stable
  <2>1. Recovered(disk, hdr) = [b \in Home |-> disk[b]]
    BY <1>3, HomeSame, Zenon DEF IInv, TypeOK, HeaderInv
  <2>2. Stable' = Recovered(disk, <<>>)
    BY <1>1, Zenon DEF Stable
  <2> QED  BY <2>1, <2>2, RecoveredEmpty, Zenon DEF Stable
<1>5. Current' = Current
  BY <1>1, <1>2, Zenon DEF Current
<1>6. Active' = Active
  BY <1>1, StaysInactive, Zenon DEF CommitLoc
<1> QED  BY <1>4, <1>5, <1>6, Zenon DEF Quietly

\* A crash is the crash of the atomic disk.
LEMMA CrashMaps ==
  ASSUME IInv, Crash PROVE Disk!Crash
<1>1. Stable' = Stable /\ Current' = Stable' /\ Active' = {}
  BY Zenon DEF Crash, Stable, Current, Active
<1> QED  BY <1>1, Zenon DEF Disk!Crash

\* Recovery is not seen: it brings home what recovery would bring home.
LEMMA RecoverMaps ==
  ASSUME IInv, Recover PROVE Quietly
<1>0. rec # "up" /\ pc' = pc
  BY Zenon DEF Recover, ReadHead, RecoverBlock, RecoverClear, proc
<1>1. Active' = Active
  BY <1>0, Zenon DEF Active
<1>2. RecoverInv
  BY <1>0, InRecovery, Zenon
<1>3. CASE ReadHead
  <2>1. UNCHANGED <<disk, hdr, cache>> /\ rec' # "up"
    BY <1>3, Zenon DEF ReadHead
  <2> QED  BY <1>0, <1>1, <2>1, Zenon DEF Stable, Current, Quietly
<1>4. CASE RecoverBlock
  <2>1. rec = "install" /\ rec' # "up" /\ InstallBlock /\ UNCHANGED <<hdr, lh>>
    BY <1>4, Zenon DEF RecoverBlock
  <2>2. lh = hdr /\ tail \in Nat /\ tail < Len(lh)
    BY <1>2, <2>1, Zenon DEF RecoverInv, IInv, TypeOK
  <2>3. tail + 1 \in 1..Len(lh) /\ \A x \in Addr : x # lh[tail + 1] => disk'[x] = disk[x]
    BY <2>1, <2>2 DEF InstallBlock, IInv, TypeOK
  <2>4. Stable' = Stable
    BY <2>1, <2>2, <2>3, InstalledSame, Zenon DEF Stable, IInv
  <2> QED  BY <1>0, <1>1, <2>1, <2>4, Zenon DEF Current, Quietly
<1>5. CASE RecoverClear
  <2>1. rec = "clear" /\ rec' = "up" /\ hdr' = <<>> /\ UNCHANGED <<disk, cache>>
    BY <1>5, Zenon DEF RecoverClear
  <2>2. cache = disk /\ \A i \in 1..Len(hdr) : disk[hdr[i]] = disk[i]
    BY <1>2, <2>1, Zenon DEF RecoverInv, RecoveredTo
  <2>3. Recovered(disk, hdr) = [b \in Home |-> disk[b]]
    BY <2>2, HomeSame, Zenon DEF IInv, TypeOK, HeaderInv
  <2>4. Stable' = Recovered(disk, <<>>)
    BY <2>1, Zenon DEF Stable
  <2>5. Stable' = Stable
    BY <2>3, <2>4, RecoveredEmpty, Zenon DEF Stable
  <2>6. Current = Stable
    BY <1>0, Zenon DEF Current
  <2>7. Current' = [b \in Home |-> disk[b]]
    BY <2>1, <2>2, Zenon DEF Current
  <2> QED  BY <1>1, <2>3, <2>5, <2>6, <2>7, Zenon DEF Stable, Quietly
<1> QED  BY <1>3, <1>4, <1>5, Zenon DEF Recover

\* Every step of the log is a step of the atomic disk, or changes nothing there.
LEMMA StepMaps ==
  ASSUME IInv, [Next]_vars PROVE [Disk!Next]_(Disk!vars)
<1>0. Quietly => UNCHANGED Disk!vars
  BY Zenon DEF Quietly, Disk!vars
<1>1. ASSUME NEW p \in Proc, ~panicked, rec = "up", ProcStep(p) PROVE Disk!Next \/ Quietly
  BY <1>1, BeginOpMaps, LogWriteMaps, EndOpMaps, MemoryMaps, WriteLogMaps, WriteHeadMaps,
    InstallMaps,
     ClearMaps, Zenon DEF ProcStep, CommitStep, Disk!Next
<1>2. ASSUME NEW b \in Home, ~panicked, rec = "up", Evict(b) PROVE UNCHANGED vars
  BY <1>2, EvictFacts, Zenon
<1>3. CASE Recover
  BY <1>0, <1>3, RecoverMaps, Zenon
<1>4. CASE Crash
  BY <1>4, CrashMaps, Zenon DEF Disk!Next
<1>5. CASE UNCHANGED vars
  BY <1>5, Zenon DEF vars, mem, proc, Stable, Current, Active, Disk!vars
<1> QED  BY <1>0, <1>1, <1>2, <1>3, <1>4, <1>5, Zenon DEF Next

\* Concurrent operations, absorption, group commit, installation and recovery, with crashes
\* anywhere, are the atomic disk: an operation is there entirely or not at all after a crash,
\* and what has been committed is never lost.
THEOREM LogIsAtomic == Spec => CrashAtomic
<1>1. Init => Disk!Init
  <2>1. ASSUME Init PROVE Stable = [b \in Home |-> Zero] /\ Current = Stable /\ Active = {}
    <3>1. Stable = Recovered(disk, <<>>)
      BY <2>1, Zenon DEF Init, Stable
    <3>2. Home \subseteq Addr
      BY DEF Home, Addr
    <3> QED  BY <2>1, <3>1, <3>2, RecoveredEmpty DEF Init, Current, Active
  <2> QED  BY <2>1, Zenon DEF Disk!Init
<1>2. IInv /\ [Next]_vars => [Disk!Next]_(Disk!vars)
  BY StepMaps, Zenon
<1> QED  BY <1>1, <1>2, LogInvariant, PTL DEF Spec, CrashAtomic, Disk!Spec

=============================================================================
