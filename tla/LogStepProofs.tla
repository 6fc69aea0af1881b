---------------------------- MODULE LogStepProofs ----------------------------
(***************************************************************************)
(* The steps of begin_op, log_write, end_op and commit() keep the invariant *)
(* of LogInv, given the facts about finite sets of Counting.               *)
(***************************************************************************)
EXTENDS LogInv, Counting, TLAPS

USE LogAssumption

-----------------------------------------------------------------------------
(* Counting what operations have logged. *)

\* The blocks logged by processes are finitely many.
LEMMA PairsFinite ==
  ASSUME FiniteSetFacts, NEW S \in SUBSET Proc, NEW w
  PROVE  IsFiniteSet(S) /\ IsFiniteSet(Pairs(S, w)) /\ Cardinality(Pairs(S, w)) \in Nat /\ Cardinality(S) \in Nat
<1>1. IsFiniteSet(S)
  BY Zenon DEF FiniteSetFacts, Subset
<1>2. IsFiniteSet(Home)
  BY DEF FiniteSetFacts, Interval, Home
<1>3. IsFiniteSet(S \X Home)
  BY <1>1, <1>2, Zenon DEF FiniteSetFacts, Product
<1>4. Pairs(S, w) \in SUBSET (S \X Home)
  BY Zenon DEF Pairs
<1>5. IsFiniteSet(Pairs(S, w))
  BY <1>3, <1>4, Zenon DEF FiniteSetFacts, Subset
<1> QED  BY <1>1, <1>5, Zenon DEF FiniteSetFacts, CardinalityType

\* A set of blocks is finite.
LEMMA BlocksFinite ==
  ASSUME FiniteSetFacts, NEW B \in SUBSET Home
  PROVE  IsFiniteSet(B) /\ Cardinality(B) \in Nat
<1>1. IsFiniteSet(Home)
  BY DEF FiniteSetFacts, Interval, Home
<1> QED  BY <1>1, Zenon DEF FiniteSetFacts, Subset, CardinalityType

\* One process is counted for the blocks it has logged.
LEMMA PairsOne ==
  ASSUME FiniteSetFacts, NEW p \in Proc, NEW w \in [Proc -> SUBSET Home]
  PROVE  Cardinality(Pairs({p}, w)) = Cardinality(w[p])
<1>1. Pairs({p}, w) = {p} \X w[p]
  BY Zenon DEF Pairs
<1>2. IsFiniteSet({p}) /\ Cardinality({p}) = 1
  BY Zenon DEF FiniteSetFacts, Singleton
<1>3. IsFiniteSet(w[p]) /\ Cardinality(w[p]) \in Nat
  BY BlocksFinite, Zenon
<1>4. Cardinality({p} \X w[p]) = 1 * Cardinality(w[p])
  BY <1>2, <1>3, Zenon DEF FiniteSetFacts, Product
<1>5. 1 * Cardinality(w[p]) = Cardinality(w[p])
  BY <1>3
<1> QED  BY <1>1, <1>4, <1>5, Zenon

\* A process that joins is counted for the blocks it has logged.
LEMMA PairsJoin ==
  ASSUME FiniteSetFacts, NEW S \in SUBSET Proc, NEW p \in Proc \ S, NEW w \in [Proc -> SUBSET Home]
  PROVE  Cardinality(Pairs(S \cup {p}, w)) = Cardinality(Pairs(S, w)) + Cardinality(w[p])
<1>1. Pairs(S \cup {p}, w) = Pairs(S, w) \cup Pairs({p}, w)
  BY Zenon DEF Pairs
<1>2. Pairs(S, w) \cap Pairs({p}, w) = {}
  BY Zenon DEF Pairs
<1>3. IsFiniteSet(Pairs(S, w)) /\ IsFiniteSet(Pairs({p}, w))
  BY PairsFinite, Zenon
<1>4. Cardinality(Pairs(S, w)) \in Nat /\ Cardinality(Pairs({p}, w)) \in Nat
  BY PairsFinite, Zenon
<1>5. Cardinality(Pairs(S, w) \cup Pairs({p}, w)) =
        Cardinality(Pairs(S, w)) + Cardinality(Pairs({p}, w)) - Cardinality({})
  BY <1>2, <1>3, Zenon DEF FiniteSetFacts, Union
<1>6. Cardinality({}) = 0
  BY Zenon DEF FiniteSetFacts, EmptySet
<1>7. Cardinality(Pairs({p}, w)) = Cardinality(w[p])
  BY PairsOne, Zenon
<1>8. Cardinality(Pairs(S \cup {p}, w)) = Cardinality(Pairs(S, w)) + Cardinality(w[p]) - 0
  BY <1>1, <1>5, <1>6, <1>7, Zenon
<1> QED  BY <1>4, <1>7, <1>8

\* Processes that log the same blocks are counted alike.
LEMMA PairsSame ==
  ASSUME NEW S, NEW v, NEW w, \A q \in S : v[q] = w[q]
  PROVE  Pairs(S, v) = Pairs(S, w)
BY Zenon DEF Pairs

\* Processes that log more are counted for more.
LEMMA PairsMore ==
  ASSUME FiniteSetFacts, NEW S \in SUBSET Proc, NEW v, NEW w, \A q \in S : w[q] \subseteq v[q]
  PROVE  Cardinality(Pairs(S, w)) <= Cardinality(Pairs(S, v))
<1>1. Pairs(S, w) \in SUBSET Pairs(S, v)
  BY Zenon DEF Pairs
<1> QED  BY <1>1, PairsFinite, Zenon DEF FiniteSetFacts, Subset

\* A block that a process logs first counts one more.
LEMMA PairsAdd ==
  ASSUME FiniteSetFacts, NEW S \in SUBSET Proc, NEW p \in S, NEW w \in [Proc -> SUBSET Home], NEW b \in Home \ w[p]
  PROVE  Cardinality(Pairs(S, [w EXCEPT ![p] = @ \cup {b}])) = Cardinality(Pairs(S, w)) + 1
<1>1. Pairs(S, [w EXCEPT ![p] = @ \cup {b}]) = Pairs(S, w) \cup {<<p, b>>}
  BY DEF Pairs
<1>2. <<p, b>> \notin Pairs(S, w)
  BY Zenon DEF Pairs
<1> QED  BY <1>1, <1>2, PairsFinite, Zenon DEF FiniteSetFacts, AddElement

\* Reservations grow with the operations.
LEMMA TimesMonotone ==
  ASSUME NEW a \in Nat, NEW b \in Nat, a <= b
  PROVE  a * MAXOPBLOCKS <= b * MAXOPBLOCKS
<1>1. PICK d \in Nat : b = a + d
  <2>1. b - a \in Nat /\ b = a + (b - a)
    OBVIOUS
  <2> QED  BY <2>1, Zenon
<1>2. b * MAXOPBLOCKS = a * MAXOPBLOCKS + d * MAXOPBLOCKS
  BY <1>1
<1>3. d * MAXOPBLOCKS \in Nat /\ a * MAXOPBLOCKS \in Nat
  OBVIOUS
<1> QED  BY <1>2, <1>3

-----------------------------------------------------------------------------
(* The steps of begin_op, log_write and end_op keep the invariant. *)

\* The reservation stays good while the header and what operations logged stay the same.
LEMMA SpaceKept ==
  ASSUME SpaceInv, lh' = lh, Active' \subseteq Active, \A q \in Active' : written'[q] = written[q]
  PROVE  SpaceInv'
<1>1. ASSUME NEW S \in (SUBSET Active') \ {{}}
      PROVE  Len(lh') + Cardinality(S) * MAXOPBLOCKS <= LOGSIZE + Cardinality(Pairs(S, written'))
  <2>1. Pairs(S, written') = Pairs(S, written)
    BY PairsSame, Zenon
  <2>2. S \in (SUBSET Active) \ {{}}
    BY Zenon
  <2>3. Len(lh) + Cardinality(S) * MAXOPBLOCKS <= LOGSIZE + Cardinality(Pairs(S, written))
    BY <2>2, Zenon DEF SpaceInv
  <2> QED  BY <2>1, <2>3, Zenon
<1>2. ASSUME NEW p \in Active'
      PROVE  \/ Len(lh') <= Cardinality(written'[p])
             \/ Len(lh') + 2 * MAXOPBLOCKS <= LOGSIZE + Cardinality(written'[p]) + OPBLOCKS
  <2>1. p \in Active /\ written'[p] = written[p]
    BY Zenon
  <2>2. \/ Len(lh) <= Cardinality(written[p])
        \/ Len(lh) + 2 * MAXOPBLOCKS <= LOGSIZE + Cardinality(written[p]) + OPBLOCKS
    BY <2>1, Zenon DEF SpaceInv
  <2> QED  BY <2>1, <2>2, Zenon
<1> QED  BY <1>1, <1>2, Zenon DEF SpaceInv

\* The operations and the commit are of different processes.
LEMMA ActiveFacts ==
  ASSUME FiniteSetFacts, TypeOK
  PROVE  /\ Active \in SUBSET Proc /\ IsFiniteSet(Active)
         /\ \A p \in Proc : p \in Active <=> pc[p] \in {"op", "append"}
<1>1. Active \in SUBSET Proc /\ \A p \in Proc : p \in Active <=> pc[p] \in {"op", "append"}
  BY Zenon DEF Active
<1> QED  BY <1>1, Zenon DEF FiniteSetFacts, Subset

\* begin_op admits an operation, or sleeps.
LEMMA BeginOpStep ==
  ASSUME FiniteSetFacts, NEW p \in Proc, IInv, rec = "up", ~panicked, BeginOp(p) PROVE IInv'
<1>1. TypeOK'
  BY DEF IInv, TypeOK, BeginOp, PcLoc
<1>2. /\ UNCHANGED <<disk, hdr, cache, dirty, lh, committing, tail, wb, written, rec, panicked>>
      /\ pc[p] \in {"out", "retry"} /\ p \notin Active /\ written[p] = {}
  BY ActiveFacts, Zenon DEF IInv, BeginOp, OpInv
<1>a. CASE ~committing /\ LogSpace
  <2>1. /\ pc' = [pc EXCEPT ![p] = "op"] /\ outstanding' = outstanding + 1
        /\ Active' = Active \cup {p}
    BY <1>a, <1>2 DEF BeginOp, Active, IInv, TypeOK
  <2>b. /\ Len(lh') \in Nat /\ outstanding \in Nat
        /\ Len(lh') + (outstanding + 1) * MAXOPBLOCKS <= LOGSIZE
    BY <1>a, <1>2 DEF LogSpace, IInv, TypeOK
  <2>2. CountInv'
    <3>1. Cardinality(Active') = outstanding + 1
      BY <1>2, <2>1, ActiveFacts, Zenon DEF FiniteSetFacts, AddElement, IInv, CountInv
    <3>2. \A q \in Proc : pc'[q] \notin CommitLoc
      BY <1>2, <1>a, <2>1, Zenon DEF IInv, TypeOK, CountInv, CommitLoc
    <3> QED  BY <1>a, <1>2, <2>1, <3>1, <3>2 DEF IInv, TypeOK, CountInv, WaiterHasWaker
  <2>3. OpInv'
    BY <1>2, <2>1 DEF IInv, TypeOK, OpInv, InLog
  <2>4. SpaceInv'
    <3>1. ASSUME NEW S \in (SUBSET Active') \ {{}}
          PROVE  Len(lh') + Cardinality(S) * MAXOPBLOCKS <= LOGSIZE + Cardinality(Pairs(S, written'))
      <4>1. IsFiniteSet(Active') /\ Active' \in SUBSET Proc /\ Cardinality(Active') = outstanding + 1
        BY <2>1, <2>2, ActiveFacts, Zenon DEF FiniteSetFacts, AddElement, IInv, CountInv
      <4>2. Cardinality(S) <= outstanding + 1 /\ Cardinality(S) \in Nat
        BY <4>1, Zenon DEF FiniteSetFacts, Subset, CardinalityType
      <4>3. Cardinality(Pairs(S, written')) \in Nat
        BY <4>1, PairsFinite, Zenon
      <4>4. Cardinality(S) * MAXOPBLOCKS <= (outstanding + 1) * MAXOPBLOCKS
        BY <4>2, <2>b, TimesMonotone
      <4> QED  BY <2>b, <4>2, <4>3, <4>4
    <3>2. ASSUME NEW q \in Active'
          PROVE  \/ Len(lh') <= Cardinality(written'[q])
                 \/ Len(lh') + 2 * MAXOPBLOCKS <= LOGSIZE + Cardinality(written'[q]) + OPBLOCKS
      <4>1. Cardinality(written'[q]) \in Nat
        BY <1>1, BlocksFinite, Zenon DEF TypeOK, Active
      <4>2. CASE outstanding = 0
        <5>1. Active = {}
          BY <4>2, ActiveFacts, Zenon DEF FiniteSetFacts, EmptySet, IInv, CountInv
        <5>2. lh = <<>>
          BY <5>1, <1>a, Zenon DEF IInv, CommitInv
        <5> QED  BY <1>2, <4>1, <5>2
      <4>3. CASE outstanding # 0
        <5>1. 2 * MAXOPBLOCKS <= (outstanding + 1) * MAXOPBLOCKS
          BY <2>b, <4>3, TimesMonotone
        <5> QED  BY <2>b, <4>1, <5>1
      <4> QED  BY <4>2, <4>3, Zenon
    <3> QED  BY <3>1, <3>2, Zenon DEF SpaceInv
  <2>5. HeaderInv'
    BY <1>2, Zenon DEF IInv, HeaderInv, Distinct
  <2>6. PinnedUntilInstalled'
    BY <1>2, <2>1, Zenon DEF IInv, TypeOK, PinnedUntilInstalled, InLog
  <2>7. CommitInv'
    BY <1>2, <1>a, <2>1, Zenon DEF IInv, TypeOK, CountInv, CommitLoc, CommitInv, CopiedTo,
      InstalledTo
  <2> QED  BY <1>1, <1>2, <2>2, <2>3, <2>4, <2>5, <2>6, <2>7, Zenon DEF IInv
<1>b. CASE ~(~committing /\ LogSpace)
  <2>1. pc' = [pc EXCEPT ![p] = "sleep"] /\ outstanding' = outstanding /\ Active' = Active
    BY <1>b, <1>2, Zenon DEF BeginOp, Active, IInv, TypeOK
  <2>2. committing \/ outstanding > 0
    <3>1. CASE outstanding = 0 /\ ~committing
      <4>1. Active = {}
        BY <3>1, ActiveFacts, Zenon DEF FiniteSetFacts, EmptySet, IInv, CountInv
      <4>2. lh = <<>>
        BY <4>1, <3>1, Zenon DEF IInv, CommitInv
      <4> QED  BY <1>b, <3>1, <4>2 DEF LogSpace
    <3> QED  BY <3>1 DEF IInv, TypeOK
  <2>3. CountInv'
    BY <1>2, <2>1, <2>2, Zenon DEF IInv, TypeOK, CountInv, CommitLoc, WaiterHasWaker
  <2>4. OpInv'
    BY <1>2, <2>1 DEF IInv, TypeOK, OpInv, InLog
  <2>5. SpaceInv'
    BY <1>2, <2>1, SpaceKept, Zenon DEF IInv
  <2>6. HeaderInv'
    BY <1>2, Zenon DEF IInv, HeaderInv, Distinct
  <2>7. PinnedUntilInstalled'
    BY <1>2, <2>1, Zenon DEF IInv, TypeOK, PinnedUntilInstalled, InLog
  <2>8. CommitInv'
    BY <1>2, <2>1 DEF IInv, TypeOK, CommitInv, CopiedTo, InstalledTo
  <2> QED  BY <1>1, <1>2, <2>3, <2>4, <2>5, <2>6, <2>7, <2>8, Zenon DEF IInv
<1> QED  BY <1>a, <1>b, Zenon

\* A process in an operation: no commit is on, so the on-disk header is empty.
LEMMA InOperation ==
  ASSUME NEW p \in Proc, IInv, rec = "up", pc[p] \in {"op", "append"}
  PROVE  /\ p \in Active /\ ~committing /\ hdr = <<>> /\ tail = 0
         /\ \A q \in Proc : pc[q] \notin CommitLoc
<1>1. p \in Active
  BY Zenon DEF Active
<1>2. ~committing
  BY <1>1, Zenon DEF IInv, CountInv
<1>3. \A q \in Proc : pc[q] \notin CommitLoc
  BY <1>2, Zenon DEF IInv, CountInv
<1> QED  BY <1>1, <1>2, <1>3, Zenon DEF IInv, CommitInv, CommitLoc

\* A step in an operation that leaves the headers as they are for commit().
LEMMA OperationKeepsCommit ==
  ASSUME hdr' = <<>>, tail' = 0, Active' # {}, \A q \in Proc : pc'[q] \notin CommitLoc
  PROVE  CommitInv'
BY Zenon DEF CommitInv, CommitLoc

\* A change of a cached block, and the unlocked tests of log_write.
LEMMA LogWriteStep ==
  ASSUME NEW p \in Proc, NEW b \in Home, NEW v \in Val, IInv, rec = "up", ~panicked, LogWrite(p, b, v)
  PROVE  IInv'
<1>1. TypeOK'
  BY Zenon DEF IInv, TypeOK, LogWrite, PcLoc, Addr, Home, proc
<1>2. /\ UNCHANGED <<disk, hdr, dirty, lh, outstanding, committing, tail, rec, written>>
      /\ pc[p] = "op" /\ cache' = [cache EXCEPT ![b] = v]
  BY Zenon DEF LogWrite, proc
<1>3. Active' = Active
  BY Zenon DEF LogWrite, Active, IInv, TypeOK, proc
<1>4. /\ p \in Active /\ ~committing /\ hdr = <<>> /\ tail = 0
      /\ \A q \in Proc : pc[q] \notin CommitLoc
  BY <1>2, InOperation, Zenon
<1>5. \A q \in Proc : pc'[q] \notin CommitLoc
  BY <1>4, Zenon DEF LogWrite, proc, CommitLoc, IInv, TypeOK
<1>6. CountInv'
  BY <1>2, <1>3, <1>4, <1>5 DEF IInv, TypeOK, CountInv, LogWrite, WaiterHasWaker, proc
<1>7. OpInv'
  <2>1. CASE TooBig \/ outstanding < 1
    <3>1. pc' = pc /\ wb' = wb
      BY <2>1, Zenon DEF LogWrite, proc
    <3> QED  BY <1>2, <1>3, <3>1, Zenon DEF IInv, OpInv, InLog
  <2>2. CASE ~(TooBig \/ outstanding < 1)
    <3>1. /\ pc' = [pc EXCEPT ![p] = "append"] /\ wb' = [wb EXCEPT ![p] = b]
          /\ Cardinality(written[p] \cup {b}) <= OPBLOCKS
          /\ \A q \in Proc : pc[q] = "append" => wb[q] # b
      BY <2>2, Zenon DEF LogWrite
    <3> QED  BY <1>2, <1>3, <3>1 DEF IInv, TypeOK, OpInv, InLog
  <2> QED  BY <2>1, <2>2, Zenon
<1>8. SpaceInv'
  BY <1>2, <1>3, SpaceKept, Zenon DEF IInv
<1>9. HeaderInv'
  BY <1>2, Zenon DEF IInv, HeaderInv, Distinct
<1>10. PinnedUntilInstalled'
  <2>1. CASE TooBig \/ outstanding < 1
    BY <2>1, Zenon DEF LogWrite, PinnedUntilInstalled
  <2>2. CASE ~(TooBig \/ outstanding < 1)
    <3>1. pc' = [pc EXCEPT ![p] = "append"] /\ wb' = [wb EXCEPT ![p] = b]
      BY <2>2, Zenon DEF LogWrite
    <3> QED  BY <1>2, <3>1 DEF IInv, TypeOK, PinnedUntilInstalled, InLog, Addr, Home
  <2> QED  BY <2>1, <2>2, Zenon
<1>11. CommitInv'
  BY <1>2, <1>3, <1>4, <1>5, OperationKeepsCommit, Zenon
<1> QED  BY <1>1, <1>2, <1>6, <1>7, <1>8, <1>9, <1>10, <1>11, Zenon DEF IInv

\* A new block of the header: one more of the p's reservation is used.
LEMMA AppendSpace ==
  ASSUME FiniteSetFacts, NEW p \in Proc, NEW b \in Home, TypeOK, OpInv, SpaceInv,
         p \in Active, ~InLog(b), Cardinality(written[p] \cup {b}) <= OPBLOCKS,
         lh' = Append(lh, b), written' = [written EXCEPT ![p] = @ \cup {b}], Active' = Active
  PROVE  SpaceInv' /\ Len(lh') <= LOGSIZE /\ Len(lh') <= NLOG - 1
<1>1. Len(lh) \in Nat /\ Len(lh') = Len(lh) + 1
  BY DEF TypeOK
<1>2. b \notin written[p]
  BY Zenon DEF OpInv
<1>3. /\ Cardinality(written[p]) \in Nat
      /\ Cardinality(written'[p]) = Cardinality(written[p]) + 1 /\ Cardinality(written[p]) + 1 <= OPBLOCKS
  <2>1. written[p] \in SUBSET Home /\ written'[p] = written[p] \cup {b}
    BY Zenon DEF TypeOK
  <2>2. IsFiniteSet(written[p]) /\ Cardinality(written[p]) \in Nat
    BY <2>1, BlocksFinite, Zenon
  <2>3. Cardinality(written[p] \cup {b}) = Cardinality(written[p]) + 1
    BY <1>2, <2>2, Zenon DEF FiniteSetFacts, AddElement
  <2> QED  BY <2>1, <2>2, <2>3, Zenon
<1>4. Active \in SUBSET Proc /\ IsFiniteSet(Active)
  BY ActiveFacts, Zenon
<1>5. ASSUME NEW S \in (SUBSET Active) \ {{}}
      PROVE  Len(lh') + Cardinality(S) * MAXOPBLOCKS <= LOGSIZE + Cardinality(Pairs(S, written'))
  <2>0. S \in SUBSET Proc /\ IsFiniteSet(S) /\ Cardinality(S) \in Nat /\ Cardinality(Pairs(S, written)) \in Nat
    BY <1>4, PairsFinite, Zenon
  <2>1. CASE p \in S
    <3>1. Cardinality(Pairs(S, written')) = Cardinality(Pairs(S, written)) + 1
      BY <2>0, <2>1, <1>2, PairsAdd DEF TypeOK
    <3>2. Len(lh) + Cardinality(S) * MAXOPBLOCKS <= LOGSIZE + Cardinality(Pairs(S, written))
      BY Zenon DEF SpaceInv
    <3> QED  BY <2>0, <1>1, <3>1, <3>2
  <2>2. CASE p \notin S
    <3>1. Pairs(S, written') = Pairs(S, written)
      BY <2>2, <2>0, PairsSame, Zenon DEF TypeOK
    <3>2. Cardinality(S \cup {p}) = Cardinality(S) + 1
      BY <2>0, <2>2, Zenon DEF FiniteSetFacts, AddElement
    <3>2a. Cardinality(Pairs(S \cup {p}, written)) = Cardinality(Pairs(S, written)) + Cardinality(written[p])
      BY <2>0, <2>2, PairsJoin, Zenon DEF TypeOK
    <3>3. S \cup {p} \in (SUBSET Active) \ {{}}
      BY Zenon
    <3>4. Len(lh) + Cardinality(S \cup {p}) * MAXOPBLOCKS <= LOGSIZE + Cardinality(Pairs(S \cup {p}, written))
      BY <3>3, Zenon DEF SpaceInv
    <3>5. Len(lh) + (Cardinality(S) + 1) * MAXOPBLOCKS
            <= LOGSIZE + (Cardinality(Pairs(S, written)) + Cardinality(written[p]))
      BY <3>2, <3>2a, <3>4, Zenon
    <3>6. /\ (Cardinality(S) + 1) * MAXOPBLOCKS = Cardinality(S) * MAXOPBLOCKS + MAXOPBLOCKS
          /\ Cardinality(S) * MAXOPBLOCKS \in Nat
      BY <2>0
    <3>7. Len(lh) + (Cardinality(S) * MAXOPBLOCKS + MAXOPBLOCKS)
            <= LOGSIZE + (Cardinality(Pairs(S, written)) + Cardinality(written[p]))
      BY <3>5, <3>6, Zenon
    <3>8. Len(lh) + 1 + Cardinality(S) * MAXOPBLOCKS <= LOGSIZE + Cardinality(Pairs(S, written))
      <4>1. \A l, k, n, w \in Nat : l + (k + MAXOPBLOCKS) <= LOGSIZE + (n + w) /\ w + 1 <= OPBLOCKS
                                   => l + 1 + k <= LOGSIZE + n
        OBVIOUS
      <4> QED  BY <4>1, <2>0, <1>1, <1>3, <3>6, <3>7, Zenon
    <3> QED  BY <1>1, <3>1, <3>8, Zenon
  <2> QED  BY <2>1, <2>2, Zenon
<1>6. ASSUME NEW q \in Active
      PROVE  \/ Len(lh') <= Cardinality(written'[q])
             \/ Len(lh') + 2 * MAXOPBLOCKS <= LOGSIZE + Cardinality(written'[q]) + OPBLOCKS
  <2>1. CASE q = p
    BY <2>1, <1>1, <1>3 DEF SpaceInv
  <2>2. CASE q # p
    <3>1. q \in Proc /\ written'[q] = written[q]
      BY <2>2, <1>4, Zenon DEF TypeOK
    <3>2. Cardinality(written[q]) \in Nat
      BY <3>1, BlocksFinite, Zenon DEF TypeOK
    <3>3. IsFiniteSet({q}) /\ Cardinality({q}) = 1
      BY Zenon DEF FiniteSetFacts, Singleton
    <3>4. Cardinality({q} \cup {p}) = 1 + 1
      BY <2>2, <3>3, Zenon DEF FiniteSetFacts, AddElement
    <3>5. Cardinality(Pairs({q} \cup {p}, written)) = Cardinality(Pairs({q}, written)) + Cardinality(written[p])
      BY <2>2, <3>1, PairsJoin, Zenon DEF TypeOK
    <3>6. Cardinality(Pairs({q}, written)) = Cardinality(written[q])
      BY <3>1, PairsOne, Zenon DEF TypeOK
    <3>7. {q} \cup {p} \in (SUBSET Active) \ {{}}
      BY Zenon
    <3>8. Len(lh) + Cardinality({q} \cup {p}) * MAXOPBLOCKS <= LOGSIZE + Cardinality(Pairs({q} \cup {p}, written))
      BY <3>7, Zenon DEF SpaceInv
    <3>9. Len(lh) + (1 + 1) * MAXOPBLOCKS <= LOGSIZE + (Cardinality(written[q]) + Cardinality(written[p]))
      BY <3>4, <3>5, <3>6, <3>8, Zenon
    <3> QED  BY <1>1, <1>3, <3>1, <3>2, <3>9
  <2> QED  BY <2>1, <2>2, Zenon
<1>7. SpaceInv'
  BY <1>5, <1>6, Zenon DEF SpaceInv
<1>8. Len(lh') <= LOGSIZE /\ Len(lh') <= NLOG - 1
  <2>1. \/ Len(lh') <= Cardinality(written'[p])
        \/ Len(lh') + 2 * MAXOPBLOCKS <= LOGSIZE + Cardinality(written'[p]) + OPBLOCKS
    BY <1>6, Zenon
  <2> QED  BY <1>1, <1>3, <2>1, GeometryAssumption
<1> QED  BY <1>7, <1>8, Zenon

\* The locked part of log_write: absorption or a new block of the header, and the pin.
LEMMA LogAppendStep ==
  ASSUME FiniteSetFacts, NEW p \in Proc, IInv, rec = "up", ~panicked, LogAppend(p) PROVE IInv'
<1>0. PICK b \in Home : b = wb[p]
  BY Zenon DEF IInv, TypeOK
<1>2. /\ UNCHANGED <<disk, hdr, cache, outstanding, committing, tail, rec, panicked>>
      /\ pc[p] = "append" /\ lh' = Logged(b) /\ dirty' = [dirty EXCEPT ![b] = TRUE]
      /\ written' = [written EXCEPT ![p] = @ \cup {b}]
      /\ pc' = [pc EXCEPT ![p] = "op"] /\ wb' = [wb EXCEPT ![p] = NLOG]
  BY <1>0, Zenon DEF LogAppend
<1>1. TypeOK'
  <2>1. lh' \in Seq(Home)
    BY <1>2 DEF Logged, IInv, TypeOK
  <2>2. NLOG \in Home
    BY DEF Home
  <2> QED  BY <1>2, <2>1, <2>2, Zenon DEF IInv, TypeOK, PcLoc
<1>3. Active' = Active
  BY <1>2, Zenon DEF Active, IInv, TypeOK
<1>4. /\ p \in Active /\ ~committing /\ hdr = <<>> /\ tail = 0
      /\ \A q \in Proc : pc[q] \notin CommitLoc
  BY <1>2, InOperation, Zenon
<1>5. \A q \in Proc : pc'[q] \notin CommitLoc
  BY <1>2, <1>4, Zenon DEF CommitLoc, IInv, TypeOK
<1>6. CountInv'
  BY <1>2, <1>3, <1>4, <1>5, Zenon DEF IInv, TypeOK, CountInv, WaiterHasWaker
<1>7. Cardinality(written[p] \cup {b}) <= OPBLOCKS
  BY <1>0, <1>2, Zenon DEF IInv, OpInv
<1>8. /\ InLog(b)' /\ (\A x \in Home : InLog(x) => InLog(x)')
      /\ SpaceInv' /\ Distinct(lh)'
  <2>1. CASE InLog(b)
    <3>1. lh' = lh
      BY <1>2, <2>1, Zenon DEF Logged
    <3>2. SpaceInv'
      <4>1. ASSUME NEW S \in (SUBSET Active) \ {{}}
            PROVE  Len(lh') + Cardinality(S) * MAXOPBLOCKS <= LOGSIZE + Cardinality(Pairs(S, written'))
        <5>1. S \in SUBSET Proc
          BY ActiveFacts, Zenon DEF IInv
        <5>2. Cardinality(Pairs(S, written)) <= Cardinality(Pairs(S, written'))
          BY <1>2, <5>1, PairsMore, Zenon DEF IInv, TypeOK
        <5>3. Cardinality(S) \in Nat /\ Cardinality(Pairs(S, written)) \in Nat /\ Cardinality(Pairs(S, written')) \in Nat
          BY <5>1, PairsFinite, Zenon
        <5>4. Len(lh) + Cardinality(S) * MAXOPBLOCKS <= LOGSIZE + Cardinality(Pairs(S, written))
          BY Zenon DEF IInv, SpaceInv
        <5>5. Len(lh) \in Nat /\ Cardinality(S) * MAXOPBLOCKS \in Nat
          BY <5>3 DEF IInv, TypeOK
        <5> QED  BY <3>1, <5>2, <5>3, <5>4, <5>5
      <4>2. ASSUME NEW q \in Active
            PROVE  \/ Len(lh') <= Cardinality(written'[q])
                   \/ Len(lh') + 2 * MAXOPBLOCKS <= LOGSIZE + Cardinality(written'[q]) + OPBLOCKS
        <5>1. q \in Proc /\ written[q] \in SUBSET written'[q] /\ written'[q] \in SUBSET Home
          BY <1>1, <1>2, ActiveFacts, Zenon DEF IInv, TypeOK
        <5>2. Cardinality(written[q]) <= Cardinality(written'[q]) /\ Cardinality(written[q]) \in Nat
              /\ Cardinality(written'[q]) \in Nat
          BY <5>1, BlocksFinite, Zenon DEF FiniteSetFacts, Subset
        <5>3. Len(lh) \in Nat
          BY DEF IInv, TypeOK
        <5> QED  BY <3>1, <5>2, <5>3 DEF IInv, SpaceInv
      <4> QED  BY <1>3, <4>1, <4>2, Zenon DEF SpaceInv
    <3> QED  BY <2>1, <3>1, <3>2, Zenon DEF InLog, IInv, HeaderInv, Distinct
  <2>2. CASE ~InLog(b)
    <3>1. lh' = Append(lh, b)
      BY <1>2, <2>2, Zenon DEF Logged
    <3>2. SpaceInv' /\ Len(lh') <= LOGSIZE /\ Len(lh') <= NLOG - 1
      BY <1>0, <1>2, <1>3, <1>4, <1>7, <2>2, <3>1, AppendSpace, Zenon DEF IInv
    <3>3. /\ Len(lh') = Len(lh) + 1 /\ lh'[Len(lh) + 1] = b
          /\ \A i \in 1..Len(lh) : lh'[i] = lh[i]
          /\ Len(lh) \in Nat
      BY <1>0, <3>1 DEF IInv, TypeOK
    <3>4. Distinct(lh)'
      BY <2>2, <3>2, <3>3 DEF IInv, HeaderInv, Distinct, InLog
    <3> QED  BY <3>2, <3>3, <3>4 DEF InLog
  <2> QED  BY <2>1, <2>2, Zenon
<1>9. OpInv'
  <2> SUFFICES ASSUME NEW q \in Proc
               PROVE  /\ q \notin Active' => written'[q] = {}
                      /\ Cardinality(written'[q]) <= OPBLOCKS
                      /\ \A x \in written'[q] : InLog(x)'
                      /\ pc'[q] = "append" =>
                          /\ Cardinality(written'[q] \cup {wb'[q]}) <= OPBLOCKS
                          /\ \A r \in Proc : pc'[r] = "append" /\ wb'[r] = wb'[q] => r = q
    BY Zenon DEF OpInv
  <2>1. CASE q = p
    <3>1. written'[p] = written[p] \cup {b} /\ pc'[p] = "op" /\ written[p] \in SUBSET Home
      BY <1>2, Zenon DEF IInv, TypeOK
    <3> QED  BY <2>1, <1>3, <1>4, <1>7, <1>8, <3>1, Zenon DEF IInv, OpInv
  <2>2. CASE q # p
    <3>1. written'[q] = written[q] /\ pc'[q] = pc[q] /\ wb'[q] = wb[q] /\ written[q] \in SUBSET Home
      BY <1>2, <2>2, Zenon DEF IInv, TypeOK
    <3>2. \A r \in Proc : pc'[r] = "append" => pc[r] = "append" /\ wb'[r] = wb[r]
      BY <1>2, Zenon DEF IInv, TypeOK
    <3> QED  BY <1>3, <1>8, <3>1, <3>2, Zenon DEF IInv, OpInv
  <2> QED  BY <2>1, <2>2, Zenon
<1>10. HeaderInv'
  BY <1>2, <1>8, Zenon DEF IInv, HeaderInv, Distinct
<1>11. PinnedUntilInstalled'
  <2> SUFFICES ASSUME NEW x \in Home
               PROVE  /\ cache[x] # disk[x] => dirty'[x] \/ \E q \in Proc : pc'[q] = "append" /\ wb'[q] = x
                      /\ dirty'[x] => InLog(x)'
    BY <1>2, Zenon DEF PinnedUntilInstalled
  <2>1. CASE x = b
    BY <1>0, <1>2, <1>8, <2>1, Zenon DEF IInv, TypeOK
  <2>2. CASE x # b
    <3>1. /\ cache[x] # disk[x] => dirty[x] \/ \E q \in Proc : pc[q] = "append" /\ wb[q] = x
          /\ dirty[x] => InLog(x)
      BY <1>2, Zenon DEF IInv, PinnedUntilInstalled
    <3>2. dirty'[x] = dirty[x]
      BY <1>2, <2>2, Zenon DEF IInv, TypeOK
    <3>3. ASSUME NEW q \in Proc, pc[q] = "append" /\ wb[q] = x
          PROVE  pc'[q] = "append" /\ wb'[q] = x
      <4>1. q # p
        BY <1>0, <2>2, <3>3, Zenon
      <4> QED  BY <1>2, <3>3, <4>1, Zenon DEF IInv, TypeOK
    <3> QED  BY <1>8, <3>1, <3>2, <3>3, Zenon
  <2> QED  BY <2>1, <2>2, Zenon
<1>12. CommitInv'
  BY <1>2, <1>3, <1>4, <1>5, OperationKeepsCommit, Zenon
<1> QED  BY <1>1, <1>2, <1>6, <1>8, <1>9, <1>10, <1>11, <1>12, Zenon DEF IInv

\* end_op: the last operation starts the commit, the others wake those who wait.
LEMMA EndOpStep ==
  ASSUME FiniteSetFacts, NEW p \in Proc, IInv, rec = "up", ~panicked, EndOp(p) PROVE IInv'
<1>0. /\ p \in Active /\ ~committing /\ hdr = <<>> /\ tail = 0
      /\ \A q \in Proc : pc[q] \notin CommitLoc
  BY InOperation, Zenon DEF EndOp
<1>2. /\ UNCHANGED <<disk, hdr, cache, dirty, lh, tail, wb, rec, panicked>>
      /\ pc[p] = "op" /\ outstanding' = outstanding - 1 /\ committing' = (outstanding = 1)
      /\ written' = [written EXCEPT ![p] = {}]
      /\ pc' = IF outstanding = 1
               THEN [pc EXCEPT ![p] = IF lh = <<>> THEN "done" ELSE "wlog"]
               ELSE [Woken EXCEPT ![p] = "out"]
  BY <1>0, Zenon DEF EndOp
<1>2a. ~panicked'
  BY <1>2, Zenon
<1>3. /\ \A q \in Proc : q # p => /\ pc'[q] = pc[q] \/ (pc[q] = "sleep" /\ pc'[q] = "retry")
                                  /\ outstanding = 1 => pc'[q] = pc[q]
                                  /\ outstanding # 1 => pc'[q] # "sleep"
      /\ pc'[p] = IF outstanding = 1 THEN IF lh = <<>> THEN "done" ELSE "wlog" ELSE "out"
      /\ pc' \in [Proc -> PcLoc]
  BY <1>2, Zenon DEF IInv, TypeOK, Woken, PcLoc
<1>4. Active' = Active \ {p}
  BY <1>2, <1>3, Zenon DEF Active
<1>5. Cardinality(Active') = outstanding' /\ outstanding' \in Nat
  <2>1. Cardinality(Active) = outstanding /\ IsFiniteSet(Active)
    BY ActiveFacts, Zenon DEF IInv, CountInv
  <2>2. Cardinality(Active \ {p}) = outstanding - 1
    BY <1>0, <2>1, Zenon DEF FiniteSetFacts, RemoveElement
  <2>3. IsFiniteSet(Active \ {p})
    BY <2>1, Zenon DEF FiniteSetFacts, RemoveElement
  <2> QED  BY <1>2, <1>4, <2>2, <2>3, Zenon DEF FiniteSetFacts, CardinalityType
<1>6. outstanding' = 0 <=> Active' = {}
  <2>1. IsFiniteSet(Active')
    BY <1>4, ActiveFacts, Zenon DEF FiniteSetFacts, RemoveElement, IInv
  <2> QED  BY <1>5, <2>1, Zenon DEF FiniteSetFacts, EmptySet
<1>1. TypeOK'
  <2>1. written' \in [Proc -> SUBSET Home] /\ committing' \in BOOLEAN
    BY <1>2, Zenon DEF IInv, TypeOK
  <2> QED  BY <1>2, <1>3, <1>5, <2>1, Zenon DEF IInv, TypeOK
<1>7. CountInv'
  <2>1. CASE outstanding = 1
    <3>0. committing'
      BY <2>1, <1>2, Zenon
    <3>1. outstanding' = 0 /\ Active' = {}
      BY <2>1, <1>2, <1>6
    <3>2. \A q \in Proc : pc'[q] \in CommitLoc <=> q = p
      BY <2>1, <1>0, <1>3, Zenon DEF CommitLoc
    <3> QED  BY <1>2a, <1>5, <3>0, <3>1, <3>2, Zenon DEF CountInv, WaiterHasWaker
  <2>2. CASE outstanding # 1
    <3>1. outstanding' > 0
      BY <2>2, <1>2, <1>5 DEF IInv, TypeOK
    <3>2. \A q \in Proc : pc'[q] \notin CommitLoc
      BY <2>2, <1>0, <1>3, Zenon DEF CommitLoc
    <3>3. committing' = FALSE
      BY <1>2, <2>2, Zenon
    <3> QED  BY <1>2a, <1>5, <3>1, <3>2, <3>3, Zenon DEF CountInv, WaiterHasWaker
  <2> QED  BY <2>1, <2>2, Zenon
<1>8. OpInv'
  <2> SUFFICES ASSUME NEW q \in Proc
               PROVE  /\ q \notin Active' => written'[q] = {}
                      /\ Cardinality(written'[q]) <= OPBLOCKS
                      /\ \A x \in written'[q] : InLog(x)'
                      /\ pc'[q] = "append" =>
                          /\ Cardinality(written'[q] \cup {wb'[q]}) <= OPBLOCKS
                          /\ \A r \in Proc : pc'[r] = "append" /\ wb'[r] = wb'[q] => r = q
    BY Zenon DEF OpInv
  <2>1. CASE q = p
    <3>1. written'[p] = {} /\ pc'[p] # "append"
      BY <1>2, <1>3, Zenon DEF IInv, TypeOK
    <3> QED  BY <2>1, <3>1 DEF FiniteSetFacts, EmptySet
  <2>2. CASE q # p
    <3>1. written'[q] = written[q] /\ wb' = wb /\ lh' = lh /\ (q \in Active' <=> q \in Active)
      BY <1>2, <1>4, <2>2, Zenon DEF IInv, TypeOK
    <3>2. \A r \in Proc : pc'[r] = "append" => pc[r] = "append"
      BY <1>3, Zenon
    <3> QED  BY <3>1, <3>2, Zenon DEF IInv, OpInv, InLog
  <2> QED  BY <2>1, <2>2, Zenon
<1>9. SpaceInv'
  <2>1. \A q \in Active' : written'[q] = written[q]
    BY <1>2, <1>4, ActiveFacts, Zenon DEF IInv, TypeOK
  <2> QED  BY <1>2, <1>4, <2>1, SpaceKept, Zenon DEF IInv
<1>10. HeaderInv'
  BY <1>2, Zenon DEF IInv, HeaderInv, Distinct
<1>11. PinnedUntilInstalled'
  <2>1. \A q \in Proc : pc[q] = "append" => pc'[q] = "append"
    BY <1>2, <1>3, Zenon
  <2> QED  BY <1>2, <2>1 DEF IInv, PinnedUntilInstalled, InLog
<1>12. CommitInv'
  <2>1. CASE outstanding = 1
    <3>1. \A q \in Proc : q # p => pc'[q] \notin CommitLoc
      BY <1>0, <1>3, <2>1, Zenon
    <3>2. pc'[p] = "wlog" => tail' < Len(lh') /\ CopiedTo(tail)'
      BY <1>0, <1>2, <1>3 DEF CopiedTo, IInv, TypeOK
    <3>3. pc'[p] = "done" => lh' = <<>>
      BY <1>2, <1>3, <2>1, Zenon
    <3>4. pc'[p] \in {"wlog", "done"} /\ committing'
      BY <1>2, <1>3, <2>1, Zenon
    <3> QED  BY <1>0, <1>2, <3>1, <3>2, <3>3, <3>4, Zenon DEF CommitInv, CommitLoc
  <2>2. CASE outstanding # 1
    <3>1. \A q \in Proc : pc'[q] \notin CommitLoc
      BY <2>2, <1>0, <1>3, Zenon DEF CommitLoc
    <3>2. Active' # {}
      BY <1>2, <1>5, <1>6, <2>2
    <3> QED  BY <1>0, <1>2, <3>1, <3>2, OperationKeepsCommit, Zenon
  <2> QED  BY <2>1, <2>2, Zenon
<1> QED  BY <1>1, <1>2, <1>7, <1>8, <1>9, <1>10, <1>11, <1>12, Zenon DEF IInv

-----------------------------------------------------------------------------
(* The steps of commit() keep the invariant. *)

\* With no operation on, nothing is reserved.
LEMMA NoOperation ==
  ASSUME FiniteSetFacts, Active' = {}, \A q \in Proc : written'[q] = {}
  PROVE  OpInv' /\ SpaceInv'
<1>1. \A q \in Proc : pc'[q] # "append"
  BY Zenon DEF Active
<1>2. OpInv'
  BY <1>1 DEF FiniteSetFacts, EmptySet, OpInv
<1>3. SpaceInv'
  BY Zenon DEF SpaceInv
<1> QED  BY <1>2, <1>3, Zenon

\* A process in commit() is alone.
LEMMA InCommit ==
  ASSUME FiniteSetFacts, NEW p \in Proc, IInv, pc[p] \in CommitLoc
  PROVE  /\ committing /\ Active = {} /\ outstanding = 0 /\ rec = "up"
         /\ \A q \in Proc : written[q] = {} /\ pc[q] # "append" /\ (q # p => pc[q] \notin CommitLoc)
<1>1. committing /\ Active = {}
  BY Zenon DEF IInv, CountInv
<1>2. outstanding = 0
  BY <1>1, Zenon DEF FiniteSetFacts, EmptySet, IInv, CountInv
<1>3. rec = "up"
  BY Zenon DEF IInv, RecoverInv, CommitLoc
<1> QED  BY <1>1, <1>2, <1>3, Zenon DEF IInv, CountInv, OpInv, Active

\* A step of commit() to another point of commit().
LEMMA CommitMoves ==
  ASSUME FiniteSetFacts, NEW p \in Proc, NEW loc \in CommitLoc, IInv, pc[p] \in CommitLoc,
         pc' = [pc EXCEPT ![p] = loc], UNCHANGED <<outstanding, committing, wb, written, rec>>, ~panicked'
  PROVE  /\ CountInv' /\ OpInv' /\ SpaceInv'
         /\ \A q \in Proc : pc'[q] # "append" /\ pc[q] # "append" /\ (pc'[q] \in CommitLoc <=> q = p)
         /\ pc'[p] = loc /\ pc' \in [Proc -> PcLoc] /\ committing' /\ rec' = "up"
<1>1. /\ committing /\ Active = {} /\ outstanding = 0 /\ rec = "up"
      /\ \A q \in Proc : written[q] = {} /\ pc[q] # "append" /\ (q # p => pc[q] \notin CommitLoc)
  BY InCommit, Zenon
<1>2. /\ pc'[p] = loc /\ pc' \in [Proc -> PcLoc]
      /\ \A q \in Proc : pc'[q] # "append" /\ (pc'[q] \in CommitLoc <=> q = p)
  BY <1>1, Zenon DEF IInv, TypeOK, PcLoc, CommitLoc
<1>3. Active' = Active
  BY <1>1, <1>2, Zenon DEF Active, IInv, TypeOK, CommitLoc
<1>4. CountInv'
  BY <1>1, <1>2, <1>3, Zenon DEF FiniteSetFacts, EmptySet, CountInv, WaiterHasWaker
<1>5. OpInv' /\ SpaceInv'
  BY <1>1, <1>3, NoOperation, Zenon
<1> QED  BY <1>1, <1>2, <1>4, <1>5, Zenon

\* Home blocks come after the log's.
LEMMA HomeAfterLog ==
  ASSUME TypeOK, HeaderInv, NEW i \in 1..Len(lh)
  PROVE  /\ lh[i] \in Home /\ lh[i] \in Addr /\ i \in Addr /\ i \notin Home
         /\ Home \subseteq Addr /\ Len(lh) \in Nat
         /\ \A j \in 1..Len(lh) : lh[j] # i /\ (lh[j] = lh[i] => j = i)
<1>1. Len(lh) \in Nat /\ \A j \in 1..Len(lh) : lh[j] \in Home
  BY DEF TypeOK
<1>2. i \in Nat /\ i >= 1 /\ i <= NLOG - 1
  BY <1>1 DEF HeaderInv, Distinct
<1>3. i \in Addr /\ i \notin Home /\ Home \subseteq Addr
  BY <1>2 DEF Addr, Home
<1> QED  BY <1>1, <1>3, Zenon DEF HeaderInv, Distinct

\* write_log copies one block to the log.
LEMMA WriteLogStep ==
  ASSUME FiniteSetFacts, NEW p \in Proc, IInv, ~panicked, WriteLog(p) PROVE IInv'
<1> DEFINE t == tail + 1
<1>1. /\ pc[p] = "wlog" /\ UNCHANGED <<hdr, dirty, lh, outstanding, committing, wb, written, rec, panicked>>
      /\ disk' = [disk EXCEPT ![t] = cache[lh[t]]] /\ cache' = [cache EXCEPT ![t] = cache[lh[t]]]
  BY Zenon DEF WriteLog
<1>2. rec = "up" /\ tail \in Nat /\ tail < Len(lh) /\ CopiedTo(tail) /\ hdr = <<>> /\ lh # <<>>
  <2>1. /\ rec = "up" /\ \A q \in Proc : pc[q] \notin {"install", "clear"}
    BY <1>1, InCommit, Zenon DEF CommitLoc
  <2> QED  BY <1>1, <2>1 DEF IInv, TypeOK, CommitInv
<1>3. PICK loc \in {"wlog", "head"} :
        /\ pc' = [pc EXCEPT ![p] = loc]
        /\ loc = "wlog" => t < Len(lh) /\ tail' = t
        /\ loc = "head" => t >= Len(lh) /\ tail' = 0
  <2>1. pc = [pc EXCEPT ![p] = "wlog"]
    BY <1>1, Zenon DEF IInv, TypeOK
  <2> QED  BY <1>1, <1>2, <2>1 DEF WriteLog, Advance
<1>4. t \in 1..Len(lh)
  BY <1>2 DEF IInv, TypeOK
<1>5. /\ lh[t] \in Home /\ t \in Addr /\ t \notin Home /\ Home \subseteq Addr /\ Len(lh) \in Nat
      /\ \A j \in 1..Len(lh) : lh[j] # t /\ lh[j] \in Addr
  BY <1>4, HomeAfterLog, Zenon DEF IInv
<1> HIDE DEF t
<1>6. /\ CountInv' /\ OpInv' /\ SpaceInv'
      /\ \A q \in Proc : pc'[q] # "append" /\ pc[q] # "append" /\ (pc'[q] \in CommitLoc <=> q = p)
      /\ pc'[p] = loc /\ pc' \in [Proc -> PcLoc] /\ committing' /\ rec' = "up"
  BY <1>1, <1>3, CommitMoves, Zenon DEF CommitLoc
<1>7. disk' \in [Addr -> Val] /\ cache' \in [Addr -> Val]
  BY <1>1, <1>5, Zenon DEF IInv, TypeOK
<1>8. tail' \in Nat
  BY <1>2, <1>3, <1>4
<1>9. TypeOK'
  BY <1>1, <1>6, <1>7, <1>8, Zenon DEF IInv, TypeOK
<1>10. HeaderInv'
  BY <1>1, Zenon DEF IInv, HeaderInv, Distinct
<1>11. \A x \in Home : disk'[x] = disk[x] /\ cache'[x] = cache[x]
  BY <1>1, <1>5, Zenon DEF IInv, TypeOK
<1>12. PinnedUntilInstalled'
  BY <1>1, <1>6, <1>11 DEF IInv, PinnedUntilInstalled, InLog
<1>13. \A i \in 1..t : disk'[i] = cache'[lh[i]] /\ cache'[i] = cache'[lh[i]]
  <2> SUFFICES ASSUME NEW i \in 1..t PROVE disk'[i] = cache'[lh[i]] /\ cache'[i] = cache'[lh[i]]
    BY Zenon
  <2>1. i \in 1..Len(lh) /\ (i = t \/ i \in 1..tail)
    BY <1>2, <1>4, <1>5 DEF t
  <2>2. lh[i] \in Home /\ i \in Addr
    BY <2>1, HomeAfterLog, Zenon DEF IInv
  <2>3. CASE i = t
    BY <2>2, <2>3, <1>1, <1>5, <1>11 DEF IInv, TypeOK
  <2>4. CASE i # t
    BY <2>1, <2>2, <2>4, <1>1, <1>2, <1>11, Zenon DEF IInv, TypeOK, CopiedTo
  <2> QED  BY <2>3, <2>4, Zenon
<1>14. CommitInv'
  <2>1. loc = "wlog" => tail' < Len(lh') /\ CopiedTo(tail)'
    BY <1>1, <1>3, <1>13, Zenon DEF CopiedTo
  <2>2. loc = "head" => lh' # <<>> /\ CopiedTo(Len(lh))' /\ tail' = 0
    <3>1. loc = "head" => t = Len(lh)
      BY <1>3, <1>4, <1>5
    <3> QED  BY <1>1, <1>2, <1>3, <1>13, <3>1, Zenon DEF CopiedTo
  <2> QED  BY <1>1, <1>2, <1>6, <2>1, <2>2, Zenon DEF CommitInv, CommitLoc
<1> QED  BY <1>6, <1>9, <1>10, <1>12, <1>14, Zenon DEF IInv

\* write_head commits.
LEMMA WriteHeadStep ==
  ASSUME FiniteSetFacts, NEW p \in Proc, IInv, ~panicked, WriteHead(p) PROVE IInv'
<1>1. /\ pc[p] = "head" /\ hdr' = lh /\ pc' = [pc EXCEPT ![p] = "install"]
      /\ UNCHANGED <<disk, cache, dirty, lh, outstanding, committing, tail, wb, written, rec, panicked>>
  BY Zenon DEF WriteHead, mem
<1>2. rec = "up" /\ \A q \in Proc : pc[q] \notin {"wlog", "install"}
  <2>1. rec = "up" /\ \A q \in Proc : q # p => pc[q] \notin CommitLoc
    BY <1>1, InCommit, Zenon DEF CommitLoc
  <2> QED  BY <1>1, <2>1, Zenon DEF CommitLoc
<1>3. tail = 0 /\ lh # <<>> /\ CopiedTo(Len(lh))
  BY <1>1, <1>2, Zenon DEF IInv, CommitInv
<1>4. /\ CountInv' /\ OpInv' /\ SpaceInv'
      /\ \A q \in Proc : pc'[q] # "append" /\ pc[q] # "append" /\ (pc'[q] \in CommitLoc <=> q = p)
      /\ pc'[p] = "install" /\ pc' \in [Proc -> PcLoc] /\ committing' /\ rec' = "up"
  BY <1>1, CommitMoves, Zenon DEF CommitLoc
<1>5. TypeOK'
  BY <1>1, <1>4, Zenon DEF IInv, TypeOK
<1>6. HeaderInv'
  BY <1>1, Zenon DEF IInv, HeaderInv, Distinct
<1>7. PinnedUntilInstalled'
  BY <1>1, <1>4, Zenon DEF IInv, PinnedUntilInstalled, InLog
<1>8. CommitInv'
  <2>1. tail' < Len(lh') /\ CopiedTo(Len(lh))' /\ InstalledTo(tail)'
    BY <1>1, <1>3 DEF CopiedTo, InstalledTo, IInv, TypeOK
  <2> QED  BY <1>1, <1>4, <2>1, Zenon DEF CommitInv, CommitLoc
<1> QED  BY <1>4, <1>5, <1>6, <1>7, <1>8, Zenon DEF IInv

\* One round of install_trans writes the cached block, which stays as it is in the cache,
\* and changes no other block.
LEMMA InstallFacts ==
  ASSUME TypeOK, HeaderInv, tail < Len(lh), cache[tail + 1] = cache[lh[tail + 1]], InstallBlock
  PROVE  /\ disk' \in [Addr -> Val] /\ cache' = cache /\ dirty' \in [Home -> BOOLEAN]
         /\ tail + 1 \in 1..Len(lh) /\ lh[tail + 1] \in Home
         /\ disk'[lh[tail + 1]] = cache[lh[tail + 1]] /\ ~dirty'[lh[tail + 1]]
         /\ \A x \in Addr : x # lh[tail + 1] => disk'[x] = disk[x]
         /\ \A x \in Home : x # lh[tail + 1] => dirty'[x] = dirty[x]
<1>1. PICK b : b = lh[tail + 1]
  BY Zenon
<1>2. /\ disk' = [disk EXCEPT ![b] = cache[tail + 1]]
      /\ cache' = [cache EXCEPT ![b] = cache[tail + 1]]
      /\ dirty' = [dirty EXCEPT ![b] = FALSE]
  BY <1>1, Zenon DEF InstallBlock
<1>3. tail + 1 \in 1..Len(lh)
  BY DEF TypeOK
<1>4. b \in Home /\ b \in Addr /\ tail + 1 \in Addr
  BY <1>1, <1>3, HomeAfterLog, Zenon
<1>5. cache' = cache
  BY <1>1, <1>2, <1>4, Zenon DEF TypeOK
<1> QED  BY <1>1, <1>2, <1>3, <1>4, <1>5, Zenon DEF TypeOK

\* install_trans copies one block home.
LEMMA InstallStep ==
  ASSUME FiniteSetFacts, NEW p \in Proc, IInv, ~panicked, Install(p) PROVE IInv'
<1> DEFINE t == tail + 1
<1>1. /\ pc[p] = "install" /\ InstallBlock
      /\ UNCHANGED <<hdr, lh, outstanding, committing, wb, written, rec, panicked>>
  BY Zenon DEF Install
<1>2. /\ rec = "up" /\ tail \in Nat /\ tail < Len(lh) /\ hdr = lh
      /\ CopiedTo(Len(lh)) /\ InstalledTo(tail)
  <2>1. rec = "up"
    BY <1>1, InCommit, Zenon DEF CommitLoc
  <2> QED  BY <1>1, <2>1, Zenon DEF IInv, TypeOK, CommitInv
<1>3. PICK loc \in {"install", "clear"} :
        /\ pc' = [pc EXCEPT ![p] = loc]
        /\ loc = "install" => t < Len(lh) /\ tail' = t
        /\ loc = "clear" => t >= Len(lh) /\ tail' = 0
  <2>1. pc = [pc EXCEPT ![p] = "install"]
    BY <1>1, Zenon DEF IInv, TypeOK
  <2> QED  BY <1>1, <1>2, <2>1 DEF Install, Advance
<1>4. cache[t] = cache[lh[t]]
  BY <1>2 DEF CopiedTo, IInv, TypeOK
<1>5. /\ disk' \in [Addr -> Val] /\ cache' = cache /\ dirty' \in [Home -> BOOLEAN]
      /\ t \in 1..Len(lh) /\ lh[t] \in Home
      /\ disk'[lh[t]] = cache[lh[t]] /\ ~dirty'[lh[t]]
      /\ \A x \in Addr : x # lh[t] => disk'[x] = disk[x]
      /\ \A x \in Home : x # lh[t] => dirty'[x] = dirty[x]
  BY <1>1, <1>2, <1>4, InstallFacts, Zenon DEF IInv
<1>5a. \A i \in 1..Len(lh) : /\ lh[i] \in Home /\ lh[i] \in Addr /\ i \in Addr /\ i \notin Home
                             /\ Home \subseteq Addr /\ Len(lh) \in Nat
  BY HomeAfterLog, Zenon DEF IInv
<1> HIDE DEF t
<1>6. /\ CountInv' /\ OpInv' /\ SpaceInv'
      /\ \A q \in Proc : pc'[q] # "append" /\ pc[q] # "append" /\ (pc'[q] \in CommitLoc <=> q = p)
      /\ pc'[p] = loc /\ pc' \in [Proc -> PcLoc] /\ committing' /\ rec' = "up"
  BY <1>1, <1>3, CommitMoves, Zenon DEF CommitLoc
<1>7. tail' \in Nat
  BY <1>2, <1>3 DEF t
<1>8. TypeOK'
  BY <1>1, <1>5, <1>6, <1>7, Zenon DEF IInv, TypeOK
<1>9. HeaderInv'
  BY <1>1, Zenon DEF IInv, HeaderInv, Distinct
<1>10. PinnedUntilInstalled'
  <2> SUFFICES ASSUME NEW x \in Home
               PROVE  /\ cache'[x] # disk'[x] => dirty'[x]
                      /\ dirty'[x] => InLog(x)'
    BY Zenon DEF PinnedUntilInstalled
  <2>1. CASE x = lh[t]
    BY <2>1, <1>5, Zenon
  <2>2. CASE x # lh[t]
    <3>1. /\ cache[x] # disk[x] => dirty[x]
          /\ dirty[x] => InLog(x)
      BY <1>2, <1>6, Zenon DEF IInv, PinnedUntilInstalled
    <3>2. disk'[x] = disk[x] /\ dirty'[x] = dirty[x] /\ cache'[x] = cache[x]
      BY <2>2, <1>5, <1>5a, Zenon
    <3> QED  BY <1>1, <3>1, <3>2, Zenon DEF InLog
  <2> QED  BY <2>1, <2>2, Zenon
<1>11. CopiedTo(Len(lh))'
  <2> SUFFICES ASSUME NEW i \in 1..Len(lh) PROVE disk'[i] = cache[lh[i]] /\ cache[i] = cache[lh[i]]
    BY <1>1, <1>5, Zenon DEF CopiedTo
  <2>1. disk'[i] = disk[i]
    BY <1>5, <1>5a, Zenon
  <2> QED  BY <1>2, <2>1, Zenon DEF CopiedTo
<1>12. \A i \in 1..t : disk'[lh[i]] = cache'[lh[i]] /\ ~dirty'[lh[i]]
  <2> SUFFICES ASSUME NEW i \in 1..t PROVE disk'[lh[i]] = cache[lh[i]] /\ ~dirty'[lh[i]]
    BY <1>5, Zenon
  <2>1. i \in 1..Len(lh) /\ (i = t \/ i \in 1..tail)
    BY <1>2, <1>5, <1>5a DEF t
  <2>2. CASE lh[i] = lh[t]
    BY <2>2, <1>5, Zenon
  <2>3. CASE lh[i] # lh[t]
    <3>1. i \in 1..tail
      BY <2>1, <2>3, Zenon
    <3> QED  BY <2>1, <2>3, <3>1, <1>2, <1>5, <1>5a, Zenon DEF InstalledTo
  <2> QED  BY <2>2, <2>3, Zenon
<1>13. CommitInv'
  <2>1. loc = "install" => tail' < Len(lh') /\ InstalledTo(tail)'
    BY <1>1, <1>3, <1>12, Zenon DEF InstalledTo
  <2>2. loc = "clear" => InstalledTo(Len(lh))' /\ tail' = 0
    <3>1. loc = "clear" => t = Len(lh)
      BY <1>3, <1>5, <1>5a
    <3> QED  BY <1>1, <1>3, <1>12, <3>1, Zenon DEF InstalledTo
  <2> QED  BY <1>1, <1>2, <1>6, <1>11, <2>1, <2>2, Zenon DEF CommitInv, CommitLoc
<1> QED  BY <1>6, <1>8, <1>9, <1>10, <1>13, Zenon DEF IInv

\* The header is emptied, once every block is home.
LEMMA ClearStep ==
  ASSUME FiniteSetFacts, NEW p \in Proc, IInv, ~panicked, Clear(p) PROVE IInv'
<1>1. /\ pc[p] = "clear" /\ lh' = <<>> /\ hdr' = <<>> /\ pc' = [pc EXCEPT ![p] = "done"]
      /\ UNCHANGED <<disk, cache, dirty, outstanding, committing, tail, wb, written, rec, panicked>>
  BY Zenon DEF Clear
<1>2. rec = "up" /\ \A q \in Proc : pc[q] \notin {"wlog", "install"}
  <2>1. rec = "up" /\ \A q \in Proc : q # p => pc[q] \notin CommitLoc
    BY <1>1, InCommit, Zenon DEF CommitLoc
  <2> QED  BY <1>1, <2>1, Zenon DEF CommitLoc
<1>3. tail = 0 /\ InstalledTo(Len(lh))
  BY <1>1, <1>2, Zenon DEF IInv, CommitInv
<1>4. /\ CountInv' /\ OpInv' /\ SpaceInv'
      /\ \A q \in Proc : pc'[q] # "append" /\ pc[q] # "append" /\ (pc'[q] \in CommitLoc <=> q = p)
      /\ pc'[p] = "done" /\ pc' \in [Proc -> PcLoc] /\ committing' /\ rec' = "up"
  BY <1>1, CommitMoves, Zenon DEF CommitLoc
<1>5. TypeOK'
  BY <1>1, <1>4 DEF IInv, TypeOK
<1>6. HeaderInv'
  BY <1>1 DEF HeaderInv, Distinct
<1>7. PinnedUntilInstalled'
  <2>1. ASSUME NEW x \in Home PROVE ~dirty[x] /\ cache[x] = disk[x]
    <3>1. /\ cache[x] # disk[x] => dirty[x]
          /\ dirty[x] => InLog(x)
      BY <1>2, <1>4, Zenon DEF IInv, PinnedUntilInstalled
    <3> QED  BY <1>3, <3>1, Zenon DEF InLog, InstalledTo
  <2> QED  BY <1>1, <2>1, Zenon DEF PinnedUntilInstalled
<1>8. CommitInv'
  BY <1>1, <1>3, <1>4, Zenon DEF CommitInv, CommitLoc
<1> QED  BY <1>4, <1>5, <1>6, <1>7, <1>8, Zenon DEF IInv

\* The end of end_op wakes all that wait.
LEMMA CommitDoneStep ==
  ASSUME FiniteSetFacts, NEW p \in Proc, IInv, ~panicked, CommitDone(p) PROVE IInv'
<1>1. /\ pc[p] = "done" /\ committing' = FALSE /\ pc' = [Woken EXCEPT ![p] = "out"]
      /\ UNCHANGED <<disk, hdr, cache, dirty, lh, outstanding, tail, wb, written, rec, panicked>>
  BY Zenon DEF CommitDone
<1>2. /\ Active = {} /\ outstanding = 0 /\ rec = "up"
      /\ \A q \in Proc : written[q] = {} /\ pc[q] # "append" /\ (q # p => pc[q] \notin CommitLoc)
  BY <1>1, InCommit, Zenon DEF CommitLoc
<1>3. tail = 0 /\ hdr = <<>> /\ lh = <<>>
  BY <1>1, <1>2, Zenon DEF IInv, CommitInv, CommitLoc
<1>4. /\ pc' \in [Proc -> PcLoc]
      /\ \A q \in Proc : pc'[q] \notin CommitLoc /\ pc'[q] \notin {"op", "append", "sleep"}
  <2>1. \A q \in Proc : pc[q] \notin {"op", "append"}
    BY <1>2, Zenon DEF Active
  <2> QED  BY <1>1, <1>2, <2>1, Zenon DEF Woken, IInv, TypeOK, PcLoc, CommitLoc
<1>5. Active' = {}
  BY <1>4, Zenon DEF Active
<1>6. TypeOK'
  BY <1>1, <1>4, Zenon DEF IInv, TypeOK
<1>7. CountInv'
  BY <1>1, <1>2, <1>4, <1>5, Zenon DEF FiniteSetFacts, EmptySet, CountInv, WaiterHasWaker
<1>8. OpInv' /\ SpaceInv'
  BY <1>1, <1>2, <1>5, NoOperation, Zenon
<1>9. HeaderInv'
  BY <1>1, Zenon DEF IInv, HeaderInv, Distinct
<1>10. PinnedUntilInstalled'
  BY <1>1, <1>2, Zenon DEF IInv, PinnedUntilInstalled, InLog
<1>11. CommitInv'
  BY <1>1, <1>3, <1>4, Zenon DEF CommitInv, CommitLoc
<1> QED  BY <1>1, <1>2, <1>6, <1>7, <1>8, <1>9, <1>10, <1>11, Zenon DEF IInv

=============================================================================
