------------------------------- MODULE LogInv -------------------------------
(***************************************************************************)
(* The inductive invariant behind the safety properties of Log, which      *)
(* LogProofs proves inductive.                                             *)
(***************************************************************************)
EXTENDS Log

CommitLoc == {"wlog", "head", "install", "clear", "done"}

\* outstanding counts the operations; a commit has one process, and no operation; a panic
\* is in an operation.
CountInv ==
    /\ outstanding = Cardinality(Active)
    /\ committing <=> \E p \in Proc : pc[p] \in CommitLoc
    /\ \A p, q \in Proc : pc[p] \in CommitLoc /\ pc[q] \in CommitLoc => p = q
    /\ committing => Active = {}
    /\ panicked => Active # {}
    /\ WaiterHasWaker

\* A block is written by one operation at a time, no operation logs more than OPBLOCKS
\* blocks, and those it has logged are in the header.
OpInv ==
    \A p \in Proc :
        /\ p \notin Active => written[p] = {}
        /\ Cardinality(written[p]) <= OPBLOCKS
        /\ \A b \in written[p] : InLog(b)
        /\ pc[p] = "append" =>
            /\ Cardinality(written[p] \cup {wb[p]}) <= OPBLOCKS
            /\ \A q \in Proc : pc[q] = "append" /\ wb[q] = wb[p] => q = p

\* The blocks the operations in S have logged, each counted for each of them.
Pairs(S, w) == {e \in S \X Home : e[2] \in w[e[1]]}

\* begin_op's reservation: the operations in S may yet log what they have not logged of
\* MAXOPBLOCKS each.  An operation that is alone logged all of the header, or began or
\* was joined when there was room for two.
SpaceInv ==
    /\ \A S \in (SUBSET Active) \ {{}} :
          Len(lh) + Cardinality(S) * MAXOPBLOCKS <= LOGSIZE + Cardinality(Pairs(S, written))
    /\ \A p \in Active :
          \/ Len(lh) <= Cardinality(written[p])
          \/ Len(lh) + 2 * MAXOPBLOCKS <= LOGSIZE + Cardinality(written[p]) + OPBLOCKS

\* The headers name a block once; they fit in struct logheader and in the log's blocks.
Distinct(s) == Len(s) <= LOGSIZE /\ Len(s) <= NLOG - 1 /\ \A i, j \in 1..Len(s) : s[i] = s[j] => i = j
HeaderInv == Distinct(lh) /\ Distinct(hdr)

\* The first n blocks of the log are what the header says, on the disk and in the cache.
CopiedTo(n) == \A i \in 1..n : disk[i] = cache[lh[i]] /\ cache[i] = cache[lh[i]]
\* The first n blocks of the header are home, and unpinned.
InstalledTo(n) == \A i \in 1..n : disk[lh[i]] = cache[lh[i]] /\ ~dirty[lh[i]]

\* What each step of commit() has done.
CommitInv ==
    /\ (\A p \in Proc : pc[p] \notin {"install", "clear"}) => hdr = <<>>
    /\ (\A p \in Proc : pc[p] \notin {"wlog", "install"}) => tail = 0
    /\ Active = {} /\ ~committing => lh = <<>>
    /\ \A p \in Proc :
        /\ pc[p] = "wlog" => tail < Len(lh) /\ CopiedTo(tail)
        /\ pc[p] = "head" => lh # <<>> /\ CopiedTo(Len(lh))
        /\ pc[p] = "install" => hdr = lh /\ tail < Len(lh) /\ CopiedTo(Len(lh)) /\ InstalledTo(tail)
        /\ pc[p] = "clear" => hdr = lh /\ CopiedTo(Len(lh)) /\ InstalledTo(Len(lh))
        /\ pc[p] = "done" => lh = <<>>

\* The first n blocks of the header read by recovery are home.
RecoveredTo(n) == \A i \in 1..n : disk[lh[i]] = disk[i]

\* What each step of recover_from_log() has done, with nothing else at work.
RecoverInv ==
    /\ \A p \in Proc : pc[p] = "out"
    /\ \A b \in Home : ~dirty[b]
    /\ cache = disk /\ ~panicked
    /\ rec = "read" => lh = <<>> /\ tail = 0
    /\ rec = "install" => lh = hdr /\ tail < Len(lh) /\ RecoveredTo(tail)
    /\ rec = "clear" => lh = hdr /\ tail = 0 /\ RecoveredTo(Len(lh))

IInv ==
    /\ TypeOK /\ CountInv /\ OpInv /\ SpaceInv /\ HeaderInv /\ PinnedUntilInstalled
    /\ IF rec = "up" THEN CommitInv ELSE RecoverInv
=============================================================================
