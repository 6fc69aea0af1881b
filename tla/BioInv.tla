------------------------------- MODULE BioInv -------------------------------
(***************************************************************************)
(* The inductive invariant behind the safety properties of Bio, which      *)
(* BioProofs proves inductive.                                             *)
(***************************************************************************)
EXTENDS Bio

HolderLoc == {"rw", "iosleep", "have", "changed"}

\* refcnt counts the processes between bget and the end of brelse.
Users(b) == {p \in Proc : mine[p] = b /\ pc[p] # "out"}
RefInv == \A b \in Buf : refcnt[b] = Cardinality(Users(b))

\* A block has one buffer; a buffer that is in use or valid is some block's.
BlockInv ==
    /\ \A b, c \in Buf : blockno[b] = blockno[c] /\ blockno[b] # NoBlock => b = c
    /\ \A b \in Buf : dirty[b] => valid[b]
    /\ \A b \in Buf : valid[b] => blockno[b] \in Block
    /\ \A p \in Proc : pc[p] # "out" => blockno[mine[p]] \in Block

\* The sleeping lock of a buffer has one holder, and who sleeps for it finds it taken.
LockInv ==
    /\ \A p \in Proc : pc[p] \in HolderLoc => locked[mine[p]]
    /\ \A b \in Buf : locked[b] => \E p \in Proc : mine[p] = b /\ pc[p] \in HolderLoc
    /\ \A p, q \in Proc : mine[p] = mine[q] /\ pc[p] \in HolderLoc /\ pc[q] \in HolderLoc => p = q
    /\ SleepersHaveHolder

\* What the holder of a buffer knows of its flags.
FlagInv ==
    \A p \in Proc : /\ pc[p] \in {"rw", "iosleep"} => ~valid[mine[p]] \/ dirty[mine[p]]
                    /\ pc[p] \in {"have", "changed"} => valid[mine[p]]

\* The requests in the queue are those of the sleepers.
QueueInv ==
    /\ \A i \in 1..Len(idequeue) : \E p \in Proc : pc[p] = "iosleep" /\ mine[p] = idequeue[i]
    /\ \A p \in Proc : pc[p] = "iosleep" => \E i \in 1..Len(idequeue) : idequeue[i] = mine[p]

\* The log keeps no more than it may.
PinInv == Cardinality(Pinned) <= MAXPIN

IInv == TypeOK /\ RefInv /\ BlockInv /\ LockInv /\ FlagInv /\ QueueInv /\ ValidIsRead /\ PinInv
=============================================================================
