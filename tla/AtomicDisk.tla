----------------------------- MODULE AtomicDisk -----------------------------
(***************************************************************************)
(* What the log promises the file system: a disk of blocks written by      *)
(* operations that run concurrently and become durable together.  A crash  *)
(* may come at any time; it brings back exactly the last commit, and a     *)
(* commit never falls inside an operation.                                 *)
(***************************************************************************)
CONSTANTS Block, Proc, Val, Zero

VARIABLES
    stable,   \* what a crash would bring back
    current,  \* what operations see
    active    \* processes inside begin_op ... end_op

vars == <<stable, current, active>>

Init ==
    /\ stable = [b \in Block |-> Zero]
    /\ current = stable
    /\ active = {}

Begin(p) == p \notin active /\ active' = active \cup {p} /\ UNCHANGED <<stable, current>>

Write(p, b, v) ==
    /\ p \in active
    /\ current' = [current EXCEPT ![b] = v]
    /\ UNCHANGED <<stable, active>>

End(p) == p \in active /\ active' = active \ {p} /\ UNCHANGED <<stable, current>>

Commit == active = {} /\ stable' = current /\ UNCHANGED <<current, active>>

Crash == current' = stable /\ active' = {} /\ UNCHANGED stable

Next ==
    \/ \E p \in Proc : Begin(p) \/ End(p) \/ \E b \in Block, v \in Val : Write(p, b, v)
    \/ Commit
    \/ Crash

Spec == Init /\ [][Next]_vars

=============================================================================
