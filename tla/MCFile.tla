------------------------------- MODULE MCFile -------------------------------
(* Instances of File for TLC. *)
EXTENDS File, TLC

\* Fields that no later step reads: those that a free entry keeps from its last use
\* (every caller of filealloc sets them before it sets the type), and f->writable of a
\* file that is not a pipe, also in the copy ff.
LiveObj == [f \in FileIx |-> IF ftype[f] = "NONE" THEN None ELSE obj[f]]
LiveMode == [f \in FileIx |-> ftype[f] = "PIPE" /\ writable[f]]
LiveHeld == [p \in Proc |->
    IF pc[p] = "drop" THEN [held[p] EXCEPT !.ff.w = held[p].ff.type = "PIPE" /\ @] ELSE held[p]]
LiveFields == <<ref, ftype, LiveObj, LiveMode, iref, ends, ofile, cwd, pc, LiveHeld>>
=============================================================================
