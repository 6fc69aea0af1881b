------------------------------ MODULE PipeInv ------------------------------
(***************************************************************************)
(* The inductive invariant behind the safety properties of Pipe, which     *)
(* PipeProofs proves inductive.                                            *)
(***************************************************************************)
EXTENDS Pipe

Waits(p) == pc[p] \in {"park", "asleep"}

\* Who is inside the pipe has a descriptor; p->lock is kept only on the way to sleep.
InsideInv ==
    \A p \in Proc : /\ pc[p] = "park" <=> lock = p
                    /\ pc[p] # "user" => p \in hasfd

\* An end with descriptors is open, and the page goes with the second end.
EndsInv ==
    /\ hasfd \cap Writer # {} => writeopen
    /\ hasfd \cap Reader # {} => readopen
    /\ freed => ~writeopen /\ ~readopen

\* What a process waits for has not come, from the test on: also while it holds p->lock,
\* and while another process does.  Only a killed writer leaves bytes behind in silence.
WaitInv ==
    /\ \A p \in Writer : Waits(p) => Size = PIPESIZE /\ readopen
    /\ \A p \in Reader : Waits(p) => writeopen /\ (Size = 0 \/ \E w \in Writer : killed[w])

IInv == TypeOK /\ buf = [p \in Proc |-> buf[p]] /\ InsideInv /\ EndsInv /\ WaitInv
=============================================================================
