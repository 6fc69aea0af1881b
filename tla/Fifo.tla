-------------------------------- MODULE Fifo --------------------------------
(***************************************************************************)
(* What a pipe promises: a bounded queue of bytes.  A write appends runs   *)
(* of its bytes when there is room, a read takes the oldest bytes, a read  *)
(* that comes back empty-handed asked for nothing or met the end of file.  *)
(***************************************************************************)
EXTENDS Naturals, Sequences

CONSTANTS Byte, SIZE, Reader, MAXN

VARIABLES q,       \* the bytes in transit, oldest first
          out,     \* out[r]: what the last read of r returned
          eof      \* the write end is closed

fvars == <<q, out, eof>>

Least(a, b) == IF a < b THEN a ELSE b

Init == q = <<>> /\ out = [r \in Reader |-> <<>>] /\ eof = FALSE

Put == \E n \in 1..SIZE : \E s \in [1..n -> Byte] :
    /\ ~eof
    /\ Len(q) + n <= SIZE
    /\ q' = q \o s
    /\ UNCHANGED <<out, eof>>

Take(r) == \E n \in 0..MAXN :
    LET k == Least(n, Len(q)) IN
    /\ n > 0 /\ q = <<>> => eof
    /\ out' = [out EXCEPT ![r] = SubSeq(q, 1, k)]
    /\ q' = SubSeq(q, k + 1, Len(q))
    /\ UNCHANGED eof

Close == eof' = TRUE /\ UNCHANGED <<q, out>>

Next == Put \/ Close \/ \E r \in Reader : Take(r)

Spec == Init /\ [][Next]_fvars
=============================================================================
