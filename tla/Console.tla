------------------------------ MODULE Console -------------------------------
(***************************************************************************)
(* Console input: consoleintr and consoleread of console.c.  What happens  *)
(* under input.lock is one step.  The indices of the buffer are unsigned   *)
(* and wrap around at UINT.                                                *)
(***************************************************************************)
EXTENDS Naturals, Sequences, FiniteSets, FiniteSetsExt

CONSTANTS Proc, Char, NL, EOF,
          INPUT_BUF, UINT,
          MAXN        \* bound: the longest read
ASSUME ConsoleAssumption == INPUT_BUF \in Nat \ {0} /\ UINT % INPUT_BUF = 0 /\ UINT > INPUT_BUF

VARIABLES buf, r, w, e,      \* input
          pc, n, target,     \* readers
          killed,
          out                \* the characters the last step of a reader took

input == <<buf, r, w, e>>
vars == <<input, pc, n, target, killed, out>>

Sub(a, b) == (a + UINT - b) % UINT
Inc(a) == (a + 1) % UINT
At(i) == buf[i % INPUT_BUF]
\* The characters between two indices.
Between(from, to) == [k \in 1..Sub(to, from) |-> At((from + k - 1) % UINT)]

TypeOK ==
    /\ buf \in [0..(INPUT_BUF - 1) -> Char \cup {NL, EOF}]
    /\ r \in 0..(UINT - 1) /\ w \in 0..(UINT - 1) /\ e \in 0..(UINT - 1)
    /\ pc \in [Proc -> {"user", "read", "sleep"}]
    /\ n \in [Proc -> 0..MAXN] /\ target \in [Proc -> 0..MAXN]
    /\ killed \subseteq Proc

Init ==
    /\ buf = [k \in 0..(INPUT_BUF - 1) |-> NL] /\ r = 0 /\ w = 0 /\ e = 0
    /\ pc = [p \in Proc |-> "user"] /\ n = [p \in Proc |-> 0] /\ target = [p \in Proc |-> 0]
    /\ killed = {} /\ out = <<>>

-----------------------------------------------------------------------------
(* consoleintr, one character *)

\* wakeup(&input.r)
WakeNobody == UNCHANGED pc
Wake == pc' = [p \in Proc |-> IF pc[p] = "sleep" THEN "read" ELSE pc[p]]

HasRoom == Sub(e, r) < INPUT_BUF

TypedLineOnly(c) ==
    /\ HasRoom
    /\ buf' = [buf EXCEPT ![e % INPUT_BUF] = c]
    /\ e' = Inc(e)
    /\ IF c \in {NL, EOF}
       THEN w' = e' /\ Wake
       ELSE UNCHANGED <<w, pc>>
    /\ UNCHANGED <<r, n, target, killed, out>>
Typed(c) ==
    /\ HasRoom
    /\ buf' = [buf EXCEPT ![e % INPUT_BUF] = c]
    /\ e' = Inc(e)
    /\ IF c \in {NL, EOF} \/ Sub(e', r) = INPUT_BUF
       THEN w' = e' /\ Wake
       ELSE UNCHANGED <<w, pc>>
    /\ UNCHANGED <<r, n, target, killed, out>>

\* ^H and DEL.
CanErase == e # w
Backspace ==
    /\ CanErase
    /\ e' = Sub(e, 1)
    /\ UNCHANGED <<buf, r, w, pc, n, target, killed, out>>

\* ^U: back to the start of the line.
KillLine ==
    /\ CanErase
    /\ e' = w
    /\ UNCHANGED <<buf, r, w, pc, n, target, killed, out>>

-----------------------------------------------------------------------------
(* consoleread *)

CallRead(p) == \E m \in 1..MAXN :
    /\ pc[p] = "user" /\ p \notin killed
    /\ n' = [n EXCEPT ![p] = m] /\ target' = [target EXCEPT ![p] = m]
    /\ pc' = [pc EXCEPT ![p] = "read"]
    /\ UNCHANGED <<input, killed, out>>

Stops == {NL, EOF}
\* How many characters the loop looks at: up to the end of a line, of the request or of
\* what there is.
Looked(q, m) ==
    LET stops == {k \in 1..Len(q) : q[k] \in Stops} IN
    Min({m, Len(q)} \cup stops)

\* An end of file after other characters of the call is left for the next one.
PutBack(p, k, q) == k > 0 /\ q[k] = EOF /\ n[p] - (k - 1) < target[p]

\* The loop, until the call returns or has nothing to read.
Read(p) ==
    LET q == Between(r, w)
        k == Looked(q, n[p])
        got == IF k > 0 /\ q[k] = EOF THEN k - 1 ELSE k
        done == k > 0 /\ (q[k] \in Stops \/ got = n[p])
    IN
    /\ pc[p] = "read"
    /\ r' = (r + (IF PutBack(p, k, q) THEN k - 1 ELSE k)) % UINT
    /\ out' = SubSeq(q, 1, got)
    /\ n' = [n EXCEPT ![p] = IF done \/ p \in killed THEN 0 ELSE @ - got]
    /\ pc' = [pc EXCEPT ![p] = IF done \/ p \in killed THEN "user" ELSE "sleep"]
    /\ target' = [target EXCEPT ![p] = IF done \/ p \in killed THEN 0 ELSE @]
    /\ UNCHANGED <<buf, w, e, killed>>

\* kill, which also wakes a sleeper.
Kill(p) ==
    /\ p \notin killed
    /\ killed' = killed \cup {p}
    /\ pc' = [pc EXCEPT ![p] = IF @ = "sleep" THEN "read" ELSE @]
    /\ UNCHANGED <<input, n, target, out>>

\* trap ends a killed process on its way to user mode; another takes its place.
Exit(p) ==
    /\ p \in killed /\ pc[p] = "user"
    /\ killed' = killed \ {p}
    /\ UNCHANGED <<input, pc, n, target, out>>

Next == \/ \E c \in Char \cup {NL, EOF} : Typed(c)
        \/ Backspace \/ KillLine
        \/ \E p \in Proc : CallRead(p) \/ Read(p) \/ Kill(p) \/ Exit(p)
Spec == Init /\ [][Next]_vars

-----------------------------------------------------------------------------
\* r, w and e follow each other around the buffer: what readers have not taken and what
\* is being typed is never overwritten, whichever way they wrap.
InOrder == Sub(w, r) + Sub(e, w) = Sub(e, r) /\ Sub(e, r) <= INPUT_BUF

\* No reader sleeps on characters it could have, or once it is killed.
SleepsOnEmpty == \A p \in Proc : pc[p] = "sleep" => r = w /\ p \notin killed

\* An end of file is used up by a call that has nothing else: its result is empty.
EofAlone == [][\A p \in Proc :
    pc[p] = "read" /\ pc'[p] # "read" /\ r' # r /\ At(Sub(r', 1)) = EOF
    => n[p] = target[p] /\ r' = Inc(r) /\ pc'[p] = "user"]_vars

L == INSTANCE LineInput WITH MAX <- INPUT_BUF, line <- Between(w, e), ready <- Between(r, w)
\* Full lines and lines too long for the buffer, several readers, ^D and the wrap of the
\* indices: the readers get what was typed, in order and once, a line at a time.
IsLineInput == L!Spec /\ EofAlone
=============================================================================
