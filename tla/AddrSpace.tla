----------------------------- MODULE AddrSpace ------------------------------
(***************************************************************************)
(* What the kernel promises a process: memory of its own.  A process sees  *)
(* what it wrote; fork gives the child a copy; growing adds zeroed pages;  *)
(* exec replaces everything; nobody else changes it.  Each kind of step is *)
(* a relation between the memory of one process before and after.          *)
(***************************************************************************)
EXTENDS Naturals

CONSTANTS Proc, Value, MAXIMG, Zero, Gone   \* Zero: a page of zeros; Gone: no process

VARIABLE as   \* as[p]: Gone, or the pages of p: number, value and the user's access

Page(v, val, u) == [v |-> v, val |-> val, u |-> u]

Store(old, new) == \E a \in old, x \in Value : a.u /\ new = (old \ {a}) \cup {[a EXCEPT !.val = x]}

\* Pages go from the top, and come zeroed.
Resize(old, new) ==
    \/ new \subseteq old /\ \A a \in new, b \in old \ new : a.v < b.v
    \/ old \subseteq new /\ \A a \in old, b \in new \ old : a.v < b.v /\ b = Page(b.v, Zero, TRUE)

\* A new image: a program of n pages, a page out of bounds, and a stack.
Exec(new) == \E n \in 1..MAXIMG, x \in Value :
    new = {Page(v, x, TRUE) : v \in 1..n} \cup {Page(n + 1, Zero, FALSE), Page(n + 2, Zero, TRUE)}

Init == \E p \in Proc, x \in Value : as = [q \in Proc |-> IF q = p THEN {Page(1, x, TRUE)} ELSE Gone]

\* One process changes at a time: p writes, grows, shrinks, executes or exits, or it is
\* the new child of some process.
Next == LET before == as
            after == as'
        IN  \E p \in Proc :
               /\ \A q \in Proc \ {p} : after[q] = before[q]
               /\ \/ before[p] # Gone /\ after[p] # Gone
                     /\ (Store(before[p], after[p]) \/ Resize(before[p], after[p]) \/ Exec(after[p]))
                  \/ before[p] # Gone /\ after[p] = Gone
                  \/ before[p] = Gone /\ \E q \in Proc \ {p} : before[q] # Gone /\ after[p] = before[q]
Spec == Init /\ [][Next]_as
=============================================================================
