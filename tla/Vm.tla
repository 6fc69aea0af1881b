-------------------------------- MODULE Vm ----------------------------------
(***************************************************************************)
(* Physical pages (kalloc.c), four-level page tables (vm.c) and the calls  *)
(* that change a process's memory: growproc, fork, exec, and the freevm of *)
(* wait.  The tables are in the pages themselves, as in the machine.  A    *)
(* page table belongs to one process, so a call is one step; kalloc and    *)
(* kfree are atomic under kmem.lock.  kalloc panics when there is no page  *)
(* and never returns 0: its callers' error paths are dead code.            *)
(***************************************************************************)
EXTENDS Integers, FiniteSets, FiniteSetsExt, TLC

CONSTANTS Proc, Value, Zero, Junk, Gone,
          NPAGES,   \* physical pages
          NPTE,     \* entries of a table; the upper half of the top one is the kernel's
          U,        \* units of size in a page
          MAXIMG,   \* bound: pages of a program
          Grows     \* arguments of sbrk, in units
ASSUME VmAssumption == NPTE \in Nat \ {0, 1} /\ NPTE % 2 = 0 /\ U \in Nat \ {0} /\ Zero # Junk /\ Gone \notin Value

VARIABLES free,     \* kmem.freelist
          tab,      \* pages as tables: entries [pg, u], pg = 0 when not present
          data,     \* pages as data
          pgdir, sz, kstack,   \* struct proc, pgdir 0 when there is no process
          ret,      \* what the last call returned
          panicked

mem == <<free, tab, data>>
vars == <<mem, pgdir, sz, kstack, ret, panicked>>

Pages == 1..NPAGES
Kpdpt == 1                                \* the kernel's half, shared by all
Entry(pg, u) == [pg |-> pg, u |-> u]
NoTab == [k \in 0..(NPTE - 1) |-> Entry(0, FALSE)]
JunkTab == [k \in 0..(NPTE - 1) |-> Entry(1, TRUE)]
PgUp(n) == (n + U - 1) \div U             \* PGROUNDUP, in pages
KERNBASE == NPTE * NPTE * NPTE * (NPTE \div 2) * U

TypeOK ==
    /\ free \subseteq Pages \ {Kpdpt}
    /\ \A g \in Pages : \A k \in 0..(NPTE - 1) : tab[g][k].pg \in 0..NPAGES
    /\ data \in [Pages -> Value \cup {Zero, Junk}]
    /\ pgdir \in [Proc -> 0..NPAGES] /\ kstack \in [Proc -> 0..NPAGES] /\ sz \in [Proc -> 0..KERNBASE]
    /\ \A p \in Proc : (pgdir[p] = 0) = (kstack[p] = 0)
    /\ ret \in {0, -1} /\ panicked \in STRING

-----------------------------------------------------------------------------
(* Operations on the memory, as records of the state under change. *)

Cur == [free |-> free, tab |-> tab, data |-> data, ret |-> 0, cur |-> 0, bad |-> ""]

\* The code after a call, which a panic in the call does not reach.
Then(st, F(_)) == IF st.bad # "" THEN st ELSE F(st)

\* kalloc: some page off the list, with whatever kfree left in it.
Kalloc(st) ==
    IF st.free = {} THEN [st EXCEPT !.bad = "Out of memory!"]
    ELSE [st EXCEPT !.free = @ \ {Min(@)}, !.ret = Min(st.free)]

\* kfree of a set of pages; each is filled with junk.
Kfree(st, gs) ==
    [st EXCEPT !.free = @ \cup gs,
               !.tab = [g \in gs |-> JunkTab] @@ @,
               !.data = [g \in gs |-> Junk] @@ @,
               !.bad = IF gs \subseteq Pages \ (st.free \cup {Kpdpt}) THEN @ ELSE "freed twice"]

\* kalloc and memset(0).
Zalloc(st) ==
    Then(Kalloc(st), LAMBDA s : [s EXCEPT !.tab[s.ret] = NoTab, !.data[s.ret] = Zero])

\* setupkvm.
Setupkvm(st) ==
    Then(Zalloc(st), LAMBDA s : [s EXCEPT !.tab[s.ret][NPTE \div 2] = Entry(Kpdpt, FALSE)])

Digit(v, level) == (v \div NPTE^level) % NPTE

\* walkpgdir with alloc = 0: the next table at each level or 0, and the entry.
Sub(t, g, v, level) == IF g = 0 THEN 0 ELSE t[g][Digit(v, level)].pg
Pgtab(t, root, v) == Sub(t, Sub(t, Sub(t, root, v, 3), v, 2), v, 1)
PteIn(t, pt, v) == IF pt = 0 THEN Entry(0, FALSE) ELSE t[pt][Digit(v, 0)]
Pte(t, root, v) == PteIn(t, Pgtab(t, root, v), v)

\* walkpgdir with alloc = 1, one level: cur is the table at this level and becomes the next.
Down(st, k) ==
    IF st.tab[st.cur][k].pg # 0 THEN [st EXCEPT !.cur = st.tab[st.cur][k].pg]
    ELSE Then(Zalloc(st), LAMBDA s : [s EXCEPT !.tab[s.cur][k] = Entry(s.ret, TRUE), !.cur = s.ret])
Walkpgdir(st, root, v) ==
    Then(Down([st EXCEPT !.cur = root], Digit(v, 3)), LAMBDA s3 :
    Then(Down(s3, Digit(v, 2)), LAMBDA s2 : Down(s2, Digit(v, 1))))

\* mappages for one page.
Mappage(st, root, v, pg, u) ==
    Then(Walkpgdir(st, root, v), LAMBDA s :
        IF s.tab[s.cur][Digit(v, 0)].pg # 0 THEN [s EXCEPT !.bad = "remap"]
        ELSE [s EXCEPT !.tab[s.cur][Digit(v, 0)] = Entry(pg, u)])

\* The loops of allocuvm and deallocuvm, over the pages v to last - 1.
Grow1(st, root, v) == Then(Zalloc(st), LAMBDA s : Mappage(s, root, v, s.ret, TRUE))
RECURSIVE GrowLoop(_, _, _, _)
GrowLoop(st, root, v, last) ==
    IF v >= last \/ st.bad # "" THEN st ELSE GrowLoop(Grow1(st, root, v), root, v + 1, last)
Allocuvm(st, root, oldsz, newsz) == GrowLoop(st, root, PgUp(oldsz), PgUp(newsz))

Unmap(st, root, v) ==
    IF Pte(st.tab, root, v).pg = 0 THEN st
    ELSE [Kfree(st, {Pte(st.tab, root, v).pg}) EXCEPT !.tab[Pgtab(st.tab, root, v)][Digit(v, 0)] = Entry(0, FALSE)]
RECURSIVE ShrinkLoop(_, _, _, _)
ShrinkLoop(st, root, v, last) ==
    IF v >= last THEN st ELSE ShrinkLoop(Unmap(st, root, v), root, v + 1, last)
Deallocuvm(st, root, oldsz, newsz) == ShrinkLoop(st, root, PgUp(newsz), PgUp(oldsz))

\* freevm: the user's half of the top table, all of the tables below it, and the pages.
Below(t, gs, ks) == {t[g][k].pg : g \in gs, k \in ks} \ {0}
Top == 0..(NPTE \div 2 - 1)
TreeOf(t, root) ==
    LET all == 0..(NPTE - 1)
        pdp == Below(t, {root}, Top)
        pd  == Below(t, pdp, all)
        pt  == Below(t, pd, all)
    IN  <<{root}, pdp, pd, pt, Below(t, pt, all)>>
FreevmTables(st, root) ==
    LET t == TreeOf(st.tab, root) IN Kfree(st, t[1] \cup t[2] \cup t[3] \cup t[5])
Freevm(st, root) ==
    LET t == TreeOf(st.tab, root) IN Kfree(st, t[1] \cup t[2] \cup t[3] \cup t[4] \cup t[5])

\* copyuvm: page by page, contents and flags.
Copy1NoFlags(st, from, to, v) ==
    LET e == Pte(st.tab, from, v) IN
    IF e.pg = 0 THEN [st EXCEPT !.bad = "copyuvm: page not present"]
    ELSE Then(Kalloc(st), LAMBDA s : Mappage([s EXCEPT !.data[s.ret] = s.data[e.pg]], to, v, s.ret, TRUE))
Copy1(st, from, to, v) ==
    LET e == Pte(st.tab, from, v) IN
    IF e.pg = 0 THEN [st EXCEPT !.bad = "copyuvm: page not present"]
    ELSE Then(Kalloc(st), LAMBDA s : Mappage([s EXCEPT !.data[s.ret] = s.data[e.pg]], to, v, s.ret, e.u))
RECURSIVE CopyLoop(_, _, _, _, _)
CopyLoop(st, from, to, v, last) ==
    IF v >= last \/ st.bad # "" THEN st ELSE CopyLoop(Copy1(st, from, to, v), from, to, v + 1, last)
Copyuvm(st, from, size) ==
    Then(Setupkvm(st), LAMBDA d : [CopyLoop(d, from, d.ret, 1, PgUp(size)) EXCEPT !.ret = d.ret])

-----------------------------------------------------------------------------
(* Calls.  A panic in the middle stops the machine. *)

Commit(st) == /\ free' = st.free /\ tab' = st.tab /\ data' = st.data /\ panicked' = ""
Panic(st) == panicked' = st.bad /\ UNCHANGED <<mem, pgdir, sz, kstack, ret>>
Live(p) == pgdir[p] # 0

\* A process that has given back the page its program is in does not come back to call.
Runs(p) == Live(p) /\ PgUp(sz[p]) > 1

\* userinit: inituvm maps one page at PGSIZE.
InitState(p, x) ==
    \E s1 \in {Kalloc([free |-> Pages \ {Kpdpt}, tab |-> [g \in Pages |-> JunkTab],
                       data |-> [g \in Pages |-> Junk], ret |-> 0, cur |-> 0, bad |-> ""])} :  \* kernel stack
    \E s2 \in {Setupkvm(s1)} : \E s3 \in {Zalloc(s2)} :
    \E s4 \in {Mappage([s3 EXCEPT !.data[s3.ret] = x], s2.ret, 1, s3.ret, TRUE)} :
        /\ free = s4.free /\ tab = s4.tab /\ data = s4.data
        /\ kstack = [q \in Proc |-> IF q = p THEN s1.ret ELSE 0]
        /\ pgdir = [q \in Proc |-> IF q = p THEN s2.ret ELSE 0]
        /\ sz = [q \in Proc |-> IF q = p THEN 2 * U ELSE 0]
Init == (\E p \in Proc, x \in Value : InitState(p, x)) /\ ret = 0 /\ panicked = ""

\* The user writes to a page.
Store(p) == \E v \in 1..(PgUp(sz[p]) - 1), x \in Value :
    LET e == Pte(tab, pgdir[p], v) IN
    /\ Live(p) /\ e.pg # 0 /\ e.u
    /\ data' = [data EXCEPT ![e.pg] = x] /\ ret' = 0
    /\ UNCHANGED <<free, tab, pgdir, sz, kstack, panicked>>

TooBig(new) == new >= KERNBASE

\* growproc.
Resized(p, new) ==
    IF new > sz[p] THEN Allocuvm(Cur, pgdir[p], sz[p], new) ELSE Deallocuvm(Cur, pgdir[p], sz[p], new)
Growproc(p) == \E n \in Grows :
    LET new == sz[p] + n IN
    /\ Runs(p) /\ new >= 0
    /\ \/ /\ TooBig(new)
          /\ ret' = -1 /\ UNCHANGED <<mem, pgdir, sz, kstack, panicked>>
       \/ /\ ~TooBig(new)
          /\ \E st \in {Resized(p, new)} :
                \/ st.bad # "" /\ Panic(st)
                \/ /\ st.bad = "" /\ Commit(st)
                   /\ sz' = [sz EXCEPT ![p] = IF new = 0 THEN @ ELSE new]
                   /\ ret' = IF new = 0 THEN -1 ELSE 0
                   /\ UNCHANGED <<pgdir, kstack>>

\* fork: a kernel stack, and a copy of the memory.
Fork(p) == Runs(p) /\ \E c \in Proc, s1 \in {Kalloc(Cur)} :
    \E st \in {Then(s1, LAMBDA s : Copyuvm(s, pgdir[p], sz[p]))} :
    /\ kstack[c] = 0
    /\ IF st.bad # "" THEN Panic(st)
       ELSE /\ Commit(st)
            /\ pgdir' = [pgdir EXCEPT ![c] = st.ret] /\ sz' = [sz EXCEPT ![c] = sz[p]]
            /\ kstack' = [kstack EXCEPT ![c] = s1.ret] /\ ret' = 0

\* exec up to the commit: a program of n pages of x from PGSIZE on, the page below the
\* stack that the user cannot reach, and the stack.
Load(st, root, n, x) == [st EXCEPT !.data = [g \in {Pte(st.tab, root, v).pg : v \in 1..n} |-> x] @@ @]
Image(n, x) ==
    Then(Setupkvm(Cur), LAMBDA d :
    Then(Allocuvm(d, d.ret, U, (n + 1) * U), LAMBDA s1 :
    Then(Allocuvm(Load(s1, d.ret, n, x), d.ret, (n + 1) * U, (n + 3) * U), LAMBDA s2 :
        [s2 EXCEPT !.tab[Pgtab(s2.tab, d.ret, n + 1)][Digit(n + 1, 0)].u = FALSE, !.ret = d.ret])))

Exec(p) == Runs(p) /\ \E n \in 1..MAXIMG, x \in Value : \E new \in {Image(n, x)} :
    \E st \in {Then(new, LAMBDA s : Freevm(s, pgdir[p]))} :
    IF st.bad # "" THEN Panic(st)
    ELSE /\ Commit(st)
         /\ pgdir' = [pgdir EXCEPT ![p] = new.ret] /\ sz' = [sz EXCEPT ![p] = (n + 3) * U]
         /\ ret' = 0 /\ UNCHANGED kstack

\* exec fails after the new memory was built, say because the arguments do not fit.
ExecBad(p) == Runs(p) /\ \E n \in 1..MAXIMG, x \in Value :
    \E st \in {Then(Image(n, x), LAMBDA s : Freevm(s, s.ret))} :
    IF st.bad # "" THEN Panic(st)
    ELSE Commit(st) /\ ret' = -1 /\ UNCHANGED <<pgdir, sz, kstack>>

NoStack(p) == kstack' = [kstack EXCEPT ![p] = 0]

\* wait frees the stack and the memory of a process that has exited.
Reap(p) ==
    /\ Live(p) /\ \E q \in Proc \ {p} : Live(q)
    /\ \E st \in {Freevm(Kfree(Cur, {kstack[p]}), pgdir[p])} :
         IF st.bad # "" THEN Panic(st)
         ELSE /\ Commit(st) /\ ret' = 0
              /\ pgdir' = [pgdir EXCEPT ![p] = 0] /\ sz' = [sz EXCEPT ![p] = 0]
              /\ NoStack(p)

Next == panicked = "" /\ \E p \in Proc : Store(p) \/ Growproc(p) \/ Fork(p) \/ Exec(p) \/ ExecBad(p) \/ Reap(p)
Spec == Init /\ [][Next]_vars

-----------------------------------------------------------------------------
Procs == {p \in Proc : Live(p)}
\* The tables and the pages of p, and the entries of its page table that are present.
TreePages(p) == UNION {TreeOf(tab, pgdir[p])[k] : k \in 1..5}
Mapped(p) == {a \in {<<v, Pte(tab, pgdir[p], v)>> : v \in 0..(KERNBASE \div U - 1)} : a[2].pg # 0}

\* Every page is free or in one place of one process: as its kernel stack, as one of its
\* tables or as one of its pages.  Nothing leaks and nothing is shared or freed too early,
\* through any sequence of fork, sbrk, exec (failed ones too), exit and wait.
PagesExact ==
    /\ free = Pages \ ({Kpdpt} \cup UNION {TreePages(p) \cup {kstack[p]} : p \in Procs})
    /\ \A p, q \in Procs : p # q => TreePages(p) \cap TreePages(q) = {}
    /\ \A p, q \in Procs : kstack[p] \notin TreePages(q) /\ (p # q => kstack[p] # kstack[q])
    /\ \A p \in Procs : Cardinality({a[2].pg : a \in Mapped(p)}) = Cardinality(Mapped(p))

\* The pages mapped are those from PGSIZE up to p->sz, so fork finds what it copies.
SizeMapped == \A p \in Procs : {a[1] : a \in Mapped(p)} = 1..(PgUp(sz[p]) - 1)

\* The panics of the page tables are out of reach: only memory runs out.
OnlyOutOfMemory == panicked \in {"", "Out of memory!"}

\* The memory of the processes, seen through their page tables.
Space(p) == IF ~Live(p) THEN Gone
            ELSE {[v |-> a[1], val |-> data[a[2].pg], u |-> a[2].u] : a \in Mapped(p)}
A == INSTANCE AddrSpace WITH as <- [p \in Proc |-> Space(p)]
\* "Return 0 on success, -1 on failure", of growproc and exec: a call that fails leaves the
\* memory as it was.  (Grows must not shrink a process to nothing: deallocuvm's 0 would be
\* taken for a failure.)
FailKeeps == [][ret' = -1 => \A p \in Proc : UNCHANGED Space(p)]_vars

\* Each process has memory of its own, and keeps it through calls that fail.
IsAddrSpace == A!Spec /\ FailKeeps
=============================================================================
