----------------------------- MODULE ConsoleOut -----------------------------
(***************************************************************************)
(* Console output: consolewrite and cprintf under cons.lock, the echo of   *)
(* consoleintr without it, panic, and consputc down to the port accesses   *)
(* that read and move the cursor.  Interrupts are off in all of them, so a *)
(* CPU does one thing at a time, but a panic can come in the middle of it. *)
(* Of a character matters whether it ends a line or erases one.            *)
(***************************************************************************)
EXTENDS Naturals, FiniteSets

CONSTANTS Cpu, None,
          COLS, LINES,       \* 80, and the 24 lines that are used
          BYTE,              \* 256
          LEN                \* bound: characters of a message

VARIABLES locking, owner,    \* cons
          panicked,
          index, hi, lo,     \* the CRT controller: register selected, cursor
          pc, task, left,    \* what a CPU is doing, and how many characters are left
          c, pos,            \* of consputc and cgaputc
          open,              \* the CPU in the middle of a locked message
          unlocked           \* a character was put out without cons.lock

crtc == <<index, hi, lo>>
loc == <<pc, task, left, c, pos>>
vars == <<locking, owner, panicked, crtc, loc, open, unlocked>>

PCs == {"idle", "acquire", "putc", "sel14", "gethi", "sel15", "getlo", "draw",
        "set14", "puthi", "set15", "putlo", "release", "halt"}
TypeOK ==
    /\ locking \in BOOLEAN /\ panicked \in BOOLEAN /\ unlocked \in BOOLEAN
    /\ owner \in Cpu \cup {None} /\ open \in Cpu \cup {None}
    /\ index \in {14, 15} /\ hi \in 0..(BYTE - 1) /\ lo \in 0..(BYTE - 1)
    /\ pc \in [Cpu -> PCs]
    /\ task \in [Cpu -> {"none", "write", "cprintf", "echo", "panic"}]
    /\ left \in [Cpu -> 0..LEN]
    /\ c \in [Cpu -> {"char", "newline", "backspace"}]
    /\ pos \in [Cpu -> 0..(BYTE * BYTE)]

Init ==
    /\ locking = TRUE /\ owner = None /\ panicked = FALSE /\ open = None /\ unlocked = FALSE
    /\ index = 14 /\ hi = 0 /\ lo = 0
    /\ pc = [u \in Cpu |-> "idle"] /\ task = [u \in Cpu |-> "none"] /\ left = [u \in Cpu |-> 0]
    /\ c = [u \in Cpu |-> "char"] /\ pos = [u \in Cpu |-> 0]

Goto(u, l) == pc' = [pc EXCEPT ![u] = l]

-----------------------------------------------------------------------------
(* The callers of consputc *)

Begin(u, t, n, l) ==
    /\ task' = [task EXCEPT ![u] = t]
    /\ left' = [left EXCEPT ![u] = n]
    /\ c' = [c EXCEPT ![u] = "char"] /\ pos' = [pos EXCEPT ![u] = 0]
    /\ Goto(u, l)
    /\ UNCHANGED <<owner, panicked, crtc, open, unlocked>>

consolewrite(u) == pc[u] = "idle" /\ UNCHANGED locking /\ \E n \in 0..LEN : Begin(u, "write", n, "acquire")

\* cprintf locks if cons.locking is set when it starts.
CprintfUnlocked == "putc"
CprintfFirst == IF locking THEN "acquire" ELSE "putc"
cprintf(u) ==
    /\ pc[u] = "idle" /\ UNCHANGED locking
    /\ \E n \in 1..LEN : Begin(u, "cprintf", n, CprintfFirst)

\* consoleintr: an echo, or the erasure of a character.
consoleintr(u) == pc[u] = "idle" /\ UNCHANGED locking /\ Begin(u, "echo", 1, "putc")

\* From anywhere, with or without cons.lock held.
panic(u) ==
    /\ task[u] # "panic" /\ pc[u] # "halt"
    /\ locking' = FALSE
    /\ \E n \in 1..LEN : Begin(u, "panic", n, "putc")

Acquire(u) ==
    /\ pc[u] = "acquire" /\ owner = None
    /\ owner' = u
    /\ Goto(u, IF left[u] = 0 THEN "release" ELSE "putc")
    /\ UNCHANGED <<locking, panicked, crtc, task, left, c, pos, open, unlocked>>

Release(u) ==
    /\ pc[u] = "release"
    /\ owner' = None
    /\ Goto(u, "idle")
    /\ task' = [task EXCEPT ![u] = "none"]
    /\ UNCHANGED <<locking, panicked, crtc, left, c, pos, open, unlocked>>

-----------------------------------------------------------------------------
(* consputc and cgaputc *)

Chars(u) == IF task[u] = "echo" THEN {"char", "newline", "backspace"} ELSE {"char", "newline"}
Locked(u) == owner = u /\ task[u] # "panic"

\* The end of consputc when the machine has panicked, else the serial port.
Putc(u) ==
    /\ pc[u] = "putc"
    /\ IF panicked
       THEN Goto(u, "halt") /\ UNCHANGED <<c, left, open, unlocked>>
       ELSE /\ \E ch \in Chars(u) : c' = [c EXCEPT ![u] = ch]
            /\ left' = [left EXCEPT ![u] = @ - 1]
            /\ open' = IF ~Locked(u) THEN open ELSE IF left[u] = 1 THEN None ELSE u
            /\ unlocked' = (unlocked \/ ~Locked(u))
            /\ Goto(u, "sel14")
    /\ UNCHANGED <<locking, owner, panicked, crtc, task, pos>>

\* outb(CRTPORT, r)
Select(u, l, r, next) ==
    /\ pc[u] = l /\ Goto(u, next)
    /\ index' = r
    /\ UNCHANGED <<locking, owner, panicked, hi, lo, task, left, c, pos, open, unlocked>>

\* inb(CRTPORT+1), which reads the register selected.
Get(u, l, f, next) ==
    /\ pc[u] = l /\ Goto(u, next)
    /\ pos' = [pos EXCEPT ![u] = f * (IF index = 14 THEN hi ELSE lo) + (IF f = 1 THEN @ ELSE 0)]
    /\ UNCHANGED <<locking, owner, panicked, crtc, task, left, c, open, unlocked>>

Moved(p, ch) ==
    CASE ch = "newline" -> p + COLS - (p % COLS)
      [] ch = "backspace" -> IF p = 0 THEN 0 ELSE p - 1
      [] OTHER -> p + 1
Scrolled(p) == IF p \div COLS >= LINES THEN p - COLS ELSE p

\* The new position; scrolling moves it up a line.
Draw(u) ==
    /\ pc[u] = "draw" /\ Goto(u, "set14")
    /\ pos' = [pos EXCEPT ![u] = Scrolled(Moved(@, c[u]))]
    /\ UNCHANGED <<locking, owner, panicked, crtc, task, left, c, open, unlocked>>

\* outb(CRTPORT+1, v)
Put(u, l, v) ==
    /\ pc[u] = l
    /\ IF index = 14 THEN hi' = v % BYTE /\ UNCHANGED lo ELSE lo' = v % BYTE /\ UNCHANGED hi
    /\ UNCHANGED <<locking, owner, index, open, unlocked>>

PutHi(u) == /\ Put(u, "puthi", pos[u] \div BYTE) /\ Goto(u, "set15")
            /\ UNCHANGED <<panicked, task, left, c, pos>>
\* The end of a character; after the last one panic sets panicked and stops.
PutLo(u) ==
    /\ Put(u, "putlo", pos[u])
    /\ Goto(u, CASE left[u] > 0 -> "putc"
                 [] task[u] = "panic" -> "halt"
                 [] owner = u -> "release"
                 [] OTHER -> "idle")
    /\ task' = [task EXCEPT ![u] = IF left[u] = 0 /\ @ # "panic" /\ owner # u THEN "none" ELSE @]
    /\ panicked' = (panicked \/ (task[u] = "panic" /\ left[u] = 0))
    /\ c' = [c EXCEPT ![u] = "char"] /\ pos' = [pos EXCEPT ![u] = 0]
    /\ UNCHANGED left

Step(u) ==
    \/ Acquire(u) \/ Release(u) \/ Putc(u)
    \/ Select(u, "sel14", 14, "gethi") \/ Get(u, "gethi", BYTE, "sel15")
    \/ Select(u, "sel15", 15, "getlo") \/ Get(u, "getlo", 1, "draw")
    \/ Draw(u)
    \/ Select(u, "set14", 14, "puthi") \/ PutHi(u)
    \/ Select(u, "set15", 15, "putlo") \/ PutLo(u)

Next == \E u \in Cpu : consolewrite(u) \/ cprintf(u) \/ consoleintr(u) \/ panic(u) \/ Step(u)
Spec == Init /\ [][Next]_vars

-----------------------------------------------------------------------------
\* While characters are put out under cons.lock only, the cursor that cgaputc has read and
\* the one it sets are on the screen, through every line end and scroll.
CursorInside ==
    \A u \in Cpu : ~unlocked /\ pc[u] \in {"draw", "set14", "puthi", "set15", "putlo"}
                   => pos[u] < LINES * COLS

\* The messages of write and cprintf are not mixed, until a panic.
MessagesWhole ==
    [][\A u \in Cpu : /\ \A v \in Cpu : task[v] # "panic"
                      /\ pc[u] = "putc" /\ pc'[u] = "sel14" /\ task[u] # "echo"
                      => open \in {None, u}]_vars

\* A panic gets its message out, or another one does first, whoever holds cons.lock, the
\* panicking CPU included: it never waits for the lock and only stops when one is out.
PanicReported ==
    \A u \in Cpu : task[u] = "panic" => pc[u] # "acquire" /\ (pc[u] = "halt" => panicked)
=============================================================================
