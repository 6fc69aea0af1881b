------------------------------ MODULE MCConsole -----------------------------
(***************************************************************************)
(* An instance of the console for TLC: a behaviour is one of the input     *)
(* buffer, of the keyboard driver or of the output; they share no state.   *)
(***************************************************************************)
EXTENDS Console, TLC

CONSTANTS Cpu, None, COLS, LINES, BYTE, LEN, MAXQ
VARIABLES part,
          held, capsOn, both, last, kbq, shift, kout,
          locking, owner, panicked, index, hi, lo, cpc, task, left, c, pos, open, unlocked

keyboard == <<held, capsOn, both, last, kbq, shift, kout>>
output == <<locking, owner, panicked, index, hi, lo, cpc, task, left, c, pos, open, unlocked>>

\* A key of its own and an escaped one of each sort, and two for SHIFT.
K == INSTANCE Kbd WITH out <- kout, Key <- {"rctl", "lshift", "rshift", "caps", "a", "up"}
O == INSTANCE ConsoleOut WITH pc <- cpc

MCInit == Init /\ K!Init /\ O!Init /\ part \in {"input", "keyboard", "output"}
MCNext == /\ UNCHANGED part
          /\ \/ part = "input" /\ Next /\ UNCHANGED <<keyboard, output>>
             \/ part = "keyboard" /\ K!Next /\ UNCHANGED <<vars, output>>
             \/ part = "output" /\ O!Next /\ UNCHANGED <<vars, keyboard>>
MCSpec == MCInit /\ [][MCNext]_<<part, vars, keyboard, output>>

Perms == Permutations(Proc) \cup Permutations(Cpu)

-----------------------------------------------------------------------------
\* No reader of the console sleeps on characters it could have and none is overwritten,
\* kbdgetc leaves no modifier on that no key accounts for, cgaputc keeps the cursor on the
\* screen while cons.lock is used, and panic is never kept from reporting.
ConsoleConsistent ==
    /\ TypeOK /\ InOrder /\ SleepsOnEmpty
    /\ K!TypeOK /\ K!ModifiersExact /\ K!CharacterMeant
    /\ O!TypeOK /\ O!CursorInside /\ O!PanicReported

\* consolewrite and cprintf put out their messages whole.
MessagesWhole == O!MessagesWhole
=============================================================================
