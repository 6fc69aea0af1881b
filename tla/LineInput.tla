----------------------------- MODULE LineInput ------------------------------
(***************************************************************************)
(* What the console promises its readers: the characters typed, edited     *)
(* until the line is ended, in order and each once, a line at a time, and  *)
(* an empty result for an end of file.                                     *)
(***************************************************************************)
EXTENDS Naturals, Sequences

CONSTANTS Char, NL, EOF, MAX   \* MAX: characters that can wait

VARIABLES line,    \* the line being typed
          ready,   \* characters the readers can have
          out      \* what the last read took, and whether it is complete

lvars == <<line, ready, out>>

Type(c) == /\ Len(line) + Len(ready) < MAX
           /\ LET l == Append(line, c) IN
              IF c \in {NL, EOF} \/ Len(l) + Len(ready) = MAX
              THEN line' = <<>> /\ ready' = ready \o l
              ELSE line' = l /\ UNCHANGED ready
           /\ UNCHANGED out
\* Backspace, and kill.
Erase == \E k \in 0..Len(line) : /\ k \in {0, Len(line) - 1}
                                 /\ line' = SubSeq(line, 1, k) /\ UNCHANGED <<ready, out>>
\* A reader takes characters of one line, the end of file only for itself.
Take == \E k \in 0..Len(ready) :
    /\ \A j \in 1..(k - 1) : ready[j] \notin {NL, EOF}
    /\ k > 1 => ready[k] # EOF
    /\ out' = SelectSeq(SubSeq(ready, 1, k), LAMBDA c : c # EOF)
    /\ ready' = SubSeq(ready, k + 1, Len(ready))
    /\ UNCHANGED line

Init == line = <<>> /\ ready = <<>> /\ out = <<>>
Next == (\E c \in Char \cup {NL, EOF} : Type(c)) \/ Erase \/ Take
Spec == Init /\ [][Next]_lvars
=============================================================================
