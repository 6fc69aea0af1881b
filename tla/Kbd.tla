-------------------------------- MODULE Kbd ---------------------------------
(***************************************************************************)
(* The keyboard driver, kbdgetc of kbd.c: scan codes to characters.  A key *)
(* sends one code when it goes down and one when it comes up, some after   *)
(* an E0 escape; the driver reads them later, one at a time.               *)
(***************************************************************************)
EXTENDS Naturals, Sequences, FiniteSets

CONSTANTS Key,       \* some of the keys of Code
          MAXQ       \* bound: codes waiting in the keyboard controller

VARIABLES held, capsOn,      \* the keys that are down, caps lock as the typist sees it
          both,              \* modifiers of which two keys were down at once
          last,              \* the character the typist means by the last key
          kbq,               \* the keyboard controller
          shift, out         \* of kbdgetc; the last character it gave consoleintr

vars == <<held, capsOn, both, last, kbq, shift, out>>

\* The scan codes, with the escape apart.
Code == [lctl |-> 29, rctl |-> 29, lshift |-> 42, rshift |-> 54, lalt |-> 56, ralt |-> 56,
         caps |-> 58, a |-> 30, kp8 |-> 72, up |-> 72]
Escaped == {"rctl", "ralt", "up"}
E0 == 224
Modifier == [lctl |-> "CTL", rctl |-> "CTL", lshift |-> "SHIFT", rshift |-> "SHIFT",
             lalt |-> "ALT", ralt |-> "ALT"]

\* The tables of kbd.h, at the codes of these keys.
shiftcode(k) ==
    CASE k \in {29, 157} -> {"CTL"} [] k \in {42, 54} -> {"SHIFT"} [] k \in {56, 184} -> {"ALT"}
      [] OTHER -> {}
togglecode(k) == IF k = 58 THEN {"CAPSLOCK"} ELSE {}
normalmap(k) == CASE k = 30 -> "a" [] k = 72 -> "8" [] k = 200 -> "up" [] OTHER -> "none"
shiftmap(k) == CASE k = 30 -> "A" [] k = 72 -> "8" [] k = 200 -> "up" [] OTHER -> "none"
ctlmap(k) == CASE k = 30 -> "^A" [] k = 200 -> "up" [] OTHER -> "none"

TypeOK ==
    /\ held \subseteq Key /\ capsOn \in BOOLEAN /\ both \subseteq {"CTL", "SHIFT", "ALT"}
    /\ kbq \in Seq(0..255) /\ Len(kbq) <= MAXQ
    /\ shift \subseteq {"CTL", "SHIFT", "ALT", "CAPSLOCK", "E0ESC"}

Init == held = {} /\ capsOn = FALSE /\ both = {} /\ last = "none"
        /\ kbq = <<>> /\ shift = {} /\ out = "none"

-----------------------------------------------------------------------------
(* The typist and the keyboard *)

Mods(ks) == {Modifier[k] : k \in ks \cap DOMAIN Modifier}
Twice(ks) == {m \in Mods(ks) : Cardinality({k \in ks \cap DOMAIN Modifier : Modifier[k] = m}) > 1}

\* What a key means with these modifiers.
Meant(k, mods, cap) ==
    CASE k = "a" -> (CASE "CTL" \in mods -> "^A"
                       [] ("SHIFT" \in mods) # cap -> "A"
                       [] OTHER -> "a")
      [] k = "kp8" -> IF "CTL" \in mods THEN "none" ELSE "8"
      [] k = "up" -> "up"
      [] OTHER -> "none"

Send(k, code) ==
    LET q == kbq \o (IF k \in Escaped THEN <<E0, code>> ELSE <<code>>) IN
    Len(q) <= MAXQ /\ kbq' = q

\* A key goes down.
Press(k) ==
    /\ k \notin held
    /\ Send(k, Code[k])
    /\ held' = held \cup {k}
    /\ capsOn' = (capsOn # (k = "caps"))
    /\ both' = both \cup Twice(held')
    /\ last' = Meant(k, Mods(held), capsOn)
    /\ UNCHANGED <<shift, out>>

\* A key comes up.
Raise(k) ==
    /\ k \in held
    /\ Send(k, Code[k] + 128)
    /\ held' = held \ {k}
    /\ both' = both \cap Mods(held')
    /\ last' = "none"
    /\ UNCHANGED <<capsOn, shift, out>>

-----------------------------------------------------------------------------
(* kbdgetc *)

Flip(s, t) == (s \ t) \cup (t \ s)
charcode(s, k) ==
    CASE "CTL" \in s -> ctlmap(k) [] "SHIFT" \in s -> shiftmap(k) [] OTHER -> normalmap(k)
Capital(s, ch) == IF "CAPSLOCK" \notin s THEN ch
                  ELSE CASE ch = "a" -> "A" [] ch = "A" -> "a" [] OTHER -> ch

Released(data) == IF "E0ESC" \in shift THEN data ELSE data - 128

Pressed(data) ==
    LET d == IF "E0ESC" \in shift THEN data + 128 ELSE data
        s == Flip((shift \ {"E0ESC"}) \cup shiftcode(d), togglecode(d))
    IN  shift' = s /\ out' = Capital(s, charcode(s, d))

kbdgetc ==
    /\ kbq # <<>>
    /\ kbq' = Tail(kbq)
    /\ LET data == Head(kbq) IN
       CASE data = E0 -> shift' = shift \cup {"E0ESC"} /\ out' = "none"
         [] data # E0 /\ data >= 128 ->
              /\ shift' = shift \ (shiftcode(Released(data)) \cup {"E0ESC"})
              /\ out' = "none"
         [] OTHER -> Pressed(data)
    /\ UNCHANGED <<held, capsOn, both, last>>

Next == (\E k \in Key : Press(k) \/ Raise(k)) \/ kbdgetc
Spec == Init /\ [][Next]_vars

-----------------------------------------------------------------------------
\* When the driver has read every code, no modifier is stuck or lost: each is on exactly
\* when a key for it is down (unless two were, which the driver does not tell apart), and
\* caps lock has its state.
ModifiersExact ==
    kbq = <<>> =>
        /\ \A m \in {"CTL", "SHIFT", "ALT"} \ both : m \in shift <=> m \in Mods(held)
        /\ "CAPSLOCK" \in shift <=> capsOn
        /\ "E0ESC" \notin shift

\* The character that reaches the console is the one typed.
CharacterMeant == kbq = <<>> /\ both = {} => out = last
=============================================================================
