------------------------------- MODULE Strings ------------------------------
(***************************************************************************)
(* The pure functions of the kernel and of the user library: string.c,     *)
(* ulib.c, path elements (fs.c), numbers (printf.c, console.c) and the     *)
(* pattern matcher of grep.c, each on every small argument.                *)
(*                                                                         *)
(* A string is a sequence of characters that ends with 0; an address is an *)
(* index.                                                                  *)
(***************************************************************************)
EXTENDS Integers, SequencesExt

CONSTANTS DIRSIZ,    \* the length of a name in a directory entry
          BITS,      \* bits of an int
          CELLS,     \* bound: the memory memmove works on
          MAXSTR,    \* bound: the length of a string
          MAXPATH,   \* bound: the length of a path
          MAXRE      \* bound: the length of a pattern

VARIABLE x           \* a function's name, then its arguments

Slash == 1
Garbage == 9
Newline == 4
Minus == 16
Str(chars, n) == {Append(s, 0) : s \in BoundedSeq(chars, n)}

-----------------------------------------------------------------------------
(* memmove, strings *)

\* The loops *d++ = *s++ and *--d = *--s.
RECURSIVE Up(_, _, _, _)
Up(m, d, s, n) == IF n = 0 THEN m ELSE Up([m EXCEPT ![d] = m[s]], d + 1, s + 1, n - 1)
RECURSIVE Down(_, _, _, _)
Down(m, d, s, n) == IF n = 0 THEN m ELSE Down([m EXCEPT ![d - 1] = m[s - 1]], d - 1, s - 1, n - 1)
memmoveUp(m, d, s, n) == Up(m, d, s, n)
memmove(m, d, s, n) == IF s < d /\ s + n > d THEN Down(m, d + n, s + n, n) ELSE Up(m, d, s, n)
\* The one of the user library.
umemmove(m, d, s, n) == Up(m, d, s, n)

\* while(n-- > 0 && (*s++ = *t++) != 0)
RECURSIVE CopyLoop(_, _, _, _)
CopyLoop(b, s, t, n) ==
    IF n <= 0 THEN [b |-> b, s |-> s, n |-> n - 1]
    ELSE LET b2 == [b EXCEPT ![s] = t[s]] IN
         IF t[s] = 0 THEN [b |-> b2, s |-> s + 1, n |-> n - 1] ELSE CopyLoop(b2, s + 1, t, n - 1)
RECURSIVE Fill(_, _, _)
Fill(b, s, n) == IF n <= 0 THEN b ELSE Fill([b EXCEPT ![s] = 0], s + 1, n - 1)
strncpy(b, t, n) == LET r == CopyLoop(b, 1, t, n) IN Fill(r.b, r.s, r.n)
safestrcpy(b, t, n) ==
    IF n <= 0 THEN b ELSE LET r == CopyLoop(b, 1, t, n - 1) IN [r.b EXCEPT ![r.s] = 0]

RECURSIVE Same(_, _, _, _)
Same(p, q, i, n) == IF n > 0 /\ p[i] # 0 /\ p[i] = q[i] THEN Same(p, q, i + 1, n - 1) ELSE <<i, n>>
strncmp(p, q, n) == LET r == Same(p, q, 1, n) IN IF r[2] = 0 THEN 0 ELSE p[r[1]] - q[r[1]]
strcmp(p, q) == LET r == Same(p, q, 1, Len(p)) IN p[r[1]] - q[r[1]]

\* gets: what is in buf after reading from the input in.
RECURSIVE GetsLoop(_, _, _)
GetsLoop(in, i, max) ==
    IF i + 1 >= max \/ Len(in) <= i THEN SubSeq(in, 1, i)
    ELSE IF in[i + 1] = Newline THEN SubSeq(in, 1, i + 1) ELSE GetsLoop(in, i + 1, max)
gets(in, max) == Append(GetsLoop(in, 0, max), 0)

-----------------------------------------------------------------------------
(* path elements *)

RECURSIVE SkipSlashes(_, _)
SkipSlashes(p, i) == IF p[i] = Slash THEN SkipSlashes(p, i + 1) ELSE i
RECURSIVE SkipName(_, _)
SkipName(p, i) == IF p[i] \in {Slash, 0} THEN i ELSE SkipName(p, i + 1)
CopyName(name, p, s, len) ==
    [k \in 1..DIRSIZ |-> IF k <= len THEN p[s + k - 1] ELSE IF k = len + 1 THEN 0 ELSE name[k]]
skipelem(p, i, name) ==
    LET s == SkipSlashes(p, i)  e == SkipName(p, s) IN
    IF p[s] = 0 THEN [path |-> 0, name |-> name]
    ELSE [path |-> SkipSlashes(p, e), name |-> CopyName(name, p, s, e - s)]
namecmp(s, t) == strncmp(s, t, DIRSIZ)

\* The names namex finds, in a buffer that keeps what the one before left in it.
RECURSIVE Elements(_, _, _)
Elements(p, i, name) ==
    LET r == skipelem(p, i, name) IN
    IF r.path = 0 THEN <<>> ELSE <<r.name>> \o Elements(p, r.path, r.name)
NameBuf == [k \in 1..DIRSIZ |-> Garbage]

-----------------------------------------------------------------------------
(* numbers; a digit is its value *)

RECURSIVE DigitsOf(_)
DigitsOf(v) == IF v < 10 THEN <<v>> ELSE Append(DigitsOf(v \div 10), v % 10)
print_d(v) == (IF v < 0 THEN <<Minus>> ELSE <<>>) \o DigitsOf(IF v < 0 THEN -v ELSE v)
\* digits[x >> BITS - 4], x <<= 4, BITS / 4 times.
RECURSIVE Hex(_, _)
Hex(v, i) == IF i = BITS \div 4 THEN <<>>
             ELSE <<v \div 2^(BITS - 4)>> \o Hex((v * 16) % 2^BITS, i + 1)
print_x32(v) == Hex(v, 0)
RECURSIVE AtoiLoop(_, _, _)
AtoiLoop(s, i, n) == IF i <= Len(s) /\ s[i] \in 0..9 THEN AtoiLoop(s, i + 1, n * 10 + s[i]) ELSE n
atoi(s) == AtoiLoop(s, 1, 0)

-----------------------------------------------------------------------------
(* the matcher of grep *)

Re(re, i) == IF i <= Len(re) THEN re[i] ELSE "nul"
RECURSIVE matchhere(_, _)
RECURSIVE matchstar(_, _, _)
matchstar(c, re, t) ==
    \/ matchhere(re, t)
    \/ t # <<>> /\ (t[1] = c \/ c = ".") /\ matchstar(c, re, Tail(t))
matchhere(re, t) ==
    IF re = <<>> THEN TRUE
    ELSE IF Re(re, 2) = "*" THEN matchstar(re[1], SubSeq(re, 3, Len(re)), t)
    ELSE IF re = <<"$">> THEN t = <<>>
    ELSE t # <<>> /\ (re[1] = "." \/ re[1] = t[1]) /\ matchhere(Tail(re), Tail(t))
match(re, t) ==
    IF Re(re, 1) = "^" THEN matchhere(Tail(re), t)
    ELSE \E i \in 0..Len(t) : matchhere(re, SubSeq(t, i + 1, Len(t)))

-----------------------------------------------------------------------------
Init ==
    \/ x \in {"move"} \X (1..CELLS) \X (1..CELLS) \X (0..CELLS)
       /\ x[2] + x[4] <= CELLS + 1 /\ x[3] + x[4] <= CELLS + 1
    \/ x \in {"copy"} \X Str({2, 3}, MAXSTR) \X (1..(MAXSTR + 1))
    \/ x \in {"cmp"} \X Str({2, 3}, MAXSTR) \X Str({2, 3}, MAXSTR) \X (0..(MAXSTR + 2))
    \/ x \in {"gets"} \X BoundedSeq({Newline, 2}, MAXSTR + 1) \X (1..(MAXSTR + 1))
    \/ x \in {"path"} \X Str({Slash, 2, 3}, MAXPATH)
    \/ x \in {"name"} \X Str({Slash, 2, 3}, MAXPATH - 1) \X Str({Slash, 2, 3}, MAXPATH - 1)
    \/ x \in {"int"} \X ((-(2^(BITS - 1)))..(2^(BITS - 1) - 1))
    \/ x \in {"uint"} \X (0..(2^BITS - 1))
    \/ x \in {"match"} \X BoundedSeq({"a", "b", ".", "*", "^", "$"}, MAXRE)
                       \X BoundedSeq({"a", "b"}, MAXRE - 1)

\* memmove moves what was there before, also between areas that overlap; the one of the user
\* library does when the destination does not start inside the source.
MoveExact ==
    x[1] = "move" =>
        LET m == [i \in 1..CELLS |-> i]  d == x[2]  s == x[3]  n == x[4]
            moved == [i \in 1..CELLS |-> IF i \in d..(d + n - 1) THEN m[s + i - d] ELSE m[i]]
        IN /\ memmove(m, d, s, n) = moved
           /\ (d <= s \/ d >= s + n) => umemmove(m, d, s, n) = moved

\* safestrcpy leaves a string, the longest start of t that has room, and touches nothing behind
\* the n bytes it was given; strncpy writes all n bytes and no more.
CopyBounded ==
    x[1] = "copy" =>
        LET t == x[2]  n == x[3]  b == [i \in 1..(MAXSTR + 2) |-> Garbage]
            k == IF Len(t) <= n THEN Len(t) - 1 ELSE n - 1
            s == safestrcpy(b, t, n)  f == strncpy(b, t, n)
        IN /\ SubSeq(s, 1, k + 1) = Append(SubSeq(t, 1, k), 0)
           /\ \A i \in 1..(MAXSTR + 2) : /\ i > n => s[i] = Garbage /\ f[i] = Garbage
                                         /\ i <= n => f[i] = IF i <= Len(t) THEN t[i] ELSE 0

\* strncmp and strcmp order strings by the first place where they differ.
CompareExact ==
    x[1] = "cmp" =>
        LET p == x[2]  q == x[3]
            differ == {i \in 1..Len(p) : i <= Len(q) /\ p[i] # q[i]}
            first(n) == {i \in differ : i <= n /\ \A j \in differ : i <= j}
            by(n) == IF first(n) = {} THEN 0 ELSE LET i == CHOOSE i \in first(n) : TRUE IN p[i] - q[i]
        IN strncmp(p, q, x[4]) = by(x[4]) /\ strcmp(p, q) = by(Len(p))

\* gets returns up to a line and never writes more than max bytes, the 0 included.
GetsLine ==
    x[1] = "gets" =>
        LET b == gets(x[2], x[3])  line == Front(b) IN
        /\ Len(b) <= x[3] /\ IsPrefix(line, x[2])
        /\ \A i \in 1..(Len(line) - 1) : line[i] # Newline
        /\ Len(b) = x[3] \/ line = x[2] \/ (line # <<>> /\ Last(line) = Newline)

\* The elements of a path by definition: its longest runs without a slash, cut to DIRSIZ.
Starts(p) == {i \in 1..(Len(p) - 1) : p[i] # Slash /\ (i = 1 \/ p[i - 1] = Slash)}
RunAt(p, i) == LET e == CHOOSE e \in i..Len(p) : p[e] \in {Slash, 0} /\ \A j \in i..(e - 1) : p[j] # Slash
               IN SubSeq(p, i, IF e - i > DIRSIZ THEN i + DIRSIZ - 1 ELSE e - 1)
Runs(p) == LET s == SetToSortSeq(Starts(p), <) IN [k \in 1..Len(s) |-> RunAt(p, s[k])]
NameIn(b) == SelectInSeq(b, LAMBDA c : c = 0)
Name(b) == IF NameIn(b) = 0 THEN b ELSE SubSeq(b, 1, NameIn(b) - 1)

\* namex meets the elements of the path in order, whatever slashes there are, each name cut to
\* DIRSIZ and free of what the name before it left in the buffer.
PathElements ==
    x[1] = "path" => LET es == Elements(x[2], 1, NameBuf) IN [k \in 1..Len(es) |-> Name(es[k])] = Runs(x[2])

\* A name that dirlink stored is the one dirlookup finds for a path: they compare equal when the
\* elements agree in their first DIRSIZ characters, and only then.
NameFound ==
    x[1] = "name" =>
        LET a == Elements(x[2], 1, NameBuf)  b == Elements(x[3], 1, NameBuf) IN
        a # <<>> /\ b # <<>> =>
            (namecmp(Last(a), strncpy(NameBuf, Last(b), DIRSIZ)) = 0 <=> Last(Runs(x[2])) = Last(Runs(x[3])))

\* What is printed for a number denotes it, the smallest int included, and atoi reads it back.
Denotes(ds, radix) == FoldLeft(LAMBDA v, d : v * radix + d, 0, ds)
PrintExact ==
    /\ x[1] = "int" =>
        LET out == print_d(x[2])  ds == IF x[2] < 0 THEN Tail(out) ELSE out IN
        /\ x[2] < 0 <=> Head(out) = Minus
        /\ Denotes(ds, 10) = (IF x[2] < 0 THEN -x[2] ELSE x[2])
        /\ Head(ds) = 0 => ds = <<0>>
        /\ atoi(out) = IF x[2] < 0 THEN 0 ELSE x[2]
    /\ x[1] = "uint" => Len(print_x32(x[2])) = BITS \div 4 /\ Denotes(print_x32(x[2]), 16) = x[2]

\* A pattern is a list of characters, some starred, and perhaps an end; it matches where the
\* text can be cut into one piece for each.
RECURSIVE Items(_)
Items(re) == IF re \in {<<>>, <<"$">>} THEN <<>>
             ELSE IF Re(re, 2) = "*" THEN <<<<re[1], TRUE>>>> \o Items(SubSeq(re, 3, Len(re)))
             ELSE <<<<re[1], FALSE>>>> \o Items(Tail(re))
RECURSIVE AtEnd(_)
AtEnd(re) == IF re = <<>> THEN FALSE ELSE re = <<"$">> \/ AtEnd(SubSeq(re, IF Re(re, 2) = "*" THEN 3 ELSE 2, Len(re)))
Fits(t, item, i, j) == /\ item[2] \/ j = i + 1
                       /\ \A k \in (i + 1)..j : item[1] \in {".", t[k]}
MatchDef(re, t) ==
    LET begin == Re(re, 1) = "^"  body == IF begin THEN Tail(re) ELSE re  items == Items(body) IN
    \E cut \in [0..Len(items) -> 0..Len(t)] :
        /\ begin => cut[0] = 0
        /\ AtEnd(body) => cut[Len(items)] = Len(t)
        /\ \A k \in 1..Len(items) : cut[k - 1] <= cut[k] /\ Fits(t, items[k], cut[k - 1], cut[k])
\* The recursion of match, matchhere and matchstar finds exactly the texts the pattern describes.
MatchExact == x[1] = "match" => (match(x[2], x[3]) <=> MatchDef(x[2], x[3]))
=============================================================================
