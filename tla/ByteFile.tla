------------------------------ MODULE ByteFile ------------------------------
(***************************************************************************)
(* What read and write promise: a file is a sequence of words, an open     *)
(* file has an offset that every process that shares it moves, a write     *)
(* overlays or extends, a read returns what is there.                      *)
(***************************************************************************)
EXTENDS Naturals, Sequences

CONSTANTS File, Inode, MAXN

VARIABLES content,  \* content[i]: the words of the file
          ip, off,  \* the inode and the offset of each open file
          moved     \* the words the last read or write moved

avars == <<content, ip, off, moved>>

\* The words written are the ones found there afterwards; the others stay.
Write(f) ==
    LET i   == ip[f]
        end == off'[f]
        new == content'[i]
    IN
    /\ i \in Inode /\ off[f] <= Len(content[i])
    /\ end \in (off[f] + 1)..MAXN
    /\ off' = [off EXCEPT ![f] = end]
    /\ content' = [content EXCEPT ![i] = new]
    /\ Len(new) = IF end > Len(content[i]) THEN end ELSE Len(content[i])
    /\ \A k \in 1..Len(new) :
          new[k] = IF k \in (off[f] + 1)..end THEN moved'[k - off[f]] ELSE content[i][k]
    /\ UNCHANGED ip

Read(f) == \E n \in 0..MAXN :
    LET c == content[ip[f]]
        m == IF off[f] + n > Len(c) THEN Len(c) ELSE off[f] + n
    IN
    /\ ip[f] \in Inode /\ off[f] <= Len(c)
    /\ moved' = SubSeq(c, off[f] + 1, m)
    /\ off' = [off EXCEPT ![f] = m]
    /\ UNCHANGED <<content, ip>>

Open(f) == /\ ip[f] \notin Inode
           /\ \E i \in Inode : ip' = [ip EXCEPT ![f] = i] /\ off' = [off EXCEPT ![f] = 0]
           /\ UNCHANGED <<content, moved>>
Close(f) == /\ ip'[f] \notin Inode /\ ip' = [ip EXCEPT ![f] = ip'[f]]
            /\ off' = [off EXCEPT ![f] = 0]
            /\ UNCHANGED <<content, moved>>

\* Only a file that nobody has open disappears.
Remove(i) == /\ \A f \in File : ip[f] # i
             /\ content' = [content EXCEPT ![i] = <<>>]
             /\ UNCHANGED <<ip, off, moved>>

Init == content = [i \in Inode |-> <<>>] /\ off = [f \in File |-> 0] /\ moved = <<>>
        /\ \A f \in File : ip[f] \notin Inode
Next == \/ \E f \in File : Write(f) \/ Read(f) \/ Open(f) \/ Close(f)
        \/ \E i \in Inode : Remove(i)
Spec == Init /\ [][Next]_avars
=============================================================================
