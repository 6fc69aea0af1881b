----------------------------- MODULE PipeProofs -----------------------------
(***************************************************************************)
(* The safety properties of Pipe, and that it implements Fifo, for every   *)
(* set of readers and writers and every size of buffer and counter.        *)
(***************************************************************************)
EXTENDS PipeInv, SequenceTheorems, TLAPS

USE PipeAssumption

-----------------------------------------------------------------------------
(* Counters that wrap. *)

\* The remainder, as far as the sum of two counters needs it.
LEMMA ModFacts ==
  ASSUME NEW b \in Nat, b > 0, NEW a \in Nat
  PROVE  /\ a % b \in 0..(b - 1)
         /\ a < b => a % b = a
         /\ b <= a /\ a < 2 * b => a % b = a - b
<1>1. a % b \in 0..(b - 1)
  BY SMTT(30)
<1>2. a < b => a % b = a
  BY SMTT(30)
<1>3. b <= a /\ a < 2 * b => a % b = a - b
  BY SMTT(30)
<1> QED  BY <1>1, <1>2, <1>3, Zenon

\* A counter that is moved on by k.
LEMMA Moved ==
  ASSUME NEW w \in 0..(UINT - 1), NEW k \in Nat, k < UINT
  PROVE  /\ (w + k) % UINT \in 0..(UINT - 1)
         /\ w + k < UINT => (w + k) % UINT = w + k
         /\ w + k >= UINT => (w + k) % UINT = w + k - UINT
BY ModFacts

\* nwrite - nread, and what it says of the two.
LEMMA Difference ==
  ASSUME NEW w \in 0..(UINT - 1), NEW r \in 0..(UINT - 1)
  PROVE  /\ (w + UINT - r) % UINT \in 0..(UINT - 1)
         /\ r <= w => (w + UINT - r) % UINT = w - r
         /\ r > w => (w + UINT - r) % UINT = w + UINT - r
<1>1. w + UINT - r \in Nat
  OBVIOUS
<1> QED  BY <1>1, ModFacts

\* The size is that of the buffer at most, and nwrite is that far ahead of nread.
LEMMA SizeFacts ==
  ASSUME TypeOK
  PROVE  /\ Size \in 0..PIPESIZE /\ Size < UINT
         /\ Size = 0 <=> nread = nwrite
         /\ nread \in 0..(UINT - 1) /\ nwrite \in 0..(UINT - 1)
         /\ nwrite = (nread + Size) % UINT
<1>1. nread \in 0..(UINT - 1) /\ nwrite \in 0..(UINT - 1) /\ Size <= PIPESIZE
  BY Zenon DEF TypeOK
<1>2. /\ Size \in 0..(UINT - 1)
      /\ nread <= nwrite => Size = nwrite - nread
      /\ nread > nwrite => Size = nwrite + UINT - nread
  BY <1>1, Difference DEF Size
<1>3. /\ nread + Size < UINT => (nread + Size) % UINT = nread + Size
      /\ nread + Size >= UINT => (nread + Size) % UINT = nread + Size - UINT
  BY <1>1, <1>2, Moved
<1> QED  BY <1>1, <1>2, <1>3

\* A write of k bytes makes the size k larger.
LEMMA Grown ==
  ASSUME TypeOK, NEW k \in Nat, k <= Room, nread' = nread, nwrite' = (nwrite + k) % UINT
  PROVE  nwrite' \in 0..(UINT - 1) /\ Size' = Size + k /\ Size + k <= PIPESIZE
<1>1. /\ nread \in 0..(UINT - 1) /\ nwrite \in 0..(UINT - 1)
      /\ Size \in 0..PIPESIZE /\ Size + k <= PIPESIZE /\ k < UINT
  BY SizeFacts DEF Room
<1>2. /\ nwrite' \in 0..(UINT - 1)
      /\ nwrite + k < UINT => nwrite' = nwrite + k
      /\ nwrite + k >= UINT => nwrite' = nwrite + k - UINT
  BY <1>1, Moved, Zenon
<1>3. /\ nread <= nwrite => Size = nwrite - nread
      /\ nread > nwrite => Size = nwrite + UINT - nread
  BY <1>1, Difference DEF Size
<1>4. /\ nread <= nwrite' => Size' = nwrite' - nread
      /\ nread > nwrite' => Size' = nwrite' + UINT - nread
  BY <1>1, <1>2, Difference DEF Size
<1> QED  BY <1>1, <1>2, <1>3, <1>4

\* A read of k bytes makes it k smaller.
LEMMA Shrunk ==
  ASSUME TypeOK, NEW k \in Nat, k <= Size, nwrite' = nwrite, nread' = (nread + k) % UINT
  PROVE  nread' \in 0..(UINT - 1) /\ Size' = Size - k
<1>1. /\ nread \in 0..(UINT - 1) /\ nwrite \in 0..(UINT - 1)
      /\ Size \in 0..PIPESIZE /\ k < UINT
  BY SizeFacts
<1>2. /\ nread' \in 0..(UINT - 1)
      /\ nread + k < UINT => nread' = nread + k
      /\ nread + k >= UINT => nread' = nread + k - UINT
  BY <1>1, Moved
<1>3. /\ nread <= nwrite => Size = nwrite - nread
      /\ nread > nwrite => Size = nwrite + UINT - nread
  BY <1>1, Difference DEF Size
<1>4. /\ nread' <= nwrite => Size' = nwrite - nread'
      /\ nread' > nwrite => Size' = nwrite + UINT - nread'
  <2>1. Size' = (nwrite + UINT - nread') % UINT
    BY Zenon DEF Size
  <2>2. nread' \in 0..(UINT - 1)
    BY <1>2, Zenon
  <2>3. /\ nread' <= nwrite => (nwrite + UINT - nread') % UINT = nwrite - nread'
        /\ nread' > nwrite => (nwrite + UINT - nread') % UINT = nwrite + UINT - nread'
    <3> HIDE PipeAssumption
    <3> QED  BY <1>1, <2>2, Difference, Zenon
  <2> QED  BY <2>1, <2>3, Zenon
<1> QED  BY <1>1, <1>2, <1>3, <1>4

-----------------------------------------------------------------------------
(* Each action keeps the invariant. *)

\* wakeup makes the sleepers of S run, and changes nobody else.
LEMMA WakeFacts ==
  ASSUME pc \in [Proc -> PcLoc], NEW S
  PROVE  /\ Wake(S, pc) \in [Proc -> PcLoc]
         /\ \A q \in Proc : /\ Wake(S, pc)[q] = "park" <=> pc[q] = "park"
                            /\ Wake(S, pc)[q] = "user" <=> pc[q] = "user"
                            /\ Wake(S, pc)[q] = "asleep" <=> pc[q] = "asleep" /\ q \notin S
BY Zenon DEF Wake, PcLoc

\* The buffers of a call are sequences of at most MAXN bytes,
LEMMA BufIsSeq ==
  ASSUME NEW s \in Bufs PROVE s \in Seq(Byte) /\ Len(s) \in 0..MAXN /\ \A i \in 1..Len(s) : s[i] \in Byte
<1>1. PICK n \in 0..MAXN : s \in [1..n -> Byte]
  BY Zenon DEF Bufs
<1> QED  BY <1>1

\* and all of them are.
LEMMA SeqIsBuf ==
  ASSUME NEW s \in Seq(Byte), Len(s) <= MAXN PROVE s \in Bufs
<1>1. s \in [1..Len(s) -> Byte] /\ Len(s) \in 0..MAXN
  BY LenProperties
<1> QED  BY <1>1, Zenon DEF Bufs

\* No bytes at all are a buffer.
LEMMA NoBytes == <<>> \in Bufs
<1>1. <<>> \in Seq(Byte) /\ Len(<<>>) <= MAXN
  BY EmptySeq
<1> QED  BY <1>1, SeqIsBuf, Zenon

\* Its two parts are such sequences too.
LEMMA BufParts ==
  ASSUME NEW s \in Bufs, NEW k \in Nat, k <= Len(s)
  PROVE  /\ Len(s) \in 0..MAXN /\ \A i \in 1..k : s[i] \in Byte
         /\ SubSeq(s, k + 1, Len(s)) \in Bufs
         /\ SubSeq(s, 1, k) \in Seq(Byte) /\ Len(SubSeq(s, 1, k)) = k
         /\ \A i \in 1..k : SubSeq(s, 1, k)[i] = s[i]
<1>1. s \in Seq(Byte) /\ Len(s) \in 0..MAXN
  BY BufIsSeq, Zenon
<1>2. \A i \in 1..Len(s) : s[i] \in Byte
  BY BufIsSeq, Zenon
<1>3. \A i \in 1..k : s[i] \in Byte
  BY <1>1, <1>2
<1>4. SubSeq(s, k + 1, Len(s)) \in Seq(Byte) /\ Len(SubSeq(s, k + 1, Len(s))) = Len(s) - k
  <2>1. \A i \in (k + 1)..Len(s) : s[i] \in Byte
    BY <1>1, <1>2
  <2>2. k + 1 \in Int /\ Len(s) \in Int
    BY <1>1
  <2> QED  BY <1>1, <2>1, <2>2, SubSeqProperties
<1>5. /\ SubSeq(s, 1, k) \in Seq(Byte) /\ Len(SubSeq(s, 1, k)) = k
      /\ \A i \in 1..k : SubSeq(s, 1, k)[i] = s[i]
  <2>1. /\ SubSeq(s, 1, k) \in Seq(Byte)
        /\ Len(SubSeq(s, 1, k)) = IF 1 <= k THEN k - 1 + 1 ELSE 0
        /\ \A i \in 1..(k - 1 + 1) : SubSeq(s, 1, k)[i] = s[1 + i - 1]
    BY <1>3, SubSeqProperties
  <2> QED  BY <2>1
<1>6. SubSeq(s, k + 1, Len(s)) \in Bufs
  <2>1. Len(SubSeq(s, k + 1, Len(s))) <= MAXN
    BY <1>1, <1>4
  <2> QED  BY <1>4, <2>1, SeqIsBuf, Zenon
<1> QED  BY <1>1, <1>3, <1>5, <1>6, Zenon

\* A call enters with its argument.
LEMMA CallStep ==
  ASSUME IInv, NEW p \in Proc, CallWrite(p) \/ CallRead(p) PROVE IInv'
<1>1. /\ p \in hasfd /\ pc[p] = "user" /\ pc' = [pc EXCEPT ![p] = "run"]
      /\ UNCHANGED <<data, nread, nwrite, readopen, writeopen, freed, lock, hasfd, got, killed>>
  BY Zenon DEF CallWrite, CallRead, pipe
<1>2. /\ \A q \in Writer : buf'[q] \in Bufs
      /\ \A q \in Reader : buf'[q] \in 0..MAXN
      /\ buf' = [q \in Proc |-> buf'[q]]
  <2>1. CASE CallWrite(p)
    <3>1. PICK b \in Bufs : p \in Writer /\ buf' = [buf EXCEPT ![p] = b]
      BY <2>1, Zenon DEF CallWrite
    <3>2. \A q \in Proc : buf'[q] = IF q = p THEN b ELSE buf[q]
      BY <3>1, Zenon DEF IInv
    <3> QED  BY <3>1, <3>2, Zenon DEF IInv, TypeOK, Proc
  <2>2. CASE CallRead(p)
    <3>1. PICK n \in 0..MAXN : p \in Reader /\ buf' = [buf EXCEPT ![p] = n]
      BY <2>2, Zenon DEF CallRead
    <3>2. \A q \in Proc : buf'[q] = IF q = p THEN n ELSE buf[q]
      BY <3>1, Zenon DEF IInv
    <3> QED  BY <3>1, <3>2, Zenon DEF IInv, TypeOK, Proc
  <2> QED  BY <2>1, <2>2, Zenon
<1>3. Size' = Size
  BY <1>1, Zenon DEF Size
<1>4. \A q \in Proc : pc'[q] = IF q = p THEN "run" ELSE pc[q]
  BY <1>1, Zenon DEF IInv, TypeOK
<1>5. TypeOK'
  BY <1>1, <1>2, <1>3, Zenon DEF IInv, TypeOK, PcLoc
<1>6. InsideInv'
  BY <1>1, <1>4 DEF IInv, InsideInv
<1>7. EndsInv'
  BY <1>1, Zenon DEF IInv, EndsInv
<1>8. WaitInv'
  BY <1>1, <1>3, <1>4 DEF IInv, WaitInv, Waits, Proc
<1> QED  BY <1>2, <1>5, <1>6, <1>7, <1>8, Zenon DEF IInv

\* What is stored are bytes.
LEMMA StoreType ==
  ASSUME data \in [0..(PIPESIZE - 1) -> Byte], NEW s, NEW k \in Nat,
         \A i \in 1..k : s[i] \in Byte, Store(s, k)
  PROVE  data' \in [0..(PIPESIZE - 1) -> Byte] /\ nwrite' = (nwrite + k) % UINT
<1>1. nwrite' = (nwrite + k) % UINT
  BY Zenon DEF Store
<1>2. ASSUME NEW j \in 0..(PIPESIZE - 1) PROVE data'[j] \in Byte
  <2> DEFINE I == {i \in 1..k : ((nwrite + i - 1) % UINT) % PIPESIZE = j}
  <2>1. data'[j] = IF I = {} THEN data[j] ELSE s[CHOOSE i \in I : TRUE]
    BY Zenon DEF Store
  <2>2. I # {} => (CHOOSE i \in I : TRUE) \in 1..k
    <3>1. I # {} => (CHOOSE i \in I : TRUE) \in I
      BY Zenon
    <3> QED  BY <3>1, Zenon
  <2> HIDE DEF I
  <2> QED  BY <2>1, <2>2, Zenon
<1>3. data' = [j \in 0..(PIPESIZE - 1) |-> data'[j]]
  BY DEF Store
<1> QED  BY <1>1, <1>2, <1>3, Zenon

\* The contents are bytes.
LEMMA ContentsType ==
  ASSUME TypeOK
  PROVE  Contents \in Seq(Byte) /\ Len(Contents) = Size /\ DOMAIN Contents = 1..Size
<1>1. Size \in Nat /\ nread \in Nat
  BY SizeFacts
<1>2. ASSUME NEW i \in 1..Size PROVE data[((nread + i - 1) % UINT) % PIPESIZE] \in Byte
  <2>1. (nread + i - 1) % UINT \in Nat
    BY <1>1, ModFacts
  <2>2. ((nread + i - 1) % UINT) % PIPESIZE \in 0..(PIPESIZE - 1)
    BY <2>1, ModFacts
  <2> QED  BY <2>2, Zenon DEF TypeOK
<1>3. Contents \in [1..Size -> Byte]
  BY <1>2, Zenon DEF Contents
<1> QED  BY <1>1, <1>3

\* And so are those of the next state.
LEMMA ContentsTypeNext == TypeOK' => Contents' \in Seq(Byte) /\ Len(Contents') = Size'
<1>1. TypeOK => Contents \in Seq(Byte) /\ Len(Contents) = Size
  BY ContentsType, Zenon
<1>2. (TypeOK => Contents \in Seq(Byte) /\ Len(Contents) = Size)'
  BY <1>1, PTL
<1> QED  BY <1>2, Zenon

\* What a read returns are bytes, as many as it asked for at most.
LEMMA TakenType ==
  ASSUME TypeOK, NEW k \in Nat, k <= Size, k <= MAXN
  PROVE  /\ SubSeq(Contents, 1, k) \in Bufs /\ Len(SubSeq(Contents, 1, k)) = k
         /\ \A i \in 1..k : SubSeq(Contents, 1, k)[i] = Contents[i]
<1>1. \A i \in 1..k : Contents[i] \in Byte
  BY ContentsType, SizeFacts
<1>2. /\ SubSeq(Contents, 1, k) \in Seq(Byte)
      /\ Len(SubSeq(Contents, 1, k)) = IF 1 <= k THEN k - 1 + 1 ELSE 0
      /\ \A i \in 1..(k - 1 + 1) : SubSeq(Contents, 1, k)[i] = Contents[1 + i - 1]
  BY <1>1, SubSeqProperties
<1>3. Len(SubSeq(Contents, 1, k)) = k /\ \A i \in 1..k : SubSeq(Contents, 1, k)[i] = Contents[i]
  BY <1>2
<1> QED  BY <1>2, <1>3, SeqIsBuf, Zenon

\* pipewrite: it fills what room there is, and wakes the readers unless it gives up.
LEMMA WriteRunStep ==
  ASSUME IInv, NEW p \in Proc, WriteRun(p) PROVE IInv'
<1> DEFINE k == Least(Room, Len(buf[p]))
<1>0. TypeOK /\ pc \in [Proc -> PcLoc] /\ Size \in 0..PIPESIZE
  BY SizeFacts, Zenon DEF IInv, TypeOK
<1>1. /\ p \in Writer /\ pc[p] = "run" /\ lock = Free /\ Store(buf[p], k)
      /\ UNCHANGED <<nread, readopen, writeopen, freed, hasfd, got, killed>>
  BY Zenon DEF WriteRun
<1>2. buf[p] \in Bufs /\ p \in hasfd /\ writeopen
  BY <1>1, Zenon DEF IInv, TypeOK, InsideInv, EndsInv
<1>3. k \in Nat /\ k <= Room /\ k <= Len(buf[p]) /\ (k = Room \/ k = Len(buf[p])) /\ Len(buf[p]) \in Nat
  BY <1>0, <1>2, BufIsSeq DEF Least, Room
<1>4. PICK b \in Bufs, loc \in {"user", "park"} :
        /\ buf' = [buf EXCEPT ![p] = b] /\ lock' = IF loc = "park" THEN p ELSE Free
        /\ \/ pc' = [pc EXCEPT ![p] = loc] /\ killed[p]
           \/ pc' = [pc EXCEPT ![p] = loc] /\ ~readopen
           \/ pc' = [Wake(Reader, pc) EXCEPT ![p] = loc]
        /\ loc = "park" => k = Room /\ readopen
  <2>1. <<>> \in Bufs
    BY NoBytes, Zenon
  <2>2. SubSeq(buf[p], k + 1, Len(buf[p])) \in Bufs
    BY <1>2, <1>3, BufParts, Zenon
  <2>3. \/ pc' = [Wake(Reader, pc) EXCEPT ![p] = "user"] /\ buf' = [buf EXCEPT ![p] = <<>>] /\ lock' = Free
        \/ /\ ~readopen \/ killed[p]
           /\ pc' = [pc EXCEPT ![p] = "user"] /\ buf' = [buf EXCEPT ![p] = <<>>] /\ lock' = Free
        \/ /\ k < Len(buf[p]) /\ readopen
           /\ pc' = [Wake(Reader, pc) EXCEPT ![p] = "park"] /\ lock' = p
           /\ buf' = [buf EXCEPT ![p] = SubSeq(buf[p], k + 1, Len(buf[p]))]
    BY Zenon DEF WriteRun
  <2>4. k < Len(buf[p]) => k = Room
    BY <1>3
  <2> HIDE DEF k
  <2> QED  BY <2>1, <2>2, <2>3, <2>4, Zenon
<1> HIDE DEF k
<1>5. nwrite' \in 0..(UINT - 1) /\ Size' = Size + k /\ Size + k <= PIPESIZE /\ data' \in [0..(PIPESIZE - 1) -> Byte]
  <2>1. \A i \in 1..k : buf[p][i] \in Byte
    BY <1>2, <1>3, BufParts, Zenon
  <2>2. nwrite' = (nwrite + k) % UINT /\ data' \in [0..(PIPESIZE - 1) -> Byte]
    BY <1>0, <1>1, <1>3, <2>1, StoreType, Zenon DEF TypeOK
  <2> QED  BY <1>0, <1>1, <1>3, <2>2, Grown, Zenon
<1>6. /\ \A q \in Proc : q # p => buf'[q] = buf[q]
      /\ buf' = [q \in Proc |-> buf'[q]] /\ buf'[p] = b /\ p \notin Reader
  BY <1>1, <1>4, Zenon DEF IInv
<1>7. /\ pc' \in [Proc -> PcLoc] /\ pc'[p] = loc
      /\ \A q \in Proc : q # p => /\ pc'[q] = "park" <=> pc[q] = "park"
                                  /\ pc'[q] = "user" <=> pc[q] = "user"
                                  /\ pc'[q] = "asleep" => pc[q] = "asleep"
                                  /\ q \notin Reader => (pc'[q] = "asleep" <=> pc[q] = "asleep")
      /\ (\E q \in Reader : pc'[q] = "asleep") => killed[p] \/ ~readopen
  BY <1>0, <1>1, <1>4, <1>6, WakeFacts DEF PcLoc, Proc
<1>8. TypeOK'
  BY <1>0, <1>1, <1>4, <1>5, <1>6, <1>7 DEF TypeOK, Proc
<1>9. InsideInv'
  <2>1. \A q \in Proc : q # Free /\ pc[q] # "park" /\ (pc[q] # "user" => q \in hasfd)
    BY <1>1, Zenon DEF IInv, InsideInv, Proc
  <2>2. pc'[p] = "park" <=> lock' = p
    BY <1>4, <1>7, <2>1, Zenon
  <2>3. \A q \in Proc : q # p => pc'[q] # "park" /\ lock' # q
    BY <1>4, <1>7, <2>1, Zenon
  <2> QED  BY <1>1, <1>2, <1>7, <2>1, <2>2, <2>3, Zenon DEF InsideInv
<1>10. EndsInv'
  BY <1>1, Zenon DEF IInv, EndsInv
<1>11. WaitInv'
  <2>1. ASSUME NEW q \in Writer, Waits(q)' PROVE Size' = PIPESIZE /\ readopen'
    <3>1. CASE q = p
      BY <1>0, <1>1, <1>3, <1>4, <1>5, <1>7, <2>1, <3>1 DEF Waits, Room
    <3>2. CASE q # p
      <4>1. Waits(q)
        BY <1>7, <2>1, <3>2, Zenon DEF Waits, Proc
      <4>2. Size = PIPESIZE /\ readopen
        BY <4>1, Zenon DEF IInv, WaitInv
      <4> QED  BY <1>0, <1>1, <1>3, <1>5, <4>2
    <3> QED  BY <3>1, <3>2, Zenon
  <2>2. ASSUME NEW q \in Reader, Waits(q)' PROVE writeopen' /\ \E w \in Writer : killed'[w]
    <3>1. q \in Proc /\ q # p /\ lock # q
      BY <1>1, <1>6, Zenon DEF Proc
    <3>3. pc'[q] = "asleep" /\ pc[q] = "asleep"
      BY <1>7, <2>2, <3>1, Zenon DEF Waits, IInv, InsideInv
    <3>4. q \in hasfd
      BY <3>1, <3>3, Zenon DEF IInv, InsideInv
    <3>2. readopen
      BY <3>4, Zenon DEF IInv, EndsInv
    <3> QED  BY <1>1, <1>2, <1>7, <3>2, <3>3, Zenon
  <2> QED  BY <2>1, <2>2, Zenon DEF WaitInv
<1> QED  BY <1>6, <1>8, <1>9, <1>10, <1>11, Zenon DEF IInv

\* piperead: it takes what there is, and wakes the writers.
LEMMA ReadRunStep ==
  ASSUME IInv, NEW p \in Proc, ReadRun(p) PROVE IInv'
<1> DEFINE k == Least(buf[p], Size)
<1>0. TypeOK /\ pc \in [Proc -> PcLoc] /\ Size \in 0..PIPESIZE /\ (Size = 0 <=> nread = nwrite)
  BY SizeFacts, Zenon DEF IInv, TypeOK
<1>1. /\ p \in Reader /\ pc[p] = "run" /\ lock = Free
      /\ UNCHANGED <<data, nwrite, readopen, writeopen, freed, hasfd, killed>>
  BY Zenon DEF ReadRun
<1>2. p \in hasfd /\ readopen /\ p \notin Writer /\ buf[p] \in 0..MAXN
  BY <1>1, Zenon DEF IInv, TypeOK, InsideInv, EndsInv
<1>3. k \in Nat /\ k <= Size /\ k <= MAXN
  BY <1>0, <1>2 DEF Least
<1>4. PICK n \in 0..MAXN, loc \in {"user", "park"} :
        /\ buf' = [buf EXCEPT ![p] = n] /\ lock' = IF loc = "park" THEN p ELSE Free
        /\ \/ /\ pc' = [pc EXCEPT ![p] = loc] /\ nread' = nread /\ got' = got
              /\ loc = "park" => Empty
           \/ /\ pc' = [Wake(Writer, pc) EXCEPT ![p] = loc] /\ nread' = (nread + k) % UINT
              /\ got' = [got EXCEPT ![p] = SubSeq(Contents, 1, k)] /\ loc = "user"
  <2>1. buf = [buf EXCEPT ![p] = buf[p]]
    BY Zenon DEF IInv
  <2>2. \/ buf' = [buf EXCEPT ![p] = 0] /\ lock' = Free /\ pc' = [pc EXCEPT ![p] = "user"] /\ nread' = nread /\ got' = got
        \/ buf' = buf /\ lock' = p /\ pc' = [pc EXCEPT ![p] = "park"] /\ nread' = nread /\ got' = got /\ Empty
        \/ /\ buf' = [buf EXCEPT ![p] = 0] /\ lock' = Free
           /\ pc' = [Wake(Writer, pc) EXCEPT ![p] = "user"] /\ nread' = (nread + k) % UINT
           /\ got' = [got EXCEPT ![p] = SubSeq(Contents, 1, k)]
    BY <1>1, Zenon DEF ReadRun
  <2> HIDE DEF k
  <2> QED  BY <1>2, <2>1, <2>2
<1> HIDE DEF k
<1>5. /\ nread' \in 0..(UINT - 1) /\ Size' \in 0..PIPESIZE
      /\ nread' = nread => Size' = Size
  <2>1. CASE nread' = nread
    BY <1>0, <1>1, <2>1, Zenon DEF TypeOK, Size
  <2>2. CASE nread' = (nread + k) % UINT /\ nread' # nread
    BY <1>0, <1>1, <1>3, <2>2, Shrunk
  <2> QED  BY <1>4, <2>1, <2>2, Zenon
<1>6. got' \in [Reader -> Bufs]
  <2>1. SubSeq(Contents, 1, k) \in Bufs
    BY <1>0, <1>3, TakenType, Zenon
  <2>2. got \in [Reader -> Bufs]
    BY <1>0, Zenon DEF TypeOK
  <2>3. PICK x : x = SubSeq(Contents, 1, k)
    BY Zenon
  <2>4. got' = got \/ got' = [got EXCEPT ![p] = x]
    BY <1>4, <2>3, Zenon
  <2>5. x \in Bufs
    BY <2>1, <2>3, Zenon
  <2> QED  BY <2>2, <2>4, <2>5, Zenon
<1>7. /\ \A q \in Proc : q # p => buf'[q] = buf[q]
      /\ buf' = [q \in Proc |-> buf'[q]] /\ buf'[p] = n
  BY <1>1, <1>4, Zenon DEF IInv
<1>8. /\ pc' \in [Proc -> PcLoc] /\ pc'[p] = loc
      /\ \A q \in Proc : q # p => /\ pc'[q] = "park" <=> pc[q] = "park"
                                  /\ pc'[q] = "user" <=> pc[q] = "user"
                                  /\ pc'[q] = "asleep" => pc[q] = "asleep"
      /\ (\E q \in Writer : pc'[q] = "asleep") => nread' = nread
  BY <1>0, <1>1, <1>2, <1>4, WakeFacts DEF PcLoc, Proc
<1>9. TypeOK'
  <2>1. lock' \in Proc \cup {Free} /\ \A q \in Writer : buf'[q] \in Bufs
    BY <1>0, <1>2, <1>4, <1>7, Zenon DEF TypeOK, Proc
  <2>2. \A q \in Reader : buf'[q] \in 0..MAXN
    BY <1>0, <1>7, Zenon DEF TypeOK, Proc
  <2>3. nwrite' \in 0..(UINT - 1) /\ Size' <= PIPESIZE
    BY <1>0, <1>1, <1>5 DEF TypeOK
  <2> QED  BY <1>0, <1>1, <1>5, <1>6, <1>8, <2>1, <2>2, <2>3, Zenon DEF TypeOK
<1>10. InsideInv'
  <2>1. \A q \in Proc : q # Free /\ pc[q] # "park" /\ (pc[q] # "user" => q \in hasfd)
    BY <1>1, Zenon DEF IInv, InsideInv, Proc
  <2>2. pc'[p] = "park" <=> lock' = p
    BY <1>4, <1>8, <2>1, Zenon
  <2>3. \A q \in Proc : q # p => pc'[q] # "park" /\ lock' # q
    BY <1>4, <1>8, <2>1, Zenon
  <2> QED  BY <1>1, <1>2, <1>8, <2>1, <2>2, <2>3, Zenon DEF InsideInv
<1>11. EndsInv'
  BY <1>1, Zenon DEF IInv, EndsInv
<1>12. WaitInv'
  <2>1. ASSUME NEW q \in Writer, Waits(q)' PROVE Size' = PIPESIZE /\ readopen'
    <3>1. q \in Proc /\ q # p /\ pc[q] # "park"
      BY <1>1, <1>2, Zenon DEF Proc, IInv, InsideInv
    <3>2. pc'[q] = "asleep" /\ pc[q] = "asleep"
      BY <1>8, <2>1, <3>1, Zenon DEF Waits
    <3>3. Size = PIPESIZE /\ nread' = nread
      BY <1>8, <3>2, Zenon DEF Waits, IInv, WaitInv
    <3> QED  BY <1>1, <1>2, <1>5, <3>3, Zenon
  <2>2. ASSUME NEW q \in Reader, Waits(q)' PROVE writeopen' /\ (Size' = 0 \/ \E w \in Writer : killed'[w])
    <3>1. CASE q = p
      <4>1. loc = "park"
        BY <1>8, <2>2, <3>1, Zenon DEF Waits
      <4> QED  BY <1>0, <1>1, <1>4, <1>5, <4>1, Zenon DEF Empty
    <3>2. CASE q # p
      <4>1. Waits(q)
        BY <1>8, <2>2, <3>2, Zenon DEF Waits, Proc
      <4>2. writeopen /\ (Size = 0 \/ \E w \in Writer : killed[w])
        BY <4>1, Zenon DEF IInv, WaitInv
      <4>3. Size = 0 => Size' = 0
        BY <1>0, <1>1, <1>3, <1>4, <1>5, Shrunk
      <4> QED  BY <1>1, <4>2, <4>3, Zenon
    <3> QED  BY <3>1, <3>2, Zenon
  <2> QED  BY <2>1, <2>2, Zenon DEF WaitInv
<1> QED  BY <1>7, <1>9, <1>10, <1>11, <1>12, Zenon DEF IInv

\* sleep releases p->lock, and what is waited for has not come.
LEMMA SleepStep ==
  ASSUME IInv, NEW p \in Proc, Sleep(p) PROVE IInv'
<1>1. /\ pc[p] = "park" /\ pc' = [pc EXCEPT ![p] = "asleep"] /\ lock' = Free
      /\ UNCHANGED <<data, nread, nwrite, readopen, writeopen, freed, hasfd, buf, got, killed>>
  BY Zenon DEF Sleep, pipe
<1>2. Size' = Size
  BY <1>1, Zenon DEF Size
<1>3. \A q \in Proc : pc'[q] = IF q = p THEN "asleep" ELSE pc[q]
  BY <1>1, Zenon DEF IInv, TypeOK
<1>4. TypeOK'
  BY <1>1, <1>2, Zenon DEF IInv, TypeOK, PcLoc
<1>5. InsideInv'
  BY <1>1, <1>3 DEF IInv, InsideInv, Proc
<1>6. EndsInv'
  BY <1>1, Zenon DEF IInv, EndsInv
<1>7. WaitInv'
  <2>1. \A q \in Proc : Waits(q)' <=> Waits(q)
    BY <1>1, <1>3, Zenon DEF Waits
  <2>2. \A q \in Reader \cup Writer : Waits(q)' <=> Waits(q)
    BY <2>1, Zenon DEF Proc
  <2> QED  BY <1>1, <1>2, <2>2, Zenon DEF IInv, WaitInv
<1> QED  BY <1>1, <1>4, <1>5, <1>6, <1>7, Zenon DEF IInv

\* The last descriptor of an end closes it, and wakes the other side.
LEMMA CloseStep ==
  ASSUME IInv, NEW p \in Proc, Close(p) PROVE IInv'
<1> DEFINE end == IF p \in Writer THEN Writer ELSE Reader
<1>1. /\ p \in hasfd /\ pc[p] = "user" /\ hasfd' = hasfd \ {p}
      /\ UNCHANGED <<data, nread, nwrite, lock, buf, got, killed>>
  BY Zenon DEF Close
<1>2. /\ Size' = Size
      /\ {readopen, writeopen, freed} \subseteq BOOLEAN /\ pc \in [Proc -> PcLoc]
  BY <1>1, Zenon DEF Size, IInv, TypeOK
<1>3. /\ {readopen', writeopen', freed'} \subseteq BOOLEAN
      /\ freed' => ~writeopen' /\ ~readopen'
      /\ writeopen' <=> writeopen /\ ~(p \in Writer /\ hasfd \cap Writer = {p})
      /\ readopen' <=> readopen /\ ~(p \notin Writer /\ hasfd \cap Reader = {p})
  <2>1. CASE hasfd \cap end # {p} /\ UNCHANGED <<readopen, writeopen, freed, pc>>
    BY <1>2, <2>1, Zenon DEF IInv, EndsInv
  <2>2. CASE hasfd \cap end = {p} /\ Pipeclose(p \in Writer)
    BY <1>2, <2>2, Zenon DEF Pipeclose
  <2> QED  BY <2>1, <2>2, Zenon DEF Close
<1>4. /\ pc' \in [Proc -> PcLoc]
      /\ \A q \in Proc : /\ pc'[q] = "park" <=> pc[q] = "park"
                         /\ pc'[q] = "user" <=> pc[q] = "user"
                         /\ pc'[q] = "asleep" => pc[q] = "asleep"
      /\ readopen' # readopen => lock = Free /\ \A q \in Writer : pc'[q] # "asleep"
      /\ writeopen' # writeopen => lock = Free /\ \A q \in Reader : pc'[q] # "asleep"
  <2>1. CASE hasfd \cap end # {p} /\ UNCHANGED <<readopen, writeopen, freed, pc>>
    BY <1>2, <2>1, Zenon
  <2>2. CASE hasfd \cap end = {p} /\ Pipeclose(p \in Writer)
    <3>1. lock = Free /\ pc' = Wake(IF p \in Writer THEN Reader ELSE Writer, pc)
      BY <2>2, Zenon DEF Pipeclose
    <3>2. /\ p \in Writer => readopen' = readopen
          /\ p \notin Writer => writeopen' = writeopen
      BY <1>2, <2>2, Zenon DEF Pipeclose
    <3> QED  BY <1>2, <3>1, <3>2, WakeFacts, Zenon DEF Proc
  <2> QED  BY <2>1, <2>2, Zenon DEF Close
<1> HIDE DEF end
<1>5. TypeOK'
  BY <1>1, <1>2, <1>3, <1>4, Zenon DEF IInv, TypeOK
<1>6. InsideInv'
  BY <1>1, <1>4, Zenon DEF IInv, InsideInv
<1>7. EndsInv'
  BY <1>1, <1>3, Zenon DEF IInv, EndsInv, Proc
<1>8. WaitInv'
  <2>1. ASSUME NEW q \in Writer, Waits(q)' PROVE Size' = PIPESIZE /\ readopen'
    <3>1. q \in Proc /\ q # Free /\ (pc[q] = "park" => lock = q)
      BY Zenon DEF Proc, IInv, InsideInv
    <3>2. Waits(q) /\ readopen' = readopen
      BY <1>4, <2>1, <3>1, Zenon DEF Waits
    <3> QED  BY <1>2, <3>2, Zenon DEF IInv, WaitInv
  <2>2. ASSUME NEW q \in Reader, Waits(q)' PROVE writeopen' /\ (Size' = 0 \/ \E w \in Writer : killed'[w])
    <3>1. q \in Proc /\ q # Free /\ (pc[q] = "park" => lock = q)
      BY Zenon DEF Proc, IInv, InsideInv
    <3>2. Waits(q) /\ writeopen' = writeopen
      BY <1>4, <2>2, <3>1, Zenon DEF Waits
    <3> QED  BY <1>1, <1>2, <3>2, Zenon DEF IInv, WaitInv
  <2> QED  BY <2>1, <2>2, Zenon DEF WaitInv
<1> QED  BY <1>1, <1>5, <1>6, <1>7, <1>8, Zenon DEF IInv

\* kill() wakes its victim and marks it, without p->lock.
LEMMA KillStep ==
  ASSUME IInv, NEW p \in Proc, Kill(p) PROVE IInv'
<1>1. /\ killed' = [killed EXCEPT ![p] = TRUE] /\ pc' = Wake({p}, pc)
      /\ UNCHANGED <<data, nread, nwrite, readopen, writeopen, freed, lock, hasfd, buf, got>>
  BY Zenon DEF Kill, pipe
<1>2. Size' = Size
  BY <1>1, Zenon DEF Size
<1>3. /\ pc' \in [Proc -> PcLoc] /\ killed' \in [Proc -> BOOLEAN]
      /\ \A q \in Proc : /\ pc'[q] = "park" <=> pc[q] = "park"
                         /\ pc'[q] = "user" <=> pc[q] = "user"
                         /\ pc'[q] = "asleep" => pc[q] = "asleep"
                         /\ killed[q] => killed'[q]
  BY <1>1, WakeFacts DEF IInv, TypeOK
<1>4. TypeOK'
  BY <1>1, <1>2, <1>3, Zenon DEF IInv, TypeOK
<1>5. InsideInv'
  BY <1>1, <1>3, Zenon DEF IInv, InsideInv
<1>6. EndsInv'
  BY <1>1, Zenon DEF IInv, EndsInv
<1>7. WaitInv'
  <2>1. \A q \in Reader \cup Writer : (Waits(q)' => Waits(q)) /\ (killed[q] => killed'[q])
    BY <1>3, Zenon DEF Waits, Proc
  <2> QED  BY <1>1, <1>2, <2>1, Zenon DEF IInv, WaitInv
<1> QED  BY <1>1, <1>4, <1>5, <1>6, <1>7, Zenon DEF IInv

\* pipealloc.
LEMMA InitInv == Init => IInv
<1> SUFFICES ASSUME Init PROVE IInv
  BY Zenon
<1>1. Size = 0
  BY Difference DEF Init, Size
<1>2. /\ nread = 0 /\ nwrite = 0 /\ readopen = TRUE /\ writeopen = TRUE /\ freed = FALSE
      /\ lock = Free /\ hasfd = Proc /\ pc = [p \in Proc |-> "user"] /\ killed = [p \in Proc |-> FALSE]
      /\ data \in [0..(PIPESIZE - 1) -> Byte]
  BY Zenon DEF Init
<1>3. /\ \A p \in Writer : buf[p] \in Bufs
      /\ \A p \in Reader : buf[p] \in 0..MAXN
      /\ buf = [p \in Proc |-> buf[p]]
  BY NoBytes DEF Init, Proc
<1>4. got \in [Reader -> Bufs]
  BY NoBytes, Zenon DEF Init
<1>5. TypeOK
  <2>1. {readopen, writeopen, freed} \subseteq BOOLEAN /\ lock \in Proc \cup {Free} /\ hasfd \subseteq Proc
    BY <1>2, Zenon
  <2>2. pc \in [Proc -> PcLoc] /\ killed \in [Proc -> BOOLEAN]
    BY <1>2, Zenon DEF PcLoc
  <2>3. nread \in 0..(UINT - 1) /\ nwrite \in 0..(UINT - 1) /\ Size <= PIPESIZE
    BY <1>1, <1>2
  <2> QED  BY <1>2, <1>3, <1>4, <2>1, <2>2, <2>3, Zenon DEF TypeOK
<1>6. InsideInv /\ EndsInv /\ WaitInv
  BY <1>2, Zenon DEF InsideInv, EndsInv, WaitInv, Waits, Proc
<1> QED  BY <1>3, <1>5, <1>6, Zenon DEF IInv

\* The invariant holds in every behaviour of the pipe.
THEOREM PipeInvariant == Spec => []IInv
<1>1. IInv /\ [Next]_vars => IInv'
  <2> SUFFICES ASSUME IInv, [Next]_vars PROVE IInv'
    BY Zenon
  <2>1. CASE Next
    BY <2>1, CallStep, WriteRunStep, ReadRunStep, SleepStep, CloseStep, KillStep, Zenon DEF Next,
      Run
  <2>2. CASE UNCHANGED vars
    BY <2>2, Zenon DEF vars, pipe, IInv, TypeOK, InsideInv, EndsInv, WaitInv, Waits, Size
  <2> QED  BY <2>1, <2>2, Zenon
<1> QED  BY <1>1, InitInv, PTL DEF Spec

\* Neither side sleeps in front of something it could do, whoever is killed and whenever.
THEOREM NoWakeupIsLost == Spec => []NoLostWakeup
<1>1. IInv => NoLostWakeup
  BY Zenon DEF IInv, WaitInv, Waits, NoLostWakeup, ReaderSleepsOnEmpty, WriterSleepsOnFull
<1> QED  BY <1>1, PipeInvariant, PTL

\* The counters stay within the buffer of each other, also across the wrap, and the page
\* outlives its users.
THEOREM PipeIsConsistent == Spec => []PipeConsistent
<1>1. IInv => NoUseAfterFree
  <2> SUFFICES ASSUME IInv, freed PROVE hasfd = {} /\ \A p \in Proc : pc[p] = "user"
    BY Zenon DEF NoUseAfterFree
  <2>1. hasfd \cap Writer = {} /\ hasfd \cap Reader = {} /\ hasfd \subseteq Proc
    BY Zenon DEF IInv, TypeOK, EndsInv
  <2>2. hasfd = {}
    BY <2>1, Zenon DEF Proc
  <2> QED  BY <2>2, Zenon DEF IInv, InsideInv
<1> QED  BY <1>1, PipeInvariant, PTL DEF PipeConsistent, IInv

-----------------------------------------------------------------------------
(* The slots of the buffer. *)

\* The slot that a counter stands for: PIPESIZE divides UINT, so the wrap is not seen.
SlotOf(x) == (x % UINT) % PIPESIZE

\* What is not a multiple moves a remainder.
LEMMA RemainderMoves ==
  ASSUME NEW b \in Nat, b > 0, NEW x \in Nat, NEW y \in Nat, NEW m \in Int, NEW d \in 1..(b - 1),
         y = x + d - b * m
  PROVE  x % b # y % b
<1> SUFFICES ASSUME x % b = y % b PROVE FALSE
  BY Zenon
<1>1. PICK q1 \in Nat, q2 \in Nat, s \in Int : x = b * q1 + s /\ y = b * q2 + s
  <2>1. /\ x \div b \in Nat /\ x = b * (x \div b) + (x % b)
        /\ y \div b \in Nat /\ y = b * (y \div b) + (y % b)
        /\ x % b \in Int
    OBVIOUS
  <2> QED  BY <2>1, Zenon
<1>2. PICK z \in Int : z = q2 - q1 + m
  OBVIOUS
<1>3. b * z = d
  <2>1. b * z = b * q2 - b * q1 + b * m
    BY <1>2
  <2> QED  BY <1>1, <2>1
<1>4. z <= 0 => b * z <= 0
  OBVIOUS
<1>5. z >= 1 => b * z >= b
  OBVIOUS
<1> QED  BY <1>3, <1>4, <1>5

\* As many counts as the buffer has slots stand for different slots.
LEMMA SlotsDiffer ==
  ASSUME NEW x \in Nat, NEW y \in Nat, x < y, y < x + PIPESIZE, y < 2 * UINT
  PROVE  SlotOf(x) # SlotOf(y)
<1>1. PICK m \in Nat : UINT = PIPESIZE * m
  <2>1. UINT \div PIPESIZE \in Nat /\ UINT = PIPESIZE * (UINT \div PIPESIZE) + (UINT % PIPESIZE)
    OBVIOUS
  <2>2. UINT % PIPESIZE = 0
    BY Zenon
  <2>3. PICK m \in Nat : m = UINT \div PIPESIZE
    BY <2>1, Zenon
  <2>4. UINT = PIPESIZE * m + 0
    BY <2>1, <2>2, <2>3, Zenon
  <2>5. PIPESIZE * m \in Nat
    OBVIOUS
  <2> QED  BY <2>4, <2>5
<1>2. /\ x % UINT \in Nat /\ y % UINT \in Nat
      /\ x < UINT => x % UINT = x
      /\ x >= UINT => x % UINT = x - UINT
      /\ y < UINT => y % UINT = y
      /\ y >= UINT => y % UINT = y - UINT
  BY ModFacts
<1>3. \/ y % UINT = (x % UINT) + (y - x) - PIPESIZE * 0
      \/ y % UINT = (x % UINT) + (y - x) - PIPESIZE * m
  BY <1>1, <1>2
<1>4. y - x \in 1..(PIPESIZE - 1) /\ m \in Int /\ 0 \in Int /\ PIPESIZE > 0
  BY <1>1
<1> QED  BY <1>2, <1>3, <1>4, RemainderMoves DEF SlotOf

\* A counter that has been moved on stands for the slot that it was moved to.
LEMMA SlotMoved ==
  ASSUME NEW n \in 0..(UINT - 1), NEW d \in Nat, NEW j \in Nat, d + j <= PIPESIZE
  PROVE  SlotOf(((n + d) % UINT) + j) = SlotOf(n + d + j)
<1>1. /\ n + d + j < 2 * UINT /\ d < UINT
      /\ n + d < UINT => (n + d) % UINT = n + d
      /\ n + d >= UINT => (n + d) % UINT = n + d - UINT
  <2>1. n + d + j < 2 * UINT /\ d < UINT
    OBVIOUS
  <2> QED  BY <2>1, Moved
<1>2. n + d >= UINT => /\ n + d - UINT + j < UINT /\ n + d - UINT + j \in Nat /\ n + d + j \in Nat
                       /\ n + d + j >= UINT
  BY <1>1
<1>3. n + d >= UINT => (n + d - UINT + j) % UINT = n + d - UINT + j
  <2> SUFFICES ASSUME n + d >= UINT PROVE (n + d - UINT + j) % UINT = n + d - UINT + j
    BY Zenon
  <2>1. PICK a \in Nat : a = n + d - UINT + j /\ a < UINT
    BY <1>2, Zenon
  <2>2. a % UINT = a
    BY <2>1, ModFacts
  <2> QED  BY <2>1, <2>2, Zenon
<1>4. n + d >= UINT => (n + d + j) % UINT = n + d + j - UINT
  BY <1>1, <1>2, ModFacts
<1>5. n + d + j - UINT = n + d - UINT + j
  OBVIOUS
<1> QED  BY <1>1, <1>3, <1>4, <1>5 DEF SlotOf

-----------------------------------------------------------------------------
(* The pipe is a bounded queue. *)

\* A slot is one of the buffer's.
LEMMA SlotRange ==
  ASSUME NEW x \in Nat PROVE SlotOf(x) \in 0..(PIPESIZE - 1)
<1>1. x % UINT \in Nat
  BY ModFacts
<1> QED  BY <1>1, ModFacts DEF SlotOf

\* pipewrite stores the bytes where the contents end, and leaves the contents alone.
LEMMA StoreAt ==
  ASSUME TypeOK, NEW s, NEW k \in Nat, k <= Room, Store(s, k)
  PROVE  /\ \A i \in 1..k : data'[SlotOf(nread + Size + i - 1)] = s[i]
         /\ \A i \in 1..Size : data'[SlotOf(nread + i - 1)] = data[SlotOf(nread + i - 1)]
<1> DEFINE I(j) == {i \in 1..k : SlotOf(nwrite + i - 1) = j}
<1>1. \A j \in 0..(PIPESIZE - 1) : data'[j] = IF I(j) = {} THEN data[j] ELSE s[CHOOSE i \in I(j) : TRUE]
  BY Zenon DEF Store, SlotOf
<1>2. /\ Size \in Nat /\ Size + k <= PIPESIZE /\ nwrite = (nread + Size) % UINT
      /\ nread \in 0..(UINT - 1)
  BY SizeFacts DEF Room
<1>3. ASSUME NEW i \in 1..k PROVE SlotOf(nwrite + i - 1) = SlotOf(nread + Size + i - 1)
  <2>1. PICK j \in Nat : j = i - 1 /\ Size + j <= PIPESIZE
    BY <1>2
  <2>2. SlotOf(((nread + Size) % UINT) + j) = SlotOf(nread + Size + j)
    <3>1. PICK n \in 0..(UINT - 1), d \in Nat : n = nread /\ d = Size /\ d + j <= PIPESIZE
      BY <1>2, <2>1, Zenon
    <3>2. SlotOf(((n + d) % UINT) + j) = SlotOf(n + d + j)
      <4> HIDE PipeAssumption
      <4> QED  BY <3>1, SlotMoved, Zenon
    <3> QED  BY <3>1, <3>2, Zenon
  <2>3. nwrite + i - 1 = nwrite + j /\ nread + Size + i - 1 = nread + Size + j
    BY <1>2, <2>1, SizeFacts, Zenon
  <2> QED  BY <1>2, <2>2, <2>3, Zenon
<1>4. ASSUME NEW i \in 1..k PROVE data'[SlotOf(nread + Size + i - 1)] = s[i]
  <2>1. PICK j : j = SlotOf(nread + Size + i - 1) /\ j \in 0..(PIPESIZE - 1)
    BY <1>2, SlotRange
  <2>2. ASSUME NEW h \in 1..k, h # i PROVE SlotOf(nread + Size + h - 1) # SlotOf(nread + Size + i - 1)
    BY <1>2, <2>2, SlotsDiffer
  <2>3. I(j) = {i}
    BY <1>3, <2>1, <2>2
  <2>4. (CHOOSE h \in {i} : TRUE) = i
    BY Zenon
  <2> HIDE DEF I
  <2> QED  BY <1>1, <2>1, <2>3, <2>4, Zenon
<1>5. ASSUME NEW i \in 1..Size PROVE data'[SlotOf(nread + i - 1)] = data[SlotOf(nread + i - 1)]
  <2>1. PICK j : j = SlotOf(nread + i - 1) /\ j \in 0..(PIPESIZE - 1)
    BY <1>2, SlotRange
  <2>2. ASSUME NEW h \in 1..k PROVE SlotOf(nread + Size + h - 1) # SlotOf(nread + i - 1)
    BY <1>2, SlotsDiffer
  <2>3. I(j) = {}
    BY <1>3, <2>1, <2>2
  <2> HIDE DEF I
  <2> QED  BY <1>1, <2>1, <2>3, Zenon
<1> QED  BY <1>4, <1>5, Zenon

\* A write appends the first k bytes of its buffer to the contents.
LEMMA ContentsGrown ==
  ASSUME TypeOK, TypeOK', NEW s \in Bufs, NEW k \in Nat, k <= Len(s), k <= Room, nread' = nread, Store(s, k)
  PROVE  Contents' = Contents \o SubSeq(s, 1, k)
<1>1. /\ Size' = Size + k /\ Size \in Nat /\ nread \in Nat
  <2>1. nwrite' = (nwrite + k) % UINT
    BY Zenon DEF Store
  <2> QED  BY <2>1, Grown, SizeFacts
<1>2. PICK t : t = SubSeq(s, 1, k) /\ t \in Seq(Byte) /\ Len(t) = k /\ \A i \in 1..k : t[i] = s[i]
  <2>1. /\ SubSeq(s, 1, k) \in Seq(Byte) /\ Len(SubSeq(s, 1, k)) = k
        /\ \A i \in 1..k : SubSeq(s, 1, k)[i] = s[i]
    BY BufParts, Zenon
  <2> QED  BY <2>1, Zenon
<1>3. /\ Contents \in Seq(Byte) /\ Len(Contents) = Size
      /\ Contents' \in Seq(Byte) /\ Len(Contents') = Size'
  BY ContentsType, ContentsTypeNext, Zenon
<1>4. /\ Contents \o t \in Seq(Byte) /\ Len(Contents \o t) = Size + k
      /\ \A i \in 1..(Size + k) : (Contents \o t)[i] = IF i <= Size THEN Contents[i] ELSE t[i - Size]
  <2>1. PICK c \in Seq(Byte) : c = Contents /\ Len(c) = Size
    BY <1>3, Zenon
  <2>2. /\ c \o t \in Seq(Byte) /\ Len(c \o t) = Len(c) + Len(t)
        /\ \A i \in 1..(Len(c) + Len(t)) : (c \o t)[i] = IF i <= Len(c) THEN c[i] ELSE t[i - Len(c)]
    <3> HIDE PipeAssumption
    <3> QED  BY <1>2, ConcatProperties, Zenon
  <2> QED  BY <1>2, <2>1, <2>2, Zenon
<1>5. ASSUME NEW i \in 1..(Size + k) PROVE Contents'[i] = (Contents \o t)[i]
  <2>1. Contents'[i] = data'[SlotOf(nread + i - 1)]
    BY <1>1, Zenon DEF Contents, SlotOf
  <2>2. CASE i <= Size
    <3>1. i \in 1..Size
      BY <1>1, <2>2
    <3>2. Contents[i] = data[SlotOf(nread + i - 1)]
      BY <3>1, Zenon DEF Contents, SlotOf
    <3>3. data'[SlotOf(nread + i - 1)] = data[SlotOf(nread + i - 1)]
      BY <3>1, StoreAt, Zenon
    <3>4. (Contents \o t)[i] = Contents[i]
      BY <1>4, <2>2, Zenon
    <3> QED  BY <2>1, <3>2, <3>3, <3>4, Zenon
  <2>3. CASE i > Size
    <3>1. PICK j \in 1..k : i = Size + j
      BY <1>1, <2>3
    <3>2. data'[SlotOf(nread + Size + j - 1)] = s[j]
      BY StoreAt
    <3>3. nread + Size + j - 1 = nread + i - 1 /\ i - Size = j
      BY <1>1, <3>1
    <3> QED  BY <1>1, <1>2, <1>4, <2>1, <2>3, <3>2, <3>3
  <2>4. i <= Size \/ i > Size
    BY <1>1
  <2> QED  BY <2>2, <2>3, <2>4, Zenon
<1>6. Contents' = Contents \o t
  BY <1>1, <1>3, <1>4, <1>5, SeqEqual, Zenon
<1> QED  BY <1>2, <1>6, Zenon

\* A read takes the first k bytes off the contents.
LEMMA ContentsShrunk ==
  ASSUME TypeOK, TypeOK', NEW k \in Nat, k <= Size, nread' = (nread + k) % UINT, UNCHANGED <<nwrite, data>>
  PROVE  Contents' = SubSeq(Contents, k + 1, Len(Contents))
<1>1. Size' = Size - k /\ Size \in 0..PIPESIZE /\ nread \in 0..(UINT - 1)
  BY Shrunk, SizeFacts, Zenon
<1>2. /\ Contents \in Seq(Byte) /\ Len(Contents) = Size
      /\ Contents' \in Seq(Byte) /\ Len(Contents') = Size'
  BY ContentsType, ContentsTypeNext, Zenon
<1>3. PICK t : /\ t = SubSeq(Contents, k + 1, Size) /\ t \in Seq(Byte) /\ Len(t) = Size - k
               /\ \A i \in 1..(Size - k) : t[i] = Contents[k + i]
  <2>1. \A i \in (k + 1)..Size : Contents[i] \in Byte
    BY <1>1, <1>2
  <2>2. k + 1 \in Int /\ Size \in Int
    BY <1>1
  <2>3. /\ SubSeq(Contents, k + 1, Size) \in Seq(Byte)
        /\ Len(SubSeq(Contents, k + 1, Size)) = IF k + 1 <= Size THEN Size - (k + 1) + 1 ELSE 0
        /\ \A i \in 1..(Size - (k + 1) + 1) : SubSeq(Contents, k + 1, Size)[i] = Contents[k + 1 + i - 1]
    BY <2>1, <2>2, SubSeqProperties
  <2>4. /\ Len(SubSeq(Contents, k + 1, Size)) = Size - k
        /\ \A i \in 1..(Size - k) : SubSeq(Contents, k + 1, Size)[i] = Contents[k + i]
    BY <1>1, <2>3
  <2> QED  BY <2>3, <2>4, Zenon
<1>4. ASSUME NEW i \in 1..(Size - k) PROVE Contents'[i] = t[i]
  <2>1. Contents'[i] = data[SlotOf(nread' + i - 1)]
    BY <1>1, Zenon DEF Contents, SlotOf
  <2>2. Contents[k + i] = data[SlotOf(nread + (k + i) - 1)]
    BY <1>1 DEF Contents, SlotOf
  <2>3. PICK n \in 0..(UINT - 1), j \in Nat : n = nread /\ j = i - 1 /\ k + j <= PIPESIZE
    BY <1>1
  <2>4. SlotOf(((n + k) % UINT) + j) = SlotOf(n + k + j)
    <3> HIDE PipeAssumption
    <3> QED  BY <2>3, SlotMoved, Zenon
  <2>5. nread' \in 0..(UINT - 1) /\ nread' = (n + k) % UINT
    BY <2>3, Zenon DEF TypeOK
  <2>6. nread' + i - 1 = nread' + j /\ nread + (k + i) - 1 = n + k + j
    <3>1. nread' \in Int
      BY <2>5
    <3>2. \A r \in Int : r + i - 1 = r + j
      BY <2>3
    <3>3. nread + (k + i) - 1 = n + k + j
      BY <2>3
    <3> QED  BY <3>1, <3>2, <3>3, Zenon
  <2>7. SlotOf(nread' + i - 1) = SlotOf(nread + (k + i) - 1)
    BY <2>4, <2>5, <2>6, Zenon
  <2> QED  BY <1>3, <2>1, <2>2, <2>7, Zenon
<1>5. Contents' = t
  <2>1. Len(Contents') = Len(t) /\ Len(t) = Size - k
    BY <1>1, <1>2, <1>3, Zenon
  <2> QED  BY <1>2, <1>3, <1>4, <2>1, SeqEqual, Zenon
<1> QED  BY <1>2, <1>3, <1>5, Zenon

\* pipewrite appends, also when it fails or sleeps half way.
LEMMA WriteRunMaps ==
  ASSUME IInv, IInv', NEW p \in Proc, WriteRun(p) PROVE F!Put \/ UNCHANGED F!fvars
<1> DEFINE k == Least(Room, Len(buf[p]))
<1>1. /\ p \in Writer /\ pc[p] = "run" /\ Store(buf[p], k) /\ nread' = nread /\ UNCHANGED <<got, writeopen>>
  BY Zenon DEF WriteRun
<1>2. buf[p] \in Bufs /\ writeopen /\ TypeOK /\ TypeOK'
  BY <1>1, Zenon DEF IInv, TypeOK, InsideInv, EndsInv
<1>3. k \in Nat /\ k <= Room /\ k <= Len(buf[p]) /\ Size + k <= PIPESIZE /\ Size \in Nat
  <2>1. Len(buf[p]) \in Nat
    BY <1>2, BufIsSeq
  <2>2. Size \in 0..PIPESIZE
    BY <1>2, SizeFacts, Zenon
  <2> QED  BY <2>1, <2>2 DEF Least, Room
<1> HIDE DEF k
<1>4. PICK t : /\ t = SubSeq(buf[p], 1, k) /\ t \in Seq(Byte) /\ Len(t) = k
  BY <1>2, <1>3, BufParts, Zenon
<1>5. Contents' = Contents \o t
  BY <1>1, <1>2, <1>3, <1>4, ContentsGrown, Zenon
<1>6. Contents \in Seq(Byte) /\ Len(Contents) = Size
  BY <1>2, ContentsType, Zenon
<1>7. CASE k = 0
  <2>1. t = <<>>
    BY <1>4, <1>7, EmptySeq, Zenon
  <2>2. Contents' = Contents
    BY <1>5, <1>6, <2>1, ConcatEmptySeq, Zenon
  <2> QED  BY <1>1, <2>2, Zenon DEF F!fvars
<1>8. CASE k > 0
  <2>1. t \in [1..k -> Byte] /\ k \in 1..PIPESIZE
    <3>1. t \in [1..k -> Byte]
      BY <1>4, LenProperties, Zenon
    <3> QED  BY <1>3, <1>8, <3>1
  <2> QED  BY <1>1, <1>2, <1>3, <1>5, <1>6, <2>1, Zenon DEF F!Put
<1> QED  BY <1>3, <1>7, <1>8

\* piperead takes the oldest bytes, and returns none only at the end of the file.
LEMMA ReadRunMaps ==
  ASSUME IInv, IInv', NEW p \in Proc, ReadRun(p) PROVE (F!Take(p) /\ p \in Reader) \/ UNCHANGED F!fvars
<1> DEFINE k == Least(buf[p], Size)
<1>1. p \in Reader /\ UNCHANGED <<data, nwrite, writeopen>>
  BY Zenon DEF ReadRun
<1>2. buf[p] \in 0..MAXN /\ TypeOK /\ TypeOK'
  BY <1>1, Zenon DEF IInv, TypeOK
<1>3. CASE nread' = nread /\ got' = got
  BY <1>1, <1>3, Zenon DEF F!fvars, Contents, Size
<1>4. CASE /\ ~Empty /\ got' = [got EXCEPT ![p] = SubSeq(Contents, 1, k)]
           /\ nread' = (nread + k) % UINT
  <2>1. k \in Nat /\ k <= Size /\ Size \in Nat /\ (Size = 0 <=> nread = nwrite)
    BY <1>2, SizeFacts DEF Least
  <2>2. Len(Contents) = Size /\ k = F!Least(buf[p], Len(Contents))
    BY <1>2, ContentsType, Zenon DEF F!Least, Least
  <2>3. Contents' = SubSeq(Contents, k + 1, Len(Contents))
    BY <1>1, <1>2, <1>4, <2>1, ContentsShrunk, Zenon
  <2>4. Contents = <<>> => ~writeopen
    BY <1>4, <2>1, <2>2, EmptySeq, Zenon DEF Empty
  <2> HIDE DEF k
  <2> QED  BY <1>1, <1>2, <1>4, <2>2, <2>3, <2>4, Zenon DEF F!Take
<1> QED  BY <1>3, <1>4, Zenon DEF ReadRun

\* The pipe is the bounded queue: nothing is lost, duplicated, reordered or made up, for
\* every size of buffer and counter and every number of readers and writers.
THEOREM PipeIsFifo == Spec => IsFifo
<1>1. Init => F!Init
  <2> SUFFICES ASSUME Init PROVE F!Init
    BY Zenon
  <2>1. Size = 0
    BY Difference DEF Init, Size
  <2>2. Contents = <<>>
    BY <2>1 DEF Contents
  <2> QED  BY <2>2, Zenon DEF Init, F!Init
<1>2. IInv /\ IInv' /\ [Next]_vars => [F!Next]_(F!fvars)
  <2> SUFFICES ASSUME IInv, IInv', [Next]_vars PROVE F!Next \/ UNCHANGED F!fvars
    BY Zenon
  <2>1. ASSUME NEW p \in Proc, CallWrite(p) \/ CallRead(p) \/ Sleep(p) \/ Kill(p) PROVE UNCHANGED F!fvars
    BY <2>1 DEF CallWrite, CallRead, Sleep, Kill, pipe, F!fvars, Contents, Size
  <2>2. ASSUME NEW p \in Proc, Close(p) PROVE F!Close \/ UNCHANGED F!fvars
    <3>1. Contents' = Contents /\ got' = got
      BY <2>2, Zenon DEF Close, Contents, Size
    <3>2. writeopen' = writeopen \/ ~writeopen'
      BY <2>2, Zenon DEF Close, Pipeclose, IInv, TypeOK
    <3> QED  BY <3>1, <3>2, Zenon DEF F!Close, F!fvars
  <2>3. CASE UNCHANGED vars
    BY <2>3, Zenon DEF vars, pipe, F!fvars, Contents, Size
  <2> QED  BY <2>1, <2>2, <2>3, WriteRunMaps, ReadRunMaps, Zenon DEF Next, Run, F!Next
<1> QED  BY <1>1, <1>2, PipeInvariant, PTL DEF Spec, IsFifo, F!Spec

=============================================================================
