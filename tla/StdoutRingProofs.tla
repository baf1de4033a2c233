-------------------------- MODULE StdoutRingProofs --------------------------
(* Proofs about StdoutRing, for every size of the buffer and all writes.   *)
EXTENDS StdoutRing, SequenceTheorems, TLAPS

(* The ring as functions of its three words: how many bytes it holds, and  *)
(* which.                                                                  *)
Index == 0..Size-1
Dist(w, r) == IF w >= r THEN w - r ELSE w + Size - r
Slot(r, i) == IF r + i - 1 < Size THEN r + i - 1 ELSE r + i - 1 - Size
Queue(b, w, r) == [i \in 1..Dist(w, r) |-> b[Slot(r, i)]]

(* The definitions of StdoutRing in these terms.                           *)
LEMMA PendingIsQueue == Pending = Queue(buf, wrpos, rdpos)
  BY DEF Pending, Level, Queue, Dist, Slot

(* Positions stay in the buffer, and a step of one never stays in place.   *)
LEMMA AdvanceType ==
    ASSUME NEW p \in Index
    PROVE  Advance(p) \in Index /\ Advance(p) # p
  BY SizeAssumption DEF Index, Advance

(* Different positions stay different.                                     *)
LEMMA AdvanceInjective ==
    ASSUME NEW p \in Index, NEW r \in Index, Advance(p) = Advance(r)
    PROVE  p = r
  BY SizeAssumption DEF Index, Advance

(* A distance is 0 for an empty ring, and Size - 1 for a full one.         *)
LEMMA DistType ==
    ASSUME NEW w \in Index, NEW r \in Index
    PROVE  /\ Dist(w, r) \in Index
           /\ Dist(w, r) = 0 <=> w = r
           /\ Dist(w, r) = Size - 1 <=> Advance(w) = r
  BY SizeAssumption DEF Index, Dist, Advance

(* One position further is one byte more, or one less.                     *)
LEMMA DistAdvance ==
    ASSUME NEW w \in Index, NEW r \in Index
    PROVE  /\ Advance(w) # r => Dist(Advance(w), r) = Dist(w, r) + 1
           /\ w # r => Dist(w, Advance(r)) = Dist(w, r) - 1
  BY SizeAssumption DEF Index, Dist, Advance

(* The bytes between two positions are a sequence.                         *)
LEMMA QueueType ==
    ASSUME NEW b \in [Index -> Nat], NEW w \in Index, NEW r \in Index
    PROVE  /\ Queue(b, w, r) \in Seq(Nat)
           /\ Len(Queue(b, w, r)) = Dist(w, r)
           /\ \A i \in 1..Dist(w, r) : Slot(r, i) \in Index /\ Slot(r, i) # w
           /\ \A i \in 1..Dist(w, r) : Queue(b, w, r)[i] = b[Slot(r, i)]
<1>1. Dist(w, r) \in Nat
  BY SizeAssumption DEF Index, Dist
<1>2. \A i \in 1..Dist(w, r) : Slot(r, i) \in Index /\ Slot(r, i) # w
  BY SizeAssumption DEF Index, Dist, Slot
<1>3. \A i \in 1..Dist(w, r) : b[Slot(r, i)] \in Nat
  BY <1>2
<1> QED BY <1>1, <1>2, <1>3 DEF Queue

(* A byte stored at the write position and published is appended.          *)
LEMMA QueueAppend ==
    ASSUME NEW b \in [Index -> Nat], NEW w \in Index, NEW r \in Index, Advance(w) # r
    PROVE  Queue(b, Advance(w), r) = Append(Queue(b, w, r), b[w])
<1> DEFINE q == Queue(b, w, r)
           qq == Queue(b, Advance(w), r)
           n == Dist(w, r)
<1>1. Advance(w) \in Index
  BY AdvanceType
<1>2. q \in Seq(Nat) /\ Len(q) = n /\ \A i \in 1..n : q[i] = b[Slot(r, i)]
  BY QueueType
<1>3. /\ qq \in Seq(Nat) /\ Len(qq) = Dist(Advance(w), r)
      /\ \A i \in 1..Dist(Advance(w), r) : qq[i] = b[Slot(r, i)]
  BY <1>1, QueueType
<1>4. n \in Nat /\ Dist(Advance(w), r) = n + 1
  BY DistType, DistAdvance DEF Index
<1>5. Slot(r, n + 1) = w
  BY SizeAssumption DEF Index, Dist, Slot
<1>6. b[w] \in Nat
  OBVIOUS
<1> HIDE DEF q, qq, n
<1>7. Append(q, b[w]) \in Seq(Nat) /\ Len(Append(q, b[w])) = n + 1
  BY <1>2, <1>6
<1>8. \A i \in 1..n+1 : Append(q, b[w])[i] = qq[i]
  <2>1. \A i \in 1..n+1 : qq[i] = b[Slot(r, i)]
    BY <1>3, <1>4
  <2>2. Append(q, b[w])[n + 1] = b[w]
    BY <1>2, <1>4, <1>6
  <2>3. \A i \in 1..n : Append(q, b[w])[i] = q[i]
    BY <1>2, <1>4, <1>6
  <2>4. \A i \in 1..n+1 : i = n + 1 \/ i \in 1..n
    BY <1>4
  <2> QED BY <1>2, <1>5, <2>1, <2>2, <2>3, <2>4, Zenon
<1>9. qq = Append(q, b[w])
  BY <1>3, <1>4, <1>7, <1>8, SeqEqual
<1> QED BY <1>9 DEF q, qq

(* A step of the read position takes the first byte.                       *)
LEMMA QueueTail ==
    ASSUME NEW b \in [Index -> Nat], NEW w \in Index, NEW r \in Index, w # r
    PROVE  /\ Queue(b, w, r) # <<>>
           /\ Head(Queue(b, w, r)) = b[r]
           /\ Queue(b, w, Advance(r)) = Tail(Queue(b, w, r))
<1> DEFINE q == Queue(b, w, r)
           qq == Queue(b, w, Advance(r))
           n == Dist(w, r)
           t == Tail(q)
<1>1. Advance(r) \in Index
  BY AdvanceType
<1>2. q \in Seq(Nat) /\ Len(q) = n /\ \A i \in 1..n : q[i] = b[Slot(r, i)]
  BY QueueType
<1>3. /\ qq \in Seq(Nat) /\ Len(qq) = Dist(w, Advance(r))
      /\ \A i \in 1..Dist(w, Advance(r)) : qq[i] = b[Slot(Advance(r), i)]
  BY <1>1, QueueType
<1>4. n \in Nat \ {0} /\ Dist(w, Advance(r)) = n - 1
  BY DistType, DistAdvance DEF Index
<1>5. Slot(r, 1) = r /\ \A i \in 1..n-1 : Slot(Advance(r), i) = Slot(r, i + 1)
  BY <1>4, SizeAssumption DEF Index, Slot, Advance, Dist
<1> HIDE DEF q, qq, n
<1>6. q # <<>> /\ Head(q) = b[r]
  BY <1>2, <1>4, <1>5
<1>7. t \in Seq(Nat) /\ Len(t) = n - 1 /\ \A i \in 1..n-1 : t[i] = q[i + 1]
  BY <1>2, <1>4, <1>6, HeadTailProperties
<1> HIDE DEF t
<1>8. ASSUME NEW i \in 1..n-1 PROVE t[i] = qq[i]
  <2>1. t[i] = q[i + 1] /\ i + 1 \in 1..n
    BY <1>4, <1>7
  <2> QED BY <1>2, <1>3, <1>4, <1>5, <2>1
<1>9. qq = t
  BY <1>3, <1>4, <1>7, <1>8, SeqEqual
<1> QED BY <1>6, <1>9 DEF q, qq, t

(* A store at the write position is not seen before it is published.       *)
LEMMA QueueStore ==
    ASSUME NEW b \in [Index -> Nat], NEW w \in Index, NEW r \in Index, NEW x
    PROVE  Queue([b EXCEPT ![w] = x], w, r) = Queue(b, w, r)
<1>1. \A i \in 1..Dist(w, r) : Slot(r, i) \in Index /\ Slot(r, i) # w
  BY QueueType
<1> QED BY <1>1 DEF Queue

(* Moving the read position to f drops the bytes before f.                 *)
LEMMA QueueSuffix ==
    ASSUME NEW b \in [Index -> Nat], NEW w \in Index, NEW r \in Index, NEW f \in Index,
           Dist(f, r) <= Dist(w, r)
    PROVE  /\ Dist(w, f) = Dist(w, r) - Dist(f, r)
           /\ Queue(b, w, f) = SubSeq(Queue(b, w, r), Dist(f, r) + 1, Dist(w, r))
<1> DEFINE q == Queue(b, w, r)
           qq == Queue(b, w, f)
           n == Dist(w, r)
           k == Dist(f, r)
           s == SubSeq(q, k + 1, n)
<1>1. q \in Seq(Nat) /\ Len(q) = n /\ \A i \in 1..n : q[i] = b[Slot(r, i)]
  BY QueueType
<1>2. qq \in Seq(Nat) /\ Len(qq) = Dist(w, f) /\ \A i \in 1..Dist(w, f) : qq[i] = b[Slot(f, i)]
  BY QueueType
<1>3. n \in Nat /\ k \in Nat /\ k <= n
  BY DistType DEF Index
<1>4. Dist(w, f) = n - k
  BY SizeAssumption DEF Index, Dist
<1>5. \A i \in 1..n-k : Slot(f, i) = Slot(r, k + i)
  BY SizeAssumption DEF Index, Dist, Slot
<1> HIDE DEF q, qq, n, k
<1>6. \A i \in k+1..n : q[i] \in Nat
  BY <1>1, <1>3
<1>7. s \in Seq(Nat) /\ Len(s) = n - k /\ \A i \in 1..n-k : s[i] = q[k + i]
  <2>1. /\ s \in Seq(Nat)
        /\ Len(s) = IF k + 1 <= n THEN n - (k + 1) + 1 ELSE 0
        /\ \A i \in 1..n-(k+1)+1 : s[i] = q[(k + 1) + i - 1]
    BY <1>3, <1>6, SubSeqProperties
  <2> QED BY <2>1, <1>3
<1> HIDE DEF s
<1>8. ASSUME NEW i \in 1..n-k PROVE s[i] = qq[i]
  <2>1. s[i] = q[k + i] /\ k + i \in 1..n
    BY <1>3, <1>7
  <2> QED BY <1>1, <1>2, <1>4, <1>5, <2>1
<1>9. qq = s
  BY <1>2, <1>4, <1>7, <1>8, SeqEqual
<1> QED BY <1>4, <1>9 DEF q, qq, n, k, s

-----------------------------------------------------------------------------
(* The inductive invariant.  The writer past its test has a byte to store.  *)
WriterInv ==
    /\ wpc = "idle" => todo = <<>>
    /\ wpc \in {"store", "publish"} => todo # <<>>
    /\ wpc = "publish" => buf[wrpos] = Head(todo)

(* A flush that has looked at wrpos overlaps every getchar that is past its *)
(* test; and nothing is counted while the ring is torn.                     *)
OverlapInv == /\ fpc = "set" /\ ~overlap => gpc = "idle"
              /\ fpc = "idle" => ~overlap
              /\ torn => fresh = 0

(* In a ring that is not torn, the writer past its test has room for the    *)
(* byte; the reader past its test has one, and nobody else moves the read   *)
(* position; the position a flush on its own has read lies between the      *)
(* other two; and the bytes written since are counted.                      *)
PositionInv ==
    /\ wpc \in {"store", "publish"} => Advance(wrpos) # rdpos
    /\ gpc # "idle" => rdpos # wrpos
    /\ gpc \in {"fetch", "advance"} => ch = buf[rdpos]
    /\ gpc = "advance" => pos = rdpos
    /\ fpc = "set" /\ ~overlap => /\ Dist(fpos, rdpos) <= Dist(wrpos, rdpos)
                                  /\ fresh = Dist(wrpos, fpos)
    /\ fpc = "idle" => fresh = Dist(wrpos, rdpos)

RingInv == TypeOK /\ WriterInv /\ OverlapInv /\ (~torn => PositionInv)

(* The first byte and the rest of what is being written.                   *)
LEMMA TodoType ==
    ASSUME NEW t \in Seq(Nat), t # <<>>
    PROVE  Head(t) \in Nat /\ Tail(t) \in Seq(Nat)
  BY HeadTailProperties

(* The ring is empty at first and nobody uses it.                          *)
LEMMA RingInit == Init => RingInv
<1> SUFFICES ASSUME Init PROVE RingInv
  OBVIOUS
<1>1. <<>> \in Seq(Nat)
  OBVIOUS
<1>2. {overlap, torn} \subseteq BOOLEAN
  BY Zenon DEF Init
<1>3. TypeOK
  BY <1>1, <1>2, SizeAssumption DEF Init, TypeOK
<1> QED BY <1>3 DEF Init, RingInv, WriterInv, OverlapInv, PositionInv, Dist

(* Every step keeps the types, the writer's and the flush's own part.      *)
LEMMA WriterStep == RingInv /\ [Next]_vars => TypeOK' /\ WriterInv' /\ OverlapInv'
<1> SUFFICES ASSUME RingInv, [Next]_vars PROVE TypeOK' /\ WriterInv' /\ OverlapInv'
  OBVIOUS
<1> DEFINE Goal == TypeOK' /\ WriterInv' /\ OverlapInv'
<1> USE DEF RingInv, TypeOK, WriterInv, OverlapInv, Index, ring, writer, reader, flusher, hist
<1>1. ASSUME NEW d \in Writes, WriteCall(d) PROVE Goal
  <2>1. d \in Seq(Nat)
    BY WritesAssumption
  <2>2. wrpos' = wrpos
    BY <1>1, SizeAssumption DEF WriteCall, InRange
  <2> QED BY <1>1, <2>1, <2>2 DEF WriteCall
<1>2. CASE WriteTest
  <2>1. CASE todo = <<>>
    BY <1>2, <2>1 DEF WriteTest
  <2>2. CASE todo # <<>> /\ Advance(wrpos) = rdpos
    <3>1. todo' = <<>> /\ todo' \in Seq(Nat)
      BY <1>2, <2>2 DEF WriteTest
    <3> QED BY <1>2, <2>2, <3>1 DEF WriteTest
  <2>3. CASE todo # <<>> /\ Advance(wrpos) # rdpos
    BY <1>2, <2>3 DEF WriteTest
  <2> QED BY <2>1, <2>2, <2>3
<1>3. CASE WriteStore
  <2>1. Head(todo) \in Nat
    BY <1>3, TodoType DEF WriteStore
  <2>2. buf' \in [0..Size-1 -> Nat] /\ buf'[wrpos] = Head(todo)
    BY <1>3, <2>1 DEF WriteStore
  <2> QED BY <1>3, <2>2 DEF WriteStore
<1>4. CASE WritePublish
  <2>1. Tail(todo) \in Seq(Nat) /\ Advance(wrpos) \in Index
    BY <1>4, TodoType, AdvanceType DEF WritePublish
  <2> QED BY <1>4, <2>1 DEF WritePublish
<1>5. CASE GetcharTest
  <2>1. rdpos' = rdpos
    BY <1>5, SizeAssumption DEF GetcharTest, InRange
  <2>2. overlap' \in BOOLEAN /\ (~overlap' => ~overlap /\ (gpc' = "byte" => fpc # "set"))
    BY <1>5, Zenon DEF GetcharTest
  <2>3. fpc = "idle" => ~overlap'
    BY <1>5 DEF GetcharTest
  <2> QED BY <1>5, <2>1, <2>2, <2>3 DEF GetcharTest
<1>6. CASE GetcharByte
  BY <1>6 DEF GetcharByte
<1>7. CASE GetcharFetch
  BY <1>7 DEF GetcharFetch
<1>8. CASE GetcharAdvance
  <2>1. Advance(pos) \in Index
    BY AdvanceType
  <2> QED BY <1>8, <2>1, SizeAssumption DEF GetcharAdvance
<1>9. CASE FlushRead
  <2>1. overlap' \in BOOLEAN /\ (~overlap' => gpc = "idle")
    BY <1>9, Zenon DEF FlushRead
  <2> QED BY <1>9, <2>1 DEF FlushRead
<1>10. CASE FlushWrite
  <2>1. {torn', overlap'} \subseteq BOOLEAN
    BY <1>10, Zenon DEF FlushWrite, FlushHistory
  <2>2. fresh' \in Int /\ ~overlap' /\ (torn' => fresh' = 0)
    BY <1>10 DEF FlushWrite, FlushHistory
  <2> QED BY <1>10, <2>1, <2>2, SizeAssumption DEF FlushWrite
<1>11. CASE UNCHANGED vars
  BY <1>11 DEF vars
<1> QED BY <1>1, <1>2, <1>3, <1>4, <1>5, <1>6, <1>7, <1>8, <1>9, <1>10, <1>11
        DEF Next, WriteStep, GetcharStep

(* Every step that does not tear the ring keeps the positions in order.  A *)
(* flush of its own puts a torn ring in order again.                       *)
LEMMA PositionStep ==
    ASSUME RingInv, TypeOK', [Next]_vars, ~torn'
    PROVE  PositionInv'
<1>t. /\ wrpos \in Index /\ rdpos \in Index /\ fpos \in Index /\ buf \in [Index -> Nat]
      /\ Dist(wrpos, rdpos) \in Index /\ Dist(fpos, rdpos) \in Index
      /\ Dist(wrpos, fpos) \in Index /\ Index \subseteq Nat
  <2>1. wrpos \in Index /\ rdpos \in Index /\ fpos \in Index /\ buf \in [Index -> Nat]
    BY DEF RingInv, TypeOK, Index
  <2>2. Index \subseteq Nat
    BY SizeAssumption DEF Index
  <2> QED BY <2>1, <2>2, DistType
<1>w. WriterInv /\ OverlapInv /\ fpc \in {"idle", "set"} /\ fresh \in Int
  BY DEF RingInv, TypeOK
<1>p. ~torn => PositionInv
  BY DEF RingInv
<1> USE DEF ring, writer, reader, flusher, hist
<1>1. CASE FlushWrite
  <2>1. ~overlap /\ (~torn \/ (wpc = "idle" /\ wrpos = fpos))
    BY <1>1, Zenon DEF FlushWrite, FlushHistory
  <2>2. gpc = "idle"
    BY <1>1, <1>w, <2>1 DEF FlushWrite, OverlapInv
  <2>3. /\ fpc' = "idle" /\ rdpos' = fpos /\ UNCHANGED <<buf, wrpos, wpc, gpc, ch, pos>>
        /\ ~overlap' /\ fresh' = fresh
    BY <1>1 DEF FlushWrite, FlushHistory
  <2>4. CASE ~torn
    <3>1. Dist(fpos, rdpos) <= Dist(wrpos, rdpos) /\ fresh = Dist(wrpos, fpos)
      BY <1>1, <1>p, <2>1, <2>4 DEF FlushWrite, PositionInv
    <3>2. Dist(wrpos, fpos) = Dist(wrpos, rdpos) - Dist(fpos, rdpos)
      BY <1>t, <3>1, QueueSuffix
    <3>3. wpc \in {"store", "publish"} => Advance(wrpos) # fpos
      <4>1. /\ Advance(wrpos) = fpos => Dist(wrpos, fpos) = Size - 1
            /\ Advance(wrpos) # rdpos => Dist(wrpos, rdpos) # Size - 1
        BY <1>t, DistType
      <4>2. wpc \in {"store", "publish"} => Advance(wrpos) # rdpos
        BY <1>p, <2>4 DEF PositionInv
      <4> QED BY <1>t, <3>2, <4>1, <4>2, SizeAssumption DEF Index
    <3> QED BY <2>2, <2>3, <3>1, <3>3 DEF PositionInv, Dist
  <2>5. CASE torn
    <3>1. wpc = "idle" /\ wrpos = fpos /\ fresh = 0
      BY <1>w, <2>1, <2>5 DEF OverlapInv
    <3>2. Dist(wrpos, fpos) = 0
      BY <1>t, <3>1, DistType
    <3> QED BY <2>2, <2>3, <3>1, <3>2 DEF PositionInv, Dist
  <2> QED BY <2>4, <2>5
<1>n. ~FlushWrite => torn' = torn
  BY DEF Next, vars, WriteStep, GetcharStep, WriteCall, WriteTest, WriteStore, WritePublish,
         GetcharTest, GetcharByte, GetcharFetch, GetcharAdvance, FlushRead
<1>2. CASE ~FlushWrite
  <2>p. PositionInv
    BY <1>2, <1>n, <1>p
  <2>u. ASSUME UNCHANGED <<buf, wrpos, rdpos, gpc, ch, pos, fpc, fpos, overlap, fresh>>,
               wpc' \in {"store", "publish"} =>
                   wpc \in {"store", "publish"} \/ Advance(wrpos) # rdpos
        PROVE  PositionInv'
    BY <2>p, <2>u DEF PositionInv, Dist
  <2>1. ASSUME NEW d \in Writes, WriteCall(d) PROVE PositionInv'
    <3>1. wrpos' = wrpos
      BY <2>1, <1>t, SizeAssumption DEF WriteCall, InRange, Index
    <3> QED BY <2>1, <2>u, <3>1 DEF WriteCall
  <2>2. CASE WriteTest
    BY <2>2, <2>u DEF WriteTest
  <2>3. CASE WriteStore
    <3>1. rdpos # wrpos => buf'[rdpos] = buf[rdpos]
      BY <2>3, <1>t DEF WriteStore, RingInv, TypeOK, Index
    <3> QED BY <2>3, <2>p, <3>1 DEF WriteStore, PositionInv, Dist
  <2>4. CASE WritePublish
    <3>1. Advance(wrpos) # rdpos /\ Advance(wrpos) \in Index
      BY <2>4, <2>p, <1>t, AdvanceType DEF WritePublish, PositionInv
    <3>2. Dist(Advance(wrpos), rdpos) = Dist(wrpos, rdpos) + 1
      BY <1>t, <3>1, DistAdvance
    <3>3. /\ wpc' = "test" /\ wrpos' = Advance(wrpos) /\ fresh' = fresh + 1
          /\ UNCHANGED <<buf, rdpos, gpc, ch, pos, fpc, fpos, overlap>>
      BY <2>4, <1>2, <1>n DEF WritePublish
    <3>4. CASE fpc = "set" /\ ~overlap
      <4>1. Dist(fpos, rdpos) <= Dist(wrpos, rdpos) /\ fresh = Dist(wrpos, fpos) /\ gpc = "idle"
        BY <2>p, <1>w, <3>4 DEF PositionInv, OverlapInv
      <4>2. Dist(wrpos, fpos) = Dist(wrpos, rdpos) - Dist(fpos, rdpos)
        BY <1>t, <4>1, QueueSuffix
      <4>3. Dist(wrpos, rdpos) # Size - 1
        BY <1>t, <3>1, DistType
      <4>4. Advance(wrpos) # fpos
        <5>1. Advance(wrpos) = fpos => Dist(wrpos, fpos) = Size - 1
          BY <1>t, DistType
        <5> QED BY <1>t, <4>2, <4>3, <5>1, SizeAssumption DEF Index
      <4>5. Dist(Advance(wrpos), fpos) = Dist(wrpos, fpos) + 1
        BY <1>t, <4>4, DistAdvance
      <4>6. /\ Dist(fpos', rdpos') = Dist(fpos, rdpos)
            /\ Dist(wrpos', rdpos') = Dist(wrpos, rdpos) + 1
            /\ Dist(wrpos', fpos') = Dist(wrpos, fpos) + 1
        BY <3>2, <3>3, <4>5
      <4>7. Dist(fpos', rdpos') <= Dist(wrpos', rdpos') /\ fresh' = Dist(wrpos', fpos')
        <5>1. Dist(fpos, rdpos) \in Nat /\ Dist(wrpos, rdpos) \in Nat
          BY <1>t
        <5>2. Dist(fpos, rdpos) <= Dist(wrpos, rdpos) + 1
          BY <4>1, <5>1
        <5> QED BY <3>3, <4>1, <4>6, <5>2
      <4> QED BY <3>3, <3>4, <4>1, <4>7 DEF PositionInv, Dist
    <3>5. CASE ~(fpc = "set" /\ ~overlap)
      <4>1. Dist(wrpos, rdpos)' = Dist(wrpos, rdpos) + 1
        BY <3>2, <3>3 DEF Dist
      <4> QED BY <2>p, <3>1, <3>3, <3>5, <4>1 DEF PositionInv
    <3> QED BY <3>4, <3>5
  <2>5. CASE GetcharTest
    <3>1. rdpos' = rdpos
      BY <2>5, <1>t, SizeAssumption DEF GetcharTest, InRange, Index
    <3>2. ~overlap' => ~overlap
      BY <2>5, Zenon DEF GetcharTest
    <3> QED BY <2>5, <2>p, <3>1, <3>2 DEF GetcharTest, PositionInv, Dist
  <2>6. CASE GetcharByte
    BY <2>6, <2>p DEF GetcharByte, PositionInv, Dist
  <2>7. CASE GetcharFetch
    BY <2>7, <2>p DEF GetcharFetch, PositionInv, Dist
  <2>8. CASE GetcharAdvance
    <3>1. pos = rdpos /\ rdpos # wrpos /\ (fpc = "set" => overlap)
      BY <2>8, <2>p, <1>w DEF GetcharAdvance, PositionInv, OverlapInv
    <3>2. Advance(rdpos) \in Index /\ Advance(wrpos) # Advance(rdpos)
      BY <1>t, <3>1, AdvanceType, AdvanceInjective
    <3>3. Dist(wrpos, Advance(rdpos)) = Dist(wrpos, rdpos) - 1
      BY <1>t, <3>1, DistAdvance
    <3>4. /\ gpc' = "idle" /\ rdpos' = Advance(rdpos) /\ fresh' = fresh - 1
          /\ UNCHANGED <<wrpos, wpc, fpc, overlap>>
      BY <2>8, <1>2, <1>n, <3>1 DEF GetcharAdvance
    <3>5. Dist(wrpos, rdpos)' = Dist(wrpos, rdpos) - 1
      BY <3>3, <3>4 DEF Dist
    <3> QED BY <2>p, <3>1, <3>2, <3>4, <3>5 DEF PositionInv
  <2>9. CASE FlushRead
    <3>1. /\ fpc' = "set" /\ fpos' = wrpos /\ fresh' = 0
          /\ UNCHANGED <<buf, wrpos, rdpos, wpc, gpc, ch, pos>>
      BY <2>9 DEF FlushRead
    <3>2. Dist(fpos', rdpos') <= Dist(wrpos', rdpos') /\ fresh' = Dist(wrpos', fpos')
      <4>1. Dist(wrpos, wrpos) = 0
        BY <1>t, DistType
      <4>2. Dist(wrpos, rdpos) \in Nat
        BY <1>t
      <4>3. Dist(wrpos, rdpos) <= Dist(wrpos, rdpos)
        BY <4>2
      <4> QED BY <3>1, <4>1, <4>3
    <3> QED BY <2>p, <3>1, <3>2 DEF PositionInv, Dist
  <2>10. CASE UNCHANGED vars
    BY <2>10, <2>u DEF vars
  <2> QED BY <1>2, <2>1, <2>2, <2>3, <2>4, <2>5, <2>6, <2>7, <2>8, <2>9, <2>10
          DEF Next, WriteStep, GetcharStep
<1> QED BY <1>1, <1>2

(* Every step keeps the invariant.                                         *)
LEMMA RingStep == RingInv /\ [Next]_vars => RingInv'
  BY WriterStep, PositionStep DEF RingInv

(* The inductive invariant holds throughout.                               *)
LEMMA RingInvariant == Spec => []RingInv
  BY RingInit, RingStep, PTL DEF Spec

(* Every variable keeps its type: neither position leaves the buffer,      *)
(* whichever side moves it, and only existing bytes are written.           *)
THEOREM RingTypeCorrect == Spec => []TypeOK
<1>1. RingInv => TypeOK
  BY DEF RingInv
<1> QED BY <1>1, RingInvariant, PTL

(* What can be read is exactly what was written since the last flush and   *)
(* not read yet, unless a getchar overlapped that flush: the flush drops   *)
(* all of the previous payload's output and no byte of the next one's.     *)
THEOREM FlushSeparatesPayloads == Spec => []OwnOutputOnly
<1>1. RingInv => OwnOutputOnly
  BY DEF RingInv, PositionInv, OwnOutputOnly, Level, Dist
<1> QED BY <1>1, RingInvariant, PTL

-----------------------------------------------------------------------------
(* A step between rings that are not torn is a step of the queue, or none.  *)
(* Only the publication of a byte, the advance of the reader, the flush and *)
(* the test that finds the ring full or empty can be seen.                  *)
LEMMA FifoStep ==
    RingInv /\ RingInv' /\ [Next]_vars
        => [torn \/ torn' \/ Fifo!FifoNext]_(Fifo!fifoVars)
<1> SUFFICES ASSUME RingInv, RingInv', [Next]_vars, ~torn, ~torn'
             PROVE  Fifo!FifoNext \/ UNCHANGED <<todo, Pending, last>>
  BY DEF Fifo!fifoVars
<1> DEFINE q == Queue(buf, wrpos, rdpos)
<1>q. Pending = q /\ Pending' = Queue(buf', wrpos', rdpos')
  BY PendingIsQueue DEF Pending, Level, Queue, Dist, Slot
<1>t. /\ buf \in [Index -> Nat] /\ wrpos \in Index /\ rdpos \in Index /\ fpos \in Index
      /\ todo \in Seq(Nat)
  BY DEF RingInv, TypeOK, Index
<1>l. q \in Seq(Nat) /\ Len(q) = Dist(wrpos, rdpos) /\ Dist(wrpos, rdpos) \in Index
  BY <1>t, QueueType, DistType
<1> HIDE DEF q
<1>p. WriterInv /\ PositionInv
  BY DEF RingInv
<1> USE DEF ring, writer, reader, flusher, hist
<1>1. ASSUME NEW d \in Writes, WriteCall(d) PROVE Fifo!FifoNext
  <2>1. wrpos' = wrpos
    BY <1>1, <1>t, SizeAssumption DEF WriteCall, InRange, Index
  <2>2. Pending' = Pending
    BY <1>1, <1>q, <2>1 DEF WriteCall, q
  <2>3. Fifo!Write(d)
    BY <1>1, <1>p, <2>2 DEF Fifo!Write, WriteCall, WriterInv
  <2> QED BY <2>3 DEF Fifo!FifoNext
<1>2. CASE WriteTest
  <2>1. Pending' = Pending /\ last' = last
    BY <1>2, <1>q DEF WriteTest, q
  <2>2. CASE todo # <<>> /\ Advance(wrpos) = rdpos
    <3>1. Len(Pending) = Size - 1
      BY <2>2, <1>t, <1>l, <1>q, DistType
    <3>2. todo' = <<>>
      BY <1>2, <2>2 DEF WriteTest
    <3>3. Fifo!Drop
      BY <2>1, <2>2, <3>1, <3>2 DEF Fifo!Drop
    <3> QED BY <3>3 DEF Fifo!FifoNext
  <2>3. CASE ~(todo # <<>> /\ Advance(wrpos) = rdpos)
    BY <1>2, <2>1, <2>3 DEF WriteTest
  <2> QED BY <2>2, <2>3
<1>3. CASE WriteStore
  <2>1. Queue([buf EXCEPT ![wrpos] = Head(todo)], wrpos, rdpos) = q
    BY <1>t, QueueStore DEF q
  <2> QED BY <1>3, <1>q, <2>1 DEF WriteStore
<1>4. CASE WritePublish
  <2>1. todo # <<>> /\ buf[wrpos] = Head(todo) /\ Advance(wrpos) # rdpos
    BY <1>4, <1>p DEF WritePublish, WriterInv, PositionInv
  <2>2. Pending' = Append(Pending, Head(todo))
    BY <1>4, <1>q, <1>t, <2>1, QueueAppend DEF WritePublish, q
  <2>3. Len(Pending) < Size - 1
    <3>1. Dist(wrpos, rdpos) # Size - 1
      BY <1>t, <2>1, DistType
    <3> QED BY <1>l, <1>q, <3>1, SizeAssumption DEF Index
  <2>4. todo' = Tail(todo) /\ last' = last
    BY <1>4 DEF WritePublish
  <2>5. Fifo!Accept
    BY <2>1, <2>2, <2>3, <2>4 DEF Fifo!Accept
  <2> QED BY <2>5 DEF Fifo!FifoNext
<1>5. CASE GetcharTest
  <2>1. rdpos' = rdpos
    BY <1>5, <1>t, SizeAssumption DEF GetcharTest, InRange, Index
  <2>2. Pending' = Pending /\ todo' = todo
    BY <1>5, <1>q, <2>1 DEF GetcharTest, q
  <2>3. CASE rdpos = wrpos
    <3>1. Pending = <<>>
      BY <1>t, <1>l, <1>q, <2>3, DistType
    <3>2. Fifo!ReadNothing
      BY <1>5, <2>1, <2>2, <2>3, <3>1 DEF GetcharTest, Fifo!ReadNothing
    <3> QED BY <3>2 DEF Fifo!FifoNext
  <2>4. CASE rdpos # wrpos
    BY <1>5, <2>1, <2>2, <2>4 DEF GetcharTest
  <2> QED BY <2>3, <2>4
<1>6. CASE GetcharByte \/ GetcharFetch
  BY <1>6, <1>q DEF GetcharByte, GetcharFetch, q
<1>7. CASE GetcharAdvance
  <2>1. pos = rdpos /\ ch = buf[rdpos] /\ wrpos # rdpos
    BY <1>7, <1>p DEF GetcharAdvance, PositionInv
  <2>2. Pending # <<>> /\ last' = Head(Pending) /\ Pending' = Tail(Pending)
    BY <1>7, <1>q, <1>t, <2>1, QueueTail DEF GetcharAdvance, q
  <2>3. Fifo!Read
    BY <1>7, <2>2 DEF GetcharAdvance, Fifo!Read
  <2> QED BY <2>3 DEF Fifo!FifoNext
<1>8. CASE FlushRead
  BY <1>8, <1>q DEF FlushRead, q
<1>9. CASE FlushWrite
  <2> DEFINE k == Dist(fpos, rdpos)
  <2>0. ~overlap
    BY <1>9, Zenon DEF FlushWrite, FlushHistory
  <2>1. k <= Dist(wrpos, rdpos) /\ k \in Nat
    BY <1>9, <1>t, <1>p, <2>0, DistType DEF FlushWrite, PositionInv, Index
  <2>2. Pending' = SubSeq(Pending, k + 1, Len(Pending))
    <3>1. Queue(buf, wrpos, fpos) = SubSeq(q, k + 1, Dist(wrpos, rdpos))
      BY <1>t, <2>1, QueueSuffix DEF q
    <3>2. Pending' = Queue(buf, wrpos, fpos)
      BY <1>9, <1>q DEF FlushWrite
    <3> QED BY <1>q, <1>l, <3>1, <3>2
  <2>3. todo' = todo /\ last' = last
    BY <1>9 DEF FlushWrite
  <2> HIDE DEF k
  <2>4. CASE k = 0
    BY <1>l, <1>q, <2>2, <2>3, <2>4, SubSeqFull
  <2>5. CASE k # 0
    <3>1. k \in 1..Len(Pending)
      BY <1>l, <1>q, <2>1, <2>5 DEF Index
    <3>2. Fifo!Discard
      BY <2>2, <2>3, <3>1 DEF Fifo!Discard
    <3> QED BY <3>2 DEF Fifo!FifoNext
  <2> QED BY <2>4, <2>5
<1>10. CASE UNCHANGED vars
  BY <1>10, <1>q DEF vars, q
<1> QED BY <1>1, <1>2, <1>3, <1>4, <1>5, <1>6, <1>7, <1>8, <1>9, <1>10
        DEF Next, WriteStep, GetcharStep

(* writeToStdout, getchar and the flush, word by word and without a lock,  *)
(* implement the bounded queue, for every size of the buffer, while no     *)
(* flush overlaps a getchar, and again after the next flush that does not. *)
THEOREM RingImplementsFifo == Spec => ImplementsFifo
<1>1. Init => Fifo!FifoInit
  <2> SUFFICES ASSUME Init PROVE Fifo!FifoInit
    OBVIOUS
  <2>1. Level = 0
    BY DEF Init, Level
  <2>2. Pending = <<>>
    <3>1. Pending \in Seq(Nat) /\ Len(Pending) = 0
      <4>1. buf \in [Index -> Nat] /\ wrpos \in Index /\ rdpos \in Index
        BY SizeAssumption DEF Init, Index
      <4> QED BY <2>1, <4>1, QueueType, PendingIsQueue DEF Level, Dist
    <3> QED BY <3>1
  <2> QED BY <2>2 DEF Init, Fifo!FifoInit
<1> QED BY <1>1, FifoStep, RingInvariant, PTL DEF Spec, ImplementsFifo
=============================================================================
