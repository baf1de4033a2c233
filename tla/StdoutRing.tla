----------------------------- MODULE StdoutRing -----------------------------
(***************************************************************************)
(* The standard output of a payload: a ring buffer in the IPC block.  The  *)
(* monitor fills it on behalf of the payload (SMC_WRITE_STDOUT), the       *)
(* manager's console empties it with getchar, and startPayloadAt flushes   *)
(* it.  Each access to a word of the other side is a step of its own; the  *)
(* stores of one side become visible in the order they are made.           *)
(*                                                                         *)
(* What writeToStdout returns, the size it was called with however much of *)
(* it found room, is left out.                                             *)
(***************************************************************************)
EXTENDS Integers, Sequences

CONSTANTS
    Size,           \* sizeof(stdout_buf), 1024 in the code
    Writes          \* the byte strings payloads write

ASSUME SizeAssumption == Size \in Nat /\ Size > 1
ASSUME WritesAssumption == Writes \subseteq Seq(Nat) \ {<<>>}

VARIABLES
    buf, wrpos, rdpos,        \* in the IPC block
    wpc, todo,                \* writeToStdout
    gpc, ch, pos, last,       \* getchar
    fpc, fpos,                \* the flush in startPayloadAt
    overlap, torn, fresh      \* history: see below

ring == <<buf, wrpos, rdpos>>
writer == <<wpc, todo>>
reader == <<gpc, ch, pos, last>>
flusher == <<fpc, fpos>>
hist == <<overlap, torn, fresh>>
vars == <<ring, writer, reader, flusher, hist>>

(* The flush and getchar both write rdpos, and nothing keeps the thread of *)
(* a console out of getchar while another one starts a payload.  overlap:  *)
(* a getchar and the flush in progress do.  torn: a flush has written      *)
(* rdpos so, and none since that was alone.  fresh: how many bytes were    *)
(* published and not read since the flush looked at wrpos.                 *)

(* (p + 1) % Size, for the p < Size that InRange guarantees.               *)
Advance(p) == IF p + 1 = Size THEN 0 ELSE p + 1

(* Both sides reset a position of their own that they find out of range.   *)
InRange(p) == IF p < Size THEN p ELSE 0

Init ==
    /\ buf = [i \in 0..Size-1 |-> 0] /\ wrpos = 0 /\ rdpos = 0
    /\ wpc = "idle" /\ todo = <<>>
    /\ gpc = "idle" /\ ch = 0 /\ pos = 0 /\ last = -1
    /\ fpc = "idle" /\ fpos = 0
    /\ overlap = FALSE /\ torn = FALSE /\ fresh = 0

-----------------------------------------------------------------------------
(* writeToStdout, with interrupts masked: a payload is not killed inside.  *)

WriteCall(d) ==
    /\ wpc = "idle" /\ wpc' = "test"
    /\ todo' = d /\ wrpos' = InRange(wrpos)
    /\ UNCHANGED <<buf, rdpos, reader, flusher, hist>>

(* Mutant: the ring is allowed to fill up to its last byte.                *)
WriteTest_OffByOne ==
    /\ wpc = "test"
    /\ IF todo = <<>> THEN wpc' = "idle" /\ UNCHANGED todo
       ELSE wpc' = "store" /\ UNCHANGED todo
    /\ UNCHANGED <<ring, reader, flusher, hist>>

(* The loop test and the test for a full buffer, upon which the rest is    *)
(* dropped.                                                                *)
WriteTest ==
    /\ wpc = "test"
    /\ IF todo = <<>> THEN wpc' = "idle" /\ UNCHANGED todo
       ELSE IF Advance(wrpos) = rdpos
            THEN wpc' = "idle" /\ todo' = <<>>
            ELSE wpc' = "store" /\ UNCHANGED todo
    /\ UNCHANGED <<ring, reader, flusher, hist>>

WriteStore ==
    /\ wpc = "store" /\ wpc' = "publish"
    /\ buf' = [buf EXCEPT ![wrpos] = Head(todo)]
    /\ UNCHANGED <<wrpos, rdpos, todo, reader, flusher, hist>>

WritePublish ==
    /\ wpc = "publish" /\ wpc' = "test"
    /\ wrpos' = Advance(wrpos)
    /\ todo' = Tail(todo)
    /\ fresh' = IF torn THEN fresh ELSE fresh + 1
    /\ UNCHANGED <<buf, rdpos, reader, flusher, overlap, torn>>

-----------------------------------------------------------------------------
(* getchar.                                                                *)

(* Mutant: the positions are compared as if the ring never wrapped.        *)
GetcharTest_NoWrap ==
    /\ gpc = "idle"
    /\ rdpos' = InRange(rdpos)
    /\ IF rdpos' < wrpos THEN gpc' = "byte" /\ UNCHANGED last
       ELSE gpc' = "idle" /\ last' = -1
    /\ overlap' = (overlap \/ (gpc' = "byte" /\ fpc = "set"))
    /\ UNCHANGED <<buf, wrpos, writer, ch, pos, flusher, torn, fresh>>

GetcharTest ==
    /\ gpc = "idle"
    /\ rdpos' = InRange(rdpos)
    /\ IF rdpos' # wrpos THEN gpc' = "byte" /\ UNCHANGED last
       ELSE gpc' = "idle" /\ last' = -1
    /\ overlap' = (overlap \/ (gpc' = "byte" /\ fpc = "set"))
    /\ UNCHANGED <<buf, wrpos, writer, ch, pos, flusher, torn, fresh>>

GetcharByte ==
    /\ gpc = "byte" /\ gpc' = "fetch"
    /\ ch' = buf[rdpos]
    /\ UNCHANGED <<ring, writer, pos, last, flusher, hist>>

(* The increment of rdpos: a volatile read, then a volatile write.         *)
GetcharFetch ==
    /\ gpc = "fetch" /\ gpc' = "advance"
    /\ pos' = rdpos
    /\ UNCHANGED <<ring, writer, ch, last, flusher, hist>>

(* Mutant: the increment is not reduced modulo the size.                   *)
GetcharAdvance_NoModulo ==
    /\ gpc = "advance" /\ gpc' = "idle"
    /\ rdpos' = pos + 1 /\ last' = ch /\ ch' = 0 /\ pos' = 0
    /\ UNCHANGED <<buf, wrpos, writer, flusher, hist>>

GetcharAdvance ==
    /\ gpc = "advance" /\ gpc' = "idle"
    /\ rdpos' = Advance(pos) /\ last' = ch /\ ch' = 0 /\ pos' = 0
    /\ fresh' = IF torn THEN fresh ELSE fresh - 1
    /\ UNCHANGED <<buf, wrpos, writer, flusher, overlap, torn>>

-----------------------------------------------------------------------------
(* startPayloadAt: rdpos := wrpos, whatever a getchar is doing.            *)
FlushRead ==
    /\ fpc = "idle" /\ fpc' = "set"
    /\ fpos' = wrpos /\ overlap' = (gpc # "idle") /\ fresh' = 0
    /\ UNCHANGED <<ring, writer, reader, torn>>

(* A flush that is alone, no byte being written either, mends the ring.    *)
FlushHistory ==
    /\ torn' = (overlap \/ (torn /\ ~(wpc = "idle" /\ wrpos = fpos)))
    /\ fresh' = (IF torn' THEN 0 ELSE fresh) /\ overlap' = FALSE

(* Mutant: the buffer is flushed to its beginning.                         *)
FlushWrite_ToZero ==
    /\ fpc = "set" /\ fpc' = "idle"
    /\ rdpos' = 0 /\ fpos' = 0 /\ FlushHistory
    /\ UNCHANGED <<buf, wrpos, writer, reader>>

FlushWrite ==
    /\ fpc = "set" /\ fpc' = "idle"
    /\ rdpos' = fpos /\ fpos' = 0 /\ FlushHistory
    /\ UNCHANGED <<buf, wrpos, writer, reader>>

-----------------------------------------------------------------------------
WriteStep == WriteTest \/ WriteStore \/ WritePublish
GetcharStep == GetcharTest \/ GetcharByte \/ GetcharFetch \/ GetcharAdvance

Next == \/ \E d \in Writes : WriteCall(d)
        \/ WriteStep \/ GetcharStep
        \/ FlushRead \/ FlushWrite

Spec == Init /\ [][Next]_vars

-----------------------------------------------------------------------------
TypeOK ==
    /\ buf \in [0..Size-1 -> Nat]
    /\ wrpos \in 0..Size-1 /\ rdpos \in 0..Size-1
    /\ wpc \in {"idle", "test", "store", "publish"} /\ todo \in Seq(Nat)
    /\ gpc \in {"idle", "byte", "fetch", "advance"}
    /\ ch \in Nat /\ pos \in 0..Size-1 /\ last \in Nat \cup {-1}
    /\ fpc \in {"idle", "set"} /\ fpos \in 0..Size-1
    /\ overlap \in BOOLEAN /\ torn \in BOOLEAN /\ fresh \in Int

(* The bytes between the two positions.                                    *)
Level == IF wrpos >= rdpos THEN wrpos - rdpos ELSE wrpos + Size - rdpos
Pending == [i \in 1..Level |->
               buf[IF rdpos + i - 1 < Size THEN rdpos + i - 1 ELSE rdpos + i - 1 - Size]]

Fifo == INSTANCE StdoutFifo WITH q <- Pending

(* writeToStdout, getchar and the flush implement the bounded queue: every *)
(* byte read is the oldest one accepted, exactly once, and only the bytes  *)
(* that find the ring full are dropped; up to a flush that overlaps a      *)
(* getchar, and again after one that does not.                             *)
ImplementsFifo ==
    Fifo!FifoInit /\ [][torn \/ torn' \/ Fifo!FifoNext]_(Fifo!fifoVars)

(* What can be read is what the payload has written since the flush that   *)
(* preceded its start, every byte of it and none of the previous payload,  *)
(* unless a getchar overlapped that flush.                                 *)
OwnOutputOnly == ~torn /\ fpc = "idle" => Level = fresh
=============================================================================
