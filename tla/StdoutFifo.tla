----------------------------- MODULE StdoutFifo -----------------------------
(***************************************************************************)
(* What the payload's standard output promises: a bounded queue of bytes.  *)
(* A write is accepted byte by byte, in order, and its rest is dropped     *)
(* when the queue is full; a read takes the oldest byte; starting another  *)
(* payload discards what is queued.                                        *)
(***************************************************************************)
EXTENDS Integers, Sequences

CONSTANTS Size,    \* bytes of the ring buffer; one always stays free
          Writes   \* the byte strings payloads write

VARIABLES todo,    \* what is left of the write in progress
          q,       \* accepted and not yet read
          last     \* the result of the last read, -1 if nothing was queued

fifoVars == <<todo, q, last>>

FifoInit == todo = <<>> /\ q = <<>> /\ last = -1

Write(d) == todo = <<>> /\ todo' = d /\ UNCHANGED <<q, last>>

Accept == /\ todo # <<>> /\ Len(q) < Size - 1
          /\ q' = Append(q, Head(todo)) /\ todo' = Tail(todo)
          /\ UNCHANGED last

Drop == /\ todo # <<>> /\ Len(q) = Size - 1
        /\ todo' = <<>>
        /\ UNCHANGED <<q, last>>

Read == /\ q # <<>>
        /\ last' = Head(q) /\ q' = Tail(q)
        /\ UNCHANGED todo

ReadNothing == q = <<>> /\ last' = -1 /\ UNCHANGED <<todo, q>>

Discard == /\ \E k \in 1..Len(q) : q' = SubSeq(q, k + 1, Len(q))
           /\ UNCHANGED <<todo, last>>

FifoNext == \/ \E d \in Writes : Write(d)
            \/ Accept \/ Drop \/ Read \/ ReadNothing \/ Discard

FifoSpec == FifoInit /\ [][FifoNext]_fifoVars
=============================================================================
