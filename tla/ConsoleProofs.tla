--------------------------- MODULE ConsoleProofs ----------------------------
(* Proofs about Console, for every size of the buffer, every line length   *)
(* and all writes.                                                         *)
EXTENDS Console, StdoutRingProofs

(* Every step of the composition is a step of the ring, or leaves it.      *)
LEMMA ConsoleStepIsRingStep == [ConsoleNext]_allVars => [Next]_vars
<1> SUFFICES ASSUME [ConsoleNext]_allVars PROVE Next \/ UNCHANGED vars
  OBVIOUS
<1>1. CASE Payload
  BY <1>1 DEF Payload, Next
<1>2. CASE ConsoleStep
  BY <1>2 DEF ConsoleStep, LoopTest, CallGetchar, Consume, Next
<1>3. CASE StartPayload
  BY <1>3 DEF StartPayload, Next
<1>4. CASE ApplicationStart \/ runConsoleUntilInterrupted \/ StartThread \/ Join \/ SIGINT
  BY <1>4 DEF ApplicationStart, runConsoleUntilInterrupted, StartThread, Join, SIGINT
<1>5. CASE UNCHANGED allVars
  BY <1>5 DEF allVars
<1> QED BY <1>1, <1>2, <1>3, <1>4, <1>5 DEF ConsoleNext

(* The composition behaves as the ring alone does: what is proved of       *)
(* StdoutRing holds with a console that is started, interrupted and        *)
(* started again.                                                          *)
THEOREM ConsoleImplementsRing == ConsoleSpec => Spec
<1>1. ConsoleInit => Init
  BY DEF ConsoleInit
<1> QED BY <1>1, ConsoleStepIsRingStep, PTL DEF ConsoleSpec, Spec

(* The bytes a console reads are the oldest ones accepted, once each, and  *)
(* only bytes that find the ring full are lost.                            *)
THEOREM ConsoleReadsFifo == ConsoleSpec => ImplementsFifo
  BY ConsoleImplementsRing, RingImplementsFifo, PTL

-----------------------------------------------------------------------------
(* The inductive invariant of the thread: what is read and not printed is   *)
(* in the line; a thread that does not run has none, and is in no getchar.  *)
ThreadInv ==
    /\ thread \in {"none", "running", "ended"} /\ tpc \in {"none", "test", "getchar"}
    /\ accum \in Seq(Nat) /\ Len(accum) < MaxLine
    /\ thread = "running" <=> tpc # "none"
    /\ tpc = "none" => accum = <<>>
    /\ tpc # "getchar" => gpc = "idle"
    /\ unseen = Len(accum)

(* No thread has been created yet.                                         *)
LEMMA ThreadInit == ConsoleInit => ThreadInv
<1>1. <<>> \in Seq(Nat) /\ Len(<<>>) = 0
  OBVIOUS
<1> QED BY <1>1, LineAssumption DEF ConsoleInit, Init, ThreadInv

(* Every step keeps what is unseen in the line.                            *)
LEMMA ThreadStep == RingInv /\ ThreadInv /\ [ConsoleNext]_allVars => ThreadInv'
<1> SUFFICES ASSUME RingInv, ThreadInv, [ConsoleNext]_allVars PROVE ThreadInv'
  OBVIOUS
<1> USE DEF ThreadInv, console, caller, vars, reader
<1>t. last \in Nat \cup {-1} /\ ch \in Nat /\ Len(accum) \in Nat /\ Len(<<>>) = 0 /\ <<>> \in Seq(Nat)
  BY DEF RingInv, TypeOK
<1>1. CASE Payload
  <2>1. UNCHANGED reader
    BY <1>1 DEF Payload, WriteStep, WriteCall, WriteTest, WriteStore, WritePublish
  <2> QED BY <1>1, <2>1 DEF Payload
<1>2. CASE LoopTest
  <2>1. CASE flag
    <3>1. thread' = "ended" /\ tpc' = "none" /\ accum' = <<>> /\ unseen' = 0
      BY <1>2, <1>t, <2>1 DEF LoopTest
    <3>2. gpc' = "idle"
      BY <1>2 DEF LoopTest
    <3> QED BY <1>t, <3>1, <3>2, LineAssumption
  <2>2. CASE ~flag
    BY <1>2, <1>t, <2>2 DEF LoopTest
  <2> QED BY <2>1, <2>2
<1>3. CASE CallGetchar
  <2>1. tpc = "getchar" /\ UNCHANGED thread
    BY <1>3 DEF CallGetchar
  <2>2. CASE gpc' # "idle"
    BY <1>3, <2>1, <2>2 DEF CallGetchar
  <2>3. CASE gpc' = "idle"
    <3>1. tpc' = "test" /\ Consume(last')
      BY <1>3, <2>3 DEF CallGetchar
    <3>2. last' \in Nat \cup {-1}
      BY <1>t, <1>3 DEF CallGetchar, GetcharStep, GetcharTest, GetcharByte, GetcharFetch,
                        GetcharAdvance
    <3> DEFINE line == Append(accum, last')
    <3>3. CASE last' = -1
      BY <2>1, <2>3, <3>1, <3>3, LineAssumption DEF Consume
    <3>4. CASE last' # -1
      <4>1. line \in Seq(Nat) /\ Len(line) = Len(accum) + 1
        BY <1>t, <3>2, <3>4
      <4>2. \/ accum' = <<>> /\ unseen' = unseen + 1 - Len(line)
            \/ accum' = line /\ unseen' = unseen + 1 /\ Len(line) < MaxLine
        BY <3>1, <3>4 DEF Consume
      <4> HIDE DEF line
      <4>3. CASE accum' = <<>> /\ unseen' = unseen + 1 - Len(line)
        BY <1>t, <2>1, <2>3, <3>1, <4>1, <4>3, LineAssumption
      <4>4. CASE accum' = line /\ unseen' = unseen + 1 /\ Len(line) < MaxLine
        BY <1>t, <2>1, <2>3, <3>1, <4>1, <4>4, LineAssumption
      <4> QED BY <4>2, <4>3, <4>4
    <3> QED BY <3>3, <3>4
  <2> QED BY <2>2, <2>3
<1>4. CASE StartPayload
  BY <1>4 DEF StartPayload, FlushRead, FlushWrite
<1>5. CASE ApplicationStart \/ StartThread
  BY <1>5, <1>t DEF ApplicationStart, StartThread, startConsoleThread
<1>6. CASE runConsoleUntilInterrupted \/ SIGINT
  BY <1>6 DEF runConsoleUntilInterrupted, SIGINT
<1>7. CASE Join
  BY <1>7 DEF Join
<1>8. CASE UNCHANGED allVars
  BY <1>8 DEF allVars
<1> QED BY <1>1, <1>2, <1>3, <1>4, <1>5, <1>6, <1>7, <1>8 DEF ConsoleNext, ConsoleStep

(* What a thread has read is in its line, at every moment.                 *)
LEMMA ThreadInvariant == ConsoleSpec => []ThreadInv
  BY ThreadInit, ThreadStep, ConsoleImplementsRing, RingInvariant, PTL DEF ConsoleSpec

(* A console that ends, whenever SIGINT tells it to, has printed every     *)
(* character it read.                                                      *)
THEOREM ConsolePrintsAll == ConsoleSpec => []NothingSwallowed
<1>1. ThreadInv => NothingSwallowed
  <2> SUFFICES ASSUME ThreadInv PROVE NothingSwallowed
    OBVIOUS
  <2>1. Len(accum) \in Nat /\ Len(<<>>) = 0
    BY DEF ThreadInv
  <2> QED BY <2>1 DEF ThreadInv, NothingSwallowed
<1> QED BY <1>1, ThreadInvariant, PTL

-----------------------------------------------------------------------------
(* The flag is cleared by the call, so that within it only SIGINT can have  *)
(* set it; a thread that has ended saw the flag, and the flag stays until   *)
(* the next call, which then finds it.                                      *)
CallerInv ==
    /\ {flag, asked, spent} \subseteq BOOLEAN
    /\ cpc \in {"idle", "start", "join"}
    /\ cpc # "idle" /\ flag => asked
    /\ thread = "ended" => IF cpc = "idle" THEN flag ELSE asked \/ spent

(* Every step keeps the reason for which a thread has ended.               *)
LEMMA CallerStep == ThreadInv /\ CallerInv /\ [ConsoleNext]_allVars => CallerInv'
<1> SUFFICES ASSUME ThreadInv, CallerInv, [ConsoleNext]_allVars PROVE CallerInv'
  OBVIOUS
<1> USE DEF CallerInv, console, caller
<1>1. CASE Payload
  BY <1>1 DEF Payload
<1>2. CASE ConsoleStep
  BY <1>2 DEF ConsoleStep, LoopTest, CallGetchar, Consume
<1>3. CASE StartPayload
  BY <1>3 DEF StartPayload
<1>4. CASE ApplicationStart \/ StartThread
  BY <1>4 DEF ApplicationStart, StartThread, startConsoleThread
<1>5. CASE runConsoleUntilInterrupted
  BY <1>5 DEF runConsoleUntilInterrupted
<1>6. CASE Join
  BY <1>6 DEF Join
<1>7. CASE SIGINT
  BY <1>7 DEF SIGINT
<1>8. CASE UNCHANGED allVars
  BY <1>8 DEF allVars
<1> QED BY <1>1, <1>2, <1>3, <1>4, <1>5, <1>6, <1>7, <1>8 DEF ConsoleNext

(* runConsoleUntilInterrupted returns only after a SIGINT, or because it   *)
(* found a thread that an earlier SIGINT had told to stop.                 *)
THEOREM ConsoleRunsUntilInterrupted == ConsoleSpec => ReturnsOnlyInterrupted
<1>1. ConsoleInit => CallerInv
  BY DEF ConsoleInit, CallerInv
<1>2. CallerInv /\ [ConsoleNext]_allVars =>
          [cpc = "join" /\ cpc' = "idle" => asked \/ spent]_allVars
  <2> SUFFICES ASSUME CallerInv, ConsoleNext, cpc = "join", cpc' = "idle"
               PROVE  asked \/ spent
    OBVIOUS
  <2>1. Join
    BY DEF ConsoleNext, Payload, ConsoleStep, LoopTest, CallGetchar, Consume, StartPayload,
           ApplicationStart, runConsoleUntilInterrupted, StartThread, SIGINT, caller
  <2> QED BY <2>1 DEF Join, CallerInv
<1> QED BY <1>1, <1>2, CallerStep, ThreadInvariant, PTL DEF ConsoleSpec, ReturnsOnlyInterrupted
=============================================================================
