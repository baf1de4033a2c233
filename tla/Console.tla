------------------------------ MODULE Console -------------------------------
(***************************************************************************)
(* The console of a domain in a manager process: a thread that polls       *)
(* getchar and prints whole lines, started by an application or by         *)
(* runConsoleUntilInterrupted, which SIGINT ends.  It composes with the    *)
(* payload that writes and with the start of payloads of StdoutRing.       *)
(***************************************************************************)
EXTENDS StdoutRing

CONSTANTS
    Newline,    \* '\n'
    MaxLine     \* MAX_LINE_LENGTH, 160 in the code

ASSUME LineAssumption == Newline \in Nat /\ MaxLine \in Nat \ {0}

(* Payloads print text: printf("%s") ends a line at its first NUL.         *)
ASSUME TextAssumption == \A d \in Writes : \A i \in 1..Len(d) : d[i] # 0

VARIABLES
    flag,          \* console_interrupted of this domain
    thread,        \* console_threads: not joinable, running, or ended
    tpc, accum,    \* runConsole and its stdout_accum
    cpc,           \* the call of runConsoleUntilInterrupted
    handler,       \* the handler of SIGINT is installed
    unseen,        \* history: characters read and not printed; there was a
    asked, spent   \*   SIGINT since the call; the call found a thread that
                   \*   had been told to stop

console == <<tpc, accum, unseen>>
caller == <<flag, cpc, handler, asked, spent>>
allVars == <<vars, thread, console, caller>>

ConsoleInit ==
    /\ Init
    /\ flag = FALSE /\ thread = "none" /\ tpc = "none" /\ accum = <<>>
    /\ cpc = "idle" /\ handler = FALSE
    /\ unseen = 0 /\ asked = FALSE /\ spent = FALSE

-----------------------------------------------------------------------------
(* runConsole.                                                             *)

(* Mutants: what is left of a line is not printed at the end; the flag is  *)
(* looked at only when there is nothing to read.                           *)
LoopTest_NoFlush ==
    /\ tpc = "test"
    /\ IF flag THEN thread' = "ended" /\ tpc' = "none" /\ accum' = <<>>
       ELSE tpc' = "getchar" /\ UNCHANGED <<thread, accum>>
    /\ UNCHANGED <<vars, unseen, caller>>
LoopTest_Greedy ==
    /\ tpc = "test"
    /\ IF flag /\ last = -1
       THEN thread' = "ended" /\ tpc' = "none" /\ accum' = <<>> /\ unseen' = unseen - Len(accum)
       ELSE tpc' = "getchar" /\ UNCHANGED <<thread, accum, unseen>>
    /\ UNCHANGED <<vars, caller>>

(* The loop ends with the flag, and the thread with what is left printed.  *)
LoopTest ==
    /\ tpc = "test"
    /\ IF flag
       THEN thread' = "ended" /\ tpc' = "none" /\ accum' = <<>> /\ unseen' = unseen - Len(accum)
       ELSE tpc' = "getchar" /\ UNCHANGED <<thread, accum, unseen>>
    /\ UNCHANGED <<vars, caller>>

(* The character, if there was one, joins the line, which a newline or its *)
(* length prints.  Otherwise the thread sleeps for a millisecond.          *)
Consume(c) ==
    LET line == Append(accum, c) IN
    \/ c = -1 /\ UNCHANGED <<accum, unseen>>
    \/ /\ c # -1 /\ (c = Newline \/ Len(line) >= MaxLine)
       /\ accum' = <<>> /\ unseen' = unseen + 1 - Len(line)
    \/ /\ c \notin {-1, Newline} /\ Len(line) < MaxLine
       /\ accum' = line /\ unseen' = unseen + 1

(* A step of getchar; what it returns is private to the thread.            *)
CallGetchar ==
    /\ tpc = "getchar" /\ GetcharStep
    /\ IF gpc' = "idle" THEN tpc' = "test" /\ Consume(last') ELSE UNCHANGED console
    /\ UNCHANGED <<thread, caller>>

ConsoleStep == LoopTest \/ CallGetchar

-----------------------------------------------------------------------------
(* The main thread of the process.                                         *)

(* A thread is created if there is none that could be joined.              *)
startConsoleThread ==
    IF thread = "none" THEN thread' = "running" /\ tpc' = "test" ELSE UNCHANGED <<thread, tpc>>

(* An application with a console per domain.                               *)
ApplicationStart ==
    /\ cpc = "idle" /\ fpc = "idle" /\ startConsoleThread
    /\ UNCHANGED <<vars, accum, unseen, caller>>

(* Mutant: the flag of the previous console is left.                       *)
runConsoleUntilInterrupted_KeepsFlag ==
    /\ cpc = "idle" /\ fpc = "idle" /\ cpc' = "start"
    /\ handler' = TRUE /\ asked' = FALSE /\ spent' = (flag /\ thread # "none")
    /\ UNCHANGED <<vars, thread, console, flag>>

(* Up to the start of the thread: flag and handler.                        *)
runConsoleUntilInterrupted ==
    /\ cpc = "idle" /\ fpc = "idle" /\ cpc' = "start"
    /\ flag' = FALSE /\ handler' = TRUE
    /\ asked' = FALSE /\ spent' = (flag /\ thread # "none")
    /\ UNCHANGED <<vars, thread, console>>

StartThread ==
    /\ cpc = "start" /\ cpc' = "join" /\ startConsoleThread
    /\ UNCHANGED <<vars, accum, unseen, flag, handler, asked, spent>>

Join ==
    /\ cpc = "join" /\ thread = "ended" /\ thread' = "none" /\ cpc' = "idle"
    /\ asked' = FALSE /\ spent' = FALSE
    /\ UNCHANGED <<vars, console, flag, handler>>

(* The handler; before it is installed the signal ends the process.        *)
SIGINT ==
    /\ handler /\ flag' = TRUE /\ asked' = (cpc # "idle")
    /\ UNCHANGED <<vars, thread, console, cpc, handler, spent>>

(* startPayloadAt, by the main thread, with a console running or not.      *)
StartPayload ==
    /\ cpc = "idle" /\ (FlushRead \/ FlushWrite)
    /\ UNCHANGED <<thread, console, caller>>

(* The payload.                                                            *)
Payload == /\ WriteStep \/ \E d \in Writes : WriteCall(d)
           /\ UNCHANGED <<thread, console, caller>>

ConsoleNext == \/ Payload \/ ConsoleStep \/ StartPayload
               \/ ApplicationStart \/ runConsoleUntilInterrupted \/ StartThread \/ Join
               \/ SIGINT

(* The monitor runs the system call to its end, threads are scheduled, and *)
(* a flush once begun is finished.                                         *)
ConsoleFairness ==
    /\ WF_allVars(Payload /\ wpc # "idle") /\ WF_allVars(ConsoleStep)
    /\ WF_allVars(StartThread) /\ WF_allVars(Join)
    /\ WF_allVars(StartPayload /\ fpc # "idle")
ConsoleSpec == ConsoleInit /\ [][ConsoleNext]_allVars /\ ConsoleFairness

-----------------------------------------------------------------------------
(* What was read from the ring is printed, or in the line of the thread    *)
(* that runs; a console that ends, whenever it is told to, takes nothing   *)
(* with it, and the line is shorter than MAX_LINE_LENGTH.                  *)
NothingSwallowed ==
    /\ unseen = Len(accum)
    /\ thread # "running" => unseen = 0
    /\ Len(accum) < MaxLine

(* Once payloads stop writing and none is started, a console that is not   *)
(* told to stop empties the ring for good, in whatever state a flush that  *)
(* overlapped its getchar has left it.                                     *)
ConsoleDrains ==
    <>[](wpc = "idle" /\ fpc = "idle" /\ thread = "running" /\ ~flag) => <>[](rdpos = wrpos)

(* SIGINT ends runConsoleUntilInterrupted, however much the payload writes *)
(* and whenever the signal comes.                                          *)
ConsoleStops == cpc = "join" /\ asked ~> cpc = "idle"

(* Nothing else does, unless the call finds a thread that an earlier       *)
(* SIGINT had told to stop: startConsoleThread does not replace it.        *)
ReturnsOnlyInterrupted == [][cpc = "join" /\ cpc' = "idle" => asked \/ spent]_allVars
=============================================================================
