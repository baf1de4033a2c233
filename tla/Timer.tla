------------------------------- MODULE Timer --------------------------------
(***************************************************************************)
(* Time in a payload: the periodic interrupt of the payload runtime, and   *)
(* sleep and usleep.  The main program is interrupted by the timer between *)
(* any two accesses to its registers; the timer's handler is not, having   *)
(* the highest priority of the payload.                                    *)
(*                                                                         *)
(* Time is counted in halves of a tick of the counter, so that a program   *)
(* may read the counter early or late in a tick.                           *)
(***************************************************************************)
EXTENDS Naturals

CONSTANTS
    Freq,      \* CNTFRQ_EL0, ticks per second
    Million,   \* microseconds per second (10^6 in the code)
    Word,      \* uint64_t wraps at this value (2^64)
    Periods,   \* periods in microseconds that payloads set up
    Sleeps,    \* arguments of usleep
    MaxTime    \* bound on the time, in half ticks

ASSUME UnitAssumption == {Freq, Million, Word} \subseteq Nat \ {0}
ASSUME PeriodAssumption == \A us \in Periods : us \in Nat /\ us * Freq >= Million
ASSUME SleepAssumption == Sleeps \subseteq Nat
ASSUME TimeAssumption == MaxTime \in Nat

VARIABLES
    time,        \* half ticks since the payload began
    ctl, cval,   \* CNTP_CTL (enabled), CNTP_CVAL
    gic,         \* the interrupt is enabled in the distributor
    conf,        \* user_interrupt_handlers has an entry for the timer
    period,      \* timer_period_ticks
    whole,       \* timer_irq_handler is not being assigned
    irq,         \* how far the interrupt handler is; "dead": it crashed
    pc,          \* how far a call of the main program is
    sleep,       \* the usleep in progress: argument, start and end
    t0, calls,   \* history: when the timer was started and how often it
    grid,        \*   called the handler since; it was left alone since then;
    started,     \*   it is started for the payload; a handler was replaced
    careless     \*   while it was

regs == <<ctl, cval>>
api == <<gic, conf, period, whole>>
hist == <<t0, calls, grid, started, careless>>
vars == <<time, regs, api, irq, pc, sleep, hist>>

Awake == [us |-> 0, from |-> 0, end |-> 0]

Init ==
    /\ time \in {0, 1} /\ ctl = FALSE /\ cval = 0
    /\ gic = FALSE /\ conf = FALSE /\ period = 0 /\ whole = TRUE
    /\ irq = "none" /\ pc = "main" /\ sleep = Awake
    /\ t0 = 0 /\ calls = 0 /\ grid = FALSE /\ started = FALSE /\ careless = FALSE

(* CNTPCT_EL0.                                                             *)
Count == time \div 2

Pass == /\ time < MaxTime /\ time' = time + 1
        /\ UNCHANGED <<regs, api, irq, pc, sleep, hist>>

(* Main program code executes: it is not interrupted at this point.        *)
Main == irq = "none"

-----------------------------------------------------------------------------
(* The interface to the periodic interrupt, called by the main program.    *)

(* setupPeriodicInterrupt replaces period and handler first ...            *)
SetupAssign(us) ==
    /\ Main /\ pc = "main" /\ pc' = "setup"
    /\ period' = ((us * Freq) % Word) \div Million
    /\ whole' = FALSE /\ careless' = started /\ grid' = FALSE
    /\ UNCHANGED <<time, regs, gic, conf, irq, sleep, t0, calls, started>>

(* ... and stops the timer second, before the interrupt is set up.         *)
SetupStop ==
    /\ Main /\ pc = "setup" /\ pc' = "main" /\ conf' = TRUE
    /\ whole' = TRUE /\ ctl' = FALSE /\ started' = FALSE /\ grid' = FALSE
    /\ UNCHANGED <<time, cval, gic, period, irq, sleep, t0, calls, careless>>

(* startPeriodicInterrupt, set up or not: the interrupt is enabled, ...    *)
StartEnable ==
    /\ Main /\ pc = "main" /\ pc' = "start"
    /\ gic' = TRUE /\ started' = TRUE
    /\ UNCHANGED <<time, regs, conf, period, whole, irq, sleep, t0, calls, grid, careless>>

(* ... CNTP_TVAL is written, which sets CNTP_CVAL, and the timer started.  *)
(* If it was running and its handler stops it in between, the timer runs   *)
(* with its interrupt disabled.                                            *)
Arm == /\ cval' = Count + period /\ ctl' = TRUE
       /\ t0' = Count /\ calls' = 0

StartArm ==
    /\ Main /\ pc = "start" /\ pc' = "main" /\ Arm /\ grid' = gic
    /\ UNCHANGED <<time, api, irq, sleep, started, careless>>

(* Mutant: the timer is not stopped, nor its interrupt disabled.           *)
stopPeriodicInterrupt_Forgets ==
    /\ Main /\ pc = "main" /\ started' = FALSE /\ grid' = FALSE
    /\ UNCHANGED <<time, regs, api, irq, pc, sleep, t0, calls, careless>>

stopPeriodicInterrupt ==
    /\ Main /\ pc = "main"
    /\ ctl' = FALSE /\ gic' = FALSE /\ started' = FALSE /\ grid' = FALSE
    /\ UNCHANGED <<time, cval, conf, period, whole, irq, pc, sleep, t0, calls, careless>>

-----------------------------------------------------------------------------
(* The interrupt.                                                          *)

Expired == ctl /\ Count >= cval

(* The vectors call handleTimerIrq, which calls the payload's handler.     *)
TimerIrq ==
    /\ irq = "none" /\ gic /\ Expired /\ conf
    /\ irq' = "user" /\ calls' = calls + 1
    /\ UNCHANGED <<time, regs, api, pc, sleep, t0, grid, started, careless>>

(* An interrupt that was never set up finds no handler: a crash is         *)
(* reported and the payload loops.                                         *)
UnhandledIrq ==
    /\ irq = "none" /\ gic /\ Expired /\ ~conf
    /\ irq' = "dead" /\ grid' = FALSE
    /\ UNCHANGED <<time, regs, api, pc, sleep, t0, calls, started, careless>>

(* The handler may itself stop the timer, or start it again.               *)
HandlerStop ==
    /\ irq = "user" /\ ctl
    /\ ctl' = FALSE /\ gic' = FALSE /\ started' = FALSE /\ grid' = FALSE
    /\ UNCHANGED <<time, cval, conf, period, whole, irq, pc, sleep, t0, calls, careless>>

HandlerStart ==
    /\ irq = "user" /\ Arm /\ gic' = TRUE /\ started' = TRUE /\ grid' = FALSE
    /\ UNCHANGED <<time, conf, period, whole, irq, pc, sleep, careless>>

(* Mutants: the next deadline is a period from now; none is set.           *)
handleTimerIrq_FromNow ==
    /\ irq = "user" /\ irq' = "none"
    /\ cval' = Count + period
    /\ UNCHANGED <<time, ctl, api, pc, sleep, hist>>
handleTimerIrq_Once ==
    /\ irq = "user" /\ irq' = "none" /\ ctl' = FALSE
    /\ UNCHANGED <<time, cval, api, pc, sleep, hist>>

(* The rest of handleTimerIrq, after the payload's handler: the deadline   *)
(* moves on by one period.                                                 *)
handleTimerIrq ==
    /\ irq = "user" /\ irq' = "none"
    /\ cval' = cval + period
    /\ UNCHANGED <<time, ctl, api, pc, sleep, hist>>

-----------------------------------------------------------------------------
(* sleep.cpp.                                                              *)

(* Mutant: the division rounds down.                                       *)
divideRoundingUp_Down(dividend, divisor) == dividend \div divisor

divideRoundingUp(dividend, divisor) == ((dividend + divisor - 1) % Word) \div divisor

(* usleep reads the counter and computes when to stop; sleep(s) is         *)
(* usleep(s * 1000000).                                                    *)
usleep(us) ==
    /\ Main /\ pc = "main" /\ pc' = "sleep"
    /\ sleep' = [us |-> us, from |-> time,
                 end |-> Count + divideRoundingUp((us * Freq) % Word, Million)]
    /\ 2 * sleep'.end <= MaxTime
    /\ UNCHANGED <<time, regs, api, irq, hist>>

(* The loop sees the end; the call returns.                                *)
Wake ==
    /\ Main /\ pc = "sleep" /\ Count >= sleep.end
    /\ pc' = "main" /\ sleep' = Awake
    /\ UNCHANGED <<time, regs, api, irq, hist>>

-----------------------------------------------------------------------------
(* The manager kills the payload, wherever it is, and starts another one.  *)
(* The teardown disables the interrupt, the new image has its own data;    *)
(* nobody stops the timer.                                                 *)
Restart ==
    /\ gic' = FALSE /\ conf' = FALSE /\ period' = 0 /\ whole' = TRUE
    /\ irq' = "none" /\ pc' = "main" /\ sleep' = Awake
    /\ t0' = 0 /\ calls' = 0 /\ grid' = FALSE /\ started' = FALSE /\ careless' = FALSE
    /\ UNCHANGED <<time, regs>>

-----------------------------------------------------------------------------
Next == \/ Pass
        \/ \E us \in Periods : SetupAssign(us)
        \/ SetupStop \/ StartEnable \/ StartArm \/ stopPeriodicInterrupt
        \/ TimerIrq \/ UnhandledIrq \/ HandlerStop \/ HandlerStart \/ handleTimerIrq
        \/ \E us \in Sleeps : usleep(us)
        \/ Wake \/ Restart

(* Interrupts are taken and their handlers return, time passes, and a      *)
(* program that sleeps looks at the clock.                                 *)
Fairness == /\ WF_vars(Pass) /\ WF_vars(TimerIrq) /\ WF_vars(handleTimerIrq)
            /\ SF_vars(Wake)
Spec == Init /\ [][Next]_vars /\ Fairness

-----------------------------------------------------------------------------
TypeOK ==
    /\ time \in Nat /\ ctl \in BOOLEAN /\ cval \in Nat
    /\ gic \in BOOLEAN /\ conf \in BOOLEAN /\ period \in Nat /\ whole \in BOOLEAN
    /\ irq \in {"none", "user", "dead"} /\ pc \in {"main", "setup", "start", "sleep"}
    /\ sleep \in [us : Nat, from : Nat, end : Nat]
    /\ t0 \in Nat /\ calls \in Nat
    /\ {grid, started, careless} \subseteq BOOLEAN

(* No drift: as long as the payload leaves the running timer alone, the    *)
(* n-th call of its handler comes n periods after the start or later, and  *)
(* the next deadline is on that grid however late handlers run.            *)
NoDrift ==
    grid => /\ cval = t0 + period * (IF irq = "user" THEN calls ELSE calls + 1)
            /\ irq = "user" => Count >= t0 + calls * period

(* No tick is lost: calls that were delayed, by the main program being in  *)
(* the middle of something or by slow handlers, are made up for.           *)
CatchesUp == grid ~> ~grid \/ period = 0 \/ calls = (Count - t0) \div period

(* A handler that is replaced after stopPeriodicInterrupt is not called    *)
(* while it is being assigned.                                             *)
ReplacedWhenStopped == irq = "user" /\ ~whole => careless

(* A sleep, timed from the beginning of the counter tick it began in, is   *)
(* never shorter than requested, as long as microseconds times frequency   *)
(* fit the word.  sleep.cpp promises more: begun later in that tick, a    *)
(* sleep may be short by the part of the tick that had passed.             *)
SleepsFromTheTick ==
    [][Wake /\ sleep.us * Freq + Million <= Word =>
          (time - 2 * (sleep.from \div 2)) * Million >= 2 * sleep.us * Freq]_vars
=============================================================================
