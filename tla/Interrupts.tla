----------------------------- MODULE Interrupts -----------------------------
(***************************************************************************)
(* Interrupts of one executor core: the GIC, the monitor that configures   *)
(* it, the payload that nests its handlers at EL1, and the kill that can   *)
(* come in the middle of all of them and is followed by another payload.   *)
(* The monitor of the other core changes registers they share.             *)
(*                                                                         *)
(* A system call runs with interrupts masked and is one action.  An        *)
(* exception is one action up to the point where its handler unmasks       *)
(* interrupts or returns.                                                  *)
(***************************************************************************)
EXTENDS Integers, Sequences, FiniteSets

CONSTANTS
    Ids,         \* interrupt ids in use on this core
    Ipi,         \* the one of them that carries the kill
    Timer,       \* CNTPNS_INTERRUPT_ID, the private timer
    PayloadIds,  \* the ids that payloads pass to the interrupt API
    Prios        \* PayloadInterruptPriority; lower is more urgent

MonitorPrio == 0     \* MonitorInterruptPriority::m7_max

ASSUME IdAssumption == /\ Ids \subseteq Nat /\ {Ipi, Timer} \subseteq Ids
                       /\ Ipi # Timer /\ PayloadIds \subseteq Ids
ASSUME PrioAssumption == Prios \subseteq Nat \ {MonitorPrio} /\ IsFiniteSet(Prios)

VARIABLES
    group, prio, enabled, pending, active,  \* distributor, per id
    apr,      \* NSAPR0: the group 1 priorities that are being served
    routed,   \* interrupt_routed_to_el1 of the monitor
    handler,  \* whether the payload has registered a callable handler, per id
    el,       \* what the core executes
    stack,    \* ids whose handlers are on the EL1 stack, innermost last
    other,    \* group bits the other core has read and not written back yet
    overtaken \* history: when the kill was last put into group 0, the other
              \* core held a copy of the register with the kill in group 1

dist == <<group, prio, enabled, pending, active>>
vars == <<dist, apr, routed, handler, el, stack, other, overtaken>>

(* "setup": in setupInterrupts, after enableCpuInterrupts has unmasked.    *)
Cores == {"boot", "setup", "monitor", "el1", "crashed", "dead"}

(* The monitor boots on a core whose interrupts are all disabled, in       *)
(* whichever group the firmware of the platform has left them.             *)
Init ==
    /\ group \in [Ids -> {0, 1}] /\ prio = [i \in Ids |-> MonitorPrio]
    /\ enabled = [i \in Ids |-> FALSE] /\ pending = [i \in Ids |-> FALSE]
    /\ active = [i \in Ids |-> FALSE] /\ apr = {}
    /\ routed = [i \in Ids |-> FALSE] /\ handler = [i \in Ids |-> FALSE]
    /\ el = "boot" /\ stack = <<>> /\ other = <<>>
    /\ overtaken = FALSE

-----------------------------------------------------------------------------
(* The interrupt controller.                                               *)

(* A peripheral, or the manager for Ipi, raises an interrupt.              *)
Raise(i) == /\ ~pending[i] /\ pending' = [pending EXCEPT ![i] = TRUE]
            /\ UNCHANGED <<group, prio, enabled, active, apr, routed, handler, el, stack, other, overtaken>>

(* GICD::setGroup of the other core, for an id of its own in a register    *)
(* that also holds ids of this core: it reads all bits and writes them     *)
(* back.  The registers of ids below 32 are banked.                        *)
Register(i) == {j \in Ids : j >= 32 /\ j \div 32 = i \div 32}
OtherCoreReads(i) ==
    /\ DOMAIN other = {} /\ Register(i) # {}
    /\ other' = [j \in Register(i) |-> group[j]]
    /\ UNCHANGED <<dist, apr, routed, handler, el, stack, overtaken>>
OtherCoreWrites ==
    /\ DOMAIN other # {} /\ other' = <<>>
    /\ group' = [i \in Ids |-> IF i \in DOMAIN other THEN other[i] ELSE group[i]]
    /\ UNCHANGED <<prio, enabled, pending, active, apr, routed, handler, el, stack, overtaken>>

(* Interrupt i of group g is signalled to the core: it is the most urgent  *)
(* one pending (the lowest id of several), and more urgent than what is    *)
(* being served.                                                           *)
Forwarded(i) == enabled[i] /\ pending[i] /\ ~active[i]
Signalled(i, g) ==
    /\ Forwarded(i) /\ group[i] = g
    /\ \A p \in apr : prio[i] < p
    /\ \A j \in Ids : Forwarded(j) =>
           prio[i] < prio[j] \/ (prio[i] = prio[j] /\ i <= j)

-----------------------------------------------------------------------------
(* The monitor.                                                            *)

(* Mutant: active is not cleared.                                          *)
enableInterrupt_KeepsActive(i) ==
    /\ pending' = [pending EXCEPT ![i] = FALSE]
    /\ enabled' = [enabled EXCEPT ![i] = TRUE]
    /\ UNCHANGED active

enableInterrupt(i) ==
    /\ pending' = [pending EXCEPT ![i] = FALSE]
    /\ active' = [active EXCEPT ![i] = FALSE]
    /\ enabled' = [enabled EXCEPT ![i] = TRUE]

(* Mutant: the write-one-to-clear register is read, changed and written.   *)
disableInterrupt_Register(i) ==
    enabled' = [j \in Ids |-> enabled[j] /\ j # i /\ j \notin Register(i)]

disableInterrupt(i) == enabled' = [enabled EXCEPT ![i] = FALSE]

(* Mutant: group and priority are exchanged.                               *)
configureInterrupt_Swapped(i, g, p) ==
    /\ group' = [group EXCEPT ![i] = p]
    /\ routed' = [routed EXCEPT ![i] = (g = 1)]
    /\ prio' = [prio EXCEPT ![i] = g]

(* Group, bookkeeping and priority, of private and shared interrupts.      *)
configureInterrupt(i, g, p) ==
    /\ group' = [group EXCEPT ![i] = g]
    /\ routed' = [routed EXCEPT ![i] = (g = 1)]
    /\ prio' = [prio EXCEPT ![i] = p]

(* From reset to the point where IRQ and FIQ are unmasked; the variables   *)
(* of the monitor have been cleared on the way.                            *)
enableCpuInterrupts ==
    /\ el = "boot" /\ el' = "setup"
    /\ routed' = [i \in Ids |-> FALSE]
    /\ UNCHANGED <<dist, apr, handler, stack, other, overtaken>>

(* The rest of setupInterrupts: the kill is configured and enabled.        *)
setupInterrupts ==
    /\ el = "setup" /\ el' = "monitor"
    /\ configureInterrupt(Ipi, 0, MonitorPrio)
    /\ enableInterrupt(Ipi)
    /\ overtaken' = (Ipi \in DOMAIN other /\ other[Ipi] = 1)
    /\ UNCHANGED <<apr, handler, stack, other>>

(* A payload is entered; its variables are cleared by its start-up code.   *)
enterEL1Payload ==
    /\ el = "monitor" /\ el' = "el1"
    /\ handler' = [i \in Ids |-> FALSE]
    /\ UNCHANGED <<dist, apr, routed, stack, other, overtaken>>

(* Mutant: only the timer is stopped.                                      *)
teardownEl1Interrupts_TimerOnly ==
    /\ enabled' = [enabled EXCEPT ![Timer] = FALSE]
    /\ apr' = {} /\ UNCHANGED routed

teardownEl1Interrupts ==
    /\ enabled' = [i \in Ids |-> enabled[i] /\ i # Timer /\ ~routed[i]]
    /\ routed' = [i \in Ids |-> FALSE]
    /\ apr' = {}

(* The kill, taken to EL3 from the monitor's program and from EL1 whatever *)
(* EL1 has masked: acknowledged, EL1 torn down, the monitor restarted.     *)
FIQInterrupt ==
    /\ el \in {"setup", "monitor", "el1", "crashed"} /\ Signalled(Ipi, 0)
    /\ pending' = [pending EXCEPT ![Ipi] = FALSE]
    /\ teardownEl1Interrupts
    /\ el' = "boot" /\ stack' = <<>>
    /\ UNCHANGED <<group, prio, active, handler, other, overtaken>>

(* An FIQ of any other id crashes the monitor, for good.                   *)
FIQUnexpected ==
    /\ el \in {"setup", "monitor", "el1", "crashed"} /\ el' = "dead"
    /\ \E i \in Ids \ {Ipi} : Signalled(i, 0) /\ pending' = [pending EXCEPT ![i] = FALSE]
    /\ UNCHANGED <<group, prio, enabled, active, apr, routed, handler, stack, other, overtaken>>

(* So does an IRQ while the monitor executes: the code has a handler that  *)
(* reports it, in case it "messed up".                                     *)
MonitorIRQ ==
    /\ el \in {"setup", "monitor"} /\ el' = "dead"
    /\ \E i \in Ids : Signalled(i, 1) /\ pending' = [pending EXCEPT ![i] = FALSE]
    /\ UNCHANGED <<group, prio, enabled, active, apr, routed, handler, stack, other, overtaken>>

-----------------------------------------------------------------------------
(* The payload.                                                            *)

(* The handler may be an empty std::function.                              *)
setupInterruptHandling(i, p) ==
    /\ el = "el1"
    /\ \E h \in BOOLEAN : handler' = [handler EXCEPT ![i] = h]
    /\ configureInterrupt(i, 1, p)
    /\ UNCHANGED <<enabled, pending, active, apr, el, stack, other, overtaken>>

(* The documentation asks for setupInterruptHandling first.                *)
enableInterruptHandling(i) ==
    /\ el = "el1" /\ routed[i]
    /\ enableInterrupt(i)
    /\ UNCHANGED <<group, prio, apr, routed, handler, el, stack, other, overtaken>>

disableInterruptHandling(i) ==
    /\ el = "el1"
    /\ disableInterrupt(i)
    /\ UNCHANGED <<group, prio, pending, active, apr, routed, handler, el, stack, other, overtaken>>

(* Mutant: the end of the interrupt is signalled before its handler runs.  *)
IRQInterrupt_EarlyEnd(i) ==
    /\ el = "el1" /\ Signalled(i, 1)
    /\ pending' = [pending EXCEPT ![i] = FALSE] /\ handler[i]
    /\ Len(stack) < 4 /\ stack' = Append(stack, i)
    /\ UNCHANGED <<group, prio, enabled, active, apr, routed, handler, el, other, overtaken>>

(* The acknowledge, up to the call of the registered handler, which runs   *)
(* with IRQs unmasked; without a handler the payload reports a crash,      *)
(* signals the end of the interrupt and loops.                             *)
IRQInterrupt(i) ==
    /\ el = "el1" /\ Signalled(i, 1)
    /\ pending' = [pending EXCEPT ![i] = FALSE]
    /\ \/ /\ handler[i]
          /\ active' = [active EXCEPT ![i] = TRUE] /\ apr' = apr \cup {prio[i]}
          /\ stack' = Append(stack, i) /\ el' = el
       \/ /\ ~handler[i] /\ el' = "crashed"
          /\ UNCHANGED <<active, apr, stack>>
    /\ UNCHANGED <<group, prio, enabled, routed, handler, other, overtaken>>

(* Mutant: the end is signalled for the interrupt, and the priority kept.  *)
IRQReturn_KeepsPriority ==
    /\ el = "el1" /\ stack # <<>>
    /\ active' = [active EXCEPT ![stack[Len(stack)]] = FALSE]
    /\ stack' = SubSeq(stack, 1, Len(stack) - 1)
    /\ UNCHANGED <<group, prio, enabled, pending, apr, routed, handler, el, other, overtaken>>

(* The handler returns: IRQs are masked and the end signalled, which       *)
(* deactivates the interrupt and drops the most urgent priority.           *)
IRQReturn ==
    /\ el = "el1" /\ stack # <<>>
    /\ active' = [active EXCEPT ![stack[Len(stack)]] = FALSE]
    /\ apr' = {p \in apr : \E q \in apr : q < p}
    /\ stack' = SubSeq(stack, 1, Len(stack) - 1)
    /\ UNCHANGED <<group, prio, enabled, pending, routed, handler, el, other, overtaken>>

(* A synchronous exception at EL1: reported, then a loop with IRQs masked. *)
SynchronousInterrupt ==
    /\ el = "el1" /\ el' = "crashed"
    /\ UNCHANGED <<dist, apr, routed, handler, stack, other, overtaken>>

-----------------------------------------------------------------------------
PayloadCall == \E i \in PayloadIds :
                   \/ \E p \in Prios : setupInterruptHandling(i, p)
                   \/ enableInterruptHandling(i) \/ disableInterruptHandling(i)

TakeIRQ == \E i \in Ids : IRQInterrupt(i)

Next == \/ \E i \in Ids : Raise(i)
        \/ \E i \in Ids : OtherCoreReads(i)
        \/ OtherCoreWrites
        \/ enableCpuInterrupts \/ setupInterrupts \/ enterEL1Payload
        \/ FIQInterrupt \/ FIQUnexpected \/ MonitorIRQ
        \/ PayloadCall \/ TakeIRQ \/ IRQReturn \/ SynchronousInterrupt

(* A signalled interrupt is taken, and the handlers of a payload return.   *)
Fairness == /\ WF_vars(FIQInterrupt \/ FIQUnexpected \/ MonitorIRQ)
            /\ WF_vars(TakeIRQ) /\ WF_vars(IRQReturn)
Spec == Init /\ [][Next]_vars /\ Fairness

-----------------------------------------------------------------------------
TypeOK ==
    /\ group \in [Ids -> {0, 1}] /\ prio \in [Ids -> Prios \cup {MonitorPrio}]
    /\ enabled \in [Ids -> BOOLEAN] /\ pending \in [Ids -> BOOLEAN]
    /\ active \in [Ids -> BOOLEAN] /\ apr \subseteq Prios \cup {MonitorPrio}
    /\ routed \in [Ids -> BOOLEAN] /\ handler \in [Ids -> BOOLEAN]
    /\ el \in Cores /\ stack \in Seq(Ids)
    /\ DOMAIN other \subseteq Ids /\ \A i \in DOMAIN other : other[i] \in {0, 1}
    /\ overtaken \in BOOLEAN

(* No interrupt of a payload arrives at EL3: whatever the killed payload   *)
(* had configured, enabled or left unfinished, in whichever group it ended *)
(* up, the restarted monitor is signalled nothing but the kill.            *)
NoIRQAtEL3 ==
    el \in {"boot", "setup", "monitor"} =>
        \A i \in Ids \ {Ipi} : ~Signalled(i, 0) /\ ~Signalled(i, 1)

(* An interrupt that is enabled and active is being served right now: one  *)
(* left active by a killed payload does not stay blocked for the next one. *)
NoStaleActive == \A i \in Ids : enabled[i] /\ active[i] =>
                     \E k \in 1..Len(stack) : stack[k] = i

(* Handlers nest at most once per priority level, which is what the size   *)
(* of the FPU context array relies on.                                     *)
NestingBounded == Len(stack) <= Cardinality(Prios)

(* The most urgent interrupt of a running payload is served, also by the   *)
(* payload that follows one killed inside its handlers.                    *)
UrgentServed ==
    \A i \in PayloadIds :
        LET urgent == /\ Forwarded(i) /\ el = "el1" /\ group[i] = 1
                      /\ \A j \in Ids : prio[j] = MonitorPrio \/ prio[i] < prio[j] \/ j = i
                      /\ \A p \in Prios : prio[i] <= p
        IN  urgent ~> ~urgent

(* Forced preemption: the kill interrupt stays enabled and more urgent     *)
(* than anything a payload that does not use its id can be served, and it  *)
(* stays an FIQ, whatever the payload does to the registers it shares and  *)
(* whatever the other core writes back to them, unless that core had read  *)
(* the kill in group 1 before the monitor took it out of that group.       *)
KillDeliverable ==
    el \in {"el1", "crashed"} =>
        /\ enabled[Ipi] /\ ~active[Ipi] /\ \A p \in apr : prio[Ipi] < p
        /\ ~overtaken => group[Ipi] = 0

(* The table of exceptions of the book: interrupts of peripherals are IRQs *)
(* and go to EL1.                                                          *)
PeripheralsAtEL1 == \A i \in Ids : routed[i] => group[i] = 1
=============================================================================
