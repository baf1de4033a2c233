------------------------------- MODULE Tools --------------------------------
(***************************************************************************)
(* Several processes (bmctl and the console tool) at work on several       *)
(* cores at the same time.  Nothing locks: all of them map the same        *)
(* registers and memories, and each trusts what it read when it opened its *)
(* domain.  A process runs one tool on one core and ends, or is killed     *)
(* between any two steps.                                                  *)
(*                                                                         *)
(* What one manager and one monitor say to each other is modelled in       *)
(* detail in Domain.  Here a command, its answer and the reboot after a    *)
(* kill are single steps, a poll loop ends with its condition or times     *)
(* out, and at most one process per core sends commands.                   *)
(***************************************************************************)
EXTENDS Naturals, FiniteSets

CONSTANTS
    Cores,    \* the CPUs that can be executors
    Procs,    \* the processes
    Plans     \* who runs what: functions from Procs to Jobs

BmctlTools == {"boot", "core", "run", "start", "status", "terminate"}
Jobs == [tool : BmctlTools \cup {"console"}, core : Cores]
Commanding == {"run", "start", "terminate", "console"}

ASSUME CoreAssumption == Cores \subseteq {1, 2, 3}
ASSUME PlanAssumption ==
    /\ Plans \subseteq [Procs -> Jobs]
    /\ \A f \in Plans : \A p, q \in Procs :
           p # q /\ {f[p].tool, f[q].tool} \subseteq Commanding => f[p].core # f[q].core

VARIABLES
    reset,        \* RST_FPD_APU: the cores held in reset, one register
    vector,       \* RVBARADDR: whose monitor a core starts from
    code, cookie, \* the monitor's memory of each core
    ipi,          \* IPI channels with a request from the manager
    state, mail,  \* the IPC block: the state word, the last command
    core,         \* what each core executes
    job,          \* the command line of each process
    pc, gs, snap, \* its control, general state, reset register as read
    exit,         \* how it ended
    asked         \* history: kills of each core that clients asked for

regs == <<reset, vector, ipi>>
mems == <<code, cookie>>
ipc == <<state, mail>>
procs == <<job, pc, gs, snap, exit>>
vars == <<regs, mems, ipc, core, procs, asked>>

None == "none"

(* Mutant: two cores share a channel.                                      *)
getIpiChannelForCpu_Shared(c) == IF c = 1 THEN "ch0" ELSE "ch7"

(* The channel on which the manager interrupts a core, ...                 *)
getIpiChannelForCpu(c) == IF c = 1 THEN "ch0" ELSE IF c = 2 THEN "ch7" ELSE "ch8"

(* ... and the one whose interrupt (67, 61 or 62) its monitor has enabled. *)
Listens(c) == CASE c = 1 -> "ch0" [] c = 2 -> "ch7" [] c = 3 -> "ch8"

(* A core is in reset, perhaps with a cookie that DDR kept over the reset; *)
(* or it runs something else; or bmboot was started before, and perhaps a  *)
(* payload.                                                                *)
Init ==
    /\ job \in Plans
    /\ \E kind \in [Cores -> {"reset", "foreign", "loop", "el1"}] :
          /\ core = kind
          /\ reset = {c \in Cores : kind[c] = "reset"}
          /\ cookie \in [Cores -> BOOLEAN]
          /\ \A c \in Cores : /\ kind[c] = "foreign" => ~cookie[c]
                              /\ kind[c] \in {"loop", "el1"} => cookie[c]
          /\ code = [c \in Cores |-> IF kind[c] \in {"loop", "el1"} THEN c ELSE 0]
          /\ vector = code
          /\ state = [c \in Cores |-> CASE kind[c] = "loop" -> "monitor_ready"
                                        [] kind[c] = "el1" -> "running_payload"
                                        [] OTHER -> "invalid_state"]
    /\ mail = [c \in Cores |-> None] /\ ipi = {}
    /\ pc = [p \in Procs |-> "open"] /\ gs = [p \in Procs |-> None]
    /\ snap = [p \in Procs |-> {}] /\ exit = [p \in Procs |-> None]
    /\ asked = [c \in Cores |-> FALSE]

-----------------------------------------------------------------------------
(* The processes.                                                          *)

Cpu(p) == job[p].core
Tool(p) == job[p].tool

Goto(p, l) == pc' = [pc EXCEPT ![p] = l] /\ UNCHANGED exit

(* main returns, or throwOnError throws what nobody catches; the variables *)
(* of the process are gone.                                                *)
End(p, r) == /\ pc' = [pc EXCEPT ![p] = "end"]
             /\ exit' = [exit EXCEPT ![p] = r]
Fail(p) == End(p, "-1")
throwOnError(p) == End(p, "abort")

Die(p) ==
    /\ pc[p] # "end" /\ End(p, "killed")
    /\ UNCHANGED <<regs, mems, ipc, core, job, gs, snap, asked>>

(* Mutant: only the cookie is looked at.                                   *)
OpenReset_CookieOnly(p) ==
    /\ pc[p] = "open"
    /\ IF cookie[Cpu(p)] THEN gs' = [gs EXCEPT ![p] = "monitorStarted"] /\ Goto(p, "main")
       ELSE Goto(p, "cookie") /\ UNCHANGED gs
    /\ UNCHANGED <<regs, mems, ipc, core, job, snap, asked>>

(* IDomain::open: the reset bit first ...                                  *)
OpenReset(p) ==
    /\ pc[p] = "open"
    /\ \/ throwOnError(p) /\ UNCHANGED gs
       \/ /\ Cpu(p) \in reset
          /\ gs' = [gs EXCEPT ![p] = "inReset"] /\ Goto(p, "main")
       \/ Cpu(p) \notin reset /\ Goto(p, "cookie") /\ UNCHANGED gs
    /\ UNCHANGED <<regs, mems, ipc, core, job, snap, asked>>

(* ... the cookie second.                                                  *)
OpenCookie(p) ==
    /\ pc[p] = "cookie" /\ Goto(p, "main")
    /\ gs' = [gs EXCEPT ![p] = IF cookie[Cpu(p)] THEN "monitorStarted" ELSE "unavailable"]
    /\ UNCHANGED <<regs, mems, ipc, core, job, snap, asked>>

getState(p) == CASE gs[p] = "inReset" -> "in_reset"
                 [] gs[p] = "unavailable" -> "unavailable"
                 [] gs[p] = "monitorStarted" -> state[Cpu(p)]

(* The first look at the state, and what each tool makes of it.  bmctl     *)
(* boot of a domain that is not in reset complains and succeeds.           *)
Dispatch(p) ==
    LET s == getState(p)  t == Tool(p) IN
    \/ t \in {"boot", "run", "console"} /\ s = "in_reset" /\ Goto(p, "startup")
    \/ t = "boot" /\ s # "in_reset" /\ End(p, "0")
    \/ t \in {"run", "start"} /\ s = "monitor_ready" /\ Goto(p, "load")
    \/ t = "run" /\ s \notin {"in_reset", "monitor_ready"} /\ Fail(p)
    \/ t = "start" /\ s # "monitor_ready" /\ Fail(p)
    \/ t = "console" /\ s = "monitor_ready" /\ Goto(p, "start")
    \/ t = "console" /\ s \notin {"in_reset", "monitor_ready"} /\ Goto(p, "console")
    \/ t = "status" /\ End(p, "0")
    \/ t = "core" /\ s \in {"crashed_payload", "crashed_monitor"} /\ (End(p, "0") \/ Fail(p))
    \/ t = "core" /\ s \notin {"crashed_payload", "crashed_monitor"} /\ Fail(p)
    \/ t = "terminate" /\ Goto(p, "terminate")

Main(p) ==
    /\ pc[p] = "main" /\ Dispatch(p)
    /\ UNCHANGED <<regs, mems, ipc, core, job, gs, snap, asked>>

(* startup returned without an error: the state is looked at again.        *)
AfterStartup(p) ==
    LET s == getState(p)  t == Tool(p) IN
    /\ pc[p] = "started"
    /\ \/ t = "boot" /\ End(p, "0")
       \/ t = "run" /\ s = "monitor_ready" /\ Goto(p, "load")
       \/ t = "run" /\ s # "monitor_ready" /\ Fail(p)
       \/ t = "console" /\ Goto(p, IF s = "monitor_ready" THEN "start" ELSE "console")
    /\ UNCHANGED <<regs, mems, ipc, core, job, gs, snap, asked>>

-----------------------------------------------------------------------------
(* Domain::startup.                                                        *)

(* Mutant: the core is released before its code is in memory.              *)
StartupWriteCode_Later(p) ==
    /\ pc[p] = "startup" /\ Goto(p, "ipc")
    /\ UNCHANGED <<regs, mems, ipc, core, job, gs, snap, asked>>

StartupWriteCode(p) ==
    /\ pc[p] = "startup"
    /\ \/ Fail(p) /\ UNCHANGED mems
       \/ /\ Goto(p, "ipc")
          /\ code' = [code EXCEPT ![Cpu(p)] = Cpu(p)]
          /\ cookie' = [cookie EXCEPT ![Cpu(p)] = TRUE]
    /\ UNCHANGED <<regs, ipc, core, job, gs, snap, asked>>

StartupClearIpc(p) ==
    /\ pc[p] = "ipc" /\ Goto(p, "read")
    /\ state' = [state EXCEPT ![Cpu(p)] = "invalid_state"]
    /\ mail' = [mail EXCEPT ![Cpu(p)] = None]
    /\ UNCHANGED <<regs, mems, core, job, gs, snap, asked>>

(* bootCore: the reset register is read, for this core and all others, ... *)
BootCoreRead(p) ==
    /\ pc[p] = "read"
    /\ \/ Fail(p) /\ UNCHANGED snap
       \/ /\ Cpu(p) \in reset /\ Goto(p, "vector")
          /\ snap' = [snap EXCEPT ![p] = reset]
    /\ UNCHANGED <<regs, mems, ipc, core, job, gs, asked>>

BootCoreVector(p) ==
    /\ pc[p] = "vector" /\ Goto(p, "write")
    /\ vector' = [vector EXCEPT ![Cpu(p)] = Cpu(p)]
    /\ UNCHANGED <<reset, ipi, mems, ipc, core, job, gs, snap, asked>>

(* What the cores do when the register changes from r to q.                *)
Rewrite(r, q) ==
    core' = [c \in Cores |-> IF c \in q THEN "reset"
                             ELSE IF c \in r THEN "boot" ELSE core[c]]

(* Mutant: the shift is off by one, and the bits of the next core are set. *)
BootCoreWrite_Shifted(p) ==
    /\ pc[p] = "write" /\ Goto(p, "await")
    /\ reset' = (snap[p] \ {Cpu(p)}) \cup {Cpu(p) + 1} /\ Rewrite(reset, reset')
    /\ snap' = [snap EXCEPT ![p] = {}]
    /\ gs' = [gs EXCEPT ![p] = "monitorStarted"]
    /\ UNCHANGED <<vector, ipi, mems, ipc, job, asked>>

(* ... and written back with the bits of this core cleared.                *)
BootCoreWrite(p) ==
    /\ pc[p] = "write" /\ Goto(p, "await")
    /\ reset' = snap[p] \ {Cpu(p)} /\ Rewrite(reset, reset')
    /\ snap' = [snap EXCEPT ![p] = {}]
    /\ gs' = [gs EXCEPT ![p] = "monitorStarted"]
    /\ UNCHANGED <<vector, ipi, mems, ipc, job, asked>>

(* Mutant: running out of polls counts as success.                         *)
awaitMonitorStartup_Optimistic(p) ==
    /\ pc[p] \in {"await", "dying"}
    /\ IF pc[p] = "await" THEN Goto(p, "started") ELSE End(p, "0")
    /\ UNCHANGED <<regs, mems, ipc, core, job, gs, snap, asked>>

(* awaitMonitorStartup after startup, and after a kill: monitor_ready is   *)
(* seen, or the polls run out.                                             *)
awaitMonitorStartup(p) ==
    /\ pc[p] \in {"await", "dying"}
    /\ \/ Fail(p)
       \/ /\ getState(p) = "monitor_ready"
          /\ IF pc[p] = "await" THEN Goto(p, "started") ELSE End(p, "0")
    /\ UNCHANGED <<regs, mems, ipc, core, job, gs, snap, asked>>

-----------------------------------------------------------------------------
(* Payload commands.                                                       *)

(* loadPayloadFromFileOrThrow up to the copy: the file, the state and the  *)
(* size are checked.                                                       *)
loadPayloadFromFileOrThrow(p) ==
    /\ pc[p] = "load"
    /\ throwOnError(p) \/ (getState(p) = "monitor_ready" /\ Goto(p, "start"))
    /\ UNCHANGED <<regs, mems, ipc, core, job, gs, snap, asked>>

(* startPayloadAt sends the command unless the domain is not ready or an   *)
(* earlier one is unanswered.  The console ignores that its dummy payload  *)
(* could not be started.                                                   *)
StartSend(p) ==
    LET c == Cpu(p)
        free == getState(p) = "monitor_ready" /\ mail[c] \notin {"start", "dummy"}
        what == IF Tool(p) = "console" THEN "dummy" ELSE "start"
    IN  /\ pc[p] = "start"
        /\ \/ free /\ mail' = [mail EXCEPT ![c] = what] /\ Goto(p, "poll")
           \/ ~free /\ Tool(p) = "console" /\ Goto(p, "console") /\ UNCHANGED mail
           \/ ~free /\ Tool(p) # "console" /\ throwOnError(p) /\ UNCHANGED mail
        /\ UNCHANGED <<regs, mems, state, core, job, gs, snap, asked>>

(* A start was refused, crashed or not confirmed in time, which the        *)
(* console ignores as well; or the payload runs.                           *)
StartPoll(p) ==
    /\ pc[p] = "poll"
    /\ \/ Tool(p) = "console" /\ Goto(p, "console")
       \/ Tool(p) # "console" /\ throwOnError(p)
       \/ /\ Tool(p) # "console" /\ getState(p) = "running_payload"
          /\ IF Tool(p) = "run" THEN Goto(p, "console") ELSE End(p, "0")
    /\ UNCHANGED <<regs, mems, ipc, core, job, gs, snap, asked>>

(* Ctrl-C ends runConsoleUntilInterrupted.                                 *)
Interrupt(p) ==
    /\ pc[p] = "console"
    /\ IF Tool(p) = "run" THEN Goto(p, "terminate") ELSE End(p, "0")
    /\ UNCHANGED <<regs, mems, ipc, core, job, gs, snap, asked>>

(* Mutant: the general state of the domain is not checked.                 *)
TerminateClear_Unchecked(p) ==
    /\ pc[p] = "terminate" /\ Goto(p, "ipi")
    /\ mail' = [mail EXCEPT ![Cpu(p)] = None]
    /\ UNCHANGED <<regs, mems, state, core, job, gs, snap, asked>>

(* terminatePayload: the command is cleared, ...                           *)
TerminateClear(p) ==
    /\ pc[p] = "terminate"
    /\ \/ Fail(p) /\ UNCHANGED mail
       \/ /\ gs[p] = "monitorStarted" /\ Goto(p, "ipi")
          /\ mail' = [mail EXCEPT ![Cpu(p)] = None]
    /\ UNCHANGED <<regs, mems, state, core, job, gs, snap, asked>>

(* ... and the core interrupted.                                           *)
sendIpiMessage(p) ==
    /\ pc[p] = "ipi" /\ Goto(p, "dying")
    /\ ipi' = ipi \cup {getIpiChannelForCpu(Cpu(p))}
    /\ asked' = [asked EXCEPT ![Cpu(p)] = TRUE]
    /\ UNCHANGED <<reset, vector, mems, ipc, core, job, gs, snap>>

Process(p) ==
    \/ OpenReset(p) \/ OpenCookie(p) \/ Main(p) \/ AfterStartup(p)
    \/ StartupWriteCode(p) \/ StartupClearIpc(p)
    \/ BootCoreRead(p) \/ BootCoreVector(p) \/ BootCoreWrite(p)
    \/ awaitMonitorStartup(p) \/ loadPayloadFromFileOrThrow(p)
    \/ StartSend(p) \/ StartPoll(p) \/ TerminateClear(p) \/ sendIpiMessage(p)

-----------------------------------------------------------------------------
(* The cores.                                                              *)

Becomes(c, what, s) == /\ core' = [core EXCEPT ![c] = what]
                       /\ state' = [state EXCEPT ![c] = s]

(* The monitor starts: requests from before are dropped.                   *)
MonitorReady(c) ==
    /\ core[c] = "boot" /\ Becomes(c, "loop", "monitor_ready")
    /\ ipi' = ipi \ {Listens(c)}
    /\ UNCHANGED <<reset, vector, mems, mail, procs, asked>>

(* The dummy payload is entered at once, and its command not answered.     *)
MonitorStartPayload(c) ==
    /\ core[c] = "loop"
    /\ \/ mail[c] = "start" /\ Becomes(c, "validate", "starting_payload")
       \/ mail[c] = "dummy" /\ Becomes(c, "idling", "starting_payload")
    /\ UNCHANGED <<regs, mems, mail, procs, asked>>

(* The image is refused, or entered.                                       *)
MonitorValidate(c) ==
    /\ core[c] = "validate" /\ mail' = [mail EXCEPT ![c] = None]
    /\ \/ Becomes(c, "loop", "monitor_ready")
       \/ Becomes(c, "el1", state[c])
    /\ UNCHANGED <<regs, mems, procs, asked>>

PayloadReports(c) ==
    /\ core[c] = "el1"
    /\ \E s \in {"running_payload", "crashed_payload"} : Becomes(c, "el1", s)
    /\ UNCHANGED <<regs, mems, mail, procs, asked>>

FIQInterrupt(c) ==
    /\ core[c] \in {"loop", "validate", "el1", "idling"} /\ Listens(c) \in ipi
    /\ ipi' = ipi \ {Listens(c)} /\ core' = [core EXCEPT ![c] = "boot"]
    /\ UNCHANGED <<reset, vector, mems, ipc, procs, asked>>

MonitorCrash(c) ==
    /\ core[c] \in {"loop", "validate", "el1", "idling"}
    /\ Becomes(c, "dead", "crashed_monitor")
    /\ UNCHANGED <<regs, mems, mail, procs, asked>>

Core(c) == \/ MonitorReady(c) \/ MonitorStartPayload(c) \/ MonitorValidate(c)
           \/ PayloadReports(c) \/ FIQInterrupt(c) \/ MonitorCrash(c)

Next == \/ \E p \in Procs : Process(p) \/ Interrupt(p) \/ Die(p)
        \/ \E c \in Cores : Core(c)

Spec == Init /\ [][Next]_vars

-----------------------------------------------------------------------------
TypeOK ==
    /\ reset \subseteq Cores /\ vector \in [Cores -> Cores \cup {0}]
    /\ code \in [Cores -> Cores \cup {0}] /\ cookie \in [Cores -> BOOLEAN]
    /\ ipi \subseteq {"ch0", "ch7", "ch8"}
    /\ state \in [Cores -> {"monitor_ready", "starting_payload", "running_payload",
                           "crashed_payload", "crashed_monitor", "invalid_state"}]
    /\ mail \in [Cores -> {None, "start", "dummy"}]
    /\ core \in [Cores -> {"reset", "foreign", "boot", "loop", "validate", "el1",
                          "idling", "dead"}]
    /\ \A c \in Cores : c \in reset <=> core[c] = "reset"
    /\ job \in [Procs -> Jobs]
    /\ pc \in [Procs -> {"open", "cookie", "main", "startup", "ipc", "read", "vector",
                         "write", "await", "started", "load", "start", "poll",
                         "console", "terminate", "ipi", "dying", "end"}]
    /\ gs \in [Procs -> {None, "inReset", "unavailable", "monitorStarted"}]
    /\ snap \in [Procs -> SUBSET Cores]
    /\ exit \in [Procs -> {None, "0", "-1", "abort", "killed"}]
    /\ asked \in [Cores -> BOOLEAN]

(* Whichever process releases a core, and however many try, the core finds *)
(* its own monitor, in its own memory, marked with the cookie.             *)
BootedIsPrepared ==
    \A c \in Cores : core[c] \notin {"reset", "foreign"} =>
        code[c] = c /\ cookie[c] /\ vector[c] = c

(* A domain is unavailable only if something else runs on the core: a      *)
(* process that opens it while another one boots it never concludes so.    *)
OpenSeesMonitor ==
    \A p \in Procs : gs[p] = "unavailable" => core[Cpu(p)] = "foreign"

(* No tool disturbs a core that runs something other than bmboot: not its  *)
(* reset line, its memory, its mailbox nor its interrupt.                  *)
ForeignUntouched ==
    [][\A c \in Cores : core[c] = "foreign" =>
           /\ core'[c] = "foreign" /\ code'[c] = 0 /\ ~cookie'[c]
           /\ vector'[c] = 0 /\ mail'[c] = None /\ Listens(c) \notin ipi']_vars

(* When bmctl run reports success its payload has been killed, whatever    *)
(* other processes do to boot this core or the others meanwhile.           *)
RunLeavesIdle ==
    \A p \in Procs : Tool(p) = "run" /\ exit[p] = "0" =>
        core[Cpu(p)] \notin {"validate", "el1", "idling"}

(* A payload is killed only by a process that asked for this core.         *)
KillsOwnCore ==
    [][\A c \in Cores : core[c] = "el1" /\ core'[c] = "boot" => asked[c]]_vars

(* The comment of bootCore: a core leaves reset once, since asserting its  *)
(* reset again can hang the system.                                        *)
NeverBackInReset == [][\A c \in Cores : c \notin reset => c \notin reset']_vars
=============================================================================
