----------------------------- MODULE CrashDump ------------------------------
(***************************************************************************)
(* Crash reports: the executor's exception vectors store the registers and *)
(* a description into the IPC block, the monitor the new state, and a      *)
(* manager that sees that state prints the description (bmctl status) or   *)
(* writes a core dump with the registers and the payload's memory.         *)
(*                                                                         *)
(* Manager and executor are different CPUs: a store to the IPC block is    *)
(* first pending and becomes visible in any order with stores to other     *)
(* words.  Data is a tag: the number of the execution it belongs to.       *)
(***************************************************************************)
EXTENDS Naturals

CONSTANTS
    Domains,      \* domains one manager process has opened
    PayloadSize,  \* the size of the payload memory of each
    MaxRuns       \* bound on the executions of each domain

ASSUME DomainAssumption == Domains # {} /\ PayloadSize \in [Domains -> Nat]
ASSUME RunsAssumption == MaxRuns \in Nat \ {0}

None == "none"
Words == {"regs", "fault", "state"}   \* regs and fpregs; fault_pc, _el and _desc
Crashed == {"crashed_payload", "crashed_monitor"}

VARIABLES
    ipc,      \* what the manager sees in the IPC block of each domain
    pend,     \* stores that are not visible yet
    cpu,      \* what each executor does
    run,      \* the number of its present execution, or crash of the monitor
    sync,     \* whether that ended in a synchronous exception
    mpc, dom, \* the manager: control, and the domain it works on
    segs,     \* the static array of dumpCore: none, or whose segment it holds
    pos, hdr, \* bytes written to the file, program headers
    got,      \* what went to the user or into the file
    settled   \* history: the run whose report was complete before the
              \* manager looked, and has not been disturbed since; or 0

exe == <<cpu, run, sync>>
file == <<pos, hdr, got>>
mgr == <<mpc, dom, segs, file>>
vars == <<ipc, pend, exe, mgr, settled>>

NoHeaders == [noteOff |-> 0, noteSize |-> 0, loadOff |-> 0, loadSize |-> 0, owner |-> None]
Nothing == [fault |-> 0, regs |-> 0, fpregs |-> 0, mem |-> 0, noteAt |-> 0, loadAt |-> 0]

Init ==
    /\ ipc = [d \in Domains |-> [regs |-> 0, fault |-> 0, state |-> "monitor_ready"]]
    /\ pend = [d \in Domains |-> <<>>]
    /\ cpu = [d \in Domains |-> "ready"] /\ run = [d \in Domains |-> 0]
    /\ sync = [d \in Domains |-> FALSE]
    /\ mpc = "idle" /\ dom = None /\ segs = None
    /\ pos = 0 /\ hdr = NoHeaders /\ got = Nothing /\ settled = 0

-----------------------------------------------------------------------------
(* The executor.  f gives the words that are stored.                       *)

Store(d, f) ==
    pend' = [pend EXCEPT ![d] = [w \in DOMAIN f \cup DOMAIN @ |->
                                    IF w \in DOMAIN f THEN f[w] ELSE @[w]]]

(* A store becomes visible.                                                *)
Drain(d, w) ==
    /\ w \in DOMAIN pend[d]
    /\ ipc' = [ipc EXCEPT ![d][w] = pend[d][w]]
    /\ pend' = [pend EXCEPT ![d] = [v \in DOMAIN @ \ {w} |-> @[v]]]
    /\ UNCHANGED <<exe, mgr, settled>>

Drained(d) == DOMAIN pend[d] = {}

(* What the manager is looking at is about to change.                      *)
Disturb(d) == settled' = IF d = dom THEN 0 ELSE settled

(* A payload is started and reports it.                                    *)
reportPayloadStarted(d) ==
    /\ cpu[d] = "ready" /\ run[d] < MaxRuns
    /\ cpu' = [cpu EXCEPT ![d] = "el1"] /\ run' = [run EXCEPT ![d] = @ + 1]
    /\ sync' = [sync EXCEPT ![d] = FALSE]
    /\ Store(d, [state |-> "running_payload"])
    /\ UNCHANGED <<ipc, mgr>> /\ Disturb(d)

(* Mutant: the registers are not copied into the IPC block.                *)
SynchronousInterrupt_NoRegs(d) ==
    /\ cpu[d] = "el1" /\ cpu' = [cpu EXCEPT ![d] = "vector"]
    /\ sync' = [sync EXCEPT ![d] = TRUE]
    /\ UNCHANGED <<ipc, pend, run, mgr, settled>>

(* The payload's vectors, up to the system call: registers are stored for  *)
(* a synchronous exception only.  The kill may still come in between.      *)
SynchronousInterrupt(d) ==
    /\ cpu[d] = "el1" /\ cpu' = [cpu EXCEPT ![d] = "vector"]
    /\ sync' = [sync EXCEPT ![d] = TRUE]
    /\ Store(d, [regs |-> run[d]])
    /\ UNCHANGED <<ipc, run, mgr, settled>>

OtherInterrupt(d) ==
    /\ cpu[d] = "el1" /\ cpu' = [cpu EXCEPT ![d] = "vector"]
    /\ UNCHANGED <<ipc, pend, run, sync, mgr, settled>>

(* Mutant: the new state is never stored.                                  *)
reportCrash_NoState(d) ==
    /\ cpu[d] = "vector" /\ cpu' = [cpu EXCEPT ![d] = "halted"]
    /\ Store(d, [fault |-> run[d]])
    /\ UNCHANGED <<ipc, run, sync, mgr, settled>>

(* SMC_NOTIFY_PAYLOAD_CRASHED.  Its barrier comes after the last of these  *)
(* stores and so orders none of them.                                      *)
reportCrash(d) ==
    /\ cpu[d] = "vector" /\ cpu' = [cpu EXCEPT ![d] = "halted"]
    /\ Store(d, [fault |-> run[d], state |-> "crashed_payload"])
    /\ UNCHANGED <<ipc, run, sync, mgr, settled>>

(* The monitor's own vectors, and an unhandled system call: the payload    *)
(* may run, be halted or there may be none.  The crash counts as one more  *)
(* execution, so that its report is told from that of a payload before it. *)
MonitorCrash(d) ==
    /\ cpu[d] # "dead" /\ cpu' = [cpu EXCEPT ![d] = "dead"]
    /\ run[d] < MaxRuns /\ run' = [run EXCEPT ![d] = @ + 1]
    /\ \E s \in BOOLEAN :
          /\ sync' = [sync EXCEPT ![d] = s]
          /\ IF s THEN Store(d, [regs |-> run'[d], fault |-> run'[d], state |-> "crashed_monitor"])
                  ELSE Store(d, [fault |-> run'[d], state |-> "crashed_monitor"])
    /\ UNCHANGED <<ipc, mgr>> /\ Disturb(d)

(* The kill, by this manager or another, whatever the executor is doing.   *)
FIQInterrupt(d) ==
    /\ cpu[d] \notin {"boot", "dead"} /\ cpu' = [cpu EXCEPT ![d] = "boot"]
    /\ UNCHANGED <<ipc, pend, run, sync, mgr>> /\ Disturb(d)

(* _boot synchronises memory; the report of the crash stays in place.      *)
MonitorReady(d) ==
    /\ cpu[d] = "boot" /\ Drained(d) /\ cpu' = [cpu EXCEPT ![d] = "ready"]
    /\ Store(d, [state |-> "monitor_ready"])
    /\ UNCHANGED <<ipc, run, sync, mgr, settled>>

Executor(d) == \/ reportPayloadStarted(d) \/ SynchronousInterrupt(d) \/ OtherInterrupt(d)
               \/ MonitorCrash(d) \/ FIQInterrupt(d)

-----------------------------------------------------------------------------
(* The manager.                                                            *)

Idle == /\ mpc' = "idle" /\ dom' = None
        /\ pos' = 0 /\ hdr' = NoHeaders /\ got' = Nothing /\ settled' = 0

(* display_domain_state, and the check of dumpCore: anything but a crash   *)
(* is not gone into.                                                       *)
getState(d, next) ==
    /\ mpc = "idle" /\ ipc[d].state \in Crashed /\ mpc' = next /\ dom' = d
    /\ settled' = IF cpu[d] \in {"halted", "dead"} /\ Drained(d) THEN run[d] ELSE 0
    /\ UNCHANGED <<ipc, pend, exe, segs, file>>

getCrashInfo ==
    /\ mpc = "info" /\ mpc' = "shown"
    /\ got' = [got EXCEPT !.fault = ipc[dom].fault]
    /\ UNCHANGED <<ipc, pend, exe, dom, segs, pos, hdr, settled>>

(* dumpCore maps the payload's memory; segments is initialised by the      *)
(* first call of the process that gets here.                               *)
dumpCore ==
    /\ mpc = "dump"
    /\ \/ Idle /\ UNCHANGED segs
       \/ /\ mpc' = "open"
          /\ segs' = IF segs = None THEN dom ELSE segs
          /\ UNCHANGED <<dom, file, settled>>
    /\ UNCHANGED <<ipc, pend, exe>>

(* A write that fails ends the dump; dumpCore succeeds all the same.       *)
WriteFails ==
    /\ mpc \in {"open", "psinfo", "status", "fpregs", "pad", "memory"}
    /\ Idle /\ UNCHANGED <<ipc, pend, exe, segs>>

PAGESIZE == 4096
EhdrSize == 64
PhdrSize == 56

(* Mutant: what is beyond the alignment, instead of what is missing to it. *)
padding_Excess(length, alignment) == length % alignment

(* The padding that aligns what follows length bytes.                      *)
padding(length, alignment) ==
    IF length % alignment = 0 THEN 0 ELSE alignment - (length % alignment)

(* write_note: header, "CORE" with its terminator, padding, descriptor.    *)
NoteSize(desc) == 12 + 5 + padding(5, 4) + desc
PrPsInfo == 136
PrStatus == 392
FpRegs == 528

(* The ELF header and the program headers, of the notes and one segment.   *)
WriteHeaders ==
    /\ mpc = "open" /\ mpc' = "psinfo"
    /\ LET offset == EhdrSize + 2 * PhdrSize
           filesz == 12 + 8 + PrPsInfo + 12 + 8 + PrStatus + 12 + 8 + FpRegs
       IN  hdr' = [noteOff |-> offset, noteSize |-> filesz,
                   loadOff |-> offset + padding(offset + filesz, PAGESIZE) + filesz,
                   loadSize |-> PayloadSize[segs], owner |-> segs]
    /\ pos' = EhdrSize + 2 * PhdrSize
    /\ UNCHANGED <<ipc, pend, exe, dom, segs, got, settled>>

WritePrPsInfo ==
    /\ mpc = "psinfo" /\ mpc' = "status"
    /\ pos' = pos + NoteSize(PrPsInfo) /\ got' = [got EXCEPT !.noteAt = pos]
    /\ UNCHANGED <<ipc, pend, exe, dom, segs, hdr, settled>>

WritePrStatus ==
    /\ mpc = "status" /\ mpc' = "fpregs"
    /\ pos' = pos + NoteSize(PrStatus) /\ got' = [got EXCEPT !.regs = ipc[dom].regs]
    /\ UNCHANGED <<ipc, pend, exe, dom, segs, hdr, settled>>

WriteFpRegs ==
    /\ mpc = "fpregs" /\ mpc' = "pad"
    /\ pos' = pos + NoteSize(FpRegs) /\ got' = [got EXCEPT !.fpregs = ipc[dom].regs]
    /\ UNCHANGED <<ipc, pend, exe, dom, segs, hdr, settled>>

WritePadding ==
    /\ mpc = "pad" /\ mpc' = "memory"
    /\ pos' = pos + padding(hdr.noteOff + hdr.noteSize, PAGESIZE)
    /\ UNCHANGED <<ipc, pend, exe, dom, segs, hdr, got, settled>>

(* The memory of the segment.  If segments is from an earlier call its     *)
(* mapping is gone: the pointer hits the present one, or the write fails,  *)
(* or the process ends.                                                    *)
WriteMemory ==
    /\ mpc = "memory" /\ mpc' = "written"
    /\ pos' = pos + hdr.loadSize
    /\ got' = [got EXCEPT !.mem = run[dom], !.loadAt = pos]
    /\ UNCHANGED <<ipc, pend, exe, dom, segs, hdr, settled>>

(* The process ends, also over a file that could not be opened.            *)
Exit == Idle /\ segs' = None /\ UNCHANGED <<ipc, pend, exe>>

Done == /\ mpc \in {"shown", "written"} /\ Idle
        /\ UNCHANGED <<ipc, pend, exe, segs>>

Manager == \/ getCrashInfo \/ dumpCore \/ WriteFails \/ WriteHeaders \/ WritePrPsInfo
           \/ WritePrStatus \/ WriteFpRegs \/ WritePadding \/ WriteMemory \/ Done \/ Exit
           \/ \E d \in Domains : getState(d, "info") \/ getState(d, "dump")

Next == \/ Manager
        \/ \E d \in Domains : \/ Executor(d) \/ reportCrash(d) \/ MonitorReady(d)
                              \/ \E w \in Words : Drain(d, w)

(* Stores become visible, and an exception handler runs to its end.        *)
Fairness == \A d \in Domains : /\ WF_vars(reportCrash(d)) /\ WF_vars(MonitorReady(d))
                               /\ \A w \in Words : WF_vars(Drain(d, w))
Spec == Init /\ [][Next]_vars /\ Fairness

-----------------------------------------------------------------------------
TypeOK ==
    /\ \A d \in Domains, w \in Words :
           LET type == IF w = "state" THEN Crashed \cup {"monitor_ready", "running_payload"}
                                      ELSE 0..MaxRuns
           IN  ipc[d][w] \in type /\ (w \in DOMAIN pend[d] => pend[d][w] \in type)
    /\ \A d \in Domains : DOMAIN ipc[d] = Words /\ DOMAIN pend[d] \subseteq Words
    /\ cpu \in [Domains -> {"ready", "el1", "vector", "halted", "dead", "boot"}]
    /\ run \in [Domains -> 0..MaxRuns] /\ sync \in [Domains -> BOOLEAN]
    /\ mpc \in {"idle", "info", "shown", "dump", "open", "psinfo", "status", "fpregs",
                "pad", "memory", "written"}
    /\ dom \in Domains \cup {None} /\ segs \in Domains \cup {None}
    /\ pos \in Nat /\ settled \in 0..MaxRuns

(* A crash is reported in full in the end, registers included if the       *)
(* exception was synchronous, unless the executor is killed first.         *)
ReportArrives ==
    \A d \in Domains :
        cpu[d] = "vector" ~> \/ cpu[d] = "boot"
                             \/ /\ ipc[d].state \in Crashed /\ ipc[d].fault = run[d]
                                /\ sync[d] => ipc[d].regs = run[d]

(* What a manager shows of a crash whose report was complete when it       *)
(* looked at the state, and whose executor is not restarted meanwhile, is  *)
(* of this crash: nothing is left over from an earlier execution.          *)
ShownIsOfCrash ==
    settled # 0 =>
        /\ mpc = "shown" => got.fault = settled
        /\ mpc = "written" /\ sync[dom] =>
               got.regs = settled /\ got.fpregs = settled /\ got.mem = settled

(* A core dump that is written to the end has its notes and its segment    *)
(* where the program headers say, the segment on a page boundary.          *)
HeadersMatchFile ==
    mpc = "written" =>
        /\ hdr.noteOff = got.noteAt
        /\ hdr.loadOff = got.loadAt /\ hdr.loadOff % PAGESIZE = 0
        /\ hdr.loadOff + hdr.loadSize = pos

(* A core dump describes the memory of the domain it was asked for.        *)
DumpIsOfDomain == mpc = "written" => hdr.owner = dom
=============================================================================
