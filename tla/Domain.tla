------------------------------- MODULE Domain -------------------------------
(***************************************************************************)
(* One executor domain of bmboot: a manager process on Linux drives, over  *)
(* a block of shared memory and one inter-processor interrupt, a monitor   *)
(* at EL3 which starts and kills a payload at EL1.                         *)
(*                                                                         *)
(* Every access to a word that the other side may write at the same time   *)
(* is an action of its own; code that touches only private state is folded *)
(* into the neighbouring access.  The manager is one process, which may be *)
(* killed between any two steps and started again (bmctl is such a         *)
(* process): nothing but the shared memory and the hardware survives it.   *)
(***************************************************************************)
EXTENDS Naturals

CONSTANTS
    SeqMod,      \* cmd_seq and cmd_ack wrap at this value (2^32 in the code)
    StartPolls,  \* polls of startPayloadAt before it gives up (100)
    AwaitPolls,  \* polls of awaitMonitorStartup before it gives up (50)
    Images,      \* what a client may load into the payload memory
    Header,      \* the checksum and header of each content of that memory
    Loads        \* the (image, request) pairs clients load and start

None == "none"
Dummy == "dummy"
Blank == "blank"                 \* payload memory that holds no whole image
Contents == Images \cup {Blank}

ImageHeaders == [crc : Nat, magicOk : BOOLEAN, major : Nat, minor : Nat]

(* What startPayloadAt is asked for.  entry stands for the address: in the *)
(* payload memory, the debugger's 0xbaadf00d, or outside of any memory (an *)
(* ELF file's entry point is never checked).                               *)
Requests == [entry : {"payload", Dummy, "wild"}, size : {0, 1}, crc : Nat]

ASSUME SeqAssumption == SeqMod \in Nat /\ SeqMod > 1
ASSUME PollAssumption == StartPolls \in Nat \ {0} /\ AwaitPolls \in Nat \ {0}
ASSUME ImageAssumption == /\ {None, Dummy, Blank} \cap Images = {}
                          /\ Header \in [Contents -> ImageHeaders]
                          /\ Loads \subseteq [img : Images, req : Requests]

VARIABLES
    \* manager_to_executor of the shared IpcBlock
    cmd, cmdSeq, req,
    \* executor_to_manager
    state, cmdAck, cmdResp,
    \* hardware: core reset bit, IPI pending / enabled, and two memories
    inReset, ipi, ier, cookie, mem,
    \* the core: program counter, validation result, what EL1 executes
    mpc, resp, run,
    \* the manager process: program counter, domain_general_state, the
    \* arguments of the call in progress, its poll counter and last result
    pc, gs, want, polls, res,
    \* history: the image that confirmed its start since the last entry to
    \* EL1; a call found monitor_ready with a start command unanswered; an
    \* IPI was sent and no command since
    confirmed, raced, killing

m2e == <<cmd, cmdSeq, req>>
e2m == <<state, cmdAck, cmdResp>>
hw == <<inReset, ipi, ier, cookie, mem>>
core == <<mpc, resp, run>>
mgr == <<pc, gs, want, polls, res>>
hist == <<confirmed, raced, killing>>
vars == <<m2e, e2m, hw, core, mgr, hist>>

DomainStates == {"in_reset", "monitor_ready", "starting_payload",
                 "running_payload", "crashed_payload", "crashed_monitor",
                 "unavailable", "invalid_state"}
GeneralStates == {"inReset", "unavailable", "monitorStarted"}
Responses == {"crc_ok", "crc_mismatched", "image_malformed", "abi_incompatible"}
(* io_error stands for configuration_file_error, dev_mem_access_failed and *)
(* mmap_failed.                                                            *)
Results == {None, "ok", "bad_domain_state", "hw_resource_unavailable",
            "payload_start_timed_out", "payload_checksum_mismatch",
            "payload_image_malformed", "payload_abi_incompatible",
            "payload_crashed_during_startup", "program_too_large",
            "monitor_start_timed_out", "io_error"}
MgrPcs == {"down", "idle", "su_code", "su_ipc", "su_boot", "su_gs", "tm_cmd",
           "tm_ipi", "await", "ld_mem", "sp_state", "sp_ack", "sp_args",
           "sp_seq", "sp_poll", "sp_watch"}
CorePcs == {"reset", "foreign", "boot", "boot_ipi", "boot_ready", "loop",
            "dispatch", "noop", "start", "validate", "respond", "ack", "enter",
            "rejected", "el1", "halted", "dead"}

ZeroRequest == [entry |-> "wild", size |-> 0, crc |-> 0]
DummyLoad == [img |-> Blank, req |-> [entry |-> Dummy, size |-> 0, crc |-> 0]]

(* Mutant: the counters do not wrap.                                       *)
NextSeq_NoWrap(n) == n + 1

(* The u32 increment of cmd_seq and cmd_ack.                               *)
NextSeq(n) == IF n + 1 = SeqMod THEN 0 ELSE n + 1

ABI_MAJOR == 2
ABI_MINOR == 0

(* The monitor's verdict on memory content m for request r: the CRC-32 of  *)
(* zero bytes is 0, so a request of size 0 (ELF) with crc 0 always passes  *)
(* the first test.                                                         *)
validatePayload(m, r) ==
    LET h == Header[m] IN
    IF (IF r.size = 0 THEN 0 ELSE h.crc) # r.crc THEN "crc_mismatched"
    ELSE IF ~h.magicOk THEN "image_malformed"
    ELSE IF h.major # ABI_MAJOR \/ h.minor > ABI_MINOR THEN "abi_incompatible"
    ELSE "crc_ok"

(* The manager's view: its cached general state first, then the IPC block. *)
getState == IF gs = "inReset" THEN "in_reset"
            ELSE IF gs = "unavailable" THEN "unavailable"
            ELSE state

-----------------------------------------------------------------------------
(* The core has never run, DDR may still hold the cookie of an earlier     *)
(* power cycle, or something that is not bmboot runs on the core.  State   *)
(* and sequence numbers in the IPC block are whatever the memory holds.    *)
Init ==
    /\ cmd = "noop" /\ cmdSeq \in 0..SeqMod-1 /\ req = ZeroRequest
    /\ state \in DomainStates /\ cmdAck \in 0..SeqMod-1 /\ cmdResp = "crc_ok"
    /\ inReset \in BOOLEAN /\ cookie \in BOOLEAN
    /\ ~inReset => ~cookie
    /\ ipi = FALSE /\ ier = FALSE /\ mem = Blank
    /\ mpc = (IF inReset THEN "reset" ELSE "foreign")
    /\ resp = "crc_ok" /\ run = None
    /\ pc = "down" /\ gs = "unavailable" /\ want = DummyLoad
    /\ polls = 0 /\ res = None
    /\ confirmed = None /\ raced = FALSE /\ killing = FALSE

-----------------------------------------------------------------------------
(* The manager process.                                                    *)

(* A call returns: its arguments and counters are gone.                    *)
Return(r) == pc' = "idle" /\ res' = r /\ want' = DummyLoad /\ polls' = 0
Call(p, l) == pc' = p /\ res' = None /\ want' = l /\ polls' = 0
(* Mutant: the loop does not count its polls.                              *)
PollAgain_Uncounted(p) == pc' = p /\ UNCHANGED <<want, polls, res>>
PollAgain(p) == pc' = p /\ polls' = polls + 1 /\ UNCHANGED <<want, res>>
Goto(p) == pc' = p /\ res' = None /\ UNCHANGED <<want, polls>>

(* IDomain::open: the reset bit first, the cookie second.                  *)
Open ==
    /\ pc = "down"
    /\ gs' = IF inReset THEN "inReset"
             ELSE IF cookie THEN "monitorStarted" ELSE "unavailable"
    /\ Goto("idle")
    /\ UNCHANGED <<m2e, e2m, hw, core, hist>>

(* The process is killed, between any two steps.                           *)
Die ==
    /\ pc # "down"
    /\ pc' = "down" /\ gs' = "unavailable"
    /\ want' = DummyLoad /\ polls' = 0 /\ res' = None
    /\ UNCHANGED <<m2e, e2m, hw, core, hist>>

(* The checks of startup, and of terminatePayload: both are also reached   *)
(* through ensureReadyToLoadPayload.                                       *)
EnterStartup ==
    \/ Return("io_error")
    \/ gs # "inReset" /\ Return("bad_domain_state")
    \/ gs = "inReset" /\ Goto("su_code")

EnterTerminate ==
    \/ gs # "monitorStarted" /\ Return("bad_domain_state")
    \/ gs = "monitorStarted" /\ (Return("io_error") \/ Goto("tm_cmd"))

startup ==
    /\ pc = "idle" /\ EnterStartup
    /\ UNCHANGED <<m2e, e2m, hw, core, gs, hist>>

terminatePayload ==
    /\ pc = "idle" /\ EnterTerminate
    /\ UNCHANGED <<m2e, e2m, hw, core, gs, hist>>

PayloadStates == {"crashed_payload", "running_payload", "starting_payload"}

ensureReadyToLoadPayload ==
    /\ pc = "idle"
    /\ \/ getState = "in_reset" /\ EnterStartup
       \/ getState = "monitor_ready" /\ Return("ok")
       \/ getState \in PayloadStates /\ EnterTerminate
       \/ /\ getState \notin {"in_reset", "monitor_ready"} \cup PayloadStates
          /\ Return("bad_domain_state")
    /\ UNCHANGED <<m2e, e2m, hw, core, gs, hist>>

(* startup: monitor code and cookie are written, then the IPC block is     *)
(* cleared, then the core is released, then the general state is updated.  *)
StartupWriteCode ==
    /\ pc = "su_code" /\ Goto("su_ipc")
    /\ cookie' = TRUE
    /\ UNCHANGED <<m2e, e2m, inReset, ipi, ier, mem, core, gs, hist>>

StartupClearIpc ==
    /\ pc = "su_ipc" /\ Goto("su_boot")
    /\ cmd' = "noop" /\ cmdSeq' = 0 /\ req' = ZeroRequest
    /\ state' = "invalid_state" /\ cmdAck' = 0 /\ cmdResp' = "crc_ok"
    /\ UNCHANGED <<hw, core, gs, hist>>

bootCore ==
    /\ pc = "su_boot"
    /\ \/ Return("io_error") /\ UNCHANGED <<inReset, mpc>>
       \/ ~inReset /\ Return("hw_resource_unavailable") /\ UNCHANGED <<inReset, mpc>>
       \/ inReset /\ inReset' = FALSE /\ mpc' = "boot" /\ Goto("su_gs")
    /\ UNCHANGED <<m2e, e2m, ipi, ier, cookie, mem, resp, run, gs, hist>>

StartupSetGeneralState ==
    /\ pc = "su_gs" /\ Goto("await")
    /\ gs' = "monitorStarted"
    /\ UNCHANGED <<m2e, e2m, hw, core, hist>>

(* One turn of the loop of awaitMonitorStartup.                            *)
awaitMonitorStartup ==
    /\ pc = "await"
    /\ IF getState = "monitor_ready" THEN Return("ok")
       ELSE IF polls + 1 = AwaitPolls THEN Return("monitor_start_timed_out")
       ELSE PollAgain("await")
    /\ UNCHANGED <<m2e, e2m, hw, core, gs, hist>>

(* Mutant: the pending command is left in place.                           *)
TerminateClearCommand_Skipped ==
    /\ pc = "tm_cmd" /\ Goto("tm_ipi")
    /\ UNCHANGED <<m2e, e2m, hw, core, gs, hist>>

TerminateClearCommand ==
    /\ pc = "tm_cmd" /\ Goto("tm_ipi")
    /\ cmd' = "noop"
    /\ UNCHANGED <<cmdSeq, req, e2m, hw, core, gs, hist>>

sendIpiMessage ==
    /\ pc = "tm_ipi" /\ Goto("await")
    /\ ipi' = TRUE /\ killing' = TRUE
    /\ UNCHANGED <<m2e, e2m, inReset, ier, cookie, mem, core, gs, confirmed, raced>>

(* A start command was sent and the monitor has not answered it: it is in  *)
(* the inbox, or the monitor read it before it was taken back.             *)
Unanswered == cmdSeq # cmdAck /\ (cmd = "start_payload" \/ mpc = "start")

(* Mutant: a load does not look at the state of the domain.                *)
load_Unchecked(l) ==
    /\ pc = "idle" /\ Call("ld_mem", l)
    /\ UNCHANGED <<m2e, e2m, hw, core, gs, hist>>

(* loadAndStartPayload and loadElfPayload up to the copy: a too large      *)
(* image or an I/O error is refused before anything is written.            *)
load(l) ==
    /\ pc = "idle"
    /\ \/ /\ getState # "monitor_ready" /\ Return("bad_domain_state")
          /\ UNCHANGED raced
       \/ /\ getState = "monitor_ready"
          /\ Return("program_too_large") \/ Return("io_error")
          /\ UNCHANGED raced
       \/ /\ getState = "monitor_ready" /\ Call("ld_mem", l)
          /\ raced' = (raced \/ Unanswered)
    /\ UNCHANGED <<m2e, e2m, hw, core, gs, polls, confirmed, killing>>

(* The copy; that of an ELF file (size 0) can stop half way.               *)
LoadCopy ==
    /\ pc = "ld_mem"
    /\ \/ Goto("sp_state") /\ mem' = want.img
       \/ /\ want.req.size = 0
          /\ Return("program_too_large") /\ mem' = Blank
    /\ UNCHANGED <<m2e, e2m, inReset, ipi, ier, cookie, core, gs, hist>>

startDummyPayload ==
    /\ pc = "idle" /\ Call("sp_state", DummyLoad)
    /\ UNCHANGED <<m2e, e2m, hw, core, gs, hist>>

(* Mutants: startPayloadAt without its first, and without its second check. *)
StartCheckState_Skipped ==
    /\ pc = "sp_state" /\ Goto("sp_ack")
    /\ UNCHANGED <<m2e, e2m, hw, core, gs, hist>>
StartCheckAck_Skipped ==
    /\ pc = "sp_ack" /\ Goto("sp_args")
    /\ UNCHANGED <<m2e, e2m, hw, core, gs, hist>>

(* startPayloadAt: two checks, the arguments and the command, the sequence *)
(* number, then a loop that looks at cmd_ack / cmd_resp and at the state.  *)
StartCheckState ==
    /\ pc = "sp_state"
    /\ IF getState # "monitor_ready" THEN Return("bad_domain_state") /\ UNCHANGED raced
       ELSE Goto("sp_ack") /\ raced' = (raced \/ Unanswered)
    /\ UNCHANGED <<m2e, e2m, hw, core, gs, confirmed, killing>>

StartCheckAck ==
    /\ pc = "sp_ack"
    /\ IF cmdAck # cmdSeq THEN Return("bad_domain_state") ELSE Goto("sp_args")
    /\ UNCHANGED <<m2e, e2m, hw, core, gs, hist>>

StartWriteCommand ==
    /\ pc = "sp_args" /\ Goto("sp_seq")
    /\ req' = want.req /\ cmd' = "start_payload"
    /\ UNCHANGED <<cmdSeq, e2m, hw, core, gs, hist>>

StartBumpSeq ==
    /\ pc = "sp_seq" /\ Goto("sp_poll")
    /\ cmdSeq' = NextSeq(cmdSeq) /\ killing' = FALSE
    /\ UNCHANGED <<cmd, req, e2m, hw, core, gs, confirmed, raced>>

HandleResponse ==
    \/ cmdResp = "crc_ok" /\ Goto("sp_watch")
    \/ cmdResp = "crc_mismatched" /\ Return("payload_checksum_mismatch")
    \/ cmdResp = "image_malformed" /\ Return("payload_image_malformed")
    \/ cmdResp = "abi_incompatible" /\ Return("payload_abi_incompatible")

(* Mutant: cmd_resp is believed before the command is acknowledged.        *)
StartPollAck_Unsynchronised ==
    /\ pc = "sp_poll"
    /\ HandleResponse
    /\ UNCHANGED <<m2e, e2m, hw, core, gs, hist>>

StartPollAck ==
    /\ pc = "sp_poll"
    /\ IF cmdAck = cmdSeq THEN HandleResponse ELSE Goto("sp_watch")
    /\ UNCHANGED <<m2e, e2m, hw, core, gs, hist>>

StartPollState ==
    /\ pc = "sp_watch"
    /\ IF getState = "running_payload" THEN Return("ok")
       ELSE IF getState = "crashed_payload" THEN Return("payload_crashed_during_startup")
       ELSE IF polls + 1 = StartPolls THEN Return("payload_start_timed_out")
       ELSE PollAgain("sp_poll")
    /\ UNCHANGED <<m2e, e2m, hw, core, gs, hist>>

ClientCall == \/ startup \/ terminatePayload \/ ensureReadyToLoadPayload
              \/ startDummyPayload \/ \E l \in Loads : load(l)

ManagerStep == \/ StartupWriteCode \/ StartupClearIpc \/ bootCore
               \/ StartupSetGeneralState \/ awaitMonitorStartup
               \/ TerminateClearCommand \/ sendIpiMessage
               \/ LoadCopy \/ StartCheckState \/ StartCheckAck
               \/ StartWriteCommand \/ StartBumpSeq
               \/ StartPollAck \/ StartPollState

-----------------------------------------------------------------------------
(* The core: monitor at EL3.                                               *)

(* _boot up to enableCpuInterrupts, which unmasks FIQ.                     *)
MonitorBoot ==
    /\ mpc = "boot" /\ mpc' = "boot_ipi"
    /\ UNCHANGED <<m2e, e2m, hw, resp, run, mgr, hist>>

(* The rest of setupInterrupts: pending requests are dropped, and          *)
(* reception (which survives a reboot of the monitor) is enabled.          *)
enableIpiReception ==
    /\ mpc = "boot_ipi" /\ mpc' = "boot_ready"
    /\ ipi' = FALSE /\ ier' = TRUE
    /\ UNCHANGED <<m2e, e2m, inReset, cookie, mem, resp, run, mgr, hist>>

MonitorReady ==
    /\ mpc = "boot_ready" /\ mpc' = "loop"
    /\ state' = "monitor_ready" /\ confirmed' = None
    /\ UNCHANGED <<m2e, cmdAck, cmdResp, hw, resp, run, mgr, raced, killing>>

MonitorPoll ==
    /\ mpc = "loop" /\ cmdSeq # cmdAck /\ mpc' = "dispatch"
    /\ UNCHANGED <<m2e, e2m, hw, resp, run, mgr, hist>>

(* The switch reads the command; what it then does, it does even if the    *)
(* manager replaces the command in between.                                *)
MonitorDispatch ==
    /\ mpc = "dispatch" /\ mpc' = (IF cmd = "noop" THEN "noop" ELSE "start")
    /\ UNCHANGED <<m2e, e2m, hw, resp, run, mgr, hist>>

(* Mutant: a noop is not acknowledged.                                     *)
MonitorNoop_Silent ==
    /\ mpc = "noop" /\ mpc' = "loop"
    /\ UNCHANGED <<m2e, e2m, hw, resp, run, mgr, hist>>

MonitorNoop ==
    /\ mpc = "noop" /\ mpc' = "loop"
    /\ cmdAck' = NextSeq(cmdAck)
    /\ UNCHANGED <<m2e, state, cmdResp, hw, resp, run, mgr, hist>>

(* Mutant: the state is not updated before the image is validated.         *)
MonitorStartPayload_Late ==
    /\ mpc = "start" /\ mpc' = "validate"
    /\ UNCHANGED <<m2e, e2m, hw, resp, run, mgr, hist>>

MonitorStartPayload ==
    /\ mpc = "start" /\ mpc' = "validate"
    /\ state' = "starting_payload"
    /\ UNCHANGED <<m2e, cmdAck, cmdResp, hw, resp, run, mgr, hist>>

(* The dummy payload is entered at once and its command never answered; an *)
(* entry address outside of memory aborts the monitor as it reads the      *)
(* header.                                                                 *)
MonitorValidate ==
    /\ mpc = "validate"
    /\ \/ /\ req.entry = Dummy
          /\ mpc' = "el1" /\ run' = Dummy
          /\ UNCHANGED <<resp, state>>
       \/ /\ req.entry = "wild"
          /\ mpc' = "dead" /\ state' = "crashed_monitor"
          /\ UNCHANGED <<resp, run>>
       \/ /\ req.entry = "payload"
          /\ mpc' = "respond" /\ resp' = validatePayload(mem, req)
          /\ UNCHANGED <<run, state>>
    /\ UNCHANGED <<m2e, cmdAck, cmdResp, hw, mgr, hist>>

MonitorRespond ==
    /\ mpc = "respond" /\ mpc' = "ack"
    /\ cmdResp' = resp
    /\ UNCHANGED <<m2e, state, cmdAck, hw, resp, run, mgr, hist>>

MonitorAck ==
    /\ mpc = "ack"
    /\ cmdAck' = NextSeq(cmdAck)
    /\ mpc' = (IF resp = "crc_ok" THEN "enter" ELSE "rejected") /\ resp' = "crc_ok"
    /\ UNCHANGED <<m2e, state, cmdResp, hw, run, mgr, hist>>

(* The entry address is read a second time.                                *)
enterEL1Payload ==
    /\ mpc = "enter" /\ mpc' = "el1"
    /\ run' = (IF req.entry = "payload" THEN mem ELSE Blank)
    /\ UNCHANGED <<m2e, e2m, hw, resp, mgr, hist>>

MonitorReject ==
    /\ mpc = "rejected" /\ mpc' = "loop"
    /\ state' = "monitor_ready"
    /\ UNCHANGED <<m2e, cmdAck, cmdResp, hw, resp, run, mgr, hist>>

(* Mutant: FIQ is not routed to EL3 while the payload executes.            *)
Unmasked_MonitorOnly == CorePcs \ {"reset", "foreign", "boot", "dead", "el1", "halted"}

(* FIQ is unmasked in the monitor's main program and at EL1; exception     *)
(* handlers, and the crash loops they end in, run with it masked.          *)
Unmasked == CorePcs \ {"reset", "foreign", "boot", "dead"}

(* The IPI from the manager: acknowledged, and the monitor restarted.      *)
FIQInterrupt ==
    /\ ipi /\ ier /\ mpc \in Unmasked
    /\ ipi' = FALSE /\ mpc' = "boot" /\ run' = None /\ resp' = "crc_ok"
    /\ UNCHANGED <<m2e, e2m, inReset, ier, cookie, mem, mgr, hist>>

(* An unhandled SMC, an SError or a stray IRQ at EL3: the monitor reports  *)
(* its own crash and stays in a loop with interrupts masked.               *)
MonitorCrash ==
    /\ mpc \in Unmasked
    /\ mpc' = "dead" /\ run' = None /\ resp' = "crc_ok"
    /\ state' = "crashed_monitor"
    /\ UNCHANGED <<m2e, cmdAck, cmdResp, hw, mgr, hist>>

-----------------------------------------------------------------------------
(* The payload at EL1, an arbitrary program: any SMC at any time.          *)

reportPayloadStarted ==
    /\ mpc = "el1" /\ run # Dummy
    /\ state' = "running_payload" /\ confirmed' = run
    /\ UNCHANGED <<m2e, cmdAck, cmdResp, hw, core, mgr, raced, killing>>

(* SMC_NOTIFY_PAYLOAD_CRASHED returns to EL1: a program that calls it      *)
(* goes on, the exception vectors loop for ever after it.                  *)
reportCrash ==
    /\ mpc = "el1" /\ run # Dummy
    /\ state' = "crashed_payload" /\ mpc' \in {"el1", "halted"}
    /\ UNCHANGED <<m2e, cmdAck, cmdResp, hw, resp, run, mgr, hist>>

MonitorStep == \/ MonitorBoot \/ enableIpiReception \/ MonitorReady
               \/ MonitorPoll \/ MonitorDispatch \/ MonitorNoop
               \/ MonitorStartPayload \/ MonitorValidate \/ MonitorRespond \/ MonitorAck
               \/ enterEL1Payload \/ MonitorReject

Payload == reportPayloadStarted \/ reportCrash

Next == \/ Open \/ Die \/ ClientCall \/ ManagerStep
        \/ MonitorStep \/ FIQInterrupt \/ MonitorCrash \/ Payload

Spec == Init /\ [][Next]_vars

(* Scheduling: Linux runs the manager, the core executes the monitor, and  *)
(* an unmasked interrupt is taken.  Nothing is assumed of clients or of    *)
(* the payload.                                                            *)
Fairness == WF_vars(ManagerStep) /\ WF_vars(MonitorStep) /\ WF_vars(FIQInterrupt)
FairSpec == Spec /\ Fairness

-----------------------------------------------------------------------------
TypeOK ==
    /\ cmd \in {"noop", "start_payload"} /\ cmdSeq \in 0..SeqMod-1
    /\ req \in Requests
    /\ state \in DomainStates /\ cmdAck \in 0..SeqMod-1 /\ cmdResp \in Responses
    /\ inReset \in BOOLEAN /\ ipi \in BOOLEAN /\ ier \in BOOLEAN
    /\ cookie \in BOOLEAN /\ mem \in Contents
    /\ mpc \in CorePcs /\ resp \in Responses
    /\ run \in Contents \cup {Dummy, None}
    /\ pc \in MgrPcs /\ gs \in GeneralStates
    /\ want \in [img : Contents, req : Requests]
    /\ polls \in Nat /\ res \in Results
    /\ confirmed \in Contents \cup {None}
    /\ raced \in BOOLEAN /\ killing \in BOOLEAN

(* bmboot's monitor has been released from reset on this core.             *)
Booted == mpc \notin {"reset", "foreign"}

(* At most one command is outstanding, across time-outs, reboots of the    *)
(* monitor, deaths of the manager and wrap-around: cmd_seq is never        *)
(* behind cmd_ack nor more than one ahead, so one bit of it would do.      *)
OneOutstanding == Booted => cmdSeq \in {cmdAck, NextSeq(cmdAck)}

(* A domain that reports monitor_ready executes no payload and is not      *)
(* about to enter one, unless an earlier start command is still            *)
(* unanswered.                                                             *)
ReadyMeansIdle ==
    Booted /\ state = "monitor_ready" =>
        \/ mpc \in {"boot", "boot_ipi", "boot_ready", "loop"}
        \/ mpc \in {"dispatch", "noop", "start"} /\ cmdSeq # cmdAck

(* When a start call reports a rejection, the monitor rejected the image   *)
(* of this call, and for the reason given: no answer to an earlier command *)
(* is taken for an answer to this one.                                     *)
VerdictIsMine ==
    [][LET verdict == validatePayload(want.img, want.req) IN
       pc = "sp_poll" /\ pc' = "idle" /\ ~raced =>
           /\ res' = "payload_checksum_mismatch" => verdict = "crc_mismatched"
           /\ res' = "payload_image_malformed" => verdict = "image_malformed"
           /\ res' = "payload_abi_incompatible" => verdict = "abi_incompatible"]_vars

(* What executes at EL1 passed validation against the request in the IPC   *)
(* block, and its memory has not been overwritten since: as long as no     *)
(* load or start found monitor_ready while an earlier start command was    *)
(* unanswered, the monitor having read it or not.                          *)
PayloadIntact ==
    ~raced /\ mpc \in {"el1", "halted"} /\ run # Dummy =>
        run = mem /\ validatePayload(run, req) = "crc_ok"

(* Once the kill interrupt is sent, nothing executes at EL1 except under   *)
(* an interrupt that is still pending, until a client starts something     *)
(* new.  A start command abandoned before is not revived by the reboot.    *)
KillHolds ==
    killing /\ mpc \in {"enter", "el1", "halted"} => ipi

(* startPayloadAt returns success only if the very image of the call has   *)
(* confirmed its start-up.                                                 *)
StartOkMeansConfirmed ==
    [][pc = "sp_watch" /\ pc' = "idle" /\ res' = "ok" /\ ~raced
         => confirmed = want.img]_vars

(* The kill interrupt brings the monitor back to monitor_ready, whatever   *)
(* the payload does, unless the monitor crashed, the client starts another *)
(* payload first or keeps interrupting the monitor's reboot.               *)
KillTakesEffect ==
    <>[](pc # "tm_ipi") =>
        (killing ~> \/ ~killing \/ mpc = "dead"
                    \/ mpc = "loop" /\ state = "monitor_ready" /\ ~ipi)

(* Every command is answered, even one the monitor was killed over, unless *)
(* the monitor crashed, entered the dummy payload (which it never answers  *)
(* for), is interrupted for ever, or the command was sent on a stale       *)
(* monitor_ready.                                                          *)
CommandAnswered ==
    <>[](pc # "tm_ipi") =>
        (Booted ~> cmdSeq = cmdAck \/ mpc = "dead" \/ run = Dummy \/ raced)

(* Every call returns, or its process dies: no wait of the manager is      *)
(* unbounded.                                                              *)
CallsReturn == pc \notin {"idle", "down"} ~> pc \in {"idle", "down"}

(* The domain as its clients see it: the core's reset line, and what it    *)
(* reports once it executes the monitor.                                   *)
Life == INSTANCE DomainLife WITH
            life <- IF mpc = "reset" THEN "off"
                    ELSE IF mpc = "foreign" THEN "foreign" ELSE state,
            restart <- (ipi \/ mpc \in {"boot", "boot_ipi", "boot_ready"})

(* Manager, monitor, interrupt and payload together follow the life cycle  *)
(* of DomainLife: a payload's domain becomes ready only through a restart  *)
(* of the monitor or a refusal, and no payload reports from a domain that  *)
(* was not starting one.                                                   *)
FollowsLifeCycle == Life!LifeSpec
=============================================================================
