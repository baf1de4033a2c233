---------------------------- MODULE DomainProofs ----------------------------
(* Proofs about Domain, for every image set, modulus and poll limit.       *)
EXTENDS Domain, TLAPS

(* The sequence counters stay in their range, and a step changes them.     *)
LEMMA NextSeqType ==
    ASSUME NEW n \in 0..SeqMod-1
    PROVE  NextSeq(n) \in 0..SeqMod-1 /\ NextSeq(n) # n
  BY SeqAssumption DEF NextSeq

(* validatePayload answers with one of the four responses.                 *)
LEMMA ValidateType ==
    ASSUME NEW m \in Contents, NEW r \in Requests
    PROVE  validatePayload(m, r) \in Responses
  BY DEF validatePayload, Responses

(* The arguments of startDummyPayload are arguments of startPayloadAt.     *)
LEMMA DummyLoadType == DummyLoad \in [img : Contents, req : Requests]
  BY DEF DummyLoad, Contents, Requests, Dummy

(* The request in a cleared IPC block is well formed.                      *)
LEMMA ZeroRequestType == ZeroRequest \in Requests
  BY DEF ZeroRequest, Requests

(* Every variable keeps its type.                                          *)
THEOREM TypeCorrect == Spec => []TypeOK
<1>1. Init => TypeOK
  <2> SUFFICES ASSUME Init PROVE TypeOK
    OBVIOUS
  <2>1. req \in Requests /\ want \in [img : Contents, req : Requests]
    BY DummyLoadType, ZeroRequestType DEF Init
  <2>2. mpc \in CorePcs
    BY DEF Init, CorePcs
  <2>3. {inReset, ipi, ier, cookie, raced, killing} \subseteq BOOLEAN
    BY Zenon DEF Init
  <2> QED BY <2>1, <2>2, <2>3
          DEF Init, TypeOK, Contents, Responses, MgrPcs, GeneralStates, Results
<1>2. TypeOK /\ [Next]_vars => TypeOK'
  <2> SUFFICES ASSUME TypeOK, [Next]_vars PROVE TypeOK'
    OBVIOUS
  <2> USE DEF TypeOK, m2e, e2m, hw, core, mgr, hist, Return, Goto, Call, PollAgain
  <2>1. CASE Open
    BY <2>1 DEF Open, GeneralStates, MgrPcs, Results
  <2>2. CASE Die
    BY <2>2, DummyLoadType DEF Die, GeneralStates, MgrPcs, Results
  <2>3. CASE ClientCall
    <3>1. CASE startup
      BY <3>1, DummyLoadType DEF startup, EnterStartup, MgrPcs, Results
    <3>2. CASE terminatePayload
      BY <3>2, DummyLoadType DEF terminatePayload, EnterTerminate, MgrPcs, Results
    <3>3. CASE ensureReadyToLoadPayload
      BY <3>3, DummyLoadType
      DEF ensureReadyToLoadPayload, EnterStartup, EnterTerminate, MgrPcs, Results
    <3>4. CASE startDummyPayload
      BY <3>4, DummyLoadType DEF startDummyPayload, MgrPcs, Results
    <3>5. ASSUME NEW l \in Loads, load(l) PROVE TypeOK'
      <4>1. l \in [img : Contents, req : Requests]
        BY ImageAssumption DEF Contents
      <4>2. raced' \in BOOLEAN
        BY <3>5, Zenon DEF load
      <4> QED BY <3>5, <4>1, <4>2, DummyLoadType DEF load, MgrPcs, Results
    <3> QED BY <2>3, <3>1, <3>2, <3>3, <3>4, <3>5 DEF ClientCall
  <2>4. CASE ManagerStep
    <3>1. CASE StartupWriteCode
      BY <3>1 DEF StartupWriteCode, MgrPcs, Results
    <3>2. CASE StartupClearIpc
      BY <3>2, SeqAssumption, ZeroRequestType
      DEF StartupClearIpc, DomainStates, Responses, MgrPcs, Results
    <3>3. CASE bootCore
      <4>1. inReset' \in BOOLEAN
        BY <3>3, Zenon DEF bootCore
      <4>2. mpc' \in CorePcs
        BY <3>3 DEF bootCore, CorePcs
      <4>3. pc' \in MgrPcs /\ res' \in Results
        BY <3>3 DEF bootCore, MgrPcs, Results
      <4>4. want' \in [img : Contents, req : Requests] /\ polls' \in Nat
        BY <3>3, DummyLoadType DEF bootCore
      <4> QED BY <3>3, <4>1, <4>2, <4>3, <4>4 DEF bootCore
    <3>4. CASE StartupSetGeneralState
      BY <3>4 DEF StartupSetGeneralState, GeneralStates, MgrPcs, Results
    <3>5. CASE awaitMonitorStartup
      BY <3>5, DummyLoadType DEF awaitMonitorStartup, MgrPcs, Results
    <3>6. CASE TerminateClearCommand
      BY <3>6 DEF TerminateClearCommand, MgrPcs, Results
    <3>7. CASE sendIpiMessage
      BY <3>7 DEF sendIpiMessage, MgrPcs, Results
    <3>8. CASE LoadCopy
      BY <3>8, DummyLoadType DEF LoadCopy, Contents, MgrPcs, Results
    <3>9. CASE StartCheckState
      <4>1. raced' \in BOOLEAN
        BY <3>9, Zenon DEF StartCheckState
      <4> QED BY <3>9, <4>1, DummyLoadType DEF StartCheckState, MgrPcs, Results
    <3>10. CASE StartCheckAck
      BY <3>10, DummyLoadType DEF StartCheckAck, MgrPcs, Results
    <3>11. CASE StartWriteCommand
      BY <3>11 DEF StartWriteCommand, MgrPcs, Results
    <3>12. CASE StartBumpSeq
      BY <3>12, NextSeqType DEF StartBumpSeq, MgrPcs, Results
    <3>13. CASE StartPollAck
      BY <3>13, DummyLoadType DEF StartPollAck, HandleResponse, MgrPcs, Results
    <3>14. CASE StartPollState
      BY <3>14, DummyLoadType DEF StartPollState, MgrPcs, Results
    <3> QED BY <2>4, <3>1, <3>2, <3>3, <3>4, <3>5, <3>6, <3>7, <3>8, <3>9,
               <3>10, <3>11, <3>12, <3>13, <3>14 DEF ManagerStep
  <2>5. CASE MonitorStep
    <3>1. CASE MonitorBoot
      BY <3>1 DEF MonitorBoot, CorePcs
    <3>2. CASE enableIpiReception
      BY <3>2 DEF enableIpiReception, CorePcs
    <3>3. CASE MonitorReady
      BY <3>3 DEF MonitorReady, CorePcs, DomainStates
    <3>4. CASE MonitorPoll
      BY <3>4 DEF MonitorPoll, CorePcs
    <3>5. CASE MonitorNoop
      BY <3>5, NextSeqType DEF MonitorNoop, CorePcs
    <3>6. CASE MonitorStartPayload
      BY <3>6 DEF MonitorStartPayload, CorePcs, DomainStates
    <3>7. CASE MonitorValidate
      BY <3>7, ValidateType DEF MonitorValidate, CorePcs, DomainStates
    <3>8. CASE MonitorRespond
      BY <3>8 DEF MonitorRespond, CorePcs
    <3>9. CASE MonitorAck
      BY <3>9, NextSeqType DEF MonitorAck, CorePcs, Responses
    <3>10. CASE enterEL1Payload
      BY <3>10 DEF enterEL1Payload, CorePcs, Contents
    <3>11. CASE MonitorReject
      BY <3>11 DEF MonitorReject, CorePcs, DomainStates
    <3>12. CASE MonitorDispatch
      BY <3>12 DEF MonitorDispatch, CorePcs
    <3> QED BY <2>5, <3>1, <3>2, <3>3, <3>4, <3>5, <3>6, <3>7, <3>8, <3>9,
               <3>10, <3>11, <3>12 DEF MonitorStep
  <2>6. CASE FIQInterrupt
    BY <2>6 DEF FIQInterrupt, CorePcs, Responses
  <2>7. CASE MonitorCrash
    BY <2>7 DEF MonitorCrash, CorePcs, Responses, DomainStates
  <2>8. CASE Payload
    <3>1. CASE reportPayloadStarted
      BY <3>1 DEF reportPayloadStarted, DomainStates
    <3>2. CASE reportCrash
      BY <3>2 DEF reportCrash, DomainStates, CorePcs
    <3> QED BY <2>8, <3>1, <3>2 DEF Payload
  <2>9. CASE UNCHANGED vars
    BY <2>9 DEF vars
  <2> QED BY <2>1, <2>2, <2>3, <2>4, <2>5, <2>6, <2>7, <2>8, <2>9 DEF Next
<1> QED BY <1>1, <1>2, PTL DEF Spec

-----------------------------------------------------------------------------
(* The inductive invariant.  Where the core stands when no payload is being *)
(* started, and where it stands between reading a command and answering it. *)
Resting == {"boot", "boot_ipi", "boot_ready", "loop", "dispatch", "noop", "start"}
Answering == {"dispatch", "noop", "start", "validate", "respond", "ack"}
Starting == {"start", "validate", "respond", "ack", "enter", "el1", "halted"}

(* The cached general state is right about the core; a call that passed the *)
(* check of that state runs under the state it found.                       *)
GeneralStateInv ==
    /\ inReset <=> mpc = "reset"
    /\ mpc = "foreign" => ~cookie
    /\ gs = "inReset" => inReset \/ pc = "su_gs"
    /\ gs = "monitorStarted" => Booted
    /\ pc = "su_gs" => Booted
    /\ pc \in {"su_code", "su_ipc", "su_boot", "su_gs"} => gs = "inReset"
    /\ pc \in {"await", "tm_cmd", "tm_ipi", "ld_mem", "sp_ack", "sp_args",
               "sp_seq", "sp_poll", "sp_watch"} => gs = "monitorStarted"

(* The handshake: cmd_ack moves only towards a cmd_seq that is ahead of it. *)
HandshakeInv ==
    /\ OneOutstanding
    /\ pc = "su_boot" => cmdSeq = cmdAck
    /\ mpc \in Answering => cmdSeq # cmdAck
    /\ pc \in {"sp_args", "sp_seq"} => cmdSeq = cmdAck
    /\ Booted /\ state = "monitor_ready" => mpc \in Resting

(* The kill: no start command is left for the monitor to find.              *)
KillInv ==
    /\ pc = "tm_ipi" => cmd = "noop"
    /\ killing => cmd = "noop" \/ cmdSeq = cmdAck
    /\ killing /\ mpc \in Starting => ipi

(* Between the check of the state and the command, the core is at rest and  *)
(* has nothing to start.                                                    *)
Quiet == /\ mpc \in Resting \cup {"dead"}
         /\ ~Unanswered
         /\ state \in {"monitor_ready", "crashed_monitor"}

(* The image: what is in memory is what the request in the IPC block        *)
(* describes, from validation to execution.                                 *)
ImageInv ==
    /\ pc \in {"ld_mem", "sp_ack", "sp_args", "sp_seq"} => Quiet
    /\ mpc \in {"respond", "ack", "enter"} => req.entry = "payload"
    /\ mpc \in {"respond", "ack"} => resp = validatePayload(mem, req)
    /\ mpc = "enter" => validatePayload(mem, req) = "crc_ok"
    /\ mpc \in {"el1", "halted"} /\ run # Dummy =>
           /\ req.entry = "payload" /\ run = mem
           /\ validatePayload(mem, req) = "crc_ok"

(* The call: while it waits, the IPC block and the memory are those of the  *)
(* call, and what it sees there are answers to its own command.             *)
CallInv ==
    /\ want \in Loads \cup {DummyLoad}
    /\ pc \in {"sp_state", "sp_ack", "sp_args", "sp_seq", "sp_poll", "sp_watch"}
          => want = DummyLoad \/ mem = want.img
    /\ pc \in {"sp_seq", "sp_poll", "sp_watch"} => req = want.req /\ cmd = "start_payload"
    /\ pc \in {"sp_poll", "sp_watch"} => mpc # "noop"
    /\ mpc = "ack" => cmdResp = resp
    /\ pc \in {"sp_poll", "sp_watch"} /\ cmdSeq = cmdAck =>
           req.entry = "payload" /\ cmdResp = validatePayload(mem, req)
    /\ pc \in {"sp_poll", "sp_watch"} /\ state = "running_payload" =>
           confirmed = want.img

UnracedInv == ~raced => ImageInv /\ CallInv

-----------------------------------------------------------------------------
(* The manager sees monitor_ready only in the IPC block of a core that it   *)
(* believes to run the monitor.                                             *)
LEMMA ReadySeen ==
    ASSUME TypeOK, getState = "monitor_ready"
    PROVE  gs = "monitorStarted" /\ state = "monitor_ready"
  BY DEF TypeOK, GeneralStates, getState

(* Every step keeps the cached general state in agreement with the core.  *)
LEMMA GeneralStateStep ==
    TypeOK /\ GeneralStateInv /\ [Next]_vars => GeneralStateInv'
<1> SUFFICES ASSUME TypeOK, GeneralStateInv, [Next]_vars PROVE GeneralStateInv'
  OBVIOUS
<1> USE DEF GeneralStateInv, Booted, m2e, e2m, hw, core, mgr, hist, Return, Goto, Call, PollAgain
<1>1. CASE Open
  BY <1>1 DEF Open
<1>2. CASE Die
  BY <1>2 DEF Die
<1>3. CASE ClientCall
  <2>1. CASE startup
    BY <2>1 DEF startup, EnterStartup
  <2>2. CASE terminatePayload
    BY <2>2 DEF terminatePayload, EnterTerminate
  <2>3. CASE ensureReadyToLoadPayload
    BY <2>3 DEF ensureReadyToLoadPayload, EnterStartup, EnterTerminate
  <2>4. CASE startDummyPayload
    BY <2>4 DEF startDummyPayload
  <2>5. ASSUME NEW l \in Loads, load(l) PROVE GeneralStateInv'
    BY <2>5, ReadySeen DEF load
  <2> QED BY <1>3, <2>1, <2>2, <2>3, <2>4, <2>5 DEF ClientCall
<1>4. CASE ManagerStep
  <2>1. CASE StartupWriteCode
    BY <2>1 DEF StartupWriteCode
  <2>2. CASE StartupClearIpc
    BY <2>2 DEF StartupClearIpc
  <2>3. CASE bootCore
    BY <2>3 DEF bootCore
  <2>4. CASE StartupSetGeneralState
    BY <2>4 DEF StartupSetGeneralState
  <2>5. CASE awaitMonitorStartup
    BY <2>5 DEF awaitMonitorStartup
  <2>6. CASE TerminateClearCommand
    BY <2>6 DEF TerminateClearCommand
  <2>7. CASE sendIpiMessage
    BY <2>7 DEF sendIpiMessage
  <2>8. CASE LoadCopy
    BY <2>8 DEF LoadCopy
  <2>9. CASE StartCheckState
    BY <2>9, ReadySeen DEF StartCheckState
  <2>10. CASE StartCheckAck
    BY <2>10 DEF StartCheckAck
  <2>11. CASE StartWriteCommand
    BY <2>11 DEF StartWriteCommand
  <2>12. CASE StartBumpSeq
    BY <2>12 DEF StartBumpSeq
  <2>13. CASE StartPollAck
    BY <2>13 DEF StartPollAck, HandleResponse
  <2>14. CASE StartPollState
    BY <2>14 DEF StartPollState
  <2> QED BY <1>4, <2>1, <2>2, <2>3, <2>4, <2>5, <2>6, <2>7, <2>8, <2>9, <2>10,
     <2>11, <2>12, <2>13, <2>14 DEF ManagerStep
<1>5. CASE MonitorStep
  <2>1. CASE MonitorBoot
    BY <2>1 DEF MonitorBoot
  <2>2. CASE enableIpiReception
    BY <2>2 DEF enableIpiReception
  <2>3. CASE MonitorReady
    BY <2>3 DEF MonitorReady
  <2>4. CASE MonitorPoll
    BY <2>4 DEF MonitorPoll
  <2>5. CASE MonitorNoop
    BY <2>5 DEF MonitorNoop
  <2>6. CASE MonitorStartPayload
    BY <2>6 DEF MonitorStartPayload
  <2>7. CASE MonitorValidate
    BY <2>7 DEF MonitorValidate
  <2>8. CASE MonitorRespond
    BY <2>8 DEF MonitorRespond
  <2>9. CASE MonitorAck
    BY <2>9 DEF MonitorAck
  <2>10. CASE enterEL1Payload
    BY <2>10 DEF enterEL1Payload
  <2>11. CASE MonitorReject
    BY <2>11 DEF MonitorReject
  <2>12. CASE MonitorDispatch
    BY <2>12 DEF MonitorDispatch
  <2> QED BY <1>5, <2>1, <2>2, <2>3, <2>4, <2>5, <2>6, <2>7, <2>8, <2>9, <2>10,
     <2>11, <2>12 DEF MonitorStep
<1>6. CASE FIQInterrupt
  BY <1>6 DEF FIQInterrupt, Unmasked, CorePcs
<1>7. CASE MonitorCrash
  BY <1>7 DEF MonitorCrash, Unmasked, CorePcs
<1>8. CASE Payload
  <2>1. CASE reportPayloadStarted
    BY <2>1 DEF reportPayloadStarted
  <2>2. CASE reportCrash
    BY <2>2 DEF reportCrash
  <2> QED BY <1>8, <2>1, <2>2 DEF Payload
<1>9. CASE UNCHANGED vars
  BY <1>9 DEF vars
<1> QED BY <1>1, <1>2, <1>3, <1>4, <1>5, <1>6, <1>7, <1>8, <1>9 DEF Next

(* Every step keeps the sequence numbers in agreement with the two         *)
(* program counters.                                                       *)
LEMMA HandshakeStep ==
    TypeOK /\ GeneralStateInv /\ HandshakeInv /\ [Next]_vars => HandshakeInv'
<1> SUFFICES ASSUME TypeOK, GeneralStateInv, HandshakeInv, [Next]_vars
             PROVE  HandshakeInv'
  OBVIOUS
<1> USE DEF HandshakeInv, OneOutstanding, Booted, Answering, Resting,
            m2e, e2m, hw, core, mgr, hist, Return, Goto, Call, PollAgain
<1>1. CASE Open
  BY <1>1 DEF Open
<1>2. CASE Die
  BY <1>2 DEF Die
<1>3. CASE ClientCall
  <2>1. CASE startup
    BY <2>1 DEF startup, EnterStartup
  <2>2. CASE terminatePayload
    BY <2>2 DEF terminatePayload, EnterTerminate
  <2>3. CASE ensureReadyToLoadPayload
    BY <2>3 DEF ensureReadyToLoadPayload, EnterStartup, EnterTerminate
  <2>4. CASE startDummyPayload
    BY <2>4 DEF startDummyPayload
  <2>5. ASSUME NEW l \in Loads, load(l) PROVE HandshakeInv'
    BY <2>5 DEF load
  <2> QED BY <1>3, <2>1, <2>2, <2>3, <2>4, <2>5 DEF ClientCall
<1>4. CASE ManagerStep
  <2>1. CASE StartupWriteCode
    BY <2>1 DEF StartupWriteCode
  <2>2. CASE StartupClearIpc
    BY <2>2 DEF StartupClearIpc, GeneralStateInv
  <2>3. CASE bootCore
    BY <2>3 DEF bootCore, GeneralStateInv
  <2>4. CASE StartupSetGeneralState
    BY <2>4 DEF StartupSetGeneralState
  <2>5. CASE awaitMonitorStartup
    BY <2>5 DEF awaitMonitorStartup
  <2>6. CASE TerminateClearCommand
    BY <2>6 DEF TerminateClearCommand
  <2>7. CASE sendIpiMessage
    BY <2>7 DEF sendIpiMessage
  <2>8. CASE LoadCopy
    BY <2>8 DEF LoadCopy
  <2>9. CASE StartCheckState
    BY <2>9 DEF StartCheckState
  <2>10. CASE StartCheckAck
    BY <2>10 DEF StartCheckAck
  <2>11. CASE StartWriteCommand
    BY <2>11 DEF StartWriteCommand
  <2>12. CASE StartBumpSeq
    BY <2>12, NextSeqType DEF StartBumpSeq, TypeOK
  <2>13. CASE StartPollAck
    BY <2>13 DEF StartPollAck, HandleResponse
  <2>14. CASE StartPollState
    BY <2>14 DEF StartPollState
  <2> QED BY <1>4, <2>1, <2>2, <2>3, <2>4, <2>5, <2>6, <2>7, <2>8, <2>9, <2>10,
     <2>11, <2>12, <2>13, <2>14 DEF ManagerStep
<1>5. CASE MonitorStep
  <2>1. CASE MonitorBoot
    BY <2>1 DEF MonitorBoot
  <2>2. CASE enableIpiReception
    BY <2>2 DEF enableIpiReception
  <2>3. CASE MonitorReady
    BY <2>3 DEF MonitorReady
  <2>4. CASE MonitorPoll
    BY <2>4 DEF MonitorPoll
  <2>5. CASE MonitorNoop
    BY <2>5, NextSeqType DEF MonitorNoop, TypeOK
  <2>6. CASE MonitorStartPayload
    BY <2>6 DEF MonitorStartPayload
  <2>7. CASE MonitorValidate
    BY <2>7 DEF MonitorValidate
  <2>8. CASE MonitorRespond
    BY <2>8 DEF MonitorRespond
  <2>9. CASE MonitorAck
    BY <2>9, NextSeqType DEF MonitorAck, TypeOK
  <2>10. CASE enterEL1Payload
    BY <2>10 DEF enterEL1Payload
  <2>11. CASE MonitorReject
    BY <2>11 DEF MonitorReject
  <2>12. CASE MonitorDispatch
    BY <2>12 DEF MonitorDispatch
  <2> QED BY <1>5, <2>1, <2>2, <2>3, <2>4, <2>5, <2>6, <2>7, <2>8, <2>9, <2>10,
     <2>11, <2>12 DEF MonitorStep
<1>6. CASE FIQInterrupt
  BY <1>6 DEF FIQInterrupt, Unmasked, CorePcs
<1>7. CASE MonitorCrash
  BY <1>7 DEF MonitorCrash, Unmasked, CorePcs
<1>8. CASE Payload
  <2>1. CASE reportPayloadStarted
    BY <2>1 DEF reportPayloadStarted
  <2>2. CASE reportCrash
    BY <2>2 DEF reportCrash
  <2> QED BY <1>8, <2>1, <2>2 DEF Payload
<1>9. CASE UNCHANGED vars
  BY <1>9 DEF vars
<1> QED BY <1>1, <1>2, <1>3, <1>4, <1>5, <1>6, <1>7, <1>8, <1>9 DEF Next

(* Every step keeps a kill that was sent either pending or done.           *)
LEMMA KillStep ==
    TypeOK /\ GeneralStateInv /\ HandshakeInv /\ KillInv /\ [Next]_vars => KillInv'
<1> SUFFICES ASSUME TypeOK, GeneralStateInv, HandshakeInv, KillInv, [Next]_vars
             PROVE  KillInv'
  OBVIOUS
<1> USE DEF KillInv, Starting, m2e, e2m, hw, core, mgr, hist, Return, Goto, Call, PollAgain
<1>1. CASE Open
  BY <1>1 DEF Open
<1>2. CASE Die
  BY <1>2 DEF Die
<1>3. CASE ClientCall
  <2>1. CASE startup
    BY <2>1 DEF startup, EnterStartup
  <2>2. CASE terminatePayload
    BY <2>2 DEF terminatePayload, EnterTerminate
  <2>3. CASE ensureReadyToLoadPayload
    BY <2>3 DEF ensureReadyToLoadPayload, EnterStartup, EnterTerminate
  <2>4. CASE startDummyPayload
    BY <2>4 DEF startDummyPayload
  <2>5. ASSUME NEW l \in Loads, load(l) PROVE KillInv'
    BY <2>5 DEF load
  <2> QED BY <1>3, <2>1, <2>2, <2>3, <2>4, <2>5 DEF ClientCall
<1>4. CASE ManagerStep
  <2>1. CASE StartupWriteCode
    BY <2>1 DEF StartupWriteCode
  <2>2. CASE StartupClearIpc
    BY <2>2 DEF StartupClearIpc
  <2>3. CASE bootCore
    BY <2>3 DEF bootCore, GeneralStateInv
  <2>4. CASE StartupSetGeneralState
    BY <2>4 DEF StartupSetGeneralState
  <2>5. CASE awaitMonitorStartup
    BY <2>5 DEF awaitMonitorStartup
  <2>6. CASE TerminateClearCommand
    BY <2>6 DEF TerminateClearCommand
  <2>7. CASE sendIpiMessage
    BY <2>7 DEF sendIpiMessage, TypeOK
  <2>8. CASE LoadCopy
    BY <2>8 DEF LoadCopy
  <2>9. CASE StartCheckState
    BY <2>9 DEF StartCheckState
  <2>10. CASE StartCheckAck
    BY <2>10 DEF StartCheckAck
  <2>11. CASE StartWriteCommand
    BY <2>11 DEF StartWriteCommand, HandshakeInv, Answering
  <2>12. CASE StartBumpSeq
    BY <2>12 DEF StartBumpSeq
  <2>13. CASE StartPollAck
    BY <2>13 DEF StartPollAck, HandleResponse
  <2>14. CASE StartPollState
    BY <2>14 DEF StartPollState
  <2> QED BY <1>4, <2>1, <2>2, <2>3, <2>4, <2>5, <2>6, <2>7, <2>8, <2>9, <2>10,
     <2>11, <2>12, <2>13, <2>14 DEF ManagerStep
<1>5. CASE MonitorStep
  <2>1. CASE MonitorBoot
    BY <2>1 DEF MonitorBoot
  <2>2. CASE enableIpiReception
    BY <2>2 DEF enableIpiReception
  <2>3. CASE MonitorReady
    BY <2>3 DEF MonitorReady
  <2>4. CASE MonitorPoll
    BY <2>4 DEF MonitorPoll, HandshakeInv, Answering
  <2>5. CASE MonitorNoop
    BY <2>5 DEF MonitorNoop, HandshakeInv, Answering
  <2>6. CASE MonitorStartPayload
    BY <2>6 DEF MonitorStartPayload, HandshakeInv, Answering
  <2>7. CASE MonitorValidate
    BY <2>7 DEF MonitorValidate, HandshakeInv, Answering
  <2>8. CASE MonitorRespond
    BY <2>8 DEF MonitorRespond, HandshakeInv, Answering
  <2>9. CASE MonitorAck
    BY <2>9 DEF MonitorAck, HandshakeInv, Answering
  <2>10. CASE enterEL1Payload
    BY <2>10 DEF enterEL1Payload
  <2>11. CASE MonitorReject
    BY <2>11 DEF MonitorReject
  <2>12. CASE MonitorDispatch
    BY <2>12 DEF MonitorDispatch, HandshakeInv, Answering
  <2> QED BY <1>5, <2>1, <2>2, <2>3, <2>4, <2>5, <2>6, <2>7, <2>8, <2>9, <2>10,
     <2>11, <2>12 DEF MonitorStep
<1>6. CASE FIQInterrupt
  BY <1>6 DEF FIQInterrupt, Unmasked, CorePcs
<1>7. CASE MonitorCrash
  BY <1>7 DEF MonitorCrash, Unmasked, CorePcs
<1>8. CASE Payload
  <2>1. CASE reportPayloadStarted
    BY <2>1 DEF reportPayloadStarted
  <2>2. CASE reportCrash
    BY <2>2 DEF reportCrash
  <2> QED BY <1>8, <2>1, <2>2 DEF Payload
<1>9. CASE UNCHANGED vars
  BY <1>9 DEF vars
<1> QED BY <1>1, <1>2, <1>3, <1>4, <1>5, <1>6, <1>7, <1>8, <1>9 DEF Next

(* The whole invariant up to here holds in every reachable state.          *)
LEMMA ProtocolInvariant ==
    Spec => [](TypeOK /\ GeneralStateInv /\ HandshakeInv /\ KillInv)
<1>1. Init => GeneralStateInv /\ HandshakeInv /\ KillInv
  BY DEF Init, GeneralStateInv, HandshakeInv, KillInv, OneOutstanding, Booted,
         Answering, Starting
<1> QED BY <1>1, TypeCorrect, GeneralStateStep, HandshakeStep, KillStep, PTL DEF Spec

(* At most one command is ever outstanding.                                *)
THEOREM AtMostOneCommand == Spec => []OneOutstanding
<1>1. HandshakeInv => OneOutstanding
  BY DEF HandshakeInv
<1> QED BY <1>1, ProtocolInvariant, PTL

(* A domain that reports monitor_ready is at rest.                         *)
THEOREM ReadyIsIdle == Spec => []ReadyMeansIdle
<1>1. HandshakeInv => ReadyMeansIdle
  BY DEF HandshakeInv, ReadyMeansIdle, Resting, Answering
<1> QED BY <1>1, ProtocolInvariant, PTL

(* A kill is final: nothing survives it and nothing is revived by it.      *)
THEOREM KillIsFinal == Spec => []KillHolds
<1>1. KillInv => KillHolds
  BY DEF KillInv, KillHolds, Starting
<1> QED BY <1>1, ProtocolInvariant, PTL

-----------------------------------------------------------------------------
(* A race is never forgotten.                                              *)
LEMMA RacedStays == [Next]_vars /\ raced => raced'
<1> SUFFICES ASSUME [Next]_vars, raced PROVE raced'
  OBVIOUS
<1> USE DEF hist
<1>1. CASE Open
  BY <1>1 DEF Open
<1>2. CASE Die
  BY <1>2 DEF Die
<1>3. CASE ClientCall
  <2>1. CASE startup
    BY <2>1 DEF startup, EnterStartup
  <2>2. CASE terminatePayload
    BY <2>2 DEF terminatePayload, EnterTerminate
  <2>3. CASE ensureReadyToLoadPayload
    BY <2>3 DEF ensureReadyToLoadPayload, EnterStartup, EnterTerminate
  <2>4. CASE startDummyPayload
    BY <2>4 DEF startDummyPayload
  <2>5. ASSUME NEW l \in Loads, load(l) PROVE raced'
    BY <2>5 DEF load
  <2> QED BY <1>3, <2>1, <2>2, <2>3, <2>4, <2>5 DEF ClientCall
<1>4. CASE ManagerStep
  <2>1. CASE StartupWriteCode
    BY <2>1 DEF StartupWriteCode
  <2>2. CASE StartupClearIpc
    BY <2>2 DEF StartupClearIpc
  <2>3. CASE bootCore
    BY <2>3 DEF bootCore
  <2>4. CASE StartupSetGeneralState
    BY <2>4 DEF StartupSetGeneralState
  <2>5. CASE awaitMonitorStartup
    BY <2>5 DEF awaitMonitorStartup
  <2>6. CASE TerminateClearCommand
    BY <2>6 DEF TerminateClearCommand
  <2>7. CASE sendIpiMessage
    BY <2>7 DEF sendIpiMessage
  <2>8. CASE LoadCopy
    BY <2>8 DEF LoadCopy
  <2>9. CASE StartCheckState
    BY <2>9 DEF StartCheckState
  <2>10. CASE StartCheckAck
    BY <2>10 DEF StartCheckAck
  <2>11. CASE StartWriteCommand
    BY <2>11 DEF StartWriteCommand
  <2>12. CASE StartBumpSeq
    BY <2>12 DEF StartBumpSeq
  <2>13. CASE StartPollAck
    BY <2>13 DEF StartPollAck, HandleResponse
  <2>14. CASE StartPollState
    BY <2>14 DEF StartPollState
  <2> QED BY <1>4, <2>1, <2>2, <2>3, <2>4, <2>5, <2>6, <2>7, <2>8, <2>9, <2>10,
     <2>11, <2>12, <2>13, <2>14 DEF ManagerStep
<1>5. CASE MonitorStep
  <2>1. CASE MonitorBoot
    BY <2>1 DEF MonitorBoot
  <2>2. CASE enableIpiReception
    BY <2>2 DEF enableIpiReception
  <2>3. CASE MonitorReady
    BY <2>3 DEF MonitorReady
  <2>4. CASE MonitorPoll
    BY <2>4 DEF MonitorPoll
  <2>5. CASE MonitorNoop
    BY <2>5 DEF MonitorNoop
  <2>6. CASE MonitorStartPayload
    BY <2>6 DEF MonitorStartPayload
  <2>7. CASE MonitorValidate
    BY <2>7 DEF MonitorValidate
  <2>8. CASE MonitorRespond
    BY <2>8 DEF MonitorRespond
  <2>9. CASE MonitorAck
    BY <2>9 DEF MonitorAck
  <2>10. CASE enterEL1Payload
    BY <2>10 DEF enterEL1Payload
  <2>11. CASE MonitorReject
    BY <2>11 DEF MonitorReject
  <2>12. CASE MonitorDispatch
    BY <2>12 DEF MonitorDispatch
  <2> QED BY <1>5, <2>1, <2>2, <2>3, <2>4, <2>5, <2>6, <2>7, <2>8, <2>9, <2>10,
     <2>11, <2>12 DEF MonitorStep
<1>6. CASE FIQInterrupt
  BY <1>6 DEF FIQInterrupt, Unmasked
<1>7. CASE MonitorCrash
  BY <1>7 DEF MonitorCrash, Unmasked
<1>8. CASE Payload
  <2>1. CASE reportPayloadStarted
    BY <2>1 DEF reportPayloadStarted
  <2>2. CASE reportCrash
    BY <2>2 DEF reportCrash
  <2> QED BY <1>8, <2>1, <2>2 DEF Payload
<1>9. CASE UNCHANGED vars
  BY <1>9 DEF vars
<1> QED BY <1>1, <1>2, <1>3, <1>4, <1>5, <1>6, <1>7, <1>8, <1>9 DEF Next

(* The part of the invariant about the image, for calls that do not race.   *)
LEMMA ImageStep ==
    ASSUME TypeOK, GeneralStateInv, HandshakeInv, ImageInv, [Next]_vars, ~raced'
    PROVE  ImageInv'
<1> USE DEF ImageInv, Quiet, Unanswered, Resting, m2e, e2m, hw, core, mgr, hist, Return, Goto, Call, PollAgain
<1>1. CASE Open
  BY <1>1 DEF Open
<1>2. CASE Die
  BY <1>2 DEF Die
<1>3. CASE ClientCall
  <2>1. CASE startup
    BY <2>1 DEF startup, EnterStartup
  <2>2. CASE terminatePayload
    BY <2>2 DEF terminatePayload, EnterTerminate
  <2>3. CASE ensureReadyToLoadPayload
    BY <2>3 DEF ensureReadyToLoadPayload, EnterStartup, EnterTerminate
  <2>4. CASE startDummyPayload
    BY <2>4 DEF startDummyPayload
  <2>5. ASSUME NEW l \in Loads, load(l) PROVE ImageInv'
    BY <2>5, ReadySeen DEF load, HandshakeInv, GeneralStateInv
  <2> QED BY <1>3, <2>1, <2>2, <2>3, <2>4, <2>5 DEF ClientCall
<1>4. CASE ManagerStep
  <2>1. CASE StartupWriteCode
    BY <2>1 DEF StartupWriteCode
  <2>2. CASE StartupClearIpc
    BY <2>2 DEF StartupClearIpc, GeneralStateInv
  <2>3. CASE bootCore
    BY <2>3 DEF bootCore, GeneralStateInv
  <2>4. CASE StartupSetGeneralState
    BY <2>4 DEF StartupSetGeneralState
  <2>5. CASE awaitMonitorStartup
    BY <2>5 DEF awaitMonitorStartup
  <2>6. CASE TerminateClearCommand
    BY <2>6 DEF TerminateClearCommand
  <2>7. CASE sendIpiMessage
    BY <2>7 DEF sendIpiMessage
  <2>8. CASE LoadCopy
    BY <2>8 DEF LoadCopy
  <2>9. CASE StartCheckState
    BY <2>9, ReadySeen DEF StartCheckState, HandshakeInv, GeneralStateInv
  <2>10. CASE StartCheckAck
    BY <2>10 DEF StartCheckAck
  <2>11. CASE StartWriteCommand
    BY <2>11 DEF StartWriteCommand, HandshakeInv, Answering
  <2>12. CASE StartBumpSeq
    BY <2>12 DEF StartBumpSeq
  <2>13. CASE StartPollAck
    BY <2>13 DEF StartPollAck, HandleResponse
  <2>14. CASE StartPollState
    BY <2>14 DEF StartPollState
  <2> QED BY <1>4, <2>1, <2>2, <2>3, <2>4, <2>5, <2>6, <2>7, <2>8, <2>9, <2>10,
     <2>11, <2>12, <2>13, <2>14 DEF ManagerStep
<1>5. CASE MonitorStep
  <2>1. CASE MonitorBoot
    BY <2>1 DEF MonitorBoot
  <2>2. CASE enableIpiReception
    BY <2>2 DEF enableIpiReception
  <2>3. CASE MonitorReady
    BY <2>3 DEF MonitorReady
  <2>4. CASE MonitorPoll
    BY <2>4 DEF MonitorPoll, HandshakeInv, Answering
  <2>5. CASE MonitorNoop
    BY <2>5 DEF MonitorNoop, HandshakeInv, Answering
  <2>6. CASE MonitorStartPayload
    BY <2>6 DEF MonitorStartPayload, HandshakeInv, Answering
  <2>7. CASE MonitorValidate
    BY <2>7 DEF MonitorValidate
  <2>8. CASE MonitorRespond
    BY <2>8 DEF MonitorRespond
  <2>9. CASE MonitorAck
    BY <2>9 DEF MonitorAck, HandshakeInv, Answering
  <2>10. CASE enterEL1Payload
    BY <2>10 DEF enterEL1Payload
  <2>11. CASE MonitorReject
    BY <2>11 DEF MonitorReject
  <2>12. CASE MonitorDispatch
    BY <2>12 DEF MonitorDispatch, HandshakeInv, Answering, TypeOK
  <2> QED BY <1>5, <2>1, <2>2, <2>3, <2>4, <2>5, <2>6, <2>7, <2>8, <2>9, <2>10,
     <2>11, <2>12 DEF MonitorStep
<1>6. CASE FIQInterrupt
  BY <1>6 DEF FIQInterrupt, Unmasked, CorePcs
<1>7. CASE MonitorCrash
  BY <1>7 DEF MonitorCrash, Unmasked, CorePcs
<1>8. CASE Payload
  <2>1. CASE reportPayloadStarted
    BY <2>1 DEF reportPayloadStarted
  <2>2. CASE reportCrash
    BY <2>2 DEF reportCrash
  <2> QED BY <1>8, <2>1, <2>2 DEF Payload
<1>9. CASE UNCHANGED vars
  BY <1>9 DEF vars
<1> QED BY <1>1, <1>2, <1>3, <1>4, <1>5, <1>6, <1>7, <1>8, <1>9 DEF Next

(* The part of the invariant about the call in progress.                    *)
LEMMA CallStep ==
    ASSUME TypeOK, GeneralStateInv, HandshakeInv, ImageInv, CallInv,
           [Next]_vars, ~raced'
    PROVE  CallInv'
<1> USE DEF CallInv, m2e, e2m, hw, core, mgr, hist, Return, Goto, Call, PollAgain
<1>1. CASE Open
  BY <1>1 DEF Open
<1>2. CASE Die
  BY <1>2 DEF Die
<1>3. CASE ClientCall
  <2>1. CASE startup
    BY <2>1 DEF startup, EnterStartup
  <2>2. CASE terminatePayload
    BY <2>2 DEF terminatePayload, EnterTerminate
  <2>3. CASE ensureReadyToLoadPayload
    BY <2>3 DEF ensureReadyToLoadPayload, EnterStartup, EnterTerminate
  <2>4. CASE startDummyPayload
    BY <2>4 DEF startDummyPayload
  <2>5. ASSUME NEW l \in Loads, load(l) PROVE CallInv'
    BY <2>5 DEF load
  <2> QED BY <1>3, <2>1, <2>2, <2>3, <2>4, <2>5 DEF ClientCall
<1>4. CASE ManagerStep
  <2>1. CASE StartupWriteCode
    BY <2>1 DEF StartupWriteCode
  <2>2. CASE StartupClearIpc
    BY <2>2 DEF StartupClearIpc, GeneralStateInv
  <2>3. CASE bootCore
    BY <2>3 DEF bootCore
  <2>4. CASE StartupSetGeneralState
    BY <2>4 DEF StartupSetGeneralState
  <2>5. CASE awaitMonitorStartup
    BY <2>5 DEF awaitMonitorStartup
  <2>6. CASE TerminateClearCommand
    BY <2>6 DEF TerminateClearCommand
  <2>7. CASE sendIpiMessage
    BY <2>7 DEF sendIpiMessage
  <2>8. CASE LoadCopy
    BY <2>8 DEF LoadCopy
  <2>9. CASE StartCheckState
    BY <2>9 DEF StartCheckState
  <2>10. CASE StartCheckAck
    BY <2>10 DEF StartCheckAck
  <2>11. CASE StartWriteCommand
    BY <2>11 DEF StartWriteCommand
  <2>12. CASE StartBumpSeq
    BY <2>12, NextSeqType DEF StartBumpSeq, TypeOK, HandshakeInv, ImageInv,
       Quiet, Answering
  <2>13. CASE StartPollAck
    BY <2>13 DEF StartPollAck, HandleResponse
  <2>14. CASE StartPollState
    BY <2>14 DEF StartPollState
  <2> QED BY <1>4, <2>1, <2>2, <2>3, <2>4, <2>5, <2>6, <2>7, <2>8, <2>9, <2>10,
     <2>11, <2>12, <2>13, <2>14 DEF ManagerStep
<1>5. CASE MonitorStep
  <2>1. CASE MonitorBoot
    BY <2>1 DEF MonitorBoot
  <2>2. CASE enableIpiReception
    BY <2>2 DEF enableIpiReception
  <2>3. CASE MonitorReady
    BY <2>3 DEF MonitorReady
  <2>4. CASE MonitorPoll
    BY <2>4 DEF MonitorPoll
  <2>5. CASE MonitorNoop
    BY <2>5 DEF MonitorNoop, HandshakeInv, OneOutstanding, Booted, ImageInv
  <2>6. CASE MonitorStartPayload
    BY <2>6 DEF MonitorStartPayload
  <2>7. CASE MonitorValidate
    BY <2>7 DEF MonitorValidate
  <2>8. CASE MonitorRespond
    BY <2>8 DEF MonitorRespond, HandshakeInv, Answering
  <2>9. CASE MonitorAck
    BY <2>9, NextSeqType DEF MonitorAck, HandshakeInv, OneOutstanding, Booted,
       ImageInv
  <2>10. CASE enterEL1Payload
    BY <2>10 DEF enterEL1Payload
  <2>11. CASE MonitorReject
    BY <2>11 DEF MonitorReject
  <2>12. CASE MonitorDispatch
    BY <2>12 DEF MonitorDispatch
  <2> QED BY <1>5, <2>1, <2>2, <2>3, <2>4, <2>5, <2>6, <2>7, <2>8, <2>9, <2>10,
     <2>11, <2>12 DEF MonitorStep
<1>6. CASE FIQInterrupt
  BY <1>6 DEF FIQInterrupt, Unmasked, CorePcs
<1>7. CASE MonitorCrash
  BY <1>7 DEF MonitorCrash, Unmasked, CorePcs
<1>8. CASE Payload
  <2>1. CASE reportPayloadStarted
    BY <2>1 DEF reportPayloadStarted, ImageInv, DummyLoad, Dummy
  <2>2. CASE reportCrash
    BY <2>2 DEF reportCrash
  <2> QED BY <1>8, <2>1, <2>2 DEF Payload
<1>9. CASE UNCHANGED vars
  BY <1>9 DEF vars
<1> QED BY <1>1, <1>2, <1>3, <1>4, <1>5, <1>6, <1>7, <1>8, <1>9 DEF Next

(* The image and the call parts of the invariant hold until a call races.  *)
LEMMA UnracedInvariant == Spec => []UnracedInv
<1>1. Init => UnracedInv
  BY DEF Init, UnracedInv, ImageInv, CallInv
<1>2. TypeOK /\ GeneralStateInv /\ HandshakeInv /\ UnracedInv /\ [Next]_vars
        => UnracedInv'
  BY RacedStays, ImageStep, CallStep DEF UnracedInv
<1> QED BY <1>1, <1>2, ProtocolInvariant, PTL DEF Spec

(* The payload that executes is the validated one, its memory untouched.   *)
THEOREM ExecutesValidatedImage == Spec => []PayloadIntact
<1>1. UnracedInv => PayloadIntact
  BY DEF UnracedInv, ImageInv, PayloadIntact
<1> QED BY <1>1, UnracedInvariant, PTL

(* Only the two halves of the polling loop return from it.                 *)
LEMMA PollReturns ==
    ASSUME Next, pc \in {"sp_poll", "sp_watch"}, pc' = "idle"
    PROVE  \/ pc = "sp_poll" /\ StartPollAck
           \/ pc = "sp_watch" /\ StartPollState
<1> USE DEF mgr, Return, Goto, Call, PollAgain
<1>1. ~Open /\ ~Die
  BY DEF Open, Die
<1>2. ~ClientCall
  BY DEF ClientCall, startup, terminatePayload, ensureReadyToLoadPayload,
         startDummyPayload, load
<1>3. ~MonitorStep
  BY DEF MonitorStep, MonitorBoot, enableIpiReception, MonitorReady, MonitorPoll,
         MonitorDispatch, MonitorNoop, MonitorStartPayload, MonitorValidate, MonitorRespond,
         MonitorAck, enterEL1Payload, MonitorReject
<1>4. ~FIQInterrupt /\ ~MonitorCrash /\ ~Payload
  BY DEF FIQInterrupt, MonitorCrash, Payload, reportPayloadStarted, reportCrash
<1>5. ManagerStep => StartPollAck \/ StartPollState
  BY DEF ManagerStep, StartupWriteCode, StartupClearIpc, bootCore,
         StartupSetGeneralState, awaitMonitorStartup, TerminateClearCommand,
         sendIpiMessage, LoadCopy, StartCheckState, StartCheckAck,
         StartWriteCommand, StartBumpSeq
<1>6. StartPollAck => pc = "sp_poll"
  BY DEF StartPollAck
<1>7. StartPollState => pc = "sp_watch"
  BY DEF StartPollState
<1> QED BY <1>1, <1>2, <1>3, <1>4, <1>5, <1>6, <1>7 DEF Next

(* A rejection reported to the client is the verdict on its own image.     *)
THEOREM RejectionIsOwn == Spec => VerdictIsMine
<1> DEFINE verdict == validatePayload(want.img, want.req)
           Own == /\ res' = "payload_checksum_mismatch" => verdict = "crc_mismatched"
                  /\ res' = "payload_image_malformed" => verdict = "image_malformed"
                  /\ res' = "payload_abi_incompatible" => verdict = "abi_incompatible"
<1>1. ASSUME UnracedInv, Next, pc = "sp_poll", pc' = "idle", ~raced
      PROVE  Own
  <2>1. StartPollAck
    BY <1>1, PollReturns
  <2>2. cmdAck = cmdSeq
    BY <1>1, <2>1 DEF StartPollAck, Goto
  <2>3. cmdResp = validatePayload(mem, req) /\ req = want.req /\ req.entry = "payload"
    BY <1>1, <2>2 DEF UnracedInv, CallInv
  <2>4. mem = want.img
    BY <1>1, <2>3 DEF UnracedInv, CallInv, DummyLoad, Dummy
  <2> QED BY <1>1, <2>1, <2>2, <2>3, <2>4 DEF StartPollAck, HandleResponse, Return, Goto
<1>2. UnracedInv /\ [Next]_vars => [pc = "sp_poll" /\ pc' = "idle" /\ ~raced => Own]_vars
  BY <1>1
<1> QED BY <1>2, UnracedInvariant, PTL DEF Spec, VerdictIsMine

(* A start that is reported successful was confirmed by the image asked for. *)
THEOREM SuccessIsConfirmed == Spec => StartOkMeansConfirmed
<1>1. ASSUME TypeOK, UnracedInv, Next, pc = "sp_watch", pc' = "idle", res' = "ok", ~raced
      PROVE  confirmed = want.img
  <2>1. StartPollState
    BY <1>1, PollReturns
  <2>2. state = "running_payload"
    BY <1>1, <2>1 DEF StartPollState, getState, Return, PollAgain
  <2> QED BY <1>1, <2>2 DEF UnracedInv, CallInv
<1>2. TypeOK /\ UnracedInv /\ [Next]_vars =>
        [pc = "sp_watch" /\ pc' = "idle" /\ res' = "ok" /\ ~raced
           => confirmed = want.img]_vars
  BY <1>1
<1> QED BY <1>2, TypeCorrect, UnracedInvariant, PTL DEF Spec, StartOkMeansConfirmed

-----------------------------------------------------------------------------
(* The life cycle: what the core reports in each of its phases.            *)
Rebooting == {"boot", "boot_ipi", "boot_ready"}

LifeInv ==
    /\ pc = "su_boot" => state = "invalid_state"
    /\ mpc \in Rebooting => state \in Life!Alive
    /\ mpc \in {"loop", "dispatch", "noop", "start"} => state = "monitor_ready"
    /\ mpc \in {"validate", "respond", "ack", "enter", "rejected"} => state = "starting_payload"
    /\ mpc \in {"el1", "halted"} => state \in Life!Payloads
    /\ mpc = "dead" => state = "crashed_monitor"

(* The refinement mapping, as constants of a step.                         *)
LifeOf(m, s) == IF m = "reset" THEN "off" ELSE IF m = "foreign" THEN "foreign" ELSE s
RestartOf(m, i) == (i \/ m \in Rebooting)

(* The abstract next-state relation, on the mapped values.                 *)
LifeMove(l, r, k, q) ==
    \/ l = "off" /\ k = "invalid_state" /\ q
    \/ l \in Life!Alive \cup {"crashed_monitor"} /\ q /\ k = l
    \/ r /\ l \in Life!Alive /\ k = "monitor_ready"
    \/ l = "monitor_ready" /\ k = "starting_payload" /\ (q <=> r)
    \/ l = "starting_payload" /\ k = "monitor_ready" /\ (q <=> r)
    \/ l \in Life!Payloads /\ k \in {"running_payload", "crashed_payload"} /\ (q <=> r)
    \/ l \in Life!Alive /\ k = "crashed_monitor"
    \/ k = l /\ (q <=> r)

(* A step of the mapped values is a step of DomainLife.                    *)
LEMMA LifeMoves ==
    ASSUME LifeMove(LifeOf(mpc, state), RestartOf(mpc, ipi),
                    LifeOf(mpc', state'), RestartOf(mpc', ipi'))
    PROVE  [Life!LifeNext]_(Life!lifeVars)
  BY Zenon DEF LifeMove, LifeOf, RestartOf, Rebooting, Life!LifeNext, Life!lifeVars,
     Life!Release, Life!Kill, Life!Ready, Life!Start, Life!Refuse, Life!Report, Life!Crash

(* Every step keeps LifeInv and is a step of the life cycle, or none.      *)
LEMMA LifeStep ==
    ASSUME TypeOK, GeneralStateInv, LifeInv, [Next]_vars
    PROVE  /\ LifeInv'
           /\ LifeMove(LifeOf(mpc, state), RestartOf(mpc, ipi),
                       LifeOf(mpc', state'), RestartOf(mpc', ipi'))
<1> DEFINE Done == LifeInv' /\ LifeMove(LifeOf(mpc, state), RestartOf(mpc, ipi),
                                        LifeOf(mpc', state'), RestartOf(mpc', ipi'))
<1>n. ASSUME UNCHANGED <<mpc, state, ipi>>, pc' = "su_boot" => pc = "su_boot"
      PROVE  Done
  BY <1>n DEF LifeInv, LifeMove, LifeOf, RestartOf
<1> USE DEF m2e, e2m, hw, core, mgr, hist, Return, Goto, Call, PollAgain
<1>1. CASE Open
  BY <1>1, <1>n DEF Open
<1>2. CASE Die
  BY <1>2, <1>n DEF Die
<1>3. CASE ClientCall
  <2>1. CASE startup
    BY <2>1, <1>n DEF startup, EnterStartup
  <2>2. CASE terminatePayload
    BY <2>2, <1>n DEF terminatePayload, EnterTerminate
  <2>3. CASE ensureReadyToLoadPayload
    BY <2>3, <1>n DEF ensureReadyToLoadPayload, EnterStartup, EnterTerminate
  <2>4. CASE startDummyPayload
    BY <2>4, <1>n DEF startDummyPayload
  <2>5. ASSUME NEW l \in Loads, load(l) PROVE Done
    BY <2>5, <1>n DEF load
  <2> QED BY <1>3, <2>1, <2>2, <2>3, <2>4, <2>5 DEF ClientCall
<1>4. CASE ManagerStep
  <2>1. CASE StartupWriteCode
    BY <2>1, <1>n DEF StartupWriteCode
  <2>2. CASE StartupClearIpc
    <3>1. mpc = "reset"
      BY <2>2 DEF StartupClearIpc, GeneralStateInv
    <3> QED BY <2>2, <3>1 DEF StartupClearIpc, LifeInv, LifeMove, LifeOf, RestartOf, Rebooting
  <2>3. CASE bootCore
    <3>1. CASE inReset /\ mpc' = "boot" /\ pc' = "su_gs"
      <4>1. mpc = "reset" /\ state = "invalid_state" /\ state' = state
        BY <2>3, <3>1 DEF bootCore, GeneralStateInv, LifeInv
      <4> QED BY <3>1, <4>1 DEF LifeInv, LifeMove, LifeOf, RestartOf, Rebooting, Life!Alive
    <3>2. CASE UNCHANGED mpc
      BY <2>3, <3>2, <1>n DEF bootCore
    <3> QED BY <2>3, <3>1, <3>2 DEF bootCore
  <2>4. CASE StartupSetGeneralState
    BY <2>4, <1>n DEF StartupSetGeneralState
  <2>5. CASE awaitMonitorStartup
    BY <2>5, <1>n DEF awaitMonitorStartup
  <2>6. CASE TerminateClearCommand
    BY <2>6, <1>n DEF TerminateClearCommand
  <2>7. CASE sendIpiMessage
    <3>1. Booted /\ mpc \in CorePcs
      BY <2>7 DEF sendIpiMessage, GeneralStateInv, TypeOK
    <3>2. state \in Life!Alive \cup {"crashed_monitor"}
      BY <3>1 DEF Booted, CorePcs, LifeInv, Rebooting, Life!Alive, Life!Payloads
    <3> QED BY <2>7, <3>1, <3>2 DEF sendIpiMessage, Booted, LifeInv, LifeMove, LifeOf, RestartOf
  <2>8. CASE LoadCopy
    BY <2>8, <1>n DEF LoadCopy
  <2>9. CASE StartCheckState
    BY <2>9, <1>n DEF StartCheckState
  <2>10. CASE StartCheckAck
    BY <2>10, <1>n DEF StartCheckAck
  <2>11. CASE StartWriteCommand
    BY <2>11, <1>n DEF StartWriteCommand
  <2>12. CASE StartBumpSeq
    BY <2>12, <1>n DEF StartBumpSeq
  <2>13. CASE StartPollAck
    BY <2>13, <1>n DEF StartPollAck, HandleResponse
  <2>14. CASE StartPollState
    BY <2>14, <1>n DEF StartPollState
  <2> QED BY <1>4, <2>1, <2>2, <2>3, <2>4, <2>5, <2>6, <2>7, <2>8, <2>9, <2>10,
     <2>11, <2>12, <2>13, <2>14 DEF ManagerStep
<1>b. Booted => pc # "su_boot"
  BY DEF GeneralStateInv, Booted
<1> USE DEF LifeInv, LifeMove, LifeOf, RestartOf, Rebooting, Booted
<1>5. CASE MonitorStep
  <2>1. CASE MonitorBoot
    BY <2>1 DEF MonitorBoot
  <2>2. CASE enableIpiReception
    BY <2>2 DEF enableIpiReception
  <2>3. CASE MonitorReady
    BY <2>3, <1>b DEF MonitorReady
  <2>4. CASE MonitorPoll
    BY <2>4 DEF MonitorPoll
  <2>5. CASE MonitorNoop
    BY <2>5 DEF MonitorNoop
  <2>6. CASE MonitorStartPayload
    BY <2>6, <1>b DEF MonitorStartPayload
  <2>7. CASE MonitorValidate
    BY <2>7, <1>b DEF MonitorValidate, Life!Alive, Life!Payloads
  <2>8. CASE MonitorRespond
    BY <2>8 DEF MonitorRespond
  <2>9. CASE MonitorAck
    BY <2>9 DEF MonitorAck
  <2>10. CASE enterEL1Payload
    BY <2>10 DEF enterEL1Payload, Life!Payloads
  <2>11. CASE MonitorReject
    BY <2>11, <1>b DEF MonitorReject
  <2>12. CASE MonitorDispatch
    BY <2>12 DEF MonitorDispatch
  <2> QED BY <1>5, <2>1, <2>2, <2>3, <2>4, <2>5, <2>6, <2>7, <2>8, <2>9, <2>10,
     <2>11, <2>12 DEF MonitorStep
<1>6. CASE FIQInterrupt
  BY <1>6, <1>b DEF FIQInterrupt, Unmasked, CorePcs, Life!Alive, Life!Payloads
<1>7. CASE MonitorCrash
  BY <1>7, <1>b DEF MonitorCrash, Unmasked, CorePcs, Life!Alive, Life!Payloads
<1>8. CASE Payload
  <2>1. CASE reportPayloadStarted
    BY <2>1, <1>b DEF reportPayloadStarted, Life!Payloads
  <2>2. CASE reportCrash
    BY <2>2, <1>b DEF reportCrash, Life!Payloads
  <2> QED BY <1>8, <2>1, <2>2 DEF Payload
<1>9. CASE UNCHANGED vars
  BY <1>9, <1>n DEF vars
<1> QED BY <1>1, <1>2, <1>3, <1>4, <1>5, <1>6, <1>7, <1>8, <1>9 DEF Next

(* Manager, monitor, interrupt and payload together implement the life     *)
(* cycle that clients of a domain rely on (DomainLife).                    *)
THEOREM DomainImplementsLife == Spec => FollowsLifeCycle
<1>1. Init => Life!LifeInit /\ LifeInv
  BY DEF Init, Life!LifeInit, LifeInv, Rebooting
<1>2. TypeOK /\ GeneralStateInv /\ LifeInv /\ [Next]_vars
        => LifeInv' /\ [Life!LifeNext]_(Life!lifeVars)
  BY LifeStep, LifeMoves
<1> QED BY <1>1, <1>2, ProtocolInvariant, PTL DEF Spec, FollowsLifeCycle, Life!LifeSpec
=============================================================================
