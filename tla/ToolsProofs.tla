----------------------------- MODULE ToolsProofs ----------------------------
(* Proofs about Tools, for every set of processes and every plan.          *)
EXTENDS Tools, TLAPS

(* A core listens to the channel the manager uses for it, and to no other. *)
LEMMA Channels ==
    ASSUME NEW c \in Cores
    PROVE  /\ Listens(c) \in {"ch0", "ch7", "ch8"} /\ getIpiChannelForCpu(c) = Listens(c)
           /\ \A d \in Cores : Listens(d) = Listens(c) => d = c
  BY CoreAssumption DEF Listens, getIpiChannelForCpu

(* Every variable keeps its type, and a core is in the reset register      *)
(* exactly when it executes nothing.                                       *)
THEOREM ToolsTypeCorrect == Spec => []TypeOK
<1>1. Init => TypeOK
  <2> SUFFICES ASSUME Init PROVE TypeOK
    OBVIOUS
  <2>1. PICK kind \in [Cores -> {"reset", "foreign", "loop", "el1"}] :
          /\ core = kind /\ reset = {c \in Cores : kind[c] = "reset"}
          /\ cookie \in [Cores -> BOOLEAN]
          /\ code = [c \in Cores |-> IF kind[c] \in {"loop", "el1"} THEN c ELSE 0]
          /\ vector = code
          /\ state = [c \in Cores |-> CASE kind[c] = "loop" -> "monitor_ready"
                                        [] kind[c] = "el1" -> "running_payload"
                                        [] OTHER -> "invalid_state"]
    BY DEF Init
  <2>2. job \in [Procs -> Jobs]
    BY PlanAssumption DEF Init
  <2>3. /\ state \in [Cores -> {"monitor_ready", "running_payload", "invalid_state"}]
        /\ code \in [Cores -> Cores \cup {0}] /\ vector \in [Cores -> Cores \cup {0}]
    BY <2>1
  <2> QED BY <2>1, <2>2, <2>3 DEF Init, TypeOK, None
<1>2. TypeOK /\ [Next]_vars => TypeOK'
  <2> SUFFICES ASSUME TypeOK, [Next]_vars PROVE TypeOK'
    OBVIOUS
  <2> USE DEF TypeOK, regs, mems, ipc, procs, Goto, End, Fail, throwOnError, Becomes, None
  <2>0. ASSUME NEW p \in Procs PROVE Cpu(p) \in Cores
    BY DEF Cpu, Jobs
  <2>1. ASSUME NEW p \in Procs, Process(p) \/ Interrupt(p) \/ Die(p) PROVE TypeOK'
    <3>1. CASE OpenReset(p)
      BY <3>1, <2>0 DEF OpenReset
    <3>2. CASE OpenCookie(p)
      BY <3>2, <2>0 DEF OpenCookie
    <3>3. CASE Main(p)
      BY <3>3, <2>0 DEF Main, Dispatch
    <3>4. CASE AfterStartup(p)
      BY <3>4, <2>0 DEF AfterStartup
    <3>5. CASE StartupWriteCode(p)
      <4>1. code' \in [Cores -> Cores \cup {0}]
        BY <3>5, <2>0 DEF StartupWriteCode
      <4>2. cookie' \in [Cores -> BOOLEAN]
        BY <3>5, <2>0 DEF StartupWriteCode
      <4> QED BY <3>5, <4>1, <4>2 DEF StartupWriteCode
    <3>6. CASE StartupClearIpc(p)
      BY <3>6, <2>0 DEF StartupClearIpc
    <3>7. CASE BootCoreRead(p)
      BY <3>7, <2>0 DEF BootCoreRead
    <3>8. CASE BootCoreVector(p)
      BY <3>8, <2>0 DEF BootCoreVector
    <3>9. CASE BootCoreWrite(p)
      BY <3>9, <2>0 DEF BootCoreWrite, Rewrite
    <3>10. CASE awaitMonitorStartup(p)
      BY <3>10, <2>0 DEF awaitMonitorStartup
    <3>11. CASE loadPayloadFromFileOrThrow(p)
      BY <3>11, <2>0 DEF loadPayloadFromFileOrThrow
    <3>12. CASE StartSend(p)
      BY <3>12, <2>0 DEF StartSend
    <3>13. CASE StartPoll(p)
      BY <3>13, <2>0 DEF StartPoll
    <3>14. CASE TerminateClear(p)
      BY <3>14, <2>0 DEF TerminateClear
    <3>15. CASE sendIpiMessage(p)
      BY <3>15, <2>0, Channels DEF sendIpiMessage
    <3>16. CASE Interrupt(p)
      BY <3>16, <2>0 DEF Interrupt
    <3>17. CASE Die(p)
      BY <3>17, <2>0 DEF Die
    <3> QED BY <2>1, <3>1, <3>2, <3>3, <3>4, <3>5, <3>6, <3>7, <3>8, <3>9, <3>10,
       <3>11, <3>12, <3>13, <3>14, <3>15, <3>16, <3>17 DEF Process
  <2>2. ASSUME NEW c \in Cores, Core(c) PROVE TypeOK'
    <3>1. CASE MonitorReady(c)
      BY <3>1 DEF MonitorReady
    <3>2. CASE MonitorStartPayload(c)
      BY <3>2 DEF MonitorStartPayload
    <3>3. CASE MonitorValidate(c)
      BY <3>3 DEF MonitorValidate
    <3>4. CASE PayloadReports(c)
      BY <3>4 DEF PayloadReports
    <3>5. CASE FIQInterrupt(c)
      BY <3>5 DEF FIQInterrupt
    <3>6. CASE MonitorCrash(c)
      BY <3>6 DEF MonitorCrash
    <3> QED BY <2>2, <3>1, <3>2, <3>3, <3>4, <3>5, <3>6 DEF Core
  <2>3. CASE UNCHANGED vars
    BY <2>3 DEF vars
  <2> QED BY <2>1, <2>2, <2>3 DEF Next
<1> QED BY <1>1, <1>2, PTL DEF Spec

-----------------------------------------------------------------------------
(* Control: what a process knows of its domain where it stands.            *)
ControlInv ==
    \A p \in Procs :
        /\ pc[p] \in {"startup", "ipc", "read", "vector", "write"} => gs[p] = "inReset"
        /\ pc[p] \in {"await", "ipi", "dying"} => gs[p] = "monitorStarted"
        /\ pc[p] \notin {"open", "cookie", "end"} => gs[p] # None
        /\ pc[p] \in {"load", "start"} => Tool(p) \in {"run", "start", "console"}
        /\ exit[p] # None => pc[p] = "end"

(* What getState tells of the cached general state.                        *)
LEMMA GetState ==
    ASSUME TypeOK, NEW p \in Procs, gs[p] # None
    PROVE  /\ getState(p) = "in_reset" => gs[p] = "inReset"
           /\ getState(p) = "monitor_ready" =>
                  gs[p] = "monitorStarted" /\ state[Cpu(p)] = "monitor_ready"
<1>1. Cpu(p) \in Cores
  BY DEF Cpu, Jobs, TypeOK
<1> QED BY <1>1 DEF TypeOK, getState, None

(* Every step keeps control and what a process knows in step.              *)
LEMMA ControlStep == TypeOK /\ ControlInv /\ [Next]_vars => ControlInv'
<1> SUFFICES ASSUME TypeOK, ControlInv, [Next]_vars PROVE ControlInv'
  OBVIOUS
<1>t. /\ DOMAIN pc = Procs /\ DOMAIN gs = Procs /\ DOMAIN exit = Procs
      /\ pc = [p \in Procs |-> pc[p]] /\ gs = [p \in Procs |-> gs[p]]
      /\ exit = [p \in Procs |-> exit[p]]
  BY DEF TypeOK, None
<1> USE DEF ControlInv, Tool, regs, mems, ipc, procs, Goto, End, Fail, throwOnError, None
<1>1. ASSUME NEW p \in Procs, Process(p) \/ Interrupt(p) \/ Die(p) PROVE ControlInv'
  <2>1. CASE OpenReset(p)
    BY <2>1, <1>t DEF OpenReset
  <2>2. CASE OpenCookie(p)
    BY <2>2, <1>t DEF OpenCookie
  <2>3. CASE Main(p)
    BY <2>3, <1>t, GetState DEF Main, Dispatch
  <2>4. CASE AfterStartup(p)
    BY <2>4, <1>t, GetState DEF AfterStartup
  <2>5. CASE StartupWriteCode(p)
    BY <2>5, <1>t DEF StartupWriteCode
  <2>6. CASE StartupClearIpc(p)
    BY <2>6, <1>t DEF StartupClearIpc
  <2>7. CASE BootCoreRead(p)
    BY <2>7, <1>t DEF BootCoreRead
  <2>8. CASE BootCoreVector(p)
    BY <2>8, <1>t DEF BootCoreVector
  <2>9. CASE BootCoreWrite(p)
    BY <2>9, <1>t DEF BootCoreWrite, Rewrite
  <2>10. CASE awaitMonitorStartup(p)
    BY <2>10, <1>t DEF awaitMonitorStartup
  <2>11. CASE loadPayloadFromFileOrThrow(p)
    BY <2>11, <1>t, GetState DEF loadPayloadFromFileOrThrow
  <2>12. CASE StartSend(p)
    BY <2>12, <1>t DEF StartSend
  <2>13. CASE StartPoll(p)
    BY <2>13, <1>t DEF StartPoll
  <2>14. CASE TerminateClear(p)
    BY <2>14, <1>t DEF TerminateClear
  <2>15. CASE sendIpiMessage(p)
    BY <2>15, <1>t DEF sendIpiMessage
  <2>16. CASE Interrupt(p)
    BY <2>16, <1>t DEF Interrupt
  <2>17. CASE Die(p)
    BY <2>17, <1>t DEF Die
  <2> QED BY <1>1, <2>1, <2>2, <2>3, <2>4, <2>5, <2>6, <2>7, <2>8, <2>9, <2>10,
     <2>11, <2>12, <2>13, <2>14, <2>15, <2>16, <2>17 DEF Process
<1>2. ASSUME NEW c \in Cores, Core(c) PROVE ControlInv'
  <2>1. CASE MonitorReady(c)
    BY <2>1, <1>t DEF MonitorReady
  <2>2. CASE MonitorStartPayload(c)
    BY <2>2, <1>t DEF MonitorStartPayload
  <2>3. CASE MonitorValidate(c)
    BY <2>3, <1>t DEF MonitorValidate
  <2>4. CASE PayloadReports(c)
    BY <2>4, <1>t DEF PayloadReports
  <2>5. CASE FIQInterrupt(c)
    BY <2>5, <1>t DEF FIQInterrupt
  <2>6. CASE MonitorCrash(c)
    BY <2>6, <1>t DEF MonitorCrash
  <2> QED BY <1>2, <2>1, <2>2, <2>3, <2>4, <2>5, <2>6 DEF Core
<1>3. CASE UNCHANGED vars
  BY <1>3 DEF vars
<1> QED BY <1>1, <1>2, <1>3 DEF Next

-----------------------------------------------------------------------------
(* Booting: the core's own monitor is in place.                            *)
Prepared(c) == code[c] = c /\ cookie[c] /\ vector[c] = c
Foreign(c) == core[c] = "foreign"

(* A core that something else runs on has not been touched.                *)
ForeignInv ==
    \A c \in Cores : Foreign(c) =>
        code[c] = 0 /\ ~cookie[c] /\ vector[c] = 0 /\ mail[c] = None /\ Listens(c) \notin ipi

(* A process that took the core for one in reset, or for one of bmboot's,  *)
(* is right that nothing else runs on it.                                  *)
OwnInv ==
    \A p \in Procs :
        /\ gs[p] \in {"inReset", "monitorStarted"} => ~Foreign(Cpu(p))
        /\ pc[p] = "cookie" => Prepared(Cpu(p)) \/ Foreign(Cpu(p))

(* What the process that is about to release the core has done.            *)
WrittenInv ==
    \A p \in Procs :
        /\ pc[p] \in {"ipc", "read", "vector", "write"} =>
               code[Cpu(p)] = Cpu(p) /\ cookie[Cpu(p)]
        /\ pc[p] = "write" => vector[Cpu(p)] = Cpu(p)

(* The bits a process writes back to the reset register: a core it takes   *)
(* out of reset has been released before, even if another process, with an *)
(* older view of the register, has put it back meanwhile.                  *)
SnapInv ==
    \A p \in Procs, c \in Cores :
        /\ pc[p] \in {"vector", "write"} /\ c \notin snap[p] => Prepared(c) \/ Foreign(c)
        /\ Foreign(c) => c \notin snap[p]

BootInv == BootedIsPrepared /\ OpenSeesMonitor /\ ForeignInv /\ OwnInv /\ WrittenInv /\ SnapInv

(* Command lines name existing cores.                                      *)
LEMMA CpuType == ASSUME TypeOK, NEW p \in Procs PROVE Cpu(p) \in Cores
  BY DEF Cpu, Jobs, TypeOK

(* Nothing unmakes a prepared core, and nothing else takes over a core.    *)
Kept ==
    \A d \in Cores :
        /\ Prepared(d) => Prepared(d)'
        /\ Foreign(d)' <=> Foreign(d)
        /\ Foreign(d) => code'[d] = code[d] /\ cookie'[d] = cookie[d] /\ vector'[d] = vector[d]

(* No step takes back what a boot has prepared.                            *)
LEMMA Stable == TypeOK /\ ControlInv /\ BootInv /\ [Next]_vars => Kept
<1> SUFFICES ASSUME TypeOK, ControlInv, BootInv, [Next]_vars PROVE Kept
  OBVIOUS
<1>0. ASSUME UNCHANGED <<code, cookie, vector, core>> PROVE Kept
  BY <1>0 DEF Kept, Prepared, Foreign
<1>c. ASSUME UNCHANGED <<code, cookie, vector>>, NEW c \in Cores, ~Foreign(c),
             NEW w, w # "foreign", core' = [core EXCEPT ![c] = w] PROVE Kept
  BY <1>c DEF Kept, Prepared, Foreign, TypeOK
<1> USE DEF regs, mems, ipc, procs, Becomes
<1>1. ASSUME NEW p \in Procs, Process(p) \/ Interrupt(p) \/ Die(p) PROVE Kept
  <2>1. CASE OpenReset(p)
    BY <2>1, <1>0 DEF OpenReset
  <2>2. CASE OpenCookie(p)
    BY <2>2, <1>0 DEF OpenCookie
  <2>3. CASE Main(p)
    BY <2>3, <1>0 DEF Main, Dispatch
  <2>4. CASE AfterStartup(p)
    BY <2>4, <1>0 DEF AfterStartup
  <2>5. CASE StartupWriteCode(p)
    <3>1. Cpu(p) \in Cores /\ ~Foreign(Cpu(p))
      BY <2>5, CpuType DEF StartupWriteCode, BootInv, OwnInv, ControlInv
    <3> QED BY <2>5, <3>1 DEF Kept, StartupWriteCode, Prepared, Foreign, TypeOK
  <2>6. CASE StartupClearIpc(p)
    BY <2>6, <1>0 DEF StartupClearIpc
  <2>7. CASE BootCoreRead(p)
    BY <2>7, <1>0 DEF BootCoreRead
  <2>8. CASE BootCoreVector(p)
    <3>1. Cpu(p) \in Cores /\ ~Foreign(Cpu(p))
      BY <2>8, CpuType DEF BootCoreVector, BootInv, OwnInv, ControlInv
    <3> QED BY <2>8, <3>1 DEF Kept, BootCoreVector, Prepared, Foreign, TypeOK
  <2>9. CASE BootCoreWrite(p)
    <3>1. \A d \in Cores : Foreign(d) => d \notin snap[p] /\ d \notin reset
      BY DEF BootInv, SnapInv, TypeOK, Foreign
    <3> QED BY <2>9, <3>1 DEF Kept, BootCoreWrite, Rewrite, Prepared, Foreign,
       TypeOK
  <2>10. CASE awaitMonitorStartup(p)
    BY <2>10, <1>0 DEF awaitMonitorStartup
  <2>11. CASE loadPayloadFromFileOrThrow(p)
    BY <2>11, <1>0 DEF loadPayloadFromFileOrThrow
  <2>12. CASE StartSend(p)
    BY <2>12, <1>0 DEF StartSend
  <2>13. CASE StartPoll(p)
    BY <2>13, <1>0 DEF StartPoll
  <2>14. CASE TerminateClear(p)
    BY <2>14, <1>0 DEF TerminateClear
  <2>15. CASE sendIpiMessage(p)
    BY <2>15, <1>0 DEF sendIpiMessage
  <2>16. CASE Interrupt(p)
    BY <2>16, <1>0 DEF Interrupt
  <2>17. CASE Die(p)
    BY <2>17, <1>0 DEF Die
  <2> QED BY <1>1, <2>1, <2>2, <2>3, <2>4, <2>5, <2>6, <2>7, <2>8, <2>9, <2>10,
     <2>11, <2>12, <2>13, <2>14, <2>15, <2>16, <2>17 DEF Process
<1>2. ASSUME NEW c \in Cores, Core(c) PROVE Kept
  <2>1. CASE MonitorReady(c)
    BY <2>1, <1>c DEF MonitorReady, Foreign
  <2>2. CASE MonitorStartPayload(c)
    BY <2>2, <1>c DEF MonitorStartPayload, Foreign
  <2>3. CASE MonitorValidate(c)
    BY <2>3, <1>c DEF MonitorValidate, Foreign
  <2>4. CASE PayloadReports(c)
    BY <2>4, <1>c DEF PayloadReports, Foreign
  <2>5. CASE FIQInterrupt(c)
    BY <2>5, <1>c DEF FIQInterrupt, Foreign
  <2>6. CASE MonitorCrash(c)
    BY <2>6, <1>c DEF MonitorCrash, Foreign
  <2> QED BY <1>2, <2>1, <2>2, <2>3, <2>4, <2>5, <2>6 DEF Core
<1>3. CASE UNCHANGED vars
  BY <1>3, <1>0 DEF vars
<1> QED BY <1>1, <1>2, <1>3 DEF Next

(* The writes of startup come before the release.                          *)
LEMMA WrittenStep == TypeOK /\ ControlInv /\ BootInv /\ [Next]_vars => WrittenInv'
<1> SUFFICES ASSUME TypeOK, ControlInv, BootInv, [Next]_vars PROVE WrittenInv'
  OBVIOUS
<1>k. Kept /\ WrittenInv
  BY Stable DEF BootInv
<1>t. /\ \A p \in Procs : Cpu(p) \in Cores
      /\ DOMAIN pc = Procs /\ DOMAIN gs = Procs /\ DOMAIN snap = Procs
      /\ DOMAIN code = Cores /\ DOMAIN cookie = Cores /\ DOMAIN vector = Cores
  BY CpuType DEF TypeOK
<1> USE DEF WrittenInv, Cpu, regs, mems, ipc, procs, Goto, End, Fail, throwOnError, Becomes, None
<1>1. ASSUME NEW p \in Procs, Process(p) \/ Interrupt(p) \/ Die(p) PROVE WrittenInv'
  <2>1. CASE OpenReset(p)
    BY <2>1, <1>k, <1>t DEF OpenReset
  <2>2. CASE OpenCookie(p)
    BY <2>2, <1>k, <1>t DEF OpenCookie
  <2>3. CASE Main(p)
    BY <2>3, <1>k, <1>t DEF Main, Dispatch
  <2>4. CASE AfterStartup(p)
    BY <2>4, <1>k, <1>t DEF AfterStartup
  <2>5. CASE StartupWriteCode(p)
    BY <2>5, <1>k, <1>t DEF StartupWriteCode
  <2>6. CASE StartupClearIpc(p)
    BY <2>6, <1>k, <1>t DEF StartupClearIpc
  <2>7. CASE BootCoreRead(p)
    BY <2>7, <1>k, <1>t DEF BootCoreRead
  <2>8. CASE BootCoreVector(p)
    BY <2>8, <1>k, <1>t DEF BootCoreVector
  <2>9. CASE BootCoreWrite(p)
    BY <2>9, <1>k, <1>t DEF BootCoreWrite, Rewrite
  <2>10. CASE awaitMonitorStartup(p)
    BY <2>10, <1>k, <1>t DEF awaitMonitorStartup
  <2>11. CASE loadPayloadFromFileOrThrow(p)
    BY <2>11, <1>k, <1>t DEF loadPayloadFromFileOrThrow
  <2>12. CASE StartSend(p)
    BY <2>12, <1>k, <1>t DEF StartSend
  <2>13. CASE StartPoll(p)
    BY <2>13, <1>k, <1>t DEF StartPoll
  <2>14. CASE TerminateClear(p)
    BY <2>14, <1>k, <1>t DEF TerminateClear
  <2>15. CASE sendIpiMessage(p)
    BY <2>15, <1>k, <1>t DEF sendIpiMessage
  <2>16. CASE Interrupt(p)
    BY <2>16, <1>k, <1>t DEF Interrupt
  <2>17. CASE Die(p)
    BY <2>17, <1>k, <1>t DEF Die
  <2> QED BY <1>1, <2>1, <2>2, <2>3, <2>4, <2>5, <2>6, <2>7, <2>8, <2>9, <2>10,
     <2>11, <2>12, <2>13, <2>14, <2>15, <2>16, <2>17 DEF Process
<1>2. ASSUME NEW c \in Cores, Core(c) PROVE WrittenInv'
  <2>1. CASE MonitorReady(c)
    BY <2>1, <1>k, <1>t DEF MonitorReady
  <2>2. CASE MonitorStartPayload(c)
    BY <2>2, <1>k, <1>t DEF MonitorStartPayload
  <2>3. CASE MonitorValidate(c)
    BY <2>3, <1>k, <1>t DEF MonitorValidate
  <2>4. CASE PayloadReports(c)
    BY <2>4, <1>k, <1>t DEF PayloadReports
  <2>5. CASE FIQInterrupt(c)
    BY <2>5, <1>k, <1>t DEF FIQInterrupt
  <2>6. CASE MonitorCrash(c)
    BY <2>6, <1>k, <1>t DEF MonitorCrash
  <2> QED BY <1>2, <2>1, <2>2, <2>3, <2>4, <2>5, <2>6 DEF Core
<1>3. CASE UNCHANGED vars
  BY <1>3, <1>k DEF vars, Prepared, Foreign
<1> QED BY <1>1, <1>2, <1>3 DEF Next

(* Whoever opens a domain learns the truth about it.                       *)
LEMMA OwnStep == TypeOK /\ ControlInv /\ BootInv /\ [Next]_vars => OwnInv'
<1> SUFFICES ASSUME TypeOK, ControlInv, BootInv, [Next]_vars PROVE OwnInv'
  OBVIOUS
<1>k. Kept /\ OwnInv
  BY Stable DEF BootInv
<1>t. /\ \A p \in Procs : Cpu(p) \in Cores
      /\ DOMAIN pc = Procs /\ DOMAIN gs = Procs /\ DOMAIN snap = Procs
      /\ DOMAIN code = Cores /\ DOMAIN cookie = Cores /\ DOMAIN vector = Cores
  BY CpuType DEF TypeOK
<1>r. \A c \in Cores : /\ c \in reset => ~Foreign(c)
                       /\ c \notin reset => Prepared(c) \/ Foreign(c)
                       /\ cookie[c] => ~Foreign(c)
  BY DEF BootInv, BootedIsPrepared, ForeignInv, Foreign, Prepared, TypeOK
<1>s. ASSUME NEW p \in Procs
      PROVE  /\ Cpu(p) \in reset => ~Foreign(Cpu(p))
             /\ Cpu(p) \notin reset => Prepared(Cpu(p)) \/ Foreign(Cpu(p))
             /\ cookie[Cpu(p)] => ~Foreign(Cpu(p))
             /\ gs[p] \in {"inReset", "monitorStarted"} => ~Foreign(Cpu(p))
  <2>1. gs[p] \in {"inReset", "monitorStarted"} => ~Foreign(Cpu(p))
    BY <1>k DEF OwnInv
  <2>2. Cpu(p) \in Cores
    BY <1>t
  <2> QED BY <1>r, <2>1, <2>2, Zenon
<1> USE DEF OwnInv, Cpu, Kept, regs, mems, ipc, procs, Goto, End, Fail, throwOnError, Becomes, None
<1>1. ASSUME NEW p \in Procs, Process(p) \/ Interrupt(p) \/ Die(p) PROVE OwnInv'
  <2>1. CASE OpenReset(p)
    <3>1. /\ \A d \in Cores : (Prepared(d)' <=> Prepared(d)) /\ (Foreign(d)' <=> Foreign(d))
          /\ \A q \in Procs : Cpu(q)' = Cpu(q)
      BY <2>1 DEF OpenReset, Prepared, Foreign
    <3>2. ASSUME NEW q \in Procs
          PROVE  /\ gs'[q] \in {"inReset", "monitorStarted"} => ~Foreign(Cpu(q))
                 /\ pc'[q] = "cookie" => Prepared(Cpu(q)) \/ Foreign(Cpu(q))
      <4> HIDE DEF Cpu, OwnInv
      <4>1. CASE q = p
        BY <2>1, <4>1, <1>s, <1>t DEF OpenReset
      <4>2. CASE q # p
        BY <2>1, <4>2, <1>k, <1>t DEF OpenReset, OwnInv, Cpu
      <4> QED BY <4>1, <4>2
    <3> HIDE DEF Cpu
    <3> QED BY <1>t, <3>1, <3>2
  <2>2. CASE OpenCookie(p)
    <3>1. /\ \A d \in Cores : (Prepared(d)' <=> Prepared(d)) /\ (Foreign(d)' <=> Foreign(d))
          /\ \A q \in Procs : Cpu(q)' = Cpu(q)
      BY <2>2 DEF OpenCookie, Prepared, Foreign
    <3>2. ASSUME NEW q \in Procs
          PROVE  /\ gs'[q] \in {"inReset", "monitorStarted"} => ~Foreign(Cpu(q))
                 /\ pc'[q] = "cookie" => Prepared(Cpu(q)) \/ Foreign(Cpu(q))
      <4> HIDE DEF Cpu, OwnInv
      <4>1. CASE q = p
        BY <2>2, <4>1, <1>s, <1>t DEF OpenCookie
      <4>2. CASE q # p
        BY <2>2, <4>2, <1>k, <1>t DEF OpenCookie, OwnInv, Cpu
      <4> QED BY <4>1, <4>2
    <3> HIDE DEF Cpu
    <3> QED BY <1>t, <3>1, <3>2
  <2>3. CASE Main(p)
    BY <2>3, <1>k, <1>t DEF Main, Dispatch
  <2>4. CASE AfterStartup(p)
    BY <2>4, <1>k, <1>t DEF AfterStartup
  <2>5. CASE StartupWriteCode(p)
    BY <2>5, <1>k, <1>t DEF StartupWriteCode
  <2>6. CASE StartupClearIpc(p)
    BY <2>6, <1>k, <1>t DEF StartupClearIpc
  <2>7. CASE BootCoreRead(p)
    BY <2>7, <1>k, <1>t DEF BootCoreRead
  <2>8. CASE BootCoreVector(p)
    BY <2>8, <1>k, <1>t DEF BootCoreVector
  <2>9. CASE BootCoreWrite(p)
    <3>1. gs[p] = "inReset"
      BY <2>9 DEF BootCoreWrite, ControlInv
    <3> QED BY <2>9, <1>k, <1>t, <3>1 DEF BootCoreWrite
  <2>10. CASE awaitMonitorStartup(p)
    BY <2>10, <1>k, <1>t DEF awaitMonitorStartup
  <2>11. CASE loadPayloadFromFileOrThrow(p)
    BY <2>11, <1>k, <1>t DEF loadPayloadFromFileOrThrow
  <2>12. CASE StartSend(p)
    BY <2>12, <1>k, <1>t DEF StartSend
  <2>13. CASE StartPoll(p)
    BY <2>13, <1>k, <1>t DEF StartPoll
  <2>14. CASE TerminateClear(p)
    BY <2>14, <1>k, <1>t DEF TerminateClear
  <2>15. CASE sendIpiMessage(p)
    BY <2>15, <1>k, <1>t DEF sendIpiMessage
  <2>16. CASE Interrupt(p)
    BY <2>16, <1>k, <1>t DEF Interrupt
  <2>17. CASE Die(p)
    BY <2>17, <1>k, <1>t DEF Die
  <2> QED BY <1>1, <2>1, <2>2, <2>3, <2>4, <2>5, <2>6, <2>7, <2>8, <2>9, <2>10,
     <2>11, <2>12, <2>13, <2>14, <2>15, <2>16, <2>17 DEF Process
<1>2. ASSUME NEW c \in Cores, Core(c) PROVE OwnInv'
  <2>1. CASE MonitorReady(c)
    BY <2>1, <1>k, <1>t DEF MonitorReady
  <2>2. CASE MonitorStartPayload(c)
    BY <2>2, <1>k, <1>t DEF MonitorStartPayload
  <2>3. CASE MonitorValidate(c)
    BY <2>3, <1>k, <1>t DEF MonitorValidate
  <2>4. CASE PayloadReports(c)
    BY <2>4, <1>k, <1>t DEF PayloadReports
  <2>5. CASE FIQInterrupt(c)
    BY <2>5, <1>k, <1>t DEF FIQInterrupt
  <2>6. CASE MonitorCrash(c)
    BY <2>6, <1>k, <1>t DEF MonitorCrash
  <2> QED BY <1>2, <2>1, <2>2, <2>3, <2>4, <2>5, <2>6 DEF Core
<1>3. CASE UNCHANGED vars
  BY <1>3, <1>k DEF vars, Prepared, Foreign
<1> QED BY <1>1, <1>2, <1>3 DEF Next

(* The view of the reset register a process works with.                    *)
LEMMA SnapStep == TypeOK /\ ControlInv /\ BootInv /\ [Next]_vars => SnapInv'
<1> SUFFICES ASSUME TypeOK, ControlInv, BootInv, [Next]_vars PROVE SnapInv'
  OBVIOUS
<1>k. Kept /\ SnapInv
  BY Stable DEF BootInv
<1>t. /\ \A p \in Procs : Cpu(p) \in Cores
      /\ DOMAIN pc = Procs /\ DOMAIN gs = Procs /\ DOMAIN snap = Procs
      /\ DOMAIN code = Cores /\ DOMAIN cookie = Cores /\ DOMAIN vector = Cores
  BY CpuType DEF TypeOK
<1>r. \A c \in Cores : /\ c \in reset => ~Foreign(c)
                       /\ c \notin reset => Prepared(c) \/ Foreign(c)
                       /\ cookie[c] => ~Foreign(c)
  BY DEF BootInv, BootedIsPrepared, ForeignInv, Foreign, Prepared, TypeOK
<1>u. \A p \in Procs, c \in Cores : Foreign(c) => c \notin snap[p]
  BY <1>k DEF SnapInv
<1> USE DEF SnapInv, Kept, regs, mems, ipc, procs, Goto, End, Fail, throwOnError, Becomes, None
<1>1. ASSUME NEW p \in Procs, Process(p) \/ Interrupt(p) \/ Die(p) PROVE SnapInv'
  <2>1. CASE OpenReset(p)
    BY <2>1, <1>k, <1>t DEF OpenReset
  <2>2. CASE OpenCookie(p)
    BY <2>2, <1>k, <1>t DEF OpenCookie
  <2>3. CASE Main(p)
    BY <2>3, <1>k, <1>t DEF Main, Dispatch
  <2>4. CASE AfterStartup(p)
    BY <2>4, <1>k, <1>t DEF AfterStartup
  <2>5. CASE StartupWriteCode(p)
    BY <2>5, <1>k, <1>t DEF StartupWriteCode
  <2>6. CASE StartupClearIpc(p)
    BY <2>6, <1>k, <1>t DEF StartupClearIpc
  <2>7. CASE BootCoreRead(p)
    <3>1. \A d \in Cores : (Prepared(d)' <=> Prepared(d)) /\ (Foreign(d)' <=> Foreign(d))
      BY <2>7 DEF BootCoreRead, Prepared, Foreign
    <3>2. ASSUME NEW q \in Procs, NEW c \in Cores
          PROVE  /\ pc'[q] \in {"vector", "write"} /\ c \notin snap'[q] => Prepared(c) \/ Foreign(c)
                 /\ Foreign(c) => c \notin snap'[q]
      <4> HIDE DEF SnapInv, Kept
      <4>1. CASE q = p
        <5>1. CASE Fail(p) /\ UNCHANGED snap
          BY <4>1, <5>1, <1>t, <1>u
        <5>2. CASE Goto(p, "vector") /\ snap' = [snap EXCEPT ![p] = reset]
          <6>1. snap'[q] = reset
            BY <4>1, <5>2, <1>t
          <6> QED BY <6>1, <1>r, Zenon
        <5> QED BY <2>7, <5>1, <5>2 DEF BootCoreRead
      <4>2. CASE q # p
        BY <2>7, <4>2, <1>k, <1>t DEF BootCoreRead, SnapInv
      <4> QED BY <4>1, <4>2
    <3> QED BY <3>1, <3>2
  <2>8. CASE BootCoreVector(p)
    BY <2>8, <1>k, <1>t DEF BootCoreVector
  <2>9. CASE BootCoreWrite(p)
    BY <2>9, <1>k, <1>t DEF BootCoreWrite, Rewrite
  <2>10. CASE awaitMonitorStartup(p)
    BY <2>10, <1>k, <1>t DEF awaitMonitorStartup
  <2>11. CASE loadPayloadFromFileOrThrow(p)
    BY <2>11, <1>k, <1>t DEF loadPayloadFromFileOrThrow
  <2>12. CASE StartSend(p)
    BY <2>12, <1>k, <1>t DEF StartSend
  <2>13. CASE StartPoll(p)
    BY <2>13, <1>k, <1>t DEF StartPoll
  <2>14. CASE TerminateClear(p)
    BY <2>14, <1>k, <1>t DEF TerminateClear
  <2>15. CASE sendIpiMessage(p)
    BY <2>15, <1>k, <1>t DEF sendIpiMessage
  <2>16. CASE Interrupt(p)
    BY <2>16, <1>k, <1>t DEF Interrupt
  <2>17. CASE Die(p)
    BY <2>17, <1>k, <1>t DEF Die
  <2> QED BY <1>1, <2>1, <2>2, <2>3, <2>4, <2>5, <2>6, <2>7, <2>8, <2>9, <2>10,
     <2>11, <2>12, <2>13, <2>14, <2>15, <2>16, <2>17 DEF Process
<1>2. ASSUME NEW c \in Cores, Core(c) PROVE SnapInv'
  <2>1. CASE MonitorReady(c)
    BY <2>1, <1>k, <1>t DEF MonitorReady
  <2>2. CASE MonitorStartPayload(c)
    BY <2>2, <1>k, <1>t DEF MonitorStartPayload
  <2>3. CASE MonitorValidate(c)
    BY <2>3, <1>k, <1>t DEF MonitorValidate
  <2>4. CASE PayloadReports(c)
    BY <2>4, <1>k, <1>t DEF PayloadReports
  <2>5. CASE FIQInterrupt(c)
    BY <2>5, <1>k, <1>t DEF FIQInterrupt
  <2>6. CASE MonitorCrash(c)
    BY <2>6, <1>k, <1>t DEF MonitorCrash
  <2> QED BY <1>2, <2>1, <2>2, <2>3, <2>4, <2>5, <2>6 DEF Core
<1>3. CASE UNCHANGED vars
  BY <1>3, <1>k DEF vars, Prepared, Foreign
<1> QED BY <1>1, <1>2, <1>3 DEF Next

(* A core comes out of reset with its monitor in place.                    *)
LEMMA BootedStep == TypeOK /\ ControlInv /\ BootInv /\ [Next]_vars => BootedIsPrepared'
<1> SUFFICES ASSUME TypeOK, ControlInv, BootInv, [Next]_vars PROVE BootedIsPrepared'
  OBVIOUS
<1>k. Kept /\ BootedIsPrepared
  BY Stable DEF BootInv
<1>t. /\ \A p \in Procs : Cpu(p) \in Cores
      /\ DOMAIN pc = Procs /\ DOMAIN gs = Procs /\ DOMAIN snap = Procs
      /\ DOMAIN code = Cores /\ DOMAIN cookie = Cores /\ DOMAIN vector = Cores
  BY CpuType DEF TypeOK
<1>0. ASSUME \A c \in Cores : core'[c] \notin {"reset", "foreign"} => core[c] \notin {"reset", "foreign"}
      PROVE  BootedIsPrepared'
  BY <1>0, <1>k DEF BootedIsPrepared, Kept, Prepared
<1>c. DOMAIN core = Cores
  BY DEF TypeOK
<1> USE DEF BootedIsPrepared, regs, mems, ipc, procs, Goto, End, Fail, throwOnError, Becomes, None
<1>1. ASSUME NEW p \in Procs, Process(p) \/ Interrupt(p) \/ Die(p) PROVE BootedIsPrepared'
  <2>1. CASE OpenReset(p)
    BY <2>1, <1>0 DEF OpenReset
  <2>2. CASE OpenCookie(p)
    BY <2>2, <1>0 DEF OpenCookie
  <2>3. CASE Main(p)
    BY <2>3, <1>0 DEF Main, Dispatch
  <2>4. CASE AfterStartup(p)
    BY <2>4, <1>0 DEF AfterStartup
  <2>5. CASE StartupWriteCode(p)
    BY <2>5, <1>0 DEF StartupWriteCode
  <2>6. CASE StartupClearIpc(p)
    BY <2>6, <1>0 DEF StartupClearIpc
  <2>7. CASE BootCoreRead(p)
    BY <2>7, <1>0 DEF BootCoreRead
  <2>8. CASE BootCoreVector(p)
    BY <2>8, <1>0 DEF BootCoreVector
  <2>9. CASE BootCoreWrite(p)
    <3>1. ASSUME NEW c \in Cores, core'[c] \notin {"reset", "foreign"}
          PROVE  Prepared(c)'
      <4>1. CASE core[c] \notin {"reset", "foreign"}
        BY <4>1, <1>k DEF Kept, Prepared
      <4>2. CASE core[c] = "foreign"
        BY <4>2, <3>1, <1>k DEF Kept, Foreign
      <4>3. CASE core[c] = "reset"
        <5>1. c \notin snap[p] \/ c = Cpu(p)
          BY <2>9, <3>1 DEF BootCoreWrite, Rewrite
        <5>2. Prepared(c)
          BY <2>9, <4>3, <5>1 DEF BootCoreWrite, BootInv, WrittenInv, SnapInv,
             Prepared, Foreign
        <5> QED BY <5>2, <1>k DEF Kept
      <4>4. core[c] \in {"reset", "foreign"} \/ core[c] \notin {"reset", "foreign"}
        OBVIOUS
      <4> QED BY <4>1, <4>2, <4>3, <4>4
    <3> QED BY <3>1 DEF Prepared
  <2>10. CASE awaitMonitorStartup(p)
    BY <2>10, <1>0 DEF awaitMonitorStartup
  <2>11. CASE loadPayloadFromFileOrThrow(p)
    BY <2>11, <1>0 DEF loadPayloadFromFileOrThrow
  <2>12. CASE StartSend(p)
    BY <2>12, <1>0 DEF StartSend
  <2>13. CASE StartPoll(p)
    BY <2>13, <1>0 DEF StartPoll
  <2>14. CASE TerminateClear(p)
    BY <2>14, <1>0 DEF TerminateClear
  <2>15. CASE sendIpiMessage(p)
    BY <2>15, <1>0 DEF sendIpiMessage
  <2>16. CASE Interrupt(p)
    BY <2>16, <1>0 DEF Interrupt
  <2>17. CASE Die(p)
    BY <2>17, <1>0 DEF Die
  <2> QED BY <1>1, <2>1, <2>2, <2>3, <2>4, <2>5, <2>6, <2>7, <2>8, <2>9, <2>10,
     <2>11, <2>12, <2>13, <2>14, <2>15, <2>16, <2>17 DEF Process
<1>2. ASSUME NEW c \in Cores, Core(c) PROVE BootedIsPrepared'
  <2>1. CASE MonitorReady(c)
    BY <2>1, <1>0, <1>c DEF MonitorReady
  <2>2. CASE MonitorStartPayload(c)
    BY <2>2, <1>0, <1>c DEF MonitorStartPayload
  <2>3. CASE MonitorValidate(c)
    BY <2>3, <1>0, <1>c DEF MonitorValidate
  <2>4. CASE PayloadReports(c)
    BY <2>4, <1>0, <1>c DEF PayloadReports
  <2>5. CASE FIQInterrupt(c)
    BY <2>5, <1>0, <1>c DEF FIQInterrupt
  <2>6. CASE MonitorCrash(c)
    BY <2>6, <1>0, <1>c DEF MonitorCrash
  <2> QED BY <1>2, <2>1, <2>2, <2>3, <2>4, <2>5, <2>6 DEF Core
<1>3. CASE UNCHANGED vars
  BY <1>3, <1>0 DEF vars
<1> QED BY <1>1, <1>2, <1>3 DEF Next

(* Only a core that something else runs on is found unavailable.           *)
LEMMA OpenSeesStep == TypeOK /\ ControlInv /\ BootInv /\ [Next]_vars => OpenSeesMonitor'
<1> SUFFICES ASSUME TypeOK, ControlInv, BootInv, [Next]_vars PROVE OpenSeesMonitor'
  OBVIOUS
<1>k. Kept /\ OpenSeesMonitor
  BY Stable DEF BootInv
<1>t. /\ \A p \in Procs : Cpu(p) \in Cores
      /\ DOMAIN pc = Procs /\ DOMAIN gs = Procs /\ DOMAIN snap = Procs
      /\ DOMAIN code = Cores /\ DOMAIN cookie = Cores /\ DOMAIN vector = Cores
  BY CpuType DEF TypeOK
<1>0. ASSUME NEW p \in Procs, job' = job, gs'[p] = gs[p]
      PROVE  gs'[p] = "unavailable" => core'[Cpu(p)'] = "foreign"
  BY <1>0, <1>k, <1>t DEF OpenSeesMonitor, Kept, Foreign, Cpu
<1>j. ASSUME UNCHANGED <<job, gs>> PROVE OpenSeesMonitor'
  BY <1>0, <1>j DEF OpenSeesMonitor
<1> USE DEF Cpu, regs, mems, ipc, procs, Goto, End, Fail, throwOnError, Becomes, None
<1>1. ASSUME NEW p \in Procs, Process(p) \/ Interrupt(p) \/ Die(p) PROVE OpenSeesMonitor'
  <2>1. CASE OpenReset(p)
    <3>1. ASSUME NEW q \in Procs PROVE gs'[q] = "unavailable" => core'[Cpu(q)'] = "foreign"
      <4>1. CASE gs'[q] = gs[q]
        BY <2>1, <4>1, <1>0 DEF OpenReset
      <4>2. CASE gs'[q] # gs[q]
        BY <2>1, <4>2, <1>t DEF OpenReset
      <4> QED BY <4>1, <4>2
    <3> QED BY <3>1 DEF OpenSeesMonitor
  <2>2. CASE OpenCookie(p)
    <3>1. ASSUME NEW q \in Procs PROVE gs'[q] = "unavailable" => core'[Cpu(q)'] = "foreign"
      <4>1. CASE gs'[q] = gs[q]
        BY <2>2, <4>1, <1>0 DEF OpenCookie
      <4>2. CASE gs'[q] # gs[q] /\ gs'[q] = "unavailable"
        <5>1. q = p /\ ~cookie[Cpu(p)]
          BY <2>2, <4>2, <1>t DEF OpenCookie
        <5>2. core[Cpu(p)] = "foreign"
          BY <2>2, <5>1 DEF OpenCookie, BootInv, OwnInv, Prepared, Foreign
        <5> QED BY <2>2, <5>1, <5>2 DEF OpenCookie
      <4> QED BY <4>1, <4>2
    <3> QED BY <3>1 DEF OpenSeesMonitor
  <2>3. CASE Main(p)
    BY <2>3, <1>j DEF Main, Dispatch
  <2>4. CASE AfterStartup(p)
    BY <2>4, <1>j DEF AfterStartup
  <2>5. CASE StartupWriteCode(p)
    BY <2>5, <1>j DEF StartupWriteCode
  <2>6. CASE StartupClearIpc(p)
    BY <2>6, <1>j DEF StartupClearIpc
  <2>7. CASE BootCoreRead(p)
    BY <2>7, <1>j DEF BootCoreRead
  <2>8. CASE BootCoreVector(p)
    BY <2>8, <1>j DEF BootCoreVector
  <2>9. CASE BootCoreWrite(p)
    <3>1. ASSUME NEW q \in Procs PROVE gs'[q] = "unavailable" => core'[Cpu(q)'] = "foreign"
      <4>1. CASE gs'[q] = gs[q]
        BY <2>9, <4>1, <1>0 DEF BootCoreWrite
      <4>2. CASE gs'[q] # gs[q]
        BY <2>9, <4>2, <1>t DEF BootCoreWrite
      <4> QED BY <4>1, <4>2
    <3> QED BY <3>1 DEF OpenSeesMonitor
  <2>10. CASE awaitMonitorStartup(p)
    BY <2>10, <1>j DEF awaitMonitorStartup
  <2>11. CASE loadPayloadFromFileOrThrow(p)
    BY <2>11, <1>j DEF loadPayloadFromFileOrThrow
  <2>12. CASE StartSend(p)
    BY <2>12, <1>j DEF StartSend
  <2>13. CASE StartPoll(p)
    BY <2>13, <1>j DEF StartPoll
  <2>14. CASE TerminateClear(p)
    BY <2>14, <1>j DEF TerminateClear
  <2>15. CASE sendIpiMessage(p)
    BY <2>15, <1>j DEF sendIpiMessage
  <2>16. CASE Interrupt(p)
    BY <2>16, <1>j DEF Interrupt
  <2>17. CASE Die(p)
    BY <2>17, <1>j DEF Die
  <2> QED BY <1>1, <2>1, <2>2, <2>3, <2>4, <2>5, <2>6, <2>7, <2>8, <2>9, <2>10,
     <2>11, <2>12, <2>13, <2>14, <2>15, <2>16, <2>17 DEF Process
<1>2. ASSUME NEW c \in Cores, Core(c) PROVE OpenSeesMonitor'
  <2>1. CASE MonitorReady(c)
    BY <2>1, <1>j DEF MonitorReady
  <2>2. CASE MonitorStartPayload(c)
    BY <2>2, <1>j DEF MonitorStartPayload
  <2>3. CASE MonitorValidate(c)
    BY <2>3, <1>j DEF MonitorValidate
  <2>4. CASE PayloadReports(c)
    BY <2>4, <1>j DEF PayloadReports
  <2>5. CASE FIQInterrupt(c)
    BY <2>5, <1>j DEF FIQInterrupt
  <2>6. CASE MonitorCrash(c)
    BY <2>6, <1>j DEF MonitorCrash
  <2> QED BY <1>2, <2>1, <2>2, <2>3, <2>4, <2>5, <2>6 DEF Core
<1>3. CASE UNCHANGED vars
  BY <1>3, <1>j DEF vars
<1> QED BY <1>1, <1>2, <1>3 DEF Next

(* No tool reaches a core that something else runs on.                     *)
LEMMA ForeignStep == TypeOK /\ ControlInv /\ BootInv /\ [Next]_vars => ForeignInv'
<1> SUFFICES ASSUME TypeOK, ControlInv, BootInv, [Next]_vars PROVE ForeignInv'
  OBVIOUS
<1>k. Kept /\ ForeignInv
  BY Stable DEF BootInv
<1>t. /\ \A p \in Procs : Cpu(p) \in Cores
      /\ DOMAIN pc = Procs /\ DOMAIN gs = Procs /\ DOMAIN snap = Procs
      /\ DOMAIN code = Cores /\ DOMAIN cookie = Cores /\ DOMAIN vector = Cores
  BY CpuType DEF TypeOK
<1>0. ASSUME \A c \in Cores : Foreign(c) =>
                 (mail'[c] = mail[c] \/ mail'[c] = None) /\ (Listens(c) \in ipi' => Listens(c) \in ipi)
      PROVE  ForeignInv'
  BY <1>0, <1>k DEF ForeignInv, Kept
<1>m. DOMAIN mail = Cores
  BY DEF TypeOK
<1> USE DEF Cpu, regs, mems, ipc, procs, Goto, End, Fail, throwOnError, Becomes, None
<1>1. ASSUME NEW p \in Procs, Process(p) \/ Interrupt(p) \/ Die(p) PROVE ForeignInv'
  <2>1. CASE OpenReset(p)
    BY <2>1, <1>0 DEF OpenReset
  <2>2. CASE OpenCookie(p)
    BY <2>2, <1>0 DEF OpenCookie
  <2>3. CASE Main(p)
    BY <2>3, <1>0 DEF Main, Dispatch
  <2>4. CASE AfterStartup(p)
    BY <2>4, <1>0 DEF AfterStartup
  <2>5. CASE StartupWriteCode(p)
    BY <2>5, <1>0 DEF StartupWriteCode
  <2>6. CASE StartupClearIpc(p)
    BY <2>6, <1>0, <1>m DEF StartupClearIpc
  <2>7. CASE BootCoreRead(p)
    BY <2>7, <1>0 DEF BootCoreRead
  <2>8. CASE BootCoreVector(p)
    BY <2>8, <1>0 DEF BootCoreVector
  <2>9. CASE BootCoreWrite(p)
    BY <2>9, <1>0 DEF BootCoreWrite, Rewrite
  <2>10. CASE awaitMonitorStartup(p)
    BY <2>10, <1>0 DEF awaitMonitorStartup
  <2>11. CASE loadPayloadFromFileOrThrow(p)
    BY <2>11, <1>0 DEF loadPayloadFromFileOrThrow
  <2>12. CASE StartSend(p)
    <3>1. mail' # mail => ~Foreign(Cpu(p))
      BY <2>12, GetState DEF StartSend, ControlInv, BootInv, OwnInv
    <3> QED BY <2>12, <3>1, <1>0, <1>m DEF StartSend
  <2>13. CASE StartPoll(p)
    BY <2>13, <1>0 DEF StartPoll
  <2>14. CASE TerminateClear(p)
    BY <2>14, <1>0, <1>m DEF TerminateClear
  <2>15. CASE sendIpiMessage(p)
    <3>1. ~Foreign(Cpu(p))
      BY <2>15 DEF sendIpiMessage, ControlInv, BootInv, OwnInv
    <3>2. \A c \in Cores : Foreign(c) => Listens(c) # getIpiChannelForCpu(Cpu(p))
      BY <3>1, <1>t, Channels
    <3> QED BY <2>15, <3>2, <1>0 DEF sendIpiMessage
  <2>16. CASE Interrupt(p)
    BY <2>16, <1>0 DEF Interrupt
  <2>17. CASE Die(p)
    BY <2>17, <1>0 DEF Die
  <2> QED BY <1>1, <2>1, <2>2, <2>3, <2>4, <2>5, <2>6, <2>7, <2>8, <2>9, <2>10,
     <2>11, <2>12, <2>13, <2>14, <2>15, <2>16, <2>17 DEF Process
<1>2. ASSUME NEW c \in Cores, Core(c) PROVE ForeignInv'
  <2>1. CASE MonitorReady(c)
    BY <2>1, <1>0, <1>m DEF MonitorReady
  <2>2. CASE MonitorStartPayload(c)
    BY <2>2, <1>0, <1>m DEF MonitorStartPayload
  <2>3. CASE MonitorValidate(c)
    BY <2>3, <1>0, <1>m DEF MonitorValidate
  <2>4. CASE PayloadReports(c)
    BY <2>4, <1>0, <1>m DEF PayloadReports
  <2>5. CASE FIQInterrupt(c)
    BY <2>5, <1>0, <1>m DEF FIQInterrupt
  <2>6. CASE MonitorCrash(c)
    BY <2>6, <1>0, <1>m DEF MonitorCrash
  <2> QED BY <1>2, <2>1, <2>2, <2>3, <2>4, <2>5, <2>6 DEF Core
<1>3. CASE UNCHANGED vars
  BY <1>3, <1>0 DEF vars
<1> QED BY <1>1, <1>2, <1>3 DEF Next

(* The inductive invariant holds throughout.                               *)
LEMMA ToolsBoot == Spec => [](TypeOK /\ ControlInv /\ BootInv)
<1>1. Init => ControlInv /\ BootInv
  <2> SUFFICES ASSUME Init PROVE ControlInv /\ BootInv
    OBVIOUS
  <2>1. PICK kind \in [Cores -> {"reset", "foreign", "loop", "el1"}] :
          /\ core = kind
          /\ \A c \in Cores : /\ kind[c] = "foreign" => ~cookie[c]
                              /\ kind[c] \in {"loop", "el1"} => cookie[c]
          /\ code = [c \in Cores |-> IF kind[c] \in {"loop", "el1"} THEN c ELSE 0]
          /\ vector = code
    BY DEF Init
  <2>2. /\ pc = [p \in Procs |-> "open"] /\ gs = [p \in Procs |-> None]
        /\ snap = [p \in Procs |-> {}] /\ exit = [p \in Procs |-> None]
        /\ mail = [c \in Cores |-> None] /\ ipi = {}
    BY DEF Init
  <2>3. BootedIsPrepared /\ ForeignInv
    BY <2>1, <2>2 DEF BootedIsPrepared, ForeignInv, Foreign
  <2>4. ControlInv /\ OpenSeesMonitor /\ OwnInv /\ WrittenInv /\ SnapInv
    BY <2>2 DEF ControlInv, OpenSeesMonitor, OwnInv, WrittenInv, SnapInv, None
  <2> QED BY <2>3, <2>4 DEF BootInv
<1>2. TypeOK /\ ControlInv /\ BootInv /\ [Next]_vars => BootInv'
  BY BootedStep, OpenSeesStep, ForeignStep, OwnStep, WrittenStep, SnapStep DEF BootInv
<1> QED BY <1>1, <1>2, ToolsTypeCorrect, ControlStep, PTL DEF Spec

(* Whichever processes race to boot the cores, a core that leaves reset    *)
(* executes its own monitor from its own memory.                           *)
THEOREM BootIsPrepared == Spec => []BootedIsPrepared
<1>1. BootInv => BootedIsPrepared
  BY DEF BootInv
<1> QED BY <1>1, ToolsBoot, PTL

(* IDomain::open reports a domain unavailable only if something else runs  *)
(* on its core, whoever boots it at the same time.                         *)
THEOREM OpenIsRight == Spec => []OpenSeesMonitor
<1>1. BootInv => OpenSeesMonitor
  BY DEF BootInv
<1> QED BY <1>1, ToolsBoot, PTL

(* No tool ever writes to a core that something else runs on.              *)
THEOREM ForeignIsSafe == Spec => ForeignUntouched
<1> DEFINE Safe ==
      \A c \in Cores : core[c] = "foreign" =>
           /\ core'[c] = "foreign" /\ code'[c] = 0 /\ ~cookie'[c]
           /\ vector'[c] = 0 /\ mail'[c] = None /\ Listens(c) \notin ipi'
<1>1. TypeOK /\ ControlInv /\ BootInv /\ BootInv' /\ [Next]_vars => [Safe]_vars
  <2> SUFFICES ASSUME TypeOK, ControlInv, BootInv, BootInv', [Next]_vars PROVE Safe
    OBVIOUS
  <2>1. Kept
    BY Stable
  <2> QED BY <2>1 DEF Kept, BootInv, ForeignInv, Foreign
<1> QED BY <1>1, ToolsBoot, PTL DEF Spec, ForeignUntouched

-----------------------------------------------------------------------------
(* A request is pending for a core only if a client asked to kill it.      *)
AskedInv == \A c \in Cores : Listens(c) \in ipi => asked[c]

(* No step sends a kill that was not asked for.                            *)
LEMMA AskedStep == TypeOK /\ AskedInv /\ [Next]_vars => AskedInv'
<1> SUFFICES ASSUME TypeOK, AskedInv, [Next]_vars PROVE AskedInv'
  OBVIOUS
<1>0. ASSUME ipi' \subseteq ipi, asked' = asked PROVE AskedInv'
  BY <1>0 DEF AskedInv
<1> USE DEF regs, mems, ipc, procs, Goto, End, Fail, throwOnError, Becomes, None
<1>1. ASSUME NEW p \in Procs, Process(p) \/ Interrupt(p) \/ Die(p) PROVE AskedInv'
  <2>1. CASE OpenReset(p)
    BY <2>1, <1>0 DEF OpenReset
  <2>2. CASE OpenCookie(p)
    BY <2>2, <1>0 DEF OpenCookie
  <2>3. CASE Main(p)
    BY <2>3, <1>0 DEF Main, Dispatch
  <2>4. CASE AfterStartup(p)
    BY <2>4, <1>0 DEF AfterStartup
  <2>5. CASE StartupWriteCode(p)
    BY <2>5, <1>0 DEF StartupWriteCode
  <2>6. CASE StartupClearIpc(p)
    BY <2>6, <1>0 DEF StartupClearIpc
  <2>7. CASE BootCoreRead(p)
    BY <2>7, <1>0 DEF BootCoreRead
  <2>8. CASE BootCoreVector(p)
    BY <2>8, <1>0 DEF BootCoreVector
  <2>9. CASE BootCoreWrite(p)
    BY <2>9, <1>0 DEF BootCoreWrite, Rewrite
  <2>10. CASE awaitMonitorStartup(p)
    BY <2>10, <1>0 DEF awaitMonitorStartup
  <2>11. CASE loadPayloadFromFileOrThrow(p)
    BY <2>11, <1>0 DEF loadPayloadFromFileOrThrow
  <2>12. CASE StartSend(p)
    BY <2>12, <1>0 DEF StartSend
  <2>13. CASE StartPoll(p)
    BY <2>13, <1>0 DEF StartPoll
  <2>14. CASE TerminateClear(p)
    BY <2>14, <1>0 DEF TerminateClear
  <2>15. CASE sendIpiMessage(p)
    <3>1. Cpu(p) \in Cores /\ DOMAIN asked = Cores
      BY CpuType DEF TypeOK
    <3>2. ASSUME NEW c \in Cores, Listens(c) \in ipi' PROVE asked'[c]
      <4>1. CASE c = Cpu(p)
        BY <2>15, <3>1, <4>1 DEF sendIpiMessage
      <4>2. CASE c # Cpu(p)
        <5>1. Listens(c) \in ipi
          BY <2>15, <3>1, <3>2, <4>2, Channels DEF sendIpiMessage
        <5> QED BY <2>15, <3>1, <4>2, <5>1 DEF sendIpiMessage, AskedInv
      <4> QED BY <4>1, <4>2
    <3> QED BY <3>2 DEF AskedInv
  <2>16. CASE Interrupt(p)
    BY <2>16, <1>0 DEF Interrupt
  <2>17. CASE Die(p)
    BY <2>17, <1>0 DEF Die
  <2> QED BY <1>1, <2>1, <2>2, <2>3, <2>4, <2>5, <2>6, <2>7, <2>8, <2>9, <2>10,
     <2>11, <2>12, <2>13, <2>14, <2>15, <2>16, <2>17 DEF Process
<1>2. ASSUME NEW c \in Cores, Core(c) PROVE AskedInv'
  <2>1. CASE MonitorReady(c)
    BY <2>1, <1>0 DEF MonitorReady
  <2>2. CASE MonitorStartPayload(c)
    BY <2>2, <1>0 DEF MonitorStartPayload
  <2>3. CASE MonitorValidate(c)
    BY <2>3, <1>0 DEF MonitorValidate
  <2>4. CASE PayloadReports(c)
    BY <2>4, <1>0 DEF PayloadReports
  <2>5. CASE FIQInterrupt(c)
    BY <2>5, <1>0 DEF FIQInterrupt
  <2>6. CASE MonitorCrash(c)
    BY <2>6, <1>0 DEF MonitorCrash
  <2> QED BY <1>2, <2>1, <2>2, <2>3, <2>4, <2>5, <2>6 DEF Core
<1>3. CASE UNCHANGED vars
  BY <1>3, <1>0 DEF vars
<1> QED BY <1>1, <1>2, <1>3 DEF Next

(* A payload is killed only on behalf of a process that asked for its      *)
(* core: the channels of the cores differ, and bootCore does not restart a *)
(* core that is not in reset.                                              *)
THEOREM KillsOnRequest == Spec => KillsOwnCore
<1> DEFINE Own == \A c \in Cores : core[c] = "el1" /\ core'[c] = "boot" => asked[c]
<1>1. Init => AskedInv
  BY DEF Init, AskedInv
<1>2. TypeOK /\ AskedInv /\ [Next]_vars => [Own]_vars
  <2> SUFFICES ASSUME TypeOK, AskedInv, Next, NEW d \in Cores, core[d] = "el1", core'[d] = "boot"
               PROVE  asked[d]
    OBVIOUS
  <2> USE DEF regs, mems, ipc, procs, Becomes
  <2>1. ASSUME NEW p \in Procs, Process(p) \/ Interrupt(p) \/ Die(p) PROVE FALSE
    <3>1. CASE BootCoreWrite(p)
      BY <3>1 DEF BootCoreWrite, Rewrite, TypeOK
    <3>2. CASE ~BootCoreWrite(p)
      BY <2>1, <3>2 DEF Process, OpenReset, OpenCookie, Main, AfterStartup, StartupWriteCode,
         StartupClearIpc, BootCoreRead, BootCoreVector, awaitMonitorStartup,
         loadPayloadFromFileOrThrow, StartSend, StartPoll, TerminateClear, sendIpiMessage,
         Interrupt, Die
    <3> QED BY <3>1, <3>2
  <2>2. ASSUME NEW c \in Cores, Core(c) PROVE asked[d]
    <3>1. CASE FIQInterrupt(c)
      BY <3>1 DEF FIQInterrupt, AskedInv, TypeOK
    <3>2. CASE ~FIQInterrupt(c)
      BY <2>2, <3>2 DEF Core, MonitorReady, MonitorStartPayload, MonitorValidate,
         PayloadReports, MonitorCrash, TypeOK
    <3> QED BY <3>1, <3>2
  <2> QED BY <2>1, <2>2 DEF Next
<1> QED BY <1>1, <1>2, ToolsTypeCorrect, AskedStep, PTL DEF Spec, KillsOwnCore

-----------------------------------------------------------------------------
(* bmctl run: a core at work on a payload does not report monitor_ready;   *)
(* once the run has begun to kill its payload no command is in the mailbox *)
(* of its core, since at most one process per core sends commands.         *)
Executing == {"validate", "el1", "idling"}
Ending(p) == Tool(p) = "run" /\ (pc[p] \in {"ipi", "dying"} \/ exit[p] = "0")

BusyInv == \A c \in Cores : core[c] \in Executing => state[c] # "monitor_ready"
MailInv == \A p \in Procs : Ending(p) => mail[Cpu(p)] = None

RunInv ==
    /\ job \in Plans
    /\ BusyInv
    /\ MailInv
    /\ RunLeavesIdle

(* Two different processes do not both send commands to a core.            *)
LEMMA OneCommander ==
    ASSUME job \in Plans, NEW p \in Procs, NEW q \in Procs, p # q,
           Tool(p) \in Commanding, Tool(q) \in Commanding
    PROVE  Cpu(p) # Cpu(q)
  BY PlanAssumption DEF Tool, Cpu

(* A core that works on a payload says so.                                 *)
LEMMA BusyStep ==
    TypeOK /\ ControlInv /\ RunInv /\ [Next]_vars => BusyInv'
<1> SUFFICES ASSUME TypeOK, ControlInv, RunInv, [Next]_vars PROVE BusyInv'
  OBVIOUS
<1>0. ASSUME UNCHANGED <<core, state>> PROVE BusyInv'
  BY <1>0 DEF RunInv, BusyInv
<1>d. DOMAIN core = Cores /\ DOMAIN state = Cores /\ BusyInv
  BY DEF TypeOK, RunInv
<1> USE DEF regs, mems, ipc, procs, Goto, End, Fail, throwOnError, Becomes, None
<1>1. ASSUME NEW p \in Procs, Process(p) \/ Interrupt(p) \/ Die(p) PROVE BusyInv'
  <2>1. CASE OpenReset(p)
    BY <2>1, <1>0 DEF OpenReset
  <2>2. CASE OpenCookie(p)
    BY <2>2, <1>0 DEF OpenCookie
  <2>3. CASE Main(p)
    BY <2>3, <1>0 DEF Main, Dispatch
  <2>4. CASE AfterStartup(p)
    BY <2>4, <1>0 DEF AfterStartup
  <2>5. CASE StartupWriteCode(p)
    BY <2>5, <1>0 DEF StartupWriteCode
  <2>6. CASE StartupClearIpc(p)
    BY <2>6, <1>d DEF StartupClearIpc, BusyInv, Executing
  <2>7. CASE BootCoreRead(p)
    BY <2>7, <1>0 DEF BootCoreRead
  <2>8. CASE BootCoreVector(p)
    BY <2>8, <1>0 DEF BootCoreVector
  <2>9. CASE BootCoreWrite(p)
    BY <2>9, <1>d DEF BootCoreWrite, Rewrite, BusyInv, Executing
  <2>10. CASE awaitMonitorStartup(p)
    BY <2>10, <1>0 DEF awaitMonitorStartup
  <2>11. CASE loadPayloadFromFileOrThrow(p)
    BY <2>11, <1>0 DEF loadPayloadFromFileOrThrow
  <2>12. CASE StartSend(p)
    BY <2>12, <1>0 DEF StartSend
  <2>13. CASE StartPoll(p)
    BY <2>13, <1>0 DEF StartPoll
  <2>14. CASE TerminateClear(p)
    BY <2>14, <1>0 DEF TerminateClear
  <2>15. CASE sendIpiMessage(p)
    BY <2>15, <1>0 DEF sendIpiMessage
  <2>16. CASE Interrupt(p)
    BY <2>16, <1>0 DEF Interrupt
  <2>17. CASE Die(p)
    BY <2>17, <1>0 DEF Die
  <2> QED BY <1>1, <2>1, <2>2, <2>3, <2>4, <2>5, <2>6, <2>7, <2>8, <2>9, <2>10,
     <2>11, <2>12, <2>13, <2>14, <2>15, <2>16, <2>17 DEF Process
<1>2. ASSUME NEW c \in Cores, Core(c) PROVE BusyInv'
  <2>1. CASE MonitorReady(c)
    BY <2>1, <1>d DEF MonitorReady, BusyInv, Executing
  <2>2. CASE MonitorStartPayload(c)
    BY <2>2, <1>d DEF MonitorStartPayload, BusyInv, Executing
  <2>3. CASE MonitorValidate(c)
    BY <2>3, <1>d DEF MonitorValidate, BusyInv, Executing
  <2>4. CASE PayloadReports(c)
    BY <2>4, <1>d DEF PayloadReports, BusyInv, Executing
  <2>5. CASE FIQInterrupt(c)
    BY <2>5, <1>d DEF FIQInterrupt, BusyInv, Executing
  <2>6. CASE MonitorCrash(c)
    BY <2>6, <1>d DEF MonitorCrash, BusyInv, Executing
  <2> QED BY <1>2, <2>1, <2>2, <2>3, <2>4, <2>5, <2>6 DEF Core
<1>3. CASE UNCHANGED vars
  BY <1>3, <1>0 DEF vars
<1> QED BY <1>1, <1>2, <1>3 DEF Next

(* The mailbox of a core whose run is ending stays empty.                  *)
LEMMA MailStep ==
    TypeOK /\ ControlInv /\ RunInv /\ [Next]_vars => MailInv'
<1> SUFFICES ASSUME TypeOK, ControlInv, RunInv, [Next]_vars PROVE MailInv'
  OBVIOUS
<1>d. /\ DOMAIN pc = Procs /\ DOMAIN exit = Procs /\ DOMAIN mail = Cores
      /\ MailInv /\ \A p \in Procs : Cpu(p) \in Cores
  BY CpuType DEF TypeOK, RunInv
<1>0. ASSUME job' = job, \A q \in Procs : Ending(q)' => Ending(q),
             \A c \in Cores : mail'[c] = mail[c] \/ mail'[c] = None
      PROVE  MailInv'
  BY <1>0, <1>d DEF MailInv, Cpu
<1> USE DEF regs, mems, ipc, procs, Goto, End, Fail, throwOnError, Becomes, None, Tool, Cpu
<1>1. ASSUME NEW p \in Procs, Process(p) \/ Interrupt(p) \/ Die(p) PROVE MailInv'
  <2>1. CASE OpenReset(p)
    BY <2>1, <1>0, <1>d DEF OpenReset, Ending
  <2>2. CASE OpenCookie(p)
    BY <2>2, <1>0, <1>d DEF OpenCookie, Ending
  <2>3. CASE Main(p)
    BY <2>3, <1>0, <1>d DEF Main, Dispatch, Ending
  <2>4. CASE AfterStartup(p)
    BY <2>4, <1>0, <1>d DEF AfterStartup, Ending
  <2>5. CASE StartupWriteCode(p)
    BY <2>5, <1>0, <1>d DEF StartupWriteCode, Ending
  <2>6. CASE StartupClearIpc(p)
    BY <2>6, <1>0, <1>d DEF StartupClearIpc, Ending
  <2>7. CASE BootCoreRead(p)
    BY <2>7, <1>0, <1>d DEF BootCoreRead, Ending
  <2>8. CASE BootCoreVector(p)
    BY <2>8, <1>0, <1>d DEF BootCoreVector, Ending
  <2>9. CASE BootCoreWrite(p)
    BY <2>9, <1>0, <1>d DEF BootCoreWrite, Rewrite, Ending
  <2>10. CASE awaitMonitorStartup(p)
    BY <2>10, <1>0, <1>d DEF awaitMonitorStartup, Ending
  <2>11. CASE loadPayloadFromFileOrThrow(p)
    BY <2>11, <1>0, <1>d DEF loadPayloadFromFileOrThrow, Ending
  <2>12. CASE StartSend(p)
    <3>1. ASSUME NEW q \in Procs, Ending(q)' PROVE mail'[Cpu(q)] = None
      <4>1. q # p /\ Ending(q)
        BY <2>12, <3>1, <1>d DEF StartSend, Ending, ControlInv
      <4>2. Tool(p) \in Commanding /\ Tool(q) \in Commanding
        BY <2>12, <4>1 DEF StartSend, ControlInv, Ending, Commanding
      <4>3. Cpu(p) # Cpu(q)
        BY <4>1, <4>2, OneCommander DEF RunInv
      <4> QED BY <2>12, <4>1, <4>3, <1>d DEF StartSend, MailInv
    <3> QED BY <2>12, <3>1 DEF StartSend, MailInv
  <2>13. CASE StartPoll(p)
    BY <2>13, <1>0, <1>d DEF StartPoll, Ending
  <2>14. CASE TerminateClear(p)
    <3>1. ASSUME NEW q \in Procs, Ending(q)' PROVE mail'[Cpu(q)] = None
      <4>1. CASE Ending(q)
        BY <2>14, <4>1, <1>d DEF TerminateClear, MailInv
      <4>2. CASE ~Ending(q)
        <5>1. q = p /\ (pc'[p] = "ipi" \/ exit'[p] = "0")
          BY <2>14, <3>1, <4>2, <1>d DEF TerminateClear, Ending
        <5> QED BY <2>14, <3>1, <4>2, <5>1, <1>d DEF TerminateClear, Ending
      <4> QED BY <4>1, <4>2
    <3> QED BY <2>14, <3>1 DEF TerminateClear, MailInv
  <2>15. CASE sendIpiMessage(p)
    BY <2>15, <1>0, <1>d DEF sendIpiMessage, Ending
  <2>16. CASE Interrupt(p)
    BY <2>16, <1>0, <1>d DEF Interrupt, Ending
  <2>17. CASE Die(p)
    BY <2>17, <1>0, <1>d DEF Die, Ending
  <2> QED BY <1>1, <2>1, <2>2, <2>3, <2>4, <2>5, <2>6, <2>7, <2>8, <2>9, <2>10,
     <2>11, <2>12, <2>13, <2>14, <2>15, <2>16, <2>17 DEF Process
<1>2. ASSUME NEW c \in Cores, Core(c) PROVE MailInv'
  <2>1. CASE MonitorReady(c)
    BY <2>1, <1>0, <1>d DEF MonitorReady, Ending
  <2>2. CASE MonitorStartPayload(c)
    BY <2>2, <1>0, <1>d DEF MonitorStartPayload, Ending
  <2>3. CASE MonitorValidate(c)
    BY <2>3, <1>0, <1>d DEF MonitorValidate, Ending
  <2>4. CASE PayloadReports(c)
    BY <2>4, <1>0, <1>d DEF PayloadReports, Ending
  <2>5. CASE FIQInterrupt(c)
    BY <2>5, <1>0, <1>d DEF FIQInterrupt, Ending
  <2>6. CASE MonitorCrash(c)
    BY <2>6, <1>0, <1>d DEF MonitorCrash, Ending
  <2> QED BY <1>2, <2>1, <2>2, <2>3, <2>4, <2>5, <2>6 DEF Core
<1>3. CASE UNCHANGED vars
  BY <1>3, <1>0 DEF vars, Ending
<1> QED BY <1>1, <1>2, <1>3 DEF Next

(* A run ends when its core is idle, and leaves it idle.                   *)
LEMMA IdleStep ==
    TypeOK /\ ControlInv /\ RunInv /\ [Next]_vars => RunLeavesIdle'
<1> SUFFICES ASSUME TypeOK, ControlInv, RunInv, [Next]_vars PROVE RunLeavesIdle'
  OBVIOUS
<1>d. DOMAIN pc = Procs /\ DOMAIN exit = Procs /\ DOMAIN core = Cores /\ DOMAIN mail = Cores
  BY DEF TypeOK
<1>e. \A q \in Procs : /\ Cpu(q) \in Cores
                       /\ Tool(q) = "run" /\ exit[q] = "0" =>
                              core[Cpu(q)] \notin Executing /\ mail[Cpu(q)] = None
  BY CpuType DEF RunInv, RunLeavesIdle, Executing, MailInv, Ending
<1>0. ASSUME job' = job, \A q \in Procs : Tool(q) = "run" /\ exit'[q] = "0" => exit[q] = "0",
             \A c \in Cores : core'[c] \in Executing => core[c] \in Executing \/ mail[c] # None
      PROVE  RunLeavesIdle'
  BY <1>0, <1>e DEF RunLeavesIdle, Executing, Tool, Cpu
<1> USE DEF regs, mems, ipc, procs, Goto, End, Fail, throwOnError, Becomes, None, Tool, Cpu
<1>1. ASSUME NEW p \in Procs, Process(p) \/ Interrupt(p) \/ Die(p) PROVE RunLeavesIdle'
  <2>1. CASE OpenReset(p)
    BY <2>1, <1>0, <1>d DEF OpenReset
  <2>2. CASE OpenCookie(p)
    BY <2>2, <1>0, <1>d DEF OpenCookie
  <2>3. CASE Main(p)
    BY <2>3, <1>0, <1>d DEF Main, Dispatch
  <2>4. CASE AfterStartup(p)
    BY <2>4, <1>0, <1>d DEF AfterStartup
  <2>5. CASE StartupWriteCode(p)
    BY <2>5, <1>0, <1>d DEF StartupWriteCode
  <2>6. CASE StartupClearIpc(p)
    BY <2>6, <1>0, <1>d DEF StartupClearIpc
  <2>7. CASE BootCoreRead(p)
    BY <2>7, <1>0, <1>d DEF BootCoreRead
  <2>8. CASE BootCoreVector(p)
    BY <2>8, <1>0, <1>d DEF BootCoreVector
  <2>9. CASE BootCoreWrite(p)
    BY <2>9, <1>0, <1>d DEF BootCoreWrite, Rewrite, Executing
  <2>10. CASE awaitMonitorStartup(p)
    <3>1. ASSUME NEW q \in Procs, Tool(q) = "run", exit'[q] = "0"
          PROVE  core[Cpu(q)] \notin Executing
      <4>1. CASE exit[q] = "0"
        BY <3>1, <4>1, <1>e
      <4>2. CASE exit[q] # "0"
        <5>1. q = p /\ pc[p] = "dying" /\ getState(p) = "monitor_ready"
          BY <2>10, <3>1, <4>2, <1>d DEF awaitMonitorStartup
        <5>2. state[Cpu(p)] = "monitor_ready"
          BY <5>1, GetState DEF ControlInv
        <5> QED BY <5>1, <5>2, <1>e DEF RunInv, BusyInv
      <4> QED BY <4>1, <4>2
    <3> QED BY <2>10, <3>1 DEF awaitMonitorStartup, RunLeavesIdle, Executing
  <2>11. CASE loadPayloadFromFileOrThrow(p)
    BY <2>11, <1>0, <1>d DEF loadPayloadFromFileOrThrow
  <2>12. CASE StartSend(p)
    BY <2>12, <1>0, <1>d DEF StartSend
  <2>13. CASE StartPoll(p)
    BY <2>13, <1>0, <1>d DEF StartPoll
  <2>14. CASE TerminateClear(p)
    BY <2>14, <1>0, <1>d DEF TerminateClear
  <2>15. CASE sendIpiMessage(p)
    BY <2>15, <1>0, <1>d DEF sendIpiMessage
  <2>16. CASE Interrupt(p)
    BY <2>16, <1>0, <1>d DEF Interrupt
  <2>17. CASE Die(p)
    BY <2>17, <1>0, <1>d DEF Die
  <2> QED BY <1>1, <2>1, <2>2, <2>3, <2>4, <2>5, <2>6, <2>7, <2>8, <2>9, <2>10,
     <2>11, <2>12, <2>13, <2>14, <2>15, <2>16, <2>17 DEF Process
<1>2. ASSUME NEW c \in Cores, Core(c) PROVE RunLeavesIdle'
  <2>1. CASE MonitorReady(c)
    BY <2>1, <1>0, <1>d DEF MonitorReady, Executing
  <2>2. CASE MonitorStartPayload(c)
    BY <2>2, <1>0, <1>d DEF MonitorStartPayload, Executing
  <2>3. CASE MonitorValidate(c)
    BY <2>3, <1>0, <1>d DEF MonitorValidate, Executing
  <2>4. CASE PayloadReports(c)
    BY <2>4, <1>0, <1>d DEF PayloadReports, Executing
  <2>5. CASE FIQInterrupt(c)
    BY <2>5, <1>0, <1>d DEF FIQInterrupt, Executing
  <2>6. CASE MonitorCrash(c)
    BY <2>6, <1>0, <1>d DEF MonitorCrash, Executing
  <2> QED BY <1>2, <2>1, <2>2, <2>3, <2>4, <2>5, <2>6 DEF Core
<1>3. CASE UNCHANGED vars
  BY <1>3, <1>0 DEF vars
<1> QED BY <1>1, <1>2, <1>3 DEF Next

(* When bmctl run succeeds its core executes no payload, whatever other    *)
(* processes do, provided that one process at a time commands a core.      *)
THEOREM RunEndsIdle == Spec => []RunLeavesIdle
<1>1. Init => RunInv
  <2> SUFFICES ASSUME Init PROVE RunInv
    OBVIOUS
  <2>1. PICK kind \in [Cores -> {"reset", "foreign", "loop", "el1"}] :
          /\ core = kind
          /\ state = [c \in Cores |-> CASE kind[c] = "loop" -> "monitor_ready"
                                        [] kind[c] = "el1" -> "running_payload"
                                        [] OTHER -> "invalid_state"]
    BY DEF Init
  <2>2. BusyInv
    BY <2>1 DEF BusyInv, Executing
  <2>3. MailInv /\ RunLeavesIdle /\ job \in Plans
    BY DEF Init, MailInv, Ending, RunLeavesIdle, None
  <2> QED BY <2>2, <2>3 DEF RunInv
<1>2. [Next]_vars /\ job \in Plans => job' \in Plans
  BY DEF vars, procs, Next, Process, OpenReset, OpenCookie, Main, AfterStartup, StartupWriteCode,
     StartupClearIpc, BootCoreRead, BootCoreVector, BootCoreWrite, awaitMonitorStartup,
     loadPayloadFromFileOrThrow, StartSend, StartPoll, TerminateClear, sendIpiMessage,
     Interrupt, Die, Core, MonitorReady, MonitorStartPayload, MonitorValidate,
     PayloadReports, FIQInterrupt, MonitorCrash
<1>3. TypeOK /\ ControlInv /\ RunInv /\ [Next]_vars => RunInv'
  BY <1>2, BusyStep, MailStep, IdleStep DEF RunInv
<1>4. RunInv => RunLeavesIdle
  BY DEF RunInv
<1> QED BY <1>1, <1>3, <1>4, ToolsBoot, PTL DEF Spec
=============================================================================
