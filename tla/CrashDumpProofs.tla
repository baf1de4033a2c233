-------------------------- MODULE CrashDumpProofs ---------------------------
(* Proofs about CrashDump, for any domains and sizes of memory.            *)
EXTENDS CrashDump, TLAPS

(* What can be stored into a word of the IPC block.                        *)
WordType(w) == IF w = "state" THEN Crashed \cup {"monitor_ready", "running_payload"}
                              ELSE 0..MaxRuns

Gots == [fault : Nat, regs : Nat, fpregs : Nat, mem : Nat, noteAt : Nat, loadAt : Nat]

(* The shape of the shared memory and of the manager's records.            *)
ShapeInv ==
    /\ DOMAIN ipc = Domains /\ DOMAIN pend = Domains
    /\ \A d \in Domains : DOMAIN ipc[d] = Words /\ DOMAIN pend[d] \subseteq Words
    /\ \A d \in Domains, w \in Words :
           ipc[d][w] \in WordType(w) /\ (w \in DOMAIN pend[d] => pend[d][w] \in WordType(w))
    /\ got \in Gots
    /\ mpc # "idle" => dom \in Domains

CoreType ==
    /\ cpu \in [Domains -> {"ready", "el1", "vector", "halted", "dead", "boot"}]
    /\ run \in [Domains -> 0..MaxRuns] /\ sync \in [Domains -> BOOLEAN]
    /\ mpc \in {"idle", "info", "shown", "dump", "open", "psinfo", "status", "fpregs",
                "pad", "memory", "written"}
    /\ dom \in Domains \cup {None} /\ segs \in Domains \cup {None}
    /\ settled \in 0..MaxRuns

(* The file is where the headers say: its position at each stage.          *)
HeadersSet == /\ hdr.noteOff = 176 /\ hdr.noteSize = 1116
              /\ hdr.loadOff = 4096 /\ hdr.loadSize \in Nat
FileInv ==
    /\ pos \in Nat
    /\ mpc = "open" => segs \in Domains
    /\ mpc \in {"psinfo", "status", "fpregs", "pad", "memory", "written"} => HeadersSet
    /\ mpc = "psinfo" => pos = 176
    /\ mpc \in {"status", "fpregs", "pad", "memory", "written"} => got.noteAt = 176
    /\ mpc = "status" => pos = 332
    /\ mpc = "fpregs" => pos = 744
    /\ mpc = "pad" => pos = 1292
    /\ mpc = "memory" => pos = 4096
    /\ mpc = "written" => pos = 4096 + hdr.loadSize /\ got.loadAt = 4096

(* The word as the executor last stored it, visible or not.                *)
Val(d, w) == IF w \in DOMAIN pend[d] THEN pend[d][w] ELSE ipc[d][w]

(* From the exception on, the last stores are those of this crash.         *)
ReportInv ==
    \A d \in Domains :
        /\ cpu[d] = "el1" => ~sync[d]
        /\ cpu[d] \in {"vector", "halted", "dead"} /\ sync[d] => Val(d, "regs") = run[d]
        /\ cpu[d] \in {"halted", "dead"} => Val(d, "fault") = run[d]

(* A settled report belongs to an executor that stands still; what the     *)
(* manager has read so far is of its run.                                  *)
SettledInv ==
    /\ mpc = "idle" => settled = 0
    /\ settled # 0 =>
        /\ dom \in Domains /\ cpu[dom] \in {"halted", "dead"} /\ Drained(dom)
        /\ settled = run[dom]
        /\ mpc = "shown" => got.fault = settled
        /\ mpc \in {"fpregs", "pad", "memory", "written"} /\ sync[dom] => got.regs = settled
        /\ mpc \in {"pad", "memory", "written"} /\ sync[dom] => got.fpregs = settled
        /\ mpc = "written" => got.mem = settled

DumpInv == ShapeInv /\ CoreType /\ FileInv /\ ReportInv /\ SettledInv

(* What a group of stores does to the words of a domain.                   *)
LEMMA StoreEffect ==
    ASSUME DOMAIN pend = Domains, NEW d \in Domains, NEW f, Store(d, f), UNCHANGED ipc
    PROVE  /\ DOMAIN pend' = Domains
           /\ \A e \in Domains : e # d => pend'[e] = pend[e]
           /\ DOMAIN pend'[d] = DOMAIN f \cup DOMAIN pend[d]
           /\ \A w \in DOMAIN f \cup DOMAIN pend[d] :
                  pend'[d][w] = IF w \in DOMAIN f THEN f[w] ELSE pend[d][w]
           /\ \A w : Val(d, w)' = IF w \in DOMAIN f THEN f[w] ELSE Val(d, w)
           /\ \A e \in Domains : e # d => \A w : Val(e, w)' = Val(e, w)
<1>1. /\ DOMAIN pend' = Domains
      /\ \A e \in Domains : e # d => pend'[e] = pend[e]
      /\ pend'[d] = [w \in DOMAIN f \cup DOMAIN pend[d] |->
                        IF w \in DOMAIN f THEN f[w] ELSE pend[d][w]]
  BY DEF Store
<1>2. /\ DOMAIN pend'[d] = DOMAIN f \cup DOMAIN pend[d]
      /\ \A w \in DOMAIN f \cup DOMAIN pend[d] :
                  pend'[d][w] = IF w \in DOMAIN f THEN f[w] ELSE pend[d][w]
  BY <1>1
<1> QED BY <1>1, <1>2 DEF Val

(* A store that becomes visible changes no word.                           *)
LEMMA DrainEffect ==
    ASSUME ShapeInv, NEW d \in Domains, NEW w \in Words, Drain(d, w)
    PROVE  /\ w \in DOMAIN pend[d]
           /\ DOMAIN pend' = Domains /\ DOMAIN ipc' = Domains
           /\ \A e \in Domains : e # d => pend'[e] = pend[e] /\ ipc'[e] = ipc[e]
           /\ DOMAIN pend'[d] = DOMAIN pend[d] \ {w} /\ DOMAIN ipc'[d] = Words
           /\ \A v \in DOMAIN pend[d] \ {w} : pend'[d][v] = pend[d][v]
           /\ ipc'[d][w] = pend[d][w]
           /\ \A v \in Words \ {w} : ipc'[d][v] = ipc[d][v]
           /\ \A e \in Domains, v \in Words : Val(e, v)' = Val(e, v)
<1>1. /\ DOMAIN pend' = Domains /\ DOMAIN ipc' = Domains
      /\ \A e \in Domains : e # d => pend'[e] = pend[e] /\ ipc'[e] = ipc[e]
      /\ w \in DOMAIN pend[d]
      /\ pend'[d] = [v \in DOMAIN pend[d] \ {w} |-> pend[d][v]]
      /\ ipc'[d] = [ipc[d] EXCEPT ![w] = pend[d][w]]
  BY DEF Drain, ShapeInv
<1>2. /\ DOMAIN pend'[d] = DOMAIN pend[d] \ {w} /\ DOMAIN ipc'[d] = Words
      /\ \A v \in DOMAIN pend[d] \ {w} : pend'[d][v] = pend[d][v]
      /\ ipc'[d][w] = pend[d][w]
      /\ \A v \in Words \ {w} : ipc'[d][v] = ipc[d][v]
  BY <1>1 DEF ShapeInv
<1>3. \A v \in Words : Val(d, v)' = Val(d, v)
  BY <1>1, <1>2 DEF Val
<1>4. \A e \in Domains, v \in Words : e # d => Val(e, v)' = Val(e, v)
  BY <1>1 DEF Val
<1> QED BY <1>1, <1>2, <1>3, <1>4

(* A freshly booted domain has nothing to report and no file is open.      *)
LEMMA DumpInit == Init => DumpInv
<1> SUFFICES ASSUME Init PROVE DumpInv
  OBVIOUS
<1>1. ShapeInv
  <2>1. got \in Gots
    BY DEF Init, Nothing, Gots
  <2>a. DOMAIN <<>> = {}
    OBVIOUS
  <2>b. DOMAIN [regs |-> 0, fault |-> 0, state |-> "monitor_ready"] = Words
    BY DEF Words
  <2>2. \A d \in Domains : /\ ipc[d] = [regs |-> 0, fault |-> 0, state |-> "monitor_ready"]
                           /\ DOMAIN ipc[d] = Words
                           /\ pend[d] = <<>> /\ DOMAIN pend[d] = {}
    BY <2>a, <2>b DEF Init
  <2>3. \A d \in Domains, w \in Words : ipc[d][w] \in WordType(w)
    BY <2>2, RunsAssumption DEF Words, WordType
  <2> QED BY <2>1, <2>2, <2>3 DEF Init, ShapeInv
<1>2. CoreType
  BY RunsAssumption DEF Init, CoreType
<1>3. FileInv
  BY DEF Init, FileInv
<1>4. ReportInv /\ SettledInv
  BY DEF Init, ReportInv, SettledInv
<1> QED BY <1>1, <1>2, <1>3, <1>4 DEF DumpInv

(* Stores of the executor leave the shared memory well formed.             *)
LEMMA StoreShape ==
    ASSUME ShapeInv, NEW d \in Domains, NEW f, Store(d, f), UNCHANGED <<ipc, got, mpc, dom>>,
           DOMAIN f \subseteq Words, \A w \in DOMAIN f : f[w] \in WordType(w)
    PROVE  ShapeInv'
<1>1. /\ DOMAIN pend' = Domains
      /\ \A e \in Domains : e # d => pend'[e] = pend[e]
      /\ DOMAIN pend'[d] = DOMAIN f \cup DOMAIN pend[d]
      /\ \A w \in DOMAIN f \cup DOMAIN pend[d] :
             pend'[d][w] = IF w \in DOMAIN f THEN f[w] ELSE pend[d][w]
  BY StoreEffect DEF ShapeInv
<1>2. ASSUME NEW e \in Domains
      PROVE  /\ DOMAIN pend'[e] \subseteq Words
             /\ \A w \in Words : w \in DOMAIN pend'[e] => pend'[e][w] \in WordType(w)
  <2>1. CASE e = d
    BY <1>1, <2>1 DEF ShapeInv
  <2>2. CASE e # d
    BY <1>1, <2>2 DEF ShapeInv
  <2> QED BY <2>1, <2>2
<1> QED BY <1>1, <1>2 DEF ShapeInv, WordType

(* A step of another executor, or one that disturbs the manager's view, is *)
(* of no consequence to what the manager reads.                            *)
LEMMA SettledFrame ==
    ASSUME SettledInv, UNCHANGED <<mpc, dom, got>>,
           settled' = settled \/ settled' = 0,
           settled' # 0 => /\ cpu'[dom] = cpu[dom] /\ run'[dom] = run[dom]
                           /\ sync'[dom] = sync[dom] /\ pend'[dom] = pend[dom]
    PROVE  SettledInv'
  BY DEF SettledInv, Drained

(* A step that leaves the manager alone leaves the file alone.             *)
LEMMA FileFrame == ASSUME FileInv, UNCHANGED <<mpc, segs, pos, hdr, got>> PROVE FileInv'
  BY DEF FileInv, HeadersSet

(* The executor's steps.                                                   *)
LEMMA ExecutorStep ==
    ASSUME DumpInv, NEW d \in Domains,
           Executor(d) \/ reportCrash(d) \/ MonitorReady(d)
    PROVE  DumpInv'
<1>m. UNCHANGED <<ipc, mpc, dom, segs, pos, hdr, got>>
  BY DEF Executor, reportPayloadStarted, SynchronousInterrupt, OtherInterrupt, MonitorCrash,
     FIQInterrupt, reportCrash, MonitorReady, mgr, file
<1>f. FileInv'
  BY <1>m, FileFrame DEF DumpInv
<1>t. /\ CoreType /\ ShapeInv /\ ReportInv /\ SettledInv /\ DOMAIN pend = Domains
      /\ DOMAIN cpu = Domains /\ DOMAIN run = Domains /\ DOMAIN sync = Domains
      /\ run[d] \in 0..MaxRuns
  BY DEF DumpInv, CoreType, ShapeInv
<1>q. UNCHANGED pend => ShapeInv'
  BY <1>m, <1>t DEF ShapeInv, WordType
<1>1. CASE reportPayloadStarted(d)
  <2> DEFINE f == [state |-> "running_payload"]
  <2>1. DOMAIN f = {"state"} /\ f["state"] = "running_payload"
    OBVIOUS
  <2>a. DOMAIN f \subseteq Words /\ \A w \in DOMAIN f : f[w] \in WordType(w)
    BY <1>t, <2>1 DEF Words, WordType, Crashed
  <2>2. Store(d, f)
    BY <1>1 DEF reportPayloadStarted
  <2> HIDE DEF f
  <2>3. /\ ShapeInv'
        /\ \A e \in Domains : e # d => pend'[e] = pend[e] /\ \A w : Val(e, w)' = Val(e, w)
        /\ \A w : Val(d, w)' = IF w \in DOMAIN f THEN f[w] ELSE Val(d, w)
    BY <1>m, <1>t, <2>a, <2>2, StoreShape, StoreEffect
  <2>4. CoreType'
    BY <1>1, <1>t, RunsAssumption DEF reportPayloadStarted, CoreType, mgr, Disturb
  <2>5. ReportInv'
    <3> SUFFICES ASSUME NEW e \in Domains PROVE
          /\ cpu'[e] = "el1" => ~sync'[e]
          /\ cpu'[e] \in {"vector", "halted", "dead"} /\ sync'[e] => Val(e, "regs")' = run'[e]
          /\ cpu'[e] \in {"halted", "dead"} => Val(e, "fault")' = run'[e]
      BY DEF ReportInv
    <3>1. CASE e = d
      BY <1>1, <1>t, <2>1, <2>3, <3>1 DEF reportPayloadStarted, ReportInv
    <3>2. CASE e # d
      BY <1>1, <1>t, <2>3, <3>2 DEF reportPayloadStarted, ReportInv
    <3> QED BY <3>1, <3>2
  <2>6. SettledInv'
    BY <1>1, <1>m, <1>t, <2>3, SettledFrame DEF reportPayloadStarted, SettledInv, Disturb
  <2> QED BY <1>f, <2>3, <2>4, <2>5, <2>6 DEF DumpInv
<1>2. CASE SynchronousInterrupt(d)
  <2> DEFINE f == [regs |-> run[d]]
  <2>1. DOMAIN f = {"regs"} /\ f["regs"] = run[d]
    OBVIOUS
  <2>a. DOMAIN f \subseteq Words /\ \A w \in DOMAIN f : f[w] \in WordType(w)
    BY <1>t, <2>1 DEF Words, WordType, Crashed
  <2>2. Store(d, f)
    BY <1>2 DEF SynchronousInterrupt
  <2> HIDE DEF f
  <2>3. /\ ShapeInv'
        /\ \A e \in Domains : e # d => pend'[e] = pend[e] /\ \A w : Val(e, w)' = Val(e, w)
        /\ \A w : Val(d, w)' = IF w \in DOMAIN f THEN f[w] ELSE Val(d, w)
    BY <1>m, <1>t, <2>a, <2>2, StoreShape, StoreEffect
  <2>4. CoreType'
    BY <1>2, <1>t, RunsAssumption DEF SynchronousInterrupt, CoreType, mgr
  <2>5. ReportInv'
    <3> SUFFICES ASSUME NEW e \in Domains PROVE
          /\ cpu'[e] = "el1" => ~sync'[e]
          /\ cpu'[e] \in {"vector", "halted", "dead"} /\ sync'[e] => Val(e, "regs")' = run'[e]
          /\ cpu'[e] \in {"halted", "dead"} => Val(e, "fault")' = run'[e]
      BY DEF ReportInv
    <3>1. CASE e = d
      BY <1>2, <1>t, <2>1, <2>3, <3>1 DEF SynchronousInterrupt, ReportInv
    <3>2. CASE e # d
      BY <1>2, <1>t, <2>3, <3>2 DEF SynchronousInterrupt, ReportInv
    <3> QED BY <3>1, <3>2
  <2>6. SettledInv'
    BY <1>2, <1>m, <1>t, <2>3, SettledFrame DEF SynchronousInterrupt, SettledInv
  <2> QED BY <1>f, <2>3, <2>4, <2>5, <2>6 DEF DumpInv
<1>3. CASE OtherInterrupt(d)
  <2>3. ShapeInv' /\ pend' = pend /\ \A e \in Domains : \A w : Val(e, w)' = Val(e, w)
    BY <1>3, <1>m, <1>q DEF OtherInterrupt, Val
  <2>4. CoreType'
    BY <1>3, <1>t, RunsAssumption DEF OtherInterrupt, CoreType, mgr
  <2>5. ReportInv'
    <3> SUFFICES ASSUME NEW e \in Domains PROVE
          /\ cpu'[e] = "el1" => ~sync'[e]
          /\ cpu'[e] \in {"vector", "halted", "dead"} /\ sync'[e] => Val(e, "regs")' = run'[e]
          /\ cpu'[e] \in {"halted", "dead"} => Val(e, "fault")' = run'[e]
      BY DEF ReportInv
    <3>1. CASE e = d
      BY <1>3, <1>t, <2>3, <3>1 DEF OtherInterrupt, ReportInv
    <3>2. CASE e # d
      BY <1>3, <1>t, <2>3, <3>2 DEF OtherInterrupt, ReportInv
    <3> QED BY <3>1, <3>2
  <2>6. SettledInv'
    BY <1>3, <1>m, <1>t, <2>3, SettledFrame DEF OtherInterrupt, SettledInv
  <2> QED BY <1>f, <2>3, <2>4, <2>5, <2>6 DEF DumpInv
<1>4. CASE MonitorCrash(d)
  <2>0. PICK s \in BOOLEAN :
          /\ sync' = [sync EXCEPT ![d] = s]
          /\ IF s THEN Store(d, [regs |-> run'[d], fault |-> run'[d], state |-> "crashed_monitor"])
                  ELSE Store(d, [fault |-> run'[d], state |-> "crashed_monitor"])
    BY <1>4 DEF MonitorCrash
  <2>r. run' = [run EXCEPT ![d] = @ + 1] /\ run'[d] \in 0..MaxRuns
    BY <1>4, <1>t, RunsAssumption DEF MonitorCrash, CoreType
  <2>1. PICK f : /\ Store(d, f) /\ f["fault"] = run'[d] /\ f["state"] = "crashed_monitor"
                 /\ DOMAIN f \subseteq Words /\ {"fault", "state"} \subseteq DOMAIN f
                 /\ "regs" \in DOMAIN f => f["regs"] = run'[d]
                 /\ s => "regs" \in DOMAIN f
    <3>1. CASE s
      <4> DEFINE g == [regs |-> run'[d], fault |-> run'[d], state |-> "crashed_monitor"]
      <4>1. /\ DOMAIN g = {"regs", "fault", "state"} /\ g["fault"] = run'[d]
            /\ g["state"] = "crashed_monitor" /\ g["regs"] = run'[d] /\ Store(d, g)
        BY <2>0, <3>1
      <4> HIDE DEF g
      <4> QED BY <4>1, <3>1 DEF Words
    <3>2. CASE ~s
      <4> DEFINE g == [fault |-> run'[d], state |-> "crashed_monitor"]
      <4>1. /\ DOMAIN g = {"fault", "state"} /\ g["fault"] = run'[d]
            /\ g["state"] = "crashed_monitor" /\ Store(d, g)
        BY <2>0, <3>2
      <4> HIDE DEF g
      <4> QED BY <4>1, <3>2 DEF Words
    <3> QED BY <3>1, <3>2
  <2>a. \A w \in DOMAIN f : f[w] \in WordType(w)
    BY <1>t, <2>r, <2>1 DEF Words, WordType, Crashed
  <2>3. /\ ShapeInv'
        /\ \A e \in Domains : e # d => pend'[e] = pend[e] /\ \A w : Val(e, w)' = Val(e, w)
        /\ \A w : Val(d, w)' = IF w \in DOMAIN f THEN f[w] ELSE Val(d, w)
    BY <1>m, <1>t, <2>a, <2>1, StoreShape, StoreEffect
  <2>4. CoreType'
    BY <1>4, <1>t, <2>0, <2>r, RunsAssumption DEF MonitorCrash, CoreType, mgr, Disturb
  <2>5. ReportInv'
    <3> SUFFICES ASSUME NEW e \in Domains PROVE
          /\ cpu'[e] = "el1" => ~sync'[e]
          /\ cpu'[e] \in {"vector", "halted", "dead"} /\ sync'[e] => Val(e, "regs")' = run'[e]
          /\ cpu'[e] \in {"halted", "dead"} => Val(e, "fault")' = run'[e]
      BY DEF ReportInv
    <3>1. CASE e = d
      BY <1>4, <1>t, <2>0, <2>1, <2>3, <3>1 DEF MonitorCrash, ReportInv
    <3>2. CASE e # d
      BY <1>4, <1>t, <2>0, <2>3, <3>2 DEF MonitorCrash, ReportInv
    <3> QED BY <3>1, <3>2
  <2>6. SettledInv'
    BY <1>4, <1>m, <1>t, <2>0, <2>3, SettledFrame DEF MonitorCrash, SettledInv, Disturb
  <2> QED BY <1>f, <2>3, <2>4, <2>5, <2>6 DEF DumpInv
<1>5. CASE FIQInterrupt(d)
  <2>3. ShapeInv' /\ pend' = pend /\ \A e \in Domains : \A w : Val(e, w)' = Val(e, w)
    BY <1>5, <1>m, <1>q DEF FIQInterrupt, Val
  <2>4. CoreType'
    BY <1>5, <1>t, RunsAssumption DEF FIQInterrupt, CoreType, mgr, Disturb
  <2>5. ReportInv'
    <3> SUFFICES ASSUME NEW e \in Domains PROVE
          /\ cpu'[e] = "el1" => ~sync'[e]
          /\ cpu'[e] \in {"vector", "halted", "dead"} /\ sync'[e] => Val(e, "regs")' = run'[e]
          /\ cpu'[e] \in {"halted", "dead"} => Val(e, "fault")' = run'[e]
      BY DEF ReportInv
    <3>1. CASE e = d
      BY <1>5, <1>t, <2>3, <3>1 DEF FIQInterrupt, ReportInv
    <3>2. CASE e # d
      BY <1>5, <1>t, <2>3, <3>2 DEF FIQInterrupt, ReportInv
    <3> QED BY <3>1, <3>2
  <2>6. SettledInv'
    BY <1>5, <1>m, <1>t, <2>3, SettledFrame DEF FIQInterrupt, SettledInv, Disturb
  <2> QED BY <1>f, <2>3, <2>4, <2>5, <2>6 DEF DumpInv
<1>6. CASE reportCrash(d)
  <2> DEFINE f == [fault |-> run[d], state |-> "crashed_payload"]
  <2>1. DOMAIN f = {"fault", "state"} /\ f["fault"] = run[d] /\ f["state"] = "crashed_payload"
    OBVIOUS
  <2>a. DOMAIN f \subseteq Words /\ \A w \in DOMAIN f : f[w] \in WordType(w)
    BY <1>t, <2>1 DEF Words, WordType, Crashed
  <2>2. Store(d, f)
    BY <1>6 DEF reportCrash
  <2> HIDE DEF f
  <2>3. /\ ShapeInv'
        /\ \A e \in Domains : e # d => pend'[e] = pend[e] /\ \A w : Val(e, w)' = Val(e, w)
        /\ \A w : Val(d, w)' = IF w \in DOMAIN f THEN f[w] ELSE Val(d, w)
    BY <1>m, <1>t, <2>a, <2>2, StoreShape, StoreEffect
  <2>4. CoreType'
    BY <1>6, <1>t, RunsAssumption DEF reportCrash, CoreType, mgr
  <2>5. ReportInv'
    <3> SUFFICES ASSUME NEW e \in Domains PROVE
          /\ cpu'[e] = "el1" => ~sync'[e]
          /\ cpu'[e] \in {"vector", "halted", "dead"} /\ sync'[e] => Val(e, "regs")' = run'[e]
          /\ cpu'[e] \in {"halted", "dead"} => Val(e, "fault")' = run'[e]
      BY DEF ReportInv
    <3>1. CASE e = d
      BY <1>6, <1>t, <2>1, <2>3, <3>1 DEF reportCrash, ReportInv
    <3>2. CASE e # d
      BY <1>6, <1>t, <2>3, <3>2 DEF reportCrash, ReportInv
    <3> QED BY <3>1, <3>2
  <2>6. SettledInv'
    BY <1>6, <1>m, <1>t, <2>3, SettledFrame DEF reportCrash, SettledInv
  <2> QED BY <1>f, <2>3, <2>4, <2>5, <2>6 DEF DumpInv
<1>7. CASE MonitorReady(d)
  <2> DEFINE f == [state |-> "monitor_ready"]
  <2>1. DOMAIN f = {"state"} /\ f["state"] = "monitor_ready"
    OBVIOUS
  <2>a. DOMAIN f \subseteq Words /\ \A w \in DOMAIN f : f[w] \in WordType(w)
    BY <1>t, <2>1 DEF Words, WordType, Crashed
  <2>2. Store(d, f)
    BY <1>7 DEF MonitorReady
  <2> HIDE DEF f
  <2>3. /\ ShapeInv'
        /\ \A e \in Domains : e # d => pend'[e] = pend[e] /\ \A w : Val(e, w)' = Val(e, w)
        /\ \A w : Val(d, w)' = IF w \in DOMAIN f THEN f[w] ELSE Val(d, w)
    BY <1>m, <1>t, <2>a, <2>2, StoreShape, StoreEffect
  <2>4. CoreType'
    BY <1>7, <1>t, RunsAssumption DEF MonitorReady, CoreType, mgr
  <2>5. ReportInv'
    <3> SUFFICES ASSUME NEW e \in Domains PROVE
          /\ cpu'[e] = "el1" => ~sync'[e]
          /\ cpu'[e] \in {"vector", "halted", "dead"} /\ sync'[e] => Val(e, "regs")' = run'[e]
          /\ cpu'[e] \in {"halted", "dead"} => Val(e, "fault")' = run'[e]
      BY DEF ReportInv
    <3>1. CASE e = d
      BY <1>7, <1>t, <2>1, <2>3, <3>1 DEF MonitorReady, ReportInv
    <3>2. CASE e # d
      BY <1>7, <1>t, <2>3, <3>2 DEF MonitorReady, ReportInv
    <3> QED BY <3>1, <3>2
  <2>6. SettledInv'
    BY <1>7, <1>m, <1>t, <2>3, SettledFrame DEF MonitorReady, SettledInv
  <2> QED BY <1>f, <2>3, <2>4, <2>5, <2>6 DEF DumpInv
<1> QED BY <1>1, <1>2, <1>3, <1>4, <1>5, <1>6, <1>7 DEF Executor

(* A store of a settled report has become visible already: what drains is  *)
(* of another domain, or the manager's report is not settled.              *)
LEMMA DrainStep ==
    ASSUME DumpInv, NEW d \in Domains, NEW w \in Words, Drain(d, w)
    PROVE  DumpInv'
<1>m. UNCHANGED <<cpu, run, sync, mpc, dom, segs, pos, hdr, got, settled>>
  BY DEF Drain, exe, mgr, file
<1>t. ShapeInv /\ CoreType /\ FileInv /\ ReportInv /\ SettledInv
  BY DEF DumpInv
<1>e. /\ w \in DOMAIN pend[d]
      /\ DOMAIN pend' = Domains /\ DOMAIN ipc' = Domains
      /\ \A e \in Domains : e # d => pend'[e] = pend[e] /\ ipc'[e] = ipc[e]
      /\ DOMAIN pend'[d] = DOMAIN pend[d] \ {w} /\ DOMAIN ipc'[d] = Words
      /\ \A v \in DOMAIN pend[d] \ {w} : pend'[d][v] = pend[d][v]
      /\ ipc'[d][w] = pend[d][w]
      /\ \A v \in Words \ {w} : ipc'[d][v] = ipc[d][v]
      /\ \A e \in Domains, v \in Words : Val(e, v)' = Val(e, v)
  BY <1>t, DrainEffect
<1>1. ShapeInv'
  <2>1. ASSUME NEW e \in Domains
        PROVE  /\ DOMAIN ipc'[e] = Words /\ DOMAIN pend'[e] \subseteq Words
               /\ \A v \in Words :
                      /\ ipc'[e][v] \in WordType(v)
                      /\ v \in DOMAIN pend'[e] => pend'[e][v] \in WordType(v)
    <3>1. CASE e = d
      BY <1>t, <1>e, <3>1 DEF ShapeInv
    <3>2. CASE e # d
      BY <1>t, <1>e, <3>2 DEF ShapeInv
    <3> QED BY <3>1, <3>2
  <2> QED BY <1>m, <1>t, <1>e, <2>1 DEF ShapeInv, WordType
<1>2. CoreType'
  BY <1>m, <1>t DEF CoreType
<1>3. FileInv'
  BY <1>m, <1>t, FileFrame
<1>4. ReportInv'
  BY <1>m, <1>t, <1>e DEF ReportInv, Words
<1>5. SettledInv'
  <2>1. settled # 0 => dom # d
    BY <1>t, <1>e DEF SettledInv, Drained
  <2> QED BY <1>m, <1>t, <1>e, <2>1, SettledFrame DEF SettledInv
<1> QED BY <1>1, <1>2, <1>3, <1>4, <1>5 DEF DumpInv

(* The sizes of the notes of a core dump, and where its segment starts.    *)
LEMMA NoteSizes ==
    /\ NoteSize(PrPsInfo) = 156 /\ NoteSize(PrStatus) = 412 /\ NoteSize(FpRegs) = 548
    /\ padding(176 + 1116, PAGESIZE) = 2804 /\ EhdrSize + 2 * PhdrSize = 176
    /\ 12 + 8 + PrPsInfo + 12 + 8 + PrStatus + 12 + 8 + FpRegs = 1116
<1>1. 5 % 4 = 1 /\ 1292 % 4096 = 1292
  OBVIOUS
<1> QED BY <1>1 DEF NoteSize, padding, PrPsInfo, PrStatus, FpRegs, PAGESIZE, EhdrSize, PhdrSize

(* A report that is settled can be read: each word is the crash's.         *)
LEMMA SettledWords ==
    ASSUME ReportInv, SettledInv, settled # 0
    PROVE  /\ ipc[dom].fault = settled /\ run[dom] = settled
           /\ sync[dom] => ipc[dom].regs = settled
  BY DEF ReportInv, SettledInv, Drained, Val

(* The manager leaves the executors and the IPC block alone.               *)
LEMMA ManagerFrame ==
    ASSUME ShapeInv, ReportInv, UNCHANGED <<ipc, pend, cpu, run, sync>>,
           got' \in Gots, mpc' # "idle" => dom' \in Domains
    PROVE  ShapeInv' /\ ReportInv'
  BY DEF ShapeInv, ReportInv, Val, WordType

(* The manager returns to its caller, with the file or without.            *)
LEMMA IdleStep ==
    ASSUME DumpInv, Idle, UNCHANGED <<ipc, pend, exe>>, segs' = segs \/ segs' = None
    PROVE  DumpInv'
<1>1. got' \in Gots
  BY DEF Idle, Nothing, Gots
<1>2. ShapeInv' /\ ReportInv'
  BY <1>1, ManagerFrame DEF DumpInv, Idle, exe
<1>3. CoreType'
  BY RunsAssumption DEF DumpInv, CoreType, Idle, exe
<1>4. FileInv' /\ SettledInv'
  BY DEF FileInv, SettledInv, Idle
<1> QED BY <1>2, <1>3, <1>4 DEF DumpInv

(* The manager's steps: it writes the file front to back, and reads of a   *)
(* settled report what the executor stored.                                *)
LEMMA ManagerStep == ASSUME DumpInv, Manager PROVE DumpInv'
<1>t. /\ ShapeInv /\ CoreType /\ FileInv /\ ReportInv /\ SettledInv
      /\ got \in Gots /\ (mpc # "idle" => dom \in Domains)
  BY DEF DumpInv, ShapeInv
<1>w. settled # 0 => /\ ipc[dom].fault = settled /\ run[dom] = settled
                     /\ sync[dom] => ipc[dom].regs = settled
  BY <1>t, SettledWords
<1>n. mpc # "idle" => /\ ipc[dom].fault \in Nat /\ ipc[dom].regs \in Nat /\ run[dom] \in Nat
  BY <1>t DEF ShapeInv, CoreType, WordType, Words
<1>g. /\ pos \in Nat
      /\ \A n \in Nat : /\ [got EXCEPT !.fault = n] \in Gots /\ [got EXCEPT !.regs = n] \in Gots
                        /\ [got EXCEPT !.fpregs = n] \in Gots
                        /\ [got EXCEPT !.noteAt = n] \in Gots
      /\ \A n \in Nat, m \in Nat : [got EXCEPT !.mem = n, !.loadAt = m] \in Gots
  <2>1. pos \in Nat
    BY <1>t DEF FileInv
  <2>2. ASSUME NEW n \in Nat
        PROVE  /\ [got EXCEPT !.fault = n] \in Gots /\ [got EXCEPT !.regs = n] \in Gots
               /\ [got EXCEPT !.fpregs = n] \in Gots /\ [got EXCEPT !.noteAt = n] \in Gots
    BY <1>t DEF Gots
  <2>3. ASSUME NEW n \in Nat, NEW m \in Nat
        PROVE  [got EXCEPT !.mem = n, !.loadAt = m] \in Gots
    BY <1>t DEF Gots
  <2> QED BY <2>1, <2>2, <2>3
<1>1. CASE WriteHeaders
  <2>0. /\ UNCHANGED <<ipc, pend, cpu, run, sync, dom, segs, settled>>
        /\ mpc # "idle"
    BY <1>1 DEF WriteHeaders, exe
  <2>1. got' \in Gots
    BY <1>1, <1>t, <1>n, <1>g DEF WriteHeaders
  <2>2. ShapeInv' /\ ReportInv'
    BY <1>t, <2>0, <2>1, ManagerFrame
  <2>3. CoreType'
    BY <1>1, <1>t, <2>0 DEF WriteHeaders, CoreType
  <2>4. FileInv'
    BY <1>1, <1>t, <2>0, NoteSizes, DomainAssumption DEF WriteHeaders, FileInv, HeadersSet
  <2>5. SettledInv'
    BY <1>1, <1>t, <1>w, <2>0 DEF WriteHeaders, SettledInv, Drained, Gots
  <2> QED BY <2>2, <2>3, <2>4, <2>5 DEF DumpInv
<1>2. CASE WritePrPsInfo
  <2>0. /\ UNCHANGED <<ipc, pend, cpu, run, sync, dom, segs, settled>>
        /\ mpc # "idle"
    BY <1>2 DEF WritePrPsInfo, exe
  <2>1. got' \in Gots
    BY <1>2, <1>t, <1>n, <1>g DEF WritePrPsInfo
  <2>2. ShapeInv' /\ ReportInv'
    BY <1>t, <2>0, <2>1, ManagerFrame
  <2>3. CoreType'
    BY <1>2, <1>t, <2>0 DEF WritePrPsInfo, CoreType
  <2>4. FileInv'
    BY <1>2, <1>t, <2>0, NoteSizes DEF WritePrPsInfo, FileInv, HeadersSet, Gots
  <2>5. SettledInv'
    BY <1>2, <1>t, <1>w, <2>0 DEF WritePrPsInfo, SettledInv, Drained, Gots
  <2> QED BY <2>2, <2>3, <2>4, <2>5 DEF DumpInv
<1>3. CASE WritePrStatus
  <2>0. /\ UNCHANGED <<ipc, pend, cpu, run, sync, dom, segs, settled>>
        /\ mpc # "idle"
    BY <1>3 DEF WritePrStatus, exe
  <2>1. got' \in Gots
    BY <1>3, <1>t, <1>n, <1>g DEF WritePrStatus
  <2>2. ShapeInv' /\ ReportInv'
    BY <1>t, <2>0, <2>1, ManagerFrame
  <2>3. CoreType'
    BY <1>3, <1>t, <2>0 DEF WritePrStatus, CoreType
  <2>4. FileInv'
    BY <1>3, <1>t, <2>0, NoteSizes DEF WritePrStatus, FileInv, HeadersSet, Gots
  <2>5. SettledInv'
    BY <1>3, <1>t, <1>w, <2>0 DEF WritePrStatus, SettledInv, Drained, Gots
  <2> QED BY <2>2, <2>3, <2>4, <2>5 DEF DumpInv
<1>4. CASE WriteFpRegs
  <2>0. /\ UNCHANGED <<ipc, pend, cpu, run, sync, dom, segs, settled>>
        /\ mpc # "idle"
    BY <1>4 DEF WriteFpRegs, exe
  <2>1. got' \in Gots
    BY <1>4, <1>t, <1>n, <1>g DEF WriteFpRegs
  <2>2. ShapeInv' /\ ReportInv'
    BY <1>t, <2>0, <2>1, ManagerFrame
  <2>3. CoreType'
    BY <1>4, <1>t, <2>0 DEF WriteFpRegs, CoreType
  <2>4. FileInv'
    BY <1>4, <1>t, <2>0, NoteSizes DEF WriteFpRegs, FileInv, HeadersSet, Gots
  <2>5. SettledInv'
    BY <1>4, <1>t, <1>w, <2>0 DEF WriteFpRegs, SettledInv, Drained, Gots
  <2> QED BY <2>2, <2>3, <2>4, <2>5 DEF DumpInv
<1>5. CASE WritePadding
  <2>0. /\ UNCHANGED <<ipc, pend, cpu, run, sync, dom, segs, settled>>
        /\ mpc # "idle"
    BY <1>5 DEF WritePadding, exe
  <2>1. got' \in Gots
    BY <1>5, <1>t, <1>n, <1>g DEF WritePadding
  <2>2. ShapeInv' /\ ReportInv'
    BY <1>t, <2>0, <2>1, ManagerFrame
  <2>3. CoreType'
    BY <1>5, <1>t, <2>0 DEF WritePadding, CoreType
  <2>4. FileInv'
    BY <1>5, <1>t, <2>0, NoteSizes DEF WritePadding, FileInv, HeadersSet
  <2>5. SettledInv'
    BY <1>5, <1>t, <1>w, <2>0 DEF WritePadding, SettledInv, Drained, Gots
  <2> QED BY <2>2, <2>3, <2>4, <2>5 DEF DumpInv
<1>6. CASE WriteMemory
  <2>0. /\ UNCHANGED <<ipc, pend, cpu, run, sync, dom, segs, settled>>
        /\ mpc # "idle"
    BY <1>6 DEF WriteMemory, exe
  <2>1. got' \in Gots
    BY <1>6, <1>t, <1>n, <1>g DEF WriteMemory
  <2>2. ShapeInv' /\ ReportInv'
    BY <1>t, <2>0, <2>1, ManagerFrame
  <2>3. CoreType'
    BY <1>6, <1>t, <2>0 DEF WriteMemory, CoreType
  <2>4. FileInv'
    BY <1>6, <1>t, <2>0, NoteSizes DEF WriteMemory, FileInv, HeadersSet, Gots
  <2>5. SettledInv'
    BY <1>6, <1>t, <1>w, <2>0 DEF WriteMemory, SettledInv, Drained, Gots
  <2> QED BY <2>2, <2>3, <2>4, <2>5 DEF DumpInv
<1>7. CASE getCrashInfo
  <2>0. /\ UNCHANGED <<ipc, pend, cpu, run, sync, dom, segs, settled>>
        /\ mpc # "idle"
    BY <1>7 DEF getCrashInfo, exe
  <2>1. got' \in Gots
    BY <1>7, <1>t, <1>n, <1>g DEF getCrashInfo
  <2>2. ShapeInv' /\ ReportInv'
    BY <1>t, <2>0, <2>1, ManagerFrame
  <2>3. CoreType'
    BY <1>7, <1>t, <2>0 DEF getCrashInfo, CoreType
  <2>4. FileInv'
    BY <1>7, <1>t, <2>0 DEF getCrashInfo, FileInv, HeadersSet, Gots
  <2>5. SettledInv'
    BY <1>7, <1>t, <1>w, <2>0 DEF getCrashInfo, SettledInv, Drained, Gots
  <2> QED BY <2>2, <2>3, <2>4, <2>5 DEF DumpInv
<1>8. CASE dumpCore
  <2>1. CASE Idle /\ UNCHANGED segs
    BY <1>8, <2>1, IdleStep DEF dumpCore
  <2>2. CASE /\ mpc' = "open" /\ segs' = IF segs = None THEN dom ELSE segs
             /\ UNCHANGED <<dom, file, settled>>
    <3>0. UNCHANGED <<ipc, pend, cpu, run, sync, dom, pos, hdr, got, settled>> /\ mpc = "dump"
      BY <1>8, <2>2 DEF dumpCore, exe, file
    <3>1. ShapeInv' /\ ReportInv'
      BY <1>t, <3>0, ManagerFrame
    <3>2. CoreType'
      BY <1>t, <2>2, <3>0 DEF CoreType
    <3>3. FileInv'
      BY <1>t, <2>2, <3>0 DEF FileInv, CoreType
    <3>4. SettledInv'
      BY <1>t, <2>2, <3>0 DEF SettledInv, Drained
    <3> QED BY <3>1, <3>2, <3>3, <3>4 DEF DumpInv
  <2> QED BY <1>8, <2>1, <2>2 DEF dumpCore
<1>9. CASE WriteFails \/ Done \/ Exit
  BY <1>9, IdleStep DEF WriteFails, Done, Exit
<1>10. ASSUME NEW d \in Domains, NEW next \in {"info", "dump"}, getState(d, next)
       PROVE  DumpInv'
  <2>0. /\ UNCHANGED <<ipc, pend, cpu, run, sync, segs, pos, hdr, got>>
        /\ mpc' = next /\ dom' = d
        /\ settled' = IF cpu[d] \in {"halted", "dead"} /\ Drained(d) THEN run[d] ELSE 0
    BY <1>10 DEF getState, exe, file
  <2>1. ShapeInv' /\ ReportInv'
    BY <1>t, <2>0, ManagerFrame
  <2>2. CoreType'
    BY <1>t, <2>0, RunsAssumption DEF CoreType
  <2>3. FileInv'
    BY <1>t, <2>0 DEF FileInv
  <2>4. SettledInv'
    BY <1>t, <2>0 DEF SettledInv, Drained
  <2> QED BY <2>1, <2>2, <2>3, <2>4 DEF DumpInv
<1> QED BY <1>1, <1>2, <1>3, <1>4, <1>5, <1>6, <1>7, <1>8, <1>9, <1>10 DEF Manager

(* The inductive invariant holds throughout.                               *)
LEMMA DumpInvariant == Spec => []DumpInv
<1>1. ASSUME DumpInv, [Next]_vars PROVE DumpInv'
  <2>1. CASE Manager
    BY <1>1, <2>1, ManagerStep
  <2>2. ASSUME NEW d \in Domains, Executor(d) \/ reportCrash(d) \/ MonitorReady(d)
        PROVE  DumpInv'
    BY <1>1, <2>2, ExecutorStep
  <2>3. ASSUME NEW d \in Domains, NEW w \in Words, Drain(d, w) PROVE DumpInv'
    BY <1>1, <2>3, DrainStep
  <2>4. CASE UNCHANGED vars
    <3>1. UNCHANGED <<ipc, pend, cpu, run, sync, mpc, dom, segs, pos, hdr, got, settled>>
      BY <2>4 DEF vars, exe, mgr, file
    <3>2. ShapeInv' /\ ReportInv'
      BY <1>1, <3>1, ManagerFrame DEF DumpInv, ShapeInv
    <3>3. CoreType' /\ FileInv' /\ SettledInv'
      BY <1>1, <3>1 DEF DumpInv, CoreType, FileInv, HeadersSet, SettledInv, Drained
    <3> QED BY <3>2, <3>3 DEF DumpInv
  <2> QED BY <1>1, <2>1, <2>2, <2>3, <2>4 DEF Next
<1> QED BY <1>1, DumpInit, PTL DEF Spec

(* Type correctness: every word of the IPC block and of the pending stores *)
(* and every control variable keeps its type.                              *)
THEOREM DumpTypeCorrect == Spec => []TypeOK
<1>1. DumpInv => TypeOK
  BY DEF DumpInv, ShapeInv, CoreType, FileInv, WordType, TypeOK
<1> QED BY <1>1, DumpInvariant, PTL

(* What getCrashInfo and dumpCore deliver of a crash whose report was      *)
(* complete when the state was read is of that crash, however the stores   *)
(* of the vectors became visible and whatever other domains do.            *)
THEOREM SettledReportIsShown == Spec => []ShownIsOfCrash
<1>1. DumpInv => ShownIsOfCrash
  BY DEF DumpInv, SettledInv, ShownIsOfCrash
<1> QED BY <1>1, DumpInvariant, PTL

(* Each core dump that is written to the end is laid out as its program    *)
(* headers say, for every size of the payload's memory.                    *)
THEOREM DumpLayout == Spec => []HeadersMatchFile
<1>1. DumpInv => HeadersMatchFile
  BY DEF DumpInv, FileInv, HeadersSet, HeadersMatchFile, PAGESIZE
<1> QED BY <1>1, DumpInvariant, PTL
=============================================================================
