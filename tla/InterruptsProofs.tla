-------------------------- MODULE InterruptsProofs --------------------------
(* Proofs about Interrupts, for every set of ids and of priorities.        *)
EXTENDS Interrupts, SequenceTheorems, FiniteSetTheorems, WellFoundedInduction, TLAPS

(* What is left of the stack when a handler returns.                       *)
LEMMA Pop ==
    ASSUME NEW S, NEW s \in Seq(S), s # <<>>
    PROVE  /\ SubSeq(s, 1, Len(s) - 1) \in Seq(S)
           /\ Len(SubSeq(s, 1, Len(s) - 1)) = Len(s) - 1
           /\ \A k \in 1..Len(s)-1 : SubSeq(s, 1, Len(s) - 1)[k] = s[k]
<1> DEFINE n == Len(s) - 1
           t == SubSeq(s, 1, n)
<1>1. n \in Nat /\ \A k \in 1..n : s[k] \in S
  OBVIOUS
<1> HIDE DEF n
<1>2. /\ t \in Seq(S) /\ Len(t) = (IF 1 <= n THEN n - 1 + 1 ELSE 0)
      /\ \A k \in 1..n-1+1 : t[k] = s[1 + k - 1]
  BY <1>1, SubSeqProperties
<1> HIDE DEF t
<1>3. t \in Seq(S) /\ Len(t) = n /\ \A k \in 1..n : t[k] = s[k]
  BY <1>1, <1>2
<1> QED BY <1>3 DEF t, n

(* The set-up of the kill takes it off the books of the monitor.           *)
LEMMA KillSetUp ==
    ASSUME setupInterrupts
    PROVE  routed' = [routed EXCEPT ![Ipi] = FALSE]
<1>1. (0 = 1) = FALSE
  OBVIOUS
<1> QED BY <1>1, Zenon DEF setupInterrupts, configureInterrupt

(* Every variable keeps its type.                                          *)
THEOREM GicTypeCorrect == Spec => []TypeOK
<1>1. Init => TypeOK
  <2> SUFFICES ASSUME Init PROVE TypeOK
    OBVIOUS
  <2>1. stack \in Seq(Ids)
    BY DEF Init
  <2>2. overtaken \in BOOLEAN
    BY Zenon DEF Init
  <2> QED BY <2>1, <2>2 DEF Init, TypeOK, Cores
<1>2. TypeOK /\ [Next]_vars => TypeOK'
  <2> SUFFICES ASSUME TypeOK, [Next]_vars PROVE TypeOK'
    OBVIOUS
  <2> USE IdAssumption DEF TypeOK, dist, Cores
  <2>1. ASSUME NEW i \in Ids, Raise(i) PROVE TypeOK'
    BY <2>1 DEF Raise
  <2>2. ASSUME NEW i \in Ids, OtherCoreReads(i) PROVE TypeOK'
    BY <2>2 DEF OtherCoreReads, Register
  <2>3. CASE OtherCoreWrites
    BY <2>3 DEF OtherCoreWrites
  <2>4. CASE setupInterrupts
    BY <2>4 DEF setupInterrupts, configureInterrupt, enableInterrupt
  <2>5. CASE enterEL1Payload
    BY <2>5 DEF enterEL1Payload
  <2>6. CASE FIQInterrupt
    <3>1. stack' \in Seq(Ids)
      BY <2>6 DEF FIQInterrupt
    <3>2. enabled' \in [Ids -> BOOLEAN]
      BY <2>6 DEF FIQInterrupt, teardownEl1Interrupts
    <3> QED BY <2>6, <3>1, <3>2 DEF FIQInterrupt, teardownEl1Interrupts
  <2>7. CASE FIQUnexpected
    BY <2>7 DEF FIQUnexpected
  <2>8. ASSUME NEW i \in PayloadIds, NEW p \in Prios, setupInterruptHandling(i, p)
        PROVE  TypeOK'
    BY <2>8 DEF setupInterruptHandling, configureInterrupt
  <2>9. ASSUME NEW i \in PayloadIds, enableInterruptHandling(i) PROVE TypeOK'
    BY <2>9 DEF enableInterruptHandling, enableInterrupt
  <2>10. ASSUME NEW i \in PayloadIds, disableInterruptHandling(i) PROVE TypeOK'
    BY <2>10 DEF disableInterruptHandling, disableInterrupt
  <2>11. ASSUME NEW i \in Ids, IRQInterrupt(i) PROVE TypeOK'
    <3>1. Append(stack, i) \in Seq(Ids)
      OBVIOUS
    <3>2. stack' \in Seq(Ids)
      BY <2>11, <3>1 DEF IRQInterrupt
    <3> QED BY <2>11, <3>2 DEF IRQInterrupt
  <2>12. CASE IRQReturn
    <3>1. SubSeq(stack, 1, Len(stack) - 1) \in Seq(Ids)
      BY <2>12, Pop DEF IRQReturn
    <3> QED BY <2>12, <3>1 DEF IRQReturn
  <2>13. CASE SynchronousInterrupt
    BY <2>13 DEF SynchronousInterrupt
  <2>15. CASE enableCpuInterrupts
    BY <2>15 DEF enableCpuInterrupts
  <2>16. CASE MonitorIRQ
    BY <2>16 DEF MonitorIRQ
  <2>14. CASE UNCHANGED vars
    BY <2>14 DEF vars
  <2> QED BY <2>1, <2>2, <2>3, <2>4, <2>5, <2>6, <2>7, <2>8, <2>9, <2>10, <2>11,
             <2>12, <2>13, <2>14, <2>15, <2>16 DEF Next, PayloadCall, TakeIRQ
<1> QED BY <1>1, <1>2, PTL DEF Spec

-----------------------------------------------------------------------------
(* The inductive invariant.  What a payload has set up has a payload's      *)
(* priority, and only that is ever served at EL1.                           *)
ConfigInv ==
    /\ \A i \in Ids : routed[i] => prio[i] \in Prios
    /\ el = "el1" => \A i \in Ids : handler[i] => routed[i]
    /\ apr \subseteq Prios

(* What is enabled is in the monitor's books, or is the kill; the monitor   *)
(* itself executes with nothing else enabled.                               *)
RoutingInv ==
    /\ \A i \in Ids : enabled[i] => i = Ipi \/ routed[i]
    /\ el \in {"boot", "setup", "monitor"} => \A i \in Ids : enabled[i] => i = Ipi

(* Every step keeps the books of the monitor and the priorities consistent. *)
LEMMA ConfigStep == TypeOK /\ ConfigInv /\ [Next]_vars => ConfigInv'
<1> SUFFICES ASSUME TypeOK, ConfigInv, [Next]_vars PROVE ConfigInv'
  OBVIOUS
<1> USE IdAssumption DEF TypeOK, ConfigInv, dist
<1>1. ASSUME NEW i \in Ids, Raise(i) PROVE ConfigInv'
  BY <1>1 DEF Raise
<1>2. ASSUME NEW i \in Ids, OtherCoreReads(i) PROVE ConfigInv'
  BY <1>2 DEF OtherCoreReads, Register
<1>3. CASE OtherCoreWrites
  BY <1>3 DEF OtherCoreWrites
<1>4. CASE setupInterrupts
  BY <1>4, KillSetUp DEF setupInterrupts, configureInterrupt, enableInterrupt
<1>5. CASE enterEL1Payload
  BY <1>5 DEF enterEL1Payload
<1>6. CASE FIQInterrupt
  BY <1>6 DEF FIQInterrupt, teardownEl1Interrupts, Signalled
<1>7. CASE FIQUnexpected
  BY <1>7 DEF FIQUnexpected
<1>8. ASSUME NEW i \in PayloadIds, NEW p \in Prios, setupInterruptHandling(i, p)
      PROVE  ConfigInv'
  BY <1>8 DEF setupInterruptHandling, configureInterrupt
<1>9. ASSUME NEW i \in PayloadIds, enableInterruptHandling(i) PROVE ConfigInv'
  BY <1>9 DEF enableInterruptHandling, enableInterrupt
<1>10. ASSUME NEW i \in PayloadIds, disableInterruptHandling(i) PROVE ConfigInv'
  BY <1>10 DEF disableInterruptHandling, disableInterrupt
<1>11. ASSUME NEW i \in Ids, IRQInterrupt(i) PROVE ConfigInv'
  BY <1>11 DEF IRQInterrupt, Signalled
<1>12. CASE IRQReturn
  BY <1>12 DEF IRQReturn
<1>13. CASE SynchronousInterrupt
  BY <1>13 DEF SynchronousInterrupt
<1>15. CASE enableCpuInterrupts
  BY <1>15 DEF enableCpuInterrupts
<1>16. CASE MonitorIRQ
  BY <1>16 DEF MonitorIRQ
<1>14. CASE UNCHANGED vars
  BY <1>14 DEF vars
<1> QED BY <1>1, <1>2, <1>3, <1>4, <1>5, <1>6, <1>7, <1>8, <1>9, <1>10, <1>11,
           <1>12, <1>13, <1>14, <1>15, <1>16 DEF Next, PayloadCall, TakeIRQ

(* Every step keeps what is enabled within what the teardown will find.    *)
LEMMA RoutingStep == TypeOK /\ RoutingInv /\ [Next]_vars => RoutingInv'
<1> SUFFICES ASSUME TypeOK, RoutingInv, [Next]_vars PROVE RoutingInv'
  OBVIOUS
<1> USE IdAssumption DEF TypeOK, RoutingInv, dist
<1>1. ASSUME NEW i \in Ids, Raise(i) PROVE RoutingInv'
  BY <1>1 DEF Raise
<1>2. ASSUME NEW i \in Ids, OtherCoreReads(i) PROVE RoutingInv'
  BY <1>2 DEF OtherCoreReads
<1>3. CASE OtherCoreWrites
  BY <1>3 DEF OtherCoreWrites
<1>4. CASE setupInterrupts
  BY <1>4, KillSetUp DEF setupInterrupts, configureInterrupt, enableInterrupt
<1>5. CASE enterEL1Payload
  BY <1>5 DEF enterEL1Payload
<1>6. CASE FIQInterrupt
  BY <1>6 DEF FIQInterrupt, teardownEl1Interrupts
<1>7. CASE FIQUnexpected
  BY <1>7 DEF FIQUnexpected
<1>8. ASSUME NEW i \in PayloadIds, NEW p \in Prios, setupInterruptHandling(i, p)
      PROVE  RoutingInv'
  BY <1>8 DEF setupInterruptHandling, configureInterrupt
<1>9. ASSUME NEW i \in PayloadIds, enableInterruptHandling(i) PROVE RoutingInv'
  BY <1>9 DEF enableInterruptHandling, enableInterrupt
<1>10. ASSUME NEW i \in PayloadIds, disableInterruptHandling(i) PROVE RoutingInv'
  BY <1>10 DEF disableInterruptHandling, disableInterrupt
<1>11. ASSUME NEW i \in Ids, IRQInterrupt(i) PROVE RoutingInv'
  BY <1>11 DEF IRQInterrupt
<1>12. CASE IRQReturn
  BY <1>12 DEF IRQReturn
<1>13. CASE SynchronousInterrupt
  BY <1>13 DEF SynchronousInterrupt
<1>15. CASE enableCpuInterrupts
  BY <1>15 DEF enableCpuInterrupts
<1>16. CASE MonitorIRQ
  BY <1>16 DEF MonitorIRQ
<1>14. CASE UNCHANGED vars
  BY <1>14 DEF vars
<1> QED BY <1>1, <1>2, <1>3, <1>4, <1>5, <1>6, <1>7, <1>8, <1>9, <1>10, <1>11,
           <1>12, <1>13, <1>14, <1>15, <1>16 DEF Next, PayloadCall, TakeIRQ

(* The inductive invariant holds throughout.                               *)
LEMMA GicInvariant == Spec => [](TypeOK /\ ConfigInv /\ RoutingInv)
<1>1. Init => ConfigInv /\ RoutingInv
  BY IdAssumption DEF Init, ConfigInv, RoutingInv
<1> QED BY <1>1, GicTypeCorrect, ConfigStep, RoutingStep, PTL DEF Spec

(* Whatever a killed payload has configured, enabled or left unfinished,   *)
(* the monitor is signalled nothing but the kill.                          *)
THEOREM MonitorUndisturbed == Spec => []NoIRQAtEL3
<1>1. RoutingInv => NoIRQAtEL3
  BY DEF RoutingInv, NoIRQAtEL3, Signalled, Forwarded
<1> QED BY <1>1, GicInvariant, PTL

-----------------------------------------------------------------------------
(* Every step keeps an enabled interrupt that is active on the stack.       *)
LEMMA StaleStep ==
    TypeOK /\ RoutingInv /\ NoStaleActive /\ [Next]_vars => NoStaleActive'
<1> SUFFICES ASSUME TypeOK, RoutingInv, NoStaleActive, [Next]_vars PROVE NoStaleActive'
  OBVIOUS
<1> USE IdAssumption DEF TypeOK, NoStaleActive, dist
<1>1. ASSUME NEW i \in Ids, Raise(i) PROVE NoStaleActive'
  BY <1>1 DEF Raise
<1>2. ASSUME NEW i \in Ids, OtherCoreReads(i) PROVE NoStaleActive'
  BY <1>2 DEF OtherCoreReads
<1>3. CASE OtherCoreWrites
  BY <1>3 DEF OtherCoreWrites
<1>4. CASE setupInterrupts
  BY <1>4, KillSetUp DEF setupInterrupts, configureInterrupt, enableInterrupt
<1>5. CASE enterEL1Payload
  BY <1>5 DEF enterEL1Payload
<1>6. CASE FIQInterrupt
  <2>1. \A i \in Ids : enabled'[i] => i = Ipi
    BY <1>6 DEF FIQInterrupt, teardownEl1Interrupts, RoutingInv
  <2>2. ~active'[Ipi]
    BY <1>6 DEF FIQInterrupt, Signalled, Forwarded
  <2> QED BY <2>1, <2>2
<1>7. CASE FIQUnexpected
  BY <1>7 DEF FIQUnexpected
<1>8. ASSUME NEW i \in PayloadIds, NEW p \in Prios, setupInterruptHandling(i, p)
      PROVE  NoStaleActive'
  BY <1>8 DEF setupInterruptHandling, configureInterrupt
<1>9. ASSUME NEW i \in PayloadIds, enableInterruptHandling(i) PROVE NoStaleActive'
  BY <1>9 DEF enableInterruptHandling, enableInterrupt
<1>10. ASSUME NEW i \in PayloadIds, disableInterruptHandling(i) PROVE NoStaleActive'
  BY <1>10 DEF disableInterruptHandling, disableInterrupt
<1>11. ASSUME NEW i \in Ids, IRQInterrupt(i) PROVE NoStaleActive'
  <2>1. CASE handler[i]
    <3>1. active' = [active EXCEPT ![i] = TRUE] /\ stack' = Append(stack, i) /\ enabled' = enabled
      BY <1>11, <2>1 DEF IRQInterrupt
    <3>2. /\ Len(stack') = Len(stack) + 1 /\ stack'[Len(stack) + 1] = i
          /\ \A k \in 1..Len(stack) : stack'[k] = stack[k]
      BY <3>1
    <3>3. Len(stack) \in Nat
      OBVIOUS
    <3> QED BY <3>1, <3>2, <3>3
  <2>2. CASE ~handler[i]
    BY <1>11, <2>2 DEF IRQInterrupt
  <2> QED BY <2>1, <2>2
<1>12. CASE IRQReturn
  <2> DEFINE n == Len(stack)
  <2>1. n \in Nat \ {0} /\ stack[n] \in Ids
    BY <1>12 DEF IRQReturn
  <2>2. Len(stack') = n - 1 /\ \A k \in 1..n-1 : stack'[k] = stack[k]
    BY <1>12, Pop DEF IRQReturn
  <2>3. active' = [active EXCEPT ![stack[n]] = FALSE] /\ enabled' = enabled
    BY <1>12 DEF IRQReturn
  <2> HIDE DEF n
  <2>4. ASSUME NEW i \in Ids, enabled'[i], active'[i]
        PROVE  \E k \in 1..Len(stack') : stack'[k] = i
    <3>1. i # stack[n] /\ active[i] /\ enabled[i]
      BY <2>1, <2>3, <2>4
    <3>2. PICK k \in 1..n : stack[k] = i
      BY <3>1 DEF n
    <3>3. k \in 1..n-1
      BY <2>1, <3>1, <3>2
    <3> QED BY <2>2, <3>2, <3>3
  <2> QED BY <2>4
<1>13. CASE SynchronousInterrupt
  BY <1>13 DEF SynchronousInterrupt
<1>15. CASE enableCpuInterrupts
  BY <1>15 DEF enableCpuInterrupts
<1>16. CASE MonitorIRQ
  BY <1>16 DEF MonitorIRQ
<1>14. CASE UNCHANGED vars
  BY <1>14 DEF vars
<1> QED BY <1>1, <1>2, <1>3, <1>4, <1>5, <1>6, <1>7, <1>8, <1>9, <1>10, <1>11,
           <1>12, <1>13, <1>14, <1>15, <1>16 DEF Next, PayloadCall, TakeIRQ

(* No interrupt that a killed payload left active stays blocked for the    *)
(* payload that enables it next.                                           *)
THEOREM NothingLeftActive == Spec => []NoStaleActive
<1>1. Init => NoStaleActive
  BY DEF Init, NoStaleActive
<1> QED BY <1>1, StaleStep, GicInvariant, PTL DEF Spec

-----------------------------------------------------------------------------
(* A set of numbers that is not empty has a least one.                      *)
LEMMA LeastPriority ==
    ASSUME NEW T \in SUBSET Nat, T # {}
    PROVE  \E x \in T : \A y \in T : x <= y
<1>1. PICK x \in T : \A y \in T : ~(<<y, x>> \in OpToRel(<, Nat))
  BY NatLessThanWellFounded, WFMin
<1>2. \A y \in T : ~(y < x)
  BY <1>1 DEF OpToRel
<1> QED BY <1>2

(* One priority is being served for each handler on the stack: an interrupt *)
(* is taken only if it is more urgent than all of them, and the end of an   *)
(* interrupt drops the most urgent one.                                     *)
NestingInv == Cardinality(apr) = Len(stack)

(* Every step keeps the priorities in step with the stack of handlers.     *)
LEMMA NestingStep ==
    TypeOK /\ ConfigInv /\ ConfigInv' /\ NestingInv /\ [Next]_vars => NestingInv'
<1> SUFFICES ASSUME TypeOK, ConfigInv, ConfigInv', NestingInv, [Next]_vars PROVE NestingInv'
  OBVIOUS
<1> USE DEF NestingInv
<1>f. IsFiniteSet(apr) /\ apr \subseteq Nat /\ Len(stack) \in Nat
  <2>1. apr \subseteq Prios /\ Len(stack) \in Nat
    BY DEF ConfigInv, TypeOK
  <2>2. IsFiniteSet(apr)
    BY <2>1, PrioAssumption, FS_Subset
  <2> QED BY <2>1, <2>2, PrioAssumption
<1>1. CASE FIQInterrupt
  BY <1>1, FS_EmptySet DEF FIQInterrupt, teardownEl1Interrupts
<1>2. ASSUME NEW i \in Ids, IRQInterrupt(i) PROVE NestingInv'
  <2>1. CASE handler[i]
    <3>1. apr' = apr \cup {prio[i]} /\ stack' = Append(stack, i)
      BY <1>2, <2>1 DEF IRQInterrupt
    <3>2. prio[i] \notin apr
      <4>1. \A p \in apr : prio[i] < p
        BY <1>2 DEF IRQInterrupt, Signalled
      <4>2. \A p \in Nat : ~(p < p)
        OBVIOUS
      <4> QED BY <1>f, <4>1, <4>2
    <3>3. Cardinality(apr') = Cardinality(apr) + 1
      BY <1>f, <3>1, <3>2, FS_AddElement
    <3>4. Len(stack') = Len(stack) + 1
      BY <3>1 DEF TypeOK
    <3> QED BY <3>3, <3>4
  <2>2. CASE ~handler[i]
    BY <1>2, <2>2 DEF IRQInterrupt
  <2> QED BY <2>1, <2>2
<1>3. CASE IRQReturn
  <2>1. Len(stack') = Len(stack) - 1 /\ Len(stack) > 0
    BY <1>3, Pop DEF IRQReturn, TypeOK
  <2>2. apr # {}
    <3>1. Cardinality({}) = 0
      BY FS_EmptySet
    <3> QED BY <1>f, <2>1, <3>1
  <2>3. PICK x \in apr : \A y \in apr : x <= y
    BY <1>f, <2>2, LeastPriority
  <2>4. apr' = apr \ {x}
    <3>1. apr' = {p \in apr : \E q \in apr : q < p}
      BY <1>3 DEF IRQReturn
    <3>2. ASSUME NEW p \in apr PROVE (\E q \in apr : q < p) <=> p # x
      <4>1. p \in Nat /\ x \in Nat /\ x <= p
        BY <1>f, <2>3
      <4>2. \A q \in apr : q \in Nat /\ x <= q
        BY <1>f, <2>3
      <4> QED BY <4>1, <4>2
    <3> QED BY <3>1, <3>2
  <2>5. Cardinality(apr') = Cardinality(apr) - 1
    BY <1>f, <2>4, FS_RemoveElement
  <2> QED BY <2>1, <2>5
<1>4. CASE UNCHANGED <<apr, stack>>
  BY <1>4
<1>5. ASSUME ~FIQInterrupt, ~TakeIRQ, ~IRQReturn PROVE UNCHANGED <<apr, stack>>
  BY <1>5 DEF Next, vars, Raise, OtherCoreReads, OtherCoreWrites, setupInterrupts,
              enterEL1Payload, FIQUnexpected, PayloadCall, setupInterruptHandling,
              enableInterruptHandling, disableInterruptHandling, SynchronousInterrupt, enableCpuInterrupts, MonitorIRQ
<1> QED BY <1>1, <1>2, <1>3, <1>4, <1>5 DEF TakeIRQ

(* Handlers nest at most once per priority level, also when a payload      *)
(* reconfigures or re-enables interrupts inside their handlers: the array  *)
(* of floating-point contexts, one entry per level, is large enough.       *)
THEOREM NestingIsBounded == Spec => []NestingBounded
<1>1. Init => NestingInv
  <2> SUFFICES ASSUME Init PROVE NestingInv
    OBVIOUS
  <2>1. Len(<<>>) = 0
    OBVIOUS
  <2> QED BY <2>1, FS_EmptySet DEF Init, NestingInv
<1>2. TypeOK /\ ConfigInv /\ NestingInv => NestingBounded
  BY PrioAssumption, FS_Subset DEF ConfigInv, NestingInv, NestingBounded
<1> QED BY <1>1, <1>2, NestingStep, GicInvariant, PTL DEF Spec

-----------------------------------------------------------------------------
(* The monitor has set up the kill since it was last restarted.             *)
Configured == el \in {"monitor", "el1", "crashed"}

(* The kill interrupt keeps its configuration, from its set-up to the next  *)
(* reboot of the monitor; its group, if no copy of the register with the    *)
(* kill in group 1 was about when it was put into group 0: every copy that  *)
(* the other core has taken since shows it in group 0.                      *)
KillInv ==
    /\ prio[Ipi] = MonitorPrio
    /\ ~routed[Ipi] /\ ~active[Ipi]
    /\ el = "el1" => ~handler[Ipi]
    /\ Configured => enabled[Ipi]
    /\ Configured /\ ~overtaken =>
           group[Ipi] = 0 /\ (Ipi \in DOMAIN other => other[Ipi] = 0)

(* No step touches the configuration of the kill.                          *)
LEMMA KillStep ==
    ASSUME Ipi \notin PayloadIds
    PROVE  TypeOK /\ ConfigInv /\ KillInv /\ [Next]_vars => KillInv'
<1> SUFFICES ASSUME TypeOK, ConfigInv, KillInv, [Next]_vars PROVE KillInv'
  OBVIOUS
<1> USE IdAssumption DEF TypeOK, KillInv, Configured, dist
<1>1. ASSUME NEW i \in Ids, Raise(i) PROVE KillInv'
  BY <1>1 DEF Raise
<1>2. ASSUME NEW i \in Ids, OtherCoreReads(i) PROVE KillInv'
  BY <1>2 DEF OtherCoreReads
<1>3. CASE OtherCoreWrites
  BY <1>3 DEF OtherCoreWrites
<1>4. CASE setupInterrupts
  BY <1>4, KillSetUp DEF setupInterrupts, configureInterrupt, enableInterrupt
<1>5. CASE enterEL1Payload
  BY <1>5 DEF enterEL1Payload
<1>6. CASE FIQInterrupt
  BY <1>6 DEF FIQInterrupt, teardownEl1Interrupts
<1>7. CASE FIQUnexpected
  BY <1>7 DEF FIQUnexpected
<1>8. ASSUME NEW i \in PayloadIds, NEW p \in Prios, setupInterruptHandling(i, p)
      PROVE  KillInv'
  BY <1>8 DEF setupInterruptHandling, configureInterrupt
<1>9. ASSUME NEW i \in PayloadIds, enableInterruptHandling(i) PROVE KillInv'
  BY <1>9 DEF enableInterruptHandling, enableInterrupt
<1>10. ASSUME NEW i \in PayloadIds, disableInterruptHandling(i) PROVE KillInv'
  BY <1>10 DEF disableInterruptHandling, disableInterrupt
<1>11. ASSUME NEW i \in Ids, IRQInterrupt(i) PROVE KillInv'
  <2>1. i = Ipi => ~handler[i]
    BY <1>11 DEF IRQInterrupt
  <2>2. active'[Ipi] = active[Ipi]
    BY <1>11, <2>1 DEF IRQInterrupt
  <2>3. UNCHANGED <<group, prio, enabled, routed, handler, other, overtaken>> /\ el = "el1"
    BY <1>11 DEF IRQInterrupt
  <2> QED BY <2>2, <2>3
<1>12. CASE IRQReturn
  BY <1>12 DEF IRQReturn
<1>13. CASE SynchronousInterrupt
  BY <1>13 DEF SynchronousInterrupt
<1>15. CASE enableCpuInterrupts
  BY <1>15 DEF enableCpuInterrupts
<1>16. CASE MonitorIRQ
  BY <1>16 DEF MonitorIRQ
<1>14. CASE UNCHANGED vars
  BY <1>14 DEF vars
<1> QED BY <1>1, <1>2, <1>3, <1>4, <1>5, <1>6, <1>7, <1>8, <1>9, <1>10, <1>11,
           <1>12, <1>13, <1>14, <1>15, <1>16 DEF Next, PayloadCall, TakeIRQ

(* Forced preemption: whatever payloads do with interrupts other than the  *)
(* kill, it stays enabled and more urgent than they, and an FIQ unless the *)
(* other core wrote back a copy of the group register that it had taken    *)
(* before the monitor set up the kill.                                     *)
THEOREM KillAlwaysDeliverable ==
    ASSUME Ipi \notin PayloadIds
    PROVE  Spec => []KillDeliverable
<1>1. Init => KillInv
  BY IdAssumption DEF Init, KillInv, Configured
<1>2. ConfigInv /\ KillInv => KillDeliverable
  BY PrioAssumption DEF ConfigInv, KillInv, Configured, KillDeliverable, MonitorPrio
<1> QED BY <1>1, <1>2, KillStep, GicInvariant, PTL DEF Spec
=============================================================================
