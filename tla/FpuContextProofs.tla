-------------------------- MODULE FpuContextProofs --------------------------
(* Proofs about FpuContext, for every set of priorities and of values.     *)
EXTENDS FpuContext, SequenceTheorems, FiniteSetTheorems, TLAPS

(* Level 0 is the main program, level k the k-th handler on the stack.     *)
(* Whether a level has been given the floating-point unit.                 *)
Has(k) == IF k = Len(nest) THEN fpen ELSE nest[k + 1].saved

(* Handlers on the stack have different priorities, so there are no more   *)
(* of them than priorities.                                                *)
NestPrios == {nest[k].prio : k \in 1..Len(nest)}

NestInv ==
    /\ \A k \in 1..Len(nest) : nest[Len(nest)].prio <= nest[k].prio
    /\ \A j, k \in 1..Len(nest) : j < k => nest[k].prio < nest[j].prio
    /\ Cardinality(NestPrios) = Len(nest)

(* The rank of a level counts the levels up to it that have the unit.  The *)
(* registers belong to the last of them, and the entry of the array below  *)
(* its rank holds what any other has computed.                             *)
Ranks(r) ==
    /\ r \in [0..Len(nest) -> Nat]
    /\ r[0] = (IF Has(0) THEN 1 ELSE 0)
    /\ \A k \in 1..Len(nest) : r[k] = r[k - 1] + (IF Has(k) THEN 1 ELSE 0)
    /\ \A j, k \in 0..Len(nest) : j < k => r[j] <= r[k] /\ (Has(k) => r[j] < r[k])
    /\ \A k \in 0..Len(nest) : r[k] <= k + 1 /\ (~Has(k) => r[k] <= k)

Holds(r) ==
    \A k \in 0..Len(nest) : live[k + 1] # 0 =>
        /\ Has(k)
        /\ live[k + 1] = (IF r[k] = r[Len(nest)] THEN regs ELSE ctx[r[k] - 1])

OwnerInv ==
    IF status THEN \E r : Ranks(r) /\ Holds(r) /\ base = r[Len(nest)] - 1
    ELSE \A k \in 0..Len(nest) : ~Has(k) /\ live[k + 1] = 0

FpuInv == TypeOK /\ NestInv /\ OwnerInv

(* The size of the array is a number.                                      *)
LEMMA FramesType == Frames \in Nat
  BY PriosAssumption, FramesAssumption, FS_CardinalityType

(* What a handler's entry on the stack holds.                              *)
LEMMA NestType ==
    TypeOK => \A k \in 1..Len(nest) : nest[k].prio \in Prios /\ nest[k].saved \in BOOLEAN
<1> SUFFICES ASSUME TypeOK, NEW k \in 1..Len(nest)
             PROVE  nest[k].prio \in Prios /\ nest[k].saved \in BOOLEAN
  OBVIOUS
<1> DEFINE H == [prio : Prios, saved : BOOLEAN]
<1>1. nest \in Seq(H)
  BY DEF TypeOK
<1> HIDE DEF H
<1>2. nest[k] \in H
  BY <1>1, ElementOfSeq
<1> QED BY <1>2 DEF H

(* Handlers are no more than entries of the array.                         *)
LEMMA NestBound == TypeOK /\ NestInv => Len(nest) <= Frames
<1> SUFFICES ASSUME TypeOK, NestInv PROVE Len(nest) <= Frames
  OBVIOUS
<1>1. NestPrios \subseteq Prios
  BY NestType DEF NestPrios
<1>2. Cardinality(NestPrios) <= Cardinality(Prios)
  BY <1>1, PriosAssumption, FS_Subset
<1> QED BY <1>2, FramesAssumption DEF NestInv

(* A sequence without its last element.                                    *)
LEMMA Pop ==
    ASSUME NEW S, NEW s \in Seq(S), s # <<>>
    PROVE  /\ SubSeq(s, 1, Len(s) - 1) \in Seq(S)
           /\ Len(SubSeq(s, 1, Len(s) - 1)) = Len(s) - 1
           /\ \A k \in 1..Len(s)-1 : SubSeq(s, 1, Len(s) - 1)[k] = s[k]
<1> DEFINE n == Len(s) - 1
           t == SubSeq(s, 1, n)
<1>1. n \in Nat /\ \A k \in 1..n : s[k] \in S
  OBVIOUS
<1> HIDE DEF n
<1>2. /\ t \in Seq(S) /\ Len(t) = (IF 1 <= n THEN n - 1 + 1 ELSE 0)
      /\ \A k \in 1..n-1+1 : t[k] = s[1 + k - 1]
  BY <1>1, SubSeqProperties
<1> HIDE DEF t
<1>3. t \in Seq(S) /\ Len(t) = n /\ \A k \in 1..n : t[k] = s[k]
  BY <1>1, <1>2
<1> QED BY <1>3 DEF t, n

(* The trap of a level that does not have the unit yet.                    *)
LEMMA TrapStep ==
    ASSUME FpuInv, ~fpen, EnableFpu, UNCHANGED <<regs, nest, live>>
    PROVE  /\ OwnerInv'
           /\ {fpen', status'} \subseteq BOOLEAN
           /\ base' \in -1..Frames /\ ctx' \in [-1..Frames-1 -> Values \cup {0}]
<1> PICK n \in Nat : n = Len(nest)
  BY DEF FpuInv, TypeOK
<1>h. /\ ~Has(n) /\ Has(n)' /\ Len(nest)' = n
      /\ \A k \in 0..n : k # n => Has(k)' = Has(k)
  BY DEF Has, EnableFpu
<1>f. n <= Frames /\ Frames \in Nat
  BY FramesType, NestBound DEF FpuInv
<1>1. CASE status
  <2>1. PICK r : Ranks(r) /\ Holds(r) /\ base = r[n] - 1
    BY <1>1 DEF FpuInv, OwnerInv
  <2>2. /\ r \in [0..n -> Nat] /\ r[n] <= n /\ live[n + 1] = 0
        /\ \A k \in 0..n : k < n => r[k] <= r[n]
    BY <2>1, <1>h DEF Ranks, Holds
  <2>3. base \in -1..Frames-1 /\ base = r[n] - 1
    BY <1>f, <2>1, <2>2
  <2>4. ctx' = [ctx EXCEPT ![base] = regs] /\ base' = base + 1 /\ fpen' = TRUE /\ status' = status
    BY <1>1 DEF EnableFpu
  <2>5. /\ ctx' \in [-1..Frames-1 -> Values \cup {0}] /\ ctx'[base] = regs
        /\ \A j \in -1..Frames-1 : j # base => ctx'[j] = ctx[j]
    BY <2>3, <2>4 DEF FpuInv, TypeOK
  <2> DEFINE s == [k \in 0..n |-> IF k = n THEN r[n] + 1 ELSE r[k]]
  <2>6. Ranks(s)'
    <3>1. /\ s \in [0..n -> Nat] /\ s[n] = r[n] + 1
          /\ \A k \in 0..n : k < n => s[k] = r[k] /\ k # n
      BY <2>2
    <3> HIDE DEF s
    <3>2. s[0] = (IF Has(0)' THEN 1 ELSE 0)
      BY <2>1, <1>h, <3>1 DEF Ranks
    <3>3. ASSUME NEW k \in 1..n PROVE s[k] = s[k - 1] + (IF Has(k)' THEN 1 ELSE 0)
      <4>1. k - 1 \in 0..n /\ k - 1 < n /\ s[k - 1] = r[k - 1] /\ r[k - 1] \in Nat
        BY <2>2, <3>1
      <4>2. r[k] = r[k - 1] + (IF Has(k) THEN 1 ELSE 0)
        BY <2>1 DEF Ranks
      <4>3. CASE k = n
        BY <1>h, <3>1, <4>1, <4>2, <4>3
      <4>4. CASE k # n
        BY <1>h, <3>1, <4>1, <4>2, <4>4
      <4> QED BY <4>3, <4>4
    <3>4. ASSUME NEW j \in 0..n, NEW k \in 0..n, j < k
          PROVE  s[j] <= s[k] /\ (Has(k)' => s[j] < s[k])
      <4>0. j < n /\ s[j] = r[j] /\ r[j] \in Nat /\ r[k] \in Nat
        BY <2>2, <3>1, <3>4
      <4>1. /\ r[j] \in Nat /\ r[k] \in Nat /\ r[j] <= r[k] /\ (Has(k) => r[j] < r[k])
            /\ s[j] = r[j]
        BY <2>1, <3>4, <4>0 DEF Ranks
      <4>2. CASE k = n
        BY <3>1, <4>1, <4>2
      <4>3. CASE k # n
        <5>1. s[k] = r[k] /\ Has(k)' = Has(k)
          BY <3>1, <1>h, <4>3
        <5> QED BY <4>1, <5>1
      <4> QED BY <4>2, <4>3
    <3>5. ASSUME NEW k \in 0..n
          PROVE  s[k] <= k + 1 /\ (~Has(k)' => s[k] <= k)
      <4>1. r[k] <= k + 1 /\ (~Has(k) => r[k] <= k)
        BY <2>1 DEF Ranks
      <4>2. CASE k = n
        BY <1>h, <2>2, <3>1, <4>2
      <4>3. CASE k # n
        BY <1>h, <3>1, <4>1, <4>3
      <4> QED BY <4>2, <4>3
    <3> QED BY <1>h, <3>1, <3>2, <3>3, <3>4, <3>5 DEF Ranks
  <2>7. Holds(s)'
    <3> SUFFICES ASSUME NEW k \in 0..n, live[k + 1] # 0
                 PROVE  /\ Has(k)'
                        /\ live[k + 1] = (IF s[k] = s[n] THEN regs ELSE ctx'[s[k] - 1])
      BY <1>h DEF Holds
    <3>1. k < n /\ Has(k) /\ Has(k)' /\ s[k] = r[k] /\ s[n] = r[n] + 1 /\ r[k] <= r[n]
      BY <2>1, <2>2, <1>h DEF Holds
    <3>2. live[k + 1] = (IF r[k] = r[n] THEN regs ELSE ctx[r[k] - 1])
      BY <2>1 DEF Holds
    <3>3. r[k] # r[n] => r[k] - 1 \in -1..Frames-1 /\ r[k] - 1 # base
      <4>1. r[k] \in Nat /\ r[n] \in Nat
        BY <2>2
      <4> HIDE DEF s
      <4> QED BY <1>f, <2>3, <3>1, <4>1
    <3> QED BY <2>2, <2>3, <2>5, <3>1, <3>2, <3>3
  <2>8. base' = s[n] - 1 /\ status'
    BY <1>1, <2>2, <2>3, <2>4
  <2> QED BY <1>h, <1>f, <2>3, <2>4, <2>5, <2>6, <2>7, <2>8 DEF OwnerInv, FpuInv, TypeOK
<1>2. CASE ~status
  <2>1. \A k \in 0..n : ~Has(k) /\ live[k + 1] = 0
    BY <1>2 DEF FpuInv, OwnerInv
  <2>2. ctx' = ctx /\ base' = 0 /\ fpen' = TRUE /\ status' = TRUE
    BY <1>2 DEF EnableFpu
  <2> DEFINE s == [k \in 0..n |-> IF k = n THEN 1 ELSE 0]
  <2>3. Ranks(s)'
    BY <2>1, <1>h DEF Ranks
  <2>4. Holds(s)'
    BY <2>1, <1>h DEF Holds
  <2>5. base' = s[n] - 1 /\ status'
    BY <2>2
  <2> QED BY <1>h, <1>f, <2>2, <2>3, <2>4, <2>5 DEF OwnerInv, FpuInv, TypeOK
<1> QED BY <1>1, <1>2

(* A handler is entered: a level more, without the unit.                   *)
LEMMA EnterStep ==
    ASSUME FpuInv, NEW p \in Prios, IRQInterruptHandler(p)
    PROVE  FpuInv'
<1> DEFINE h == [prio |-> p, saved |-> fpen]
<1> PICK n \in Nat : n = Len(nest)
  BY DEF FpuInv, TypeOK
<1>1. /\ nest' = Append(nest, h) /\ nest \in Seq([prio : Prios, saved : BOOLEAN])
      /\ h \in [prio : Prios, saved : BOOLEAN]
      /\ live' = Append(live, 0) /\ live \in Seq(Values \cup {0}) /\ Len(live) = n + 1
      /\ h.prio = p /\ h.saved = fpen
      /\ n # 0 => p < nest[n].prio
  BY DEF IRQInterruptHandler, FpuInv, TypeOK
<1> HIDE DEF h
<1>2. /\ nest' \in Seq([prio : Prios, saved : BOOLEAN]) /\ Len(nest') = n + 1
      /\ nest'[n + 1] = h /\ \A k \in 1..n : nest'[k] = nest[k]
  BY <1>1
<1>3. /\ live' \in Seq(Values \cup {0}) /\ Len(live') = n + 2
      /\ live'[n + 2] = 0 /\ \A k \in 1..n+1 : live'[k] = live[k]
  BY <1>1
<1>4. TypeOK'
  <2>1. Len(live') = Len(nest') + 1
    BY <1>2, <1>3
  <2> QED BY <1>2, <1>3, <2>1 DEF FpuInv, TypeOK, IRQInterruptHandler
<1>5. ASSUME NEW k \in 1..n PROVE nest[k].prio \in Nat /\ p < nest[k].prio
  <2>1. nest[k].prio \in Nat /\ nest[n].prio \in Nat /\ p \in Nat /\ n # 0
    BY NestType, PriosAssumption DEF FpuInv
  <2>2. nest[n].prio <= nest[k].prio
    BY DEF FpuInv, NestInv
  <2> QED BY <1>1, <2>1, <2>2
<1>6. NestInv'
  <2>1. NestPrios' = NestPrios \cup {p}
    <3>1. \A k \in 1..n+1 : k \in 1..n \/ k = n + 1
      OBVIOUS
    <3> QED BY <1>1, <1>2, <3>1 DEF NestPrios
  <2>2. p \notin NestPrios
    BY <1>5, PriosAssumption DEF NestPrios
  <2>3. IsFiniteSet(NestPrios)
    <3>1. NestPrios \subseteq Prios
      BY NestType DEF FpuInv, NestPrios
    <3> QED BY <3>1, PriosAssumption, FS_Subset
  <2>4. Cardinality(NestPrios \cup {p}) = Cardinality(NestPrios) + 1
    BY <2>2, <2>3, FS_AddElement
  <2>5. Cardinality(NestPrios)' = Len(nest')
    BY <1>2, <2>1, <2>4 DEF FpuInv, NestInv
  <2>6. \A k \in 1..n+1 : nest'[n + 1].prio <= nest'[k].prio
    BY <1>1, <1>2, <1>5, PriosAssumption
  <2>7. \A j, k \in 1..n+1 : j < k => nest'[k].prio < nest'[j].prio
    BY <1>1, <1>2, <1>5 DEF FpuInv, NestInv
  <2> QED BY <1>2, <2>5, <2>6, <2>7 DEF NestInv
<1>7. /\ \A k \in 0..n : Has(k)' = Has(k) /\ k # n + 1
      /\ ~Has(n + 1)'
  BY <1>1, <1>2 DEF Has, IRQInterruptHandler
<1>8. OwnerInv'
  <2>1. CASE status
    <3>1. PICK r : Ranks(r) /\ Holds(r) /\ base = r[n] - 1
      BY <2>1 DEF FpuInv, OwnerInv
    <3> DEFINE s == [k \in 0..n+1 |-> IF k = n + 1 THEN r[n] ELSE r[k]]
    <3>2. r \in [0..n -> Nat]
      BY <3>1 DEF Ranks
    <3>3. /\ s \in [0..n+1 -> Nat] /\ s[n + 1] = r[n]
          /\ \A k \in 0..n : s[k] = r[k]
      BY <3>2
    <3> HIDE DEF s
    <3>4. Ranks(s)'
      <4>1. s[0] = (IF Has(0)' THEN 1 ELSE 0)
        BY <3>1, <3>3, <1>7 DEF Ranks
      <4>2. ASSUME NEW k \in 1..n+1 PROVE s[k] = s[k - 1] + (IF Has(k)' THEN 1 ELSE 0)
        <5>1. CASE k = n + 1
          BY <5>1, <3>2, <3>3, <1>7
        <5>2. CASE k \in 1..n
          <6>1. k \in 0..n /\ k - 1 \in 0..n
            BY <5>2
          <6>2. r[k] = r[k - 1] + (IF Has(k) THEN 1 ELSE 0)
            BY <5>2, <3>1 DEF Ranks
          <6> QED BY <6>1, <6>2, <3>3, <1>7
        <5> QED BY <5>1, <5>2
      <4>3. ASSUME NEW j \in 0..n+1, NEW k \in 0..n+1, j < k
            PROVE  s[j] <= s[k] /\ (Has(k)' => s[j] < s[k])
        <5>0. j \in 0..n
          BY <4>3
        <5>1. CASE k = n + 1
          <6>1. j = n \/ r[j] <= r[n]
            BY <3>1, <5>0 DEF Ranks
          <6> QED BY <5>0, <5>1, <6>1, <3>2, <3>3, <1>7
        <5>2. CASE k \in 0..n
          BY <4>3, <5>0, <5>2, <3>1, <3>3, <1>7 DEF Ranks
        <5> QED BY <5>1, <5>2
      <4>4. ASSUME NEW k \in 0..n+1
            PROVE  s[k] <= k + 1 /\ (~Has(k)' => s[k] <= k)
        <5>1. CASE k = n + 1
          BY <5>1, <3>1, <3>2, <3>3 DEF Ranks
        <5>2. CASE k \in 0..n
          BY <5>2, <3>1, <3>3, <1>7 DEF Ranks
        <5> QED BY <5>1, <5>2
      <4> QED BY <1>2, <3>3, <4>1, <4>2, <4>3, <4>4 DEF Ranks
    <3>5. Holds(s)'
      <4> SUFFICES ASSUME NEW k \in 0..n+1, live'[k + 1] # 0
                   PROVE  /\ Has(k)'
                          /\ live'[k + 1] = (IF s[k] = s[n + 1] THEN regs ELSE ctx[s[k] - 1])
        BY <1>2 DEF Holds, IRQInterruptHandler
      <4>1. k \in 0..n /\ live'[k + 1] = live[k + 1]
        BY <1>3
      <4> QED BY <4>1, <1>7, <3>1, <3>3 DEF Holds
    <3> QED BY <1>2, <2>1, <3>1, <3>3, <3>4, <3>5 DEF OwnerInv, IRQInterruptHandler
  <2>2. CASE ~status
    <3>1. \A k \in 0..n : ~Has(k) /\ live[k + 1] = 0
      BY <2>2 DEF FpuInv, OwnerInv
    <3>2. ASSUME NEW k \in 0..n+1 PROVE ~Has(k)' /\ live'[k + 1] = 0
      BY <1>3, <1>7, <3>1
    <3> QED BY <1>2, <2>2, <3>2 DEF OwnerInv, IRQInterruptHandler
  <2> QED BY <2>1, <2>2
<1> QED BY <1>4, <1>6, <1>8 DEF FpuInv

(* A handler returns: if it had the unit, the registers of the last level  *)
(* below it that had are popped.                                           *)
LEMMA LeaveStep ==
    ASSUME FpuInv, RestorePrevState
    PROVE  FpuInv'
<1> PICK n \in Nat : n = Len(nest)
  BY DEF FpuInv, TypeOK
<1> DEFINE H == [prio : Prios, saved : BOOLEAN]
<1> DEFINE m == n - 1
<1>1. /\ nest \in Seq(H) /\ nest # <<>> /\ n # 0
      /\ nest' = SubSeq(nest, 1, Len(nest) - 1)
      /\ live \in Seq(Values \cup {0}) /\ live # <<>> /\ Len(live) = n + 1
      /\ live' = SubSeq(live, 1, Len(live) - 1)
  BY DEF RestorePrevState, FpuInv, TypeOK
<1> HIDE DEF H
<1>2. nest' \in Seq(H) /\ Len(nest') = m /\ \A k \in 1..m : nest'[k] = nest[k]
  BY <1>1, Pop
<1>3. /\ live' \in Seq(Values \cup {0}) /\ Len(live') = n
      /\ \A k \in 1..n : live'[k] = live[k]
  BY <1>1, Pop
<1>m. m \in Nat /\ m + 1 = n /\ \A k \in 1..m : k \in 1..n
  BY <1>1
<1> HIDE DEF m
<1>4. NestInv'
  <2>0. nest[n].prio \in Prios /\ \A k \in 1..m : nest[k].prio \in Nat /\ nest[n].prio < nest[k].prio
    <3>1. n \in 1..n /\ \A k \in 1..m : k \in 1..n /\ k < n
      BY <1>1, <1>m
    <3>2. \A k \in 1..n : nest[k].prio \in Prios
      BY NestType DEF FpuInv
    <3>3. \A k \in 1..m : nest[n].prio < nest[k].prio
      BY <3>1 DEF FpuInv, NestInv
    <3> QED BY <3>1, <3>2, <3>3, PriosAssumption
  <2>1. NestPrios' = NestPrios \ {nest[n].prio}
    <3>1. NestPrios' = {nest[k].prio : k \in 1..m}
      BY <1>2 DEF NestPrios
    <3>2. \A k \in 1..n : k \in 1..m \/ k = n
      BY <1>m
    <3>3. \A k \in 1..m : nest[k].prio # nest[n].prio
      BY <2>0, PriosAssumption
    <3> QED BY <1>m, <3>1, <3>2, <3>3 DEF NestPrios
  <2>2. nest[n].prio \in NestPrios
    BY <1>1 DEF NestPrios
  <2>3. IsFiniteSet(NestPrios)
    <3>1. NestPrios \subseteq Prios
      BY NestType DEF FpuInv, NestPrios
    <3> QED BY <3>1, PriosAssumption, FS_Subset
  <2>4. Cardinality(NestPrios \ {nest[n].prio}) = Cardinality(NestPrios) - 1
    BY <2>2, <2>3, FS_RemoveElement
  <2>5. Cardinality(NestPrios)' = Len(nest')
    BY <1>m, <1>2, <2>1, <2>4 DEF FpuInv, NestInv
  <2>6. \A j, k \in 1..m : j < k => nest'[k].prio < nest'[j].prio
    BY <1>m, <1>2 DEF FpuInv, NestInv
  <2>7. ASSUME NEW k \in 1..m PROVE nest'[m].prio <= nest'[k].prio
    <3>1. nest[k].prio \in Nat /\ nest'[m] = nest[m] /\ nest'[k] = nest[k]
      BY <2>0, <1>m, <1>2
    <3>2. k = m \/ nest'[m].prio < nest'[k].prio
      BY <1>m, <2>6
    <3>3. nest[m].prio \in Nat
      BY <2>0, <1>m
    <3> QED BY <3>1, <3>2, <3>3
  <2> QED BY <1>2, <2>5, <2>6, <2>7 DEF NestInv
<1>5. \A k \in 0..m : Has(k)' = Has(k) /\ k \in 0..n /\ k # n
  BY <1>m, <1>2 DEF Has, RestorePrevState
<1>f. n <= Frames /\ Frames \in Nat
  BY FramesType, NestBound DEF FpuInv
<1>t. ASSUME regs' \in Values \cup {0}, base' \in -1..Frames PROVE TypeOK'
  <2>1. fpen' \in BOOLEAN
    BY <1>1, NestType DEF RestorePrevState, FpuInv
  <2>2. nest' \in Seq([prio : Prios, saved : BOOLEAN]) /\ Len(live') = Len(nest') + 1
    BY <1>2, <1>3, <1>m DEF H
  <2> QED BY <1>t, <1>3, <2>1, <2>2 DEF TypeOK, FpuInv, RestorePrevState
<1>6. CASE status
  <2>1. PICK r : Ranks(r) /\ Holds(r) /\ base = r[n] - 1
    BY <1>6 DEF FpuInv, OwnerInv
  <2>2. /\ r \in [0..n -> Nat] /\ r[m] \in Nat /\ r[n] \in Nat /\ r[m] <= n
        /\ r[n] = r[m] + (IF fpen THEN 1 ELSE 0)
        /\ \A k \in 0..m : r[k] <= r[m]
    <3>1. r \in [0..n -> Nat] /\ r[m] <= m + 1 /\ r[n] = r[n - 1] + (IF Has(n) THEN 1 ELSE 0)
      BY <2>1, <1>m DEF Ranks
    <3>2. \A k \in 0..m : k = m \/ r[k] <= r[m]
      BY <2>1, <1>m DEF Ranks
    <3>3. Has(n) = fpen /\ n - 1 = m /\ \A k \in 0..m : r[k] \in Nat
      BY <1>m, <3>1 DEF Has
    <3> QED BY <1>m, <3>1, <3>2, <3>3
  <2> DEFINE s == [k \in 0..m |-> r[k]]
  <2>3. s \in [0..m -> Nat] /\ \A k \in 0..m : s[k] = r[k]
    BY <1>5, <2>2
  <2> HIDE DEF s
  <2>4. Ranks(s)'
    <3>1. s[0] = (IF Has(0)' THEN 1 ELSE 0)
      BY <1>m, <1>5, <2>1, <2>3 DEF Ranks
    <3>2. ASSUME NEW k \in 1..m PROVE s[k] = s[k - 1] + (IF Has(k)' THEN 1 ELSE 0)
      <4>1. k \in 0..m /\ k - 1 \in 0..m /\ k \in 1..n
        BY <1>m
      <4> QED BY <1>5, <2>1, <2>3, <4>1 DEF Ranks
    <3>3. ASSUME NEW j \in 0..m, NEW k \in 0..m, j < k
          PROVE  s[j] <= s[k] /\ (Has(k)' => s[j] < s[k])
      BY <1>5, <2>1, <2>3, <3>3 DEF Ranks
    <3>4. ASSUME NEW k \in 0..m
          PROVE  s[k] <= k + 1 /\ (~Has(k)' => s[k] <= k)
      BY <1>5, <2>1, <2>3 DEF Ranks
    <3> QED BY <1>2, <2>3, <3>1, <3>2, <3>3, <3>4 DEF Ranks
  <2>5. /\ IF fpen THEN regs' = ctx[r[m] - 1] /\ base' = base - 1
           ELSE regs' = regs /\ base' = base
        /\ ctx' = ctx /\ status' = status
    <3>1. fpen => base - 1 = r[m] - 1
      BY <2>1, <2>2
    <3> QED BY <3>1 DEF RestorePrevState
  <2>6. base' = s[m] - 1 /\ base' \in -1..Frames
    <3>1. base' = r[m] - 1
      BY <2>1, <2>2, <2>5
    <3> QED BY <1>m, <1>f, <2>2, <2>3, <3>1
  <2>7. regs' \in Values \cup {0}
    <3>1. fpen => r[m] - 1 \in -1..Frames-1
      BY <1>m, <1>f, <2>2
    <3> QED BY <2>5, <3>1 DEF FpuInv, TypeOK
  <2>8. Holds(s)'
    <3> SUFFICES ASSUME NEW k \in 0..m, live'[k + 1] # 0
                 PROVE  /\ Has(k)'
                        /\ live'[k + 1] = (IF s[k] = s[m] THEN regs' ELSE ctx[s[k] - 1])
      BY <1>2, <2>5 DEF Holds
    <3>1. live'[k + 1] = live[k + 1]
      BY <1>m, <1>3
    <3>2. Has(k) /\ live[k + 1] = (IF r[k] = r[n] THEN regs ELSE ctx[r[k] - 1])
      BY <1>5, <2>1, <3>1 DEF Holds
    <3>3. s[k] = r[k] /\ s[m] = r[m] /\ r[k] <= r[m] /\ r[k] \in Nat
      BY <1>m, <1>5, <2>2, <2>3
    <3>4. CASE fpen
      <4>1. r[k] # r[n]
        BY <2>2, <3>3, <3>4
      <4> QED BY <1>5, <2>5, <3>1, <3>2, <3>3, <3>4, <4>1
    <3>5. CASE ~fpen
      <4>1. r[m] = r[n]
        BY <2>2, <3>5
      <4> QED BY <1>5, <2>5, <3>1, <3>2, <3>3, <3>5, <4>1
    <3> QED BY <3>4, <3>5
  <2>9. OwnerInv'
    BY <1>2, <1>6, <2>4, <2>5, <2>6, <2>8 DEF OwnerInv
  <2> QED BY <1>4, <1>t, <2>6, <2>7, <2>9 DEF FpuInv
<1>7. CASE ~status
  <2>1. \A k \in 0..n : ~Has(k) /\ live[k + 1] = 0
    BY <1>7 DEF FpuInv, OwnerInv
  <2>2. ~fpen
    BY <2>1 DEF Has
  <2>3. regs' = regs /\ base' = base /\ status' = status
    BY <2>2 DEF RestorePrevState
  <2>4. ASSUME NEW k \in 0..m PROVE ~Has(k)' /\ live'[k + 1] = 0
    <3>1. live'[k + 1] = live[k + 1]
      BY <1>m, <1>3
    <3>2. Has(k)' = Has(k) /\ k \in 0..n
      BY <1>5
    <3> QED BY <2>1, <3>1, <3>2
  <2>5. OwnerInv'
    BY <1>2, <1>7, <2>3, <2>4 DEF OwnerInv
  <2>6. TypeOK'
    BY <1>t, <2>3 DEF FpuInv, TypeOK
  <2> QED BY <1>4, <2>5, <2>6 DEF FpuInv
<1> QED BY <1>6, <1>7

(* The code that runs has the unit and writes the registers.               *)
LEMMA WriteStep ==
    ASSUME FpuInv, NEW v \in Values, FpWrite(v)
    PROVE  FpuInv'
<1> PICK n \in Nat : n = Len(nest)
  BY DEF FpuInv, TypeOK
<1>1. /\ live \in Seq(Values \cup {0}) /\ Len(live) = n + 1
      /\ live' = [live EXCEPT ![n + 1] = v] /\ regs' = v /\ fpen
      /\ fpen' = fpen /\ nest' = nest /\ status' = status /\ base' = base /\ ctx' = ctx
  BY DEF FpWrite, FpuInv, TypeOK
<1>2. /\ live' \in Seq(Values \cup {0}) /\ Len(live') = n + 1 /\ live'[n + 1] = v
      /\ \A k \in 0..n : k # n => live'[k + 1] = live[k + 1]
  BY <1>1
<1>3. TypeOK'
  BY <1>1, <1>2 DEF FpuInv, TypeOK, FpWrite
<1>4. NestInv'
  BY <1>1 DEF FpuInv, NestInv, NestPrios
<1>5. Has(n) /\ \A k : Has(k)' = Has(k)
  BY <1>1 DEF Has
<1>6. PICK r : Ranks(r) /\ Holds(r) /\ base = r[n] - 1 /\ status
  BY <1>5 DEF FpuInv, OwnerInv
<1>7. Ranks(r)'
  BY <1>1, <1>5, <1>6 DEF Ranks
<1>8. Holds(r)'
  <2> SUFFICES ASSUME NEW k \in 0..n, live'[k + 1] # 0
               PROVE  /\ Has(k)'
                      /\ live'[k + 1] = (IF r[k] = r[n] THEN regs' ELSE ctx'[r[k] - 1])
    BY <1>1 DEF Holds
  <2>1. CASE k = n
    BY <1>1, <1>2, <1>5, <2>1
  <2>2. CASE k # n
    <3>1. live'[k + 1] = live[k + 1] /\ k < n
      BY <1>2, <2>2
    <3>2. r[k] < r[n] /\ r[k] \in Nat /\ r[n] \in Nat
      BY <1>5, <1>6, <3>1 DEF Ranks
    <3>3. r[k] # r[n]
      BY <3>2
    <3> QED BY <1>1, <1>5, <1>6, <3>1, <3>3 DEF Holds
  <2> QED BY <2>1, <2>2
<1>9. OwnerInv'
  BY <1>1, <1>6, <1>7, <1>8 DEF OwnerInv
<1> QED BY <1>3, <1>4, <1>9 DEF FpuInv

(* Nobody owns the registers at first.                                     *)
LEMMA FpuInit == Init => FpuInv
<1> SUFFICES ASSUME Init PROVE FpuInv
  OBVIOUS
<1>1. nest = <<>> /\ Len(nest) = 0 /\ live = <<0>> /\ Len(live) = 1 /\ live[1] = 0
  BY DEF Init
<1>2. TypeOK
  <2>1. live \in Seq(Values \cup {0}) /\ nest \in Seq([prio : Prios, saved : BOOLEAN])
    BY <1>1
  <2>2. Len(live) = Len(nest) + 1
    BY <1>1
  <2>3. base \in -1..Frames /\ ctx \in [-1..Frames-1 -> Values \cup {0}]
    BY FramesType DEF Init
  <2> QED BY <2>1, <2>2, <2>3 DEF Init, TypeOK
<1>3. NestInv
  <2>1. NestPrios = {}
    BY <1>1 DEF NestPrios
  <2>2. Cardinality(NestPrios) = 0
    BY <2>1, FS_EmptySet
  <2> QED BY <1>1, <2>2 DEF NestInv
<1>4. OwnerInv
  BY <1>1 DEF Init, OwnerInv, Has
<1> QED BY <1>2, <1>3, <1>4 DEF FpuInv

(* Every step keeps the stack discipline of the saved contexts.            *)
LEMMA FpuStep == FpuInv /\ [Next]_vars => FpuInv'
<1> SUFFICES ASSUME FpuInv, [Next]_vars PROVE FpuInv'
  OBVIOUS
<1> USE DEF FpuInv
<1>0. ASSUME UNCHANGED nest PROVE NestInv'
  BY <1>0 DEF NestInv, NestPrios
<1>1. CASE SynchronousInterruptHandler
  BY <1>0, <1>1, TrapStep DEF SynchronousInterruptHandler, TypeOK
<1>2. CASE RestorePrevState
  BY <1>2, LeaveStep
<1>3. CASE SynchronousInterrupt
  <2>1. CASE fpen
    <3>1. UNCHANGED <<fpen, status, base, ctx, regs, nest, live>> /\ halted' = TRUE
      BY <1>3, <2>1 DEF SynchronousInterrupt
    <3>2. \A k : Has(k)' = Has(k)
      BY <3>1 DEF Has
    <3>3. OwnerInv'
      <4>1. Len(nest)' = Len(nest) /\ \A r : Ranks(r)' = Ranks(r) /\ Holds(r)' = Holds(r)
        BY <3>1, <3>2 DEF Ranks, Holds
      <4> QED BY <3>1, <3>2, <4>1 DEF OwnerInv
    <3> QED BY <1>0, <3>1, <3>3 DEF TypeOK
  <2>2. CASE ~fpen
    BY <1>0, <1>3, <2>2, TrapStep DEF SynchronousInterrupt, TypeOK
  <2> QED BY <2>1, <2>2
<1>4. CASE InitEL1
  <2>1. nest' = <<>> /\ Len(nest') = 0 /\ live' = <<0>> /\ Len(live') = 1 /\ live'[1] = 0
    BY <1>4 DEF InitEL1
  <2>2. TypeOK'
    <3>1. live' \in Seq(Values \cup {0}) /\ nest' \in Seq([prio : Prios, saved : BOOLEAN])
      BY <2>1
    <3>2. Len(live') = Len(nest') + 1
      BY <2>1
    <3> QED BY <1>4, <3>1, <3>2 DEF InitEL1, TypeOK
  <2>3. NestInv'
    <3>1. NestPrios' = {}
      BY <2>1 DEF NestPrios
    <3>2. Cardinality(NestPrios') = 0
      BY <3>1, FS_EmptySet
    <3> QED BY <2>1, <3>2 DEF NestInv
  <2>4. OwnerInv'
    BY <1>4, <2>1 DEF InitEL1, OwnerInv, Has
  <2> QED BY <2>2, <2>3, <2>4
<1>5. ASSUME NEW v \in Values, FpWrite(v) PROVE FpuInv'
  BY <1>5, WriteStep
<1>6. ASSUME NEW p \in Prios, IRQInterruptHandler(p) PROVE FpuInv'
  BY <1>6, EnterStep
<1>7. CASE UNCHANGED vars
  <2>1. UNCHANGED <<fpen, status, base, ctx, regs, nest, halted, live>>
    BY <1>7 DEF vars
  <2>2. \A k : Has(k)' = Has(k)
    BY <2>1 DEF Has
  <2>3. Len(nest)' = Len(nest) /\ \A r : Ranks(r)' = Ranks(r) /\ Holds(r)' = Holds(r)
    BY <2>1, <2>2 DEF Ranks, Holds
  <2>4. OwnerInv'
    BY <2>1, <2>2, <2>3 DEF OwnerInv
  <2> QED BY <1>0, <2>1, <2>4 DEF TypeOK
<1> QED BY <1>1, <1>2, <1>3, <1>4, <1>5, <1>6, <1>7 DEF Next

(* The inductive invariant holds throughout.                               *)
LEMMA FpuInvariant == Spec => []FpuInv
  BY FpuInit, FpuStep, PTL DEF Spec

(* Every variable keeps its type: FPUContextBase stays within one entry of *)
(* the array on either side.                                               *)
THEOREM FpuTypeCorrect == Spec => []TypeOK
<1>1. FpuInv => TypeOK
  BY DEF FpuInv
<1> QED BY <1>1, FpuInvariant, PTL

(* Whoever executes with the unit enabled finds in the registers what it   *)
(* wrote last, for every nesting of handlers and every set of priorities:  *)
(* the traps and irqInterruptHandler's restore are a stack discipline.     *)
THEOREM FpNeverLost == Spec => []FpPreserved
<1>1. FpuInv => FpPreserved
  <2> SUFFICES ASSUME FpuInv, fpen, live[Len(live)] # 0 PROVE regs = live[Len(live)]
    BY DEF FpPreserved
  <2> DEFINE n == Len(nest)
  <2>1. n \in Nat /\ Len(live) = n + 1 /\ Has(n) /\ n \in 0..n
    BY DEF FpuInv, TypeOK, Has
  <2>2. PICK r : Holds(r)
    BY <2>1 DEF FpuInv, OwnerInv
  <2> QED BY <2>1, <2>2 DEF Holds
<1> QED BY <1>1, FpuInvariant, PTL

(* No trap pushes past the end of FPUContext when it has an entry for each *)
(* priority level, through nesting, crashes and restarts of the payload.   *)
THEOREM ArrayNeverOverrun == Spec => []SavesBelowEnd
<1>1. FpuInv => SavesBelowEnd
  <2> SUFFICES ASSUME FpuInv, status, ~fpen PROVE base < Frames
    BY DEF SavesBelowEnd
  <2> DEFINE n == Len(nest)
  <2>1. n \in Nat /\ n <= Frames /\ ~Has(n) /\ Frames \in Nat
    BY NestBound, FramesType DEF FpuInv, TypeOK, Has
  <2>2. PICK r : Ranks(r) /\ base = r[n] - 1
    BY DEF FpuInv, OwnerInv
  <2>3. r[n] \in Nat /\ r[n] <= n
    BY <2>1, <2>2 DEF Ranks
  <2> HIDE DEF n
  <2> QED BY <2>1, <2>2, <2>3
<1> QED BY <1>1, FpuInvariant, PTL
=============================================================================
