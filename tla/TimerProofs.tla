---------------------------- MODULE TimerProofs -----------------------------
(* Proofs about Timer, for every frequency, word size, period and argument *)
(* of usleep.                                                              *)
EXTENDS Timer, Integers, TLAPS

(* Quotients and remainders of natural numbers.                            *)
LEMMA DivType ==
    ASSUME NEW n \in Nat, NEW d \in Nat \ {0}
    PROVE  n \div d \in Nat /\ n % d \in Nat
  OBVIOUS

(* Conversions of microseconds yield numbers of ticks.                     *)
LEMMA TicksType ==
    ASSUME NEW us \in Nat
    PROVE  /\ ((us * Freq) % Word) \div Million \in Nat
           /\ divideRoundingUp((us * Freq) % Word, Million) \in Nat
<1>1. Freq \in Nat /\ Million \in Nat \ {0} /\ Word \in Nat \ {0}
  BY UnitAssumption
<1>2. us * Freq \in Nat
  BY <1>1
<1>3. PICK n \in Nat : n = (us * Freq) % Word
  BY <1>1, <1>2, DivType
<1>4. n \div Million \in Nat /\ n + Million - 1 \in Nat
  BY <1>1, DivType
<1>5. (n + Million - 1) % Word \in Nat
  BY <1>1, <1>4, DivType
<1>6. ((n + Million - 1) % Word) \div Million \in Nat
  BY <1>1, <1>5, DivType
<1> QED BY <1>3, <1>4, <1>6 DEF divideRoundingUp

(* The counter is a number.                                                *)
LEMMA CountType == ASSUME time \in Nat PROVE Count \in Nat
  BY DivType DEF Count

(* Every variable keeps its type.                                          *)
THEOREM TimerTypeCorrect == Spec => []TypeOK
<1>1. Init => TypeOK
  <2> SUFFICES ASSUME Init PROVE TypeOK
    OBVIOUS
  <2>1. sleep \in [us : Nat, from : Nat, end : Nat]
    BY DEF Init, Awake
  <2>2. /\ {grid, started, careless} \subseteq BOOLEAN
        /\ ctl \in BOOLEAN /\ gic \in BOOLEAN /\ conf \in BOOLEAN /\ whole \in BOOLEAN
        /\ irq \in {"none", "user", "dead"} /\ pc \in {"main", "setup", "start", "sleep"}
    BY Zenon DEF Init
  <2>3. time \in Nat /\ cval \in Nat /\ period \in Nat /\ t0 \in Nat /\ calls \in Nat
    BY DEF Init
  <2> QED BY <2>1, <2>2, <2>3, Zenon DEF TypeOK
<1>2. TypeOK /\ [Next]_vars => TypeOK'
  <2> SUFFICES ASSUME TypeOK, [Next]_vars PROVE TypeOK'
    OBVIOUS
  <2>c. Count \in Nat
    BY CountType DEF TypeOK
  <2> USE DEF TypeOK, regs, api, hist, Main
  <2>1. CASE Pass
    BY <2>1 DEF Pass
  <2>2. ASSUME NEW us \in Periods, SetupAssign(us) PROVE TypeOK'
    <3>1. us \in Nat
      BY PeriodAssumption
    <3> QED BY <2>2, <3>1, TicksType DEF SetupAssign
  <2>3. CASE SetupStop
    BY <2>3 DEF SetupStop
  <2>4. CASE StartEnable
    BY <2>4 DEF StartEnable
  <2>5. CASE StartArm
    BY <2>5, <2>c DEF StartArm, Arm
  <2>6. CASE stopPeriodicInterrupt
    BY <2>6 DEF stopPeriodicInterrupt
  <2>7. CASE TimerIrq
    BY <2>7 DEF TimerIrq
  <2>8. CASE HandlerStop
    BY <2>8 DEF HandlerStop
  <2>9. CASE HandlerStart
    <3>1. {grid', started', careless'} \subseteq BOOLEAN
      BY <2>9, Zenon DEF HandlerStart
    <3> QED BY <2>9, <2>c, <3>1 DEF HandlerStart, Arm
  <2>10. CASE handleTimerIrq
    BY <2>10 DEF handleTimerIrq
  <2>11. ASSUME NEW us \in Sleeps, usleep(us) PROVE TypeOK'
    <3>1. us \in Nat
      BY SleepAssumption
    <3>2. PICK n \in Nat : n = divideRoundingUp((us * Freq) % Word, Million)
      BY <3>1, TicksType
    <3>3. sleep' = [us |-> us, from |-> time, end |-> Count + n]
      BY <2>11, <3>2 DEF usleep
    <3>4. sleep' \in [us : Nat, from : Nat, end : Nat]
      BY <3>1, <3>3, <2>c
    <3> QED BY <2>11, <3>4 DEF usleep
  <2>12. CASE Wake
    BY <2>12 DEF Wake, Awake
  <2>13. CASE UnhandledIrq
    BY <2>13 DEF UnhandledIrq
  <2>14. CASE Restart
    <3>1. /\ {grid', started', careless'} \subseteq BOOLEAN
          /\ gic' \in BOOLEAN /\ conf' \in BOOLEAN /\ whole' \in BOOLEAN
      BY <2>14, Zenon DEF Restart
    <3> QED BY <2>14, <3>1 DEF Restart, Awake
  <2>15. CASE UNCHANGED vars
    BY <2>15 DEF vars
  <2> QED BY <2>1, <2>2, <2>3, <2>4, <2>5, <2>6, <2>7, <2>8, <2>9, <2>10, <2>11,
             <2>12, <2>13, <2>14, <2>15 DEF Next
<1> QED BY <1>1, <1>2, PTL DEF Spec

-----------------------------------------------------------------------------
(* NoDrift, with the products written one way round.                       *)
LEMMA Products ==
    ASSUME NEW m \in Nat, NEW n \in Nat
    PROVE  m * (n + 1) = m * n + m /\ m * n = n * m /\ m * n \in Nat /\ m * 0 = 0 /\ m * 1 = m
  OBVIOUS

(* Every step keeps the deadline on the grid.                              *)
LEMMA DriftStep == TypeOK /\ NoDrift /\ [Next]_vars => NoDrift'
<1> SUFFICES ASSUME TypeOK, NoDrift, [Next]_vars PROVE NoDrift'
  OBVIOUS
<1>c. Count \in Nat
  BY CountType DEF TypeOK
<1>p. /\ period * (calls + 1) = period * calls + period /\ period * calls \in Nat
      /\ calls * period = period * calls /\ period * 1 = period /\ (calls + 1) * period = period * (calls + 1)
  <2>1. period \in Nat /\ calls \in Nat /\ calls + 1 \in Nat
    BY DEF TypeOK
  <2> QED BY <2>1, Products
<1>0. ASSUME UNCHANGED <<cval, t0, period, irq, calls, grid, time>> PROVE NoDrift'
  BY <1>0 DEF NoDrift, Count
<1>f. ASSUME grid' = FALSE PROVE NoDrift'
  BY <1>f DEF NoDrift
<1> USE DEF regs, api, hist
<1>1. CASE Pass
  <2>1. Count' >= Count /\ Count' \in Nat
    BY <1>1 DEF Pass, Count, TypeOK
  <2>2. UNCHANGED <<cval, t0, period, irq, calls, grid>>
    BY <1>1 DEF Pass
  <2>3. ASSUME grid, irq = "user" PROVE Count' >= t0 + calls * period
    BY <1>c, <1>p, <2>1, <2>3 DEF NoDrift, TypeOK
  <2> QED BY <2>2, <2>3 DEF NoDrift
<1>2. ASSUME NEW us \in Periods, SetupAssign(us) PROVE NoDrift'
  BY <1>2, <1>f DEF SetupAssign
<1>3. CASE SetupStop
  BY <1>3, <1>f DEF SetupStop
<1>4. CASE StartEnable
  BY <1>4, <1>0 DEF StartEnable
<1>5. CASE StartArm
  <2>1. cval' = t0' + period' * (calls' + 1) /\ irq' = "none"
    BY <1>5, <1>c, <1>p DEF StartArm, Arm, TypeOK, Main
  <2> QED BY <2>1 DEF NoDrift
<1>6. CASE stopPeriodicInterrupt
  BY <1>6, <1>f DEF stopPeriodicInterrupt
<1>7. CASE TimerIrq
  <2>1. irq' = "user" /\ calls' = calls + 1 /\ irq = "none" /\ Count >= cval
        /\ UNCHANGED <<cval, t0, period, grid, time>>
    BY <1>7 DEF TimerIrq, Expired
  <2>2. Count' = Count
    BY <2>1 DEF Count
  <2>3. ASSUME grid PROVE cval = t0 + period * (calls + 1)
    BY <2>1, <2>3 DEF NoDrift
  <2>4. ASSUME grid PROVE Count >= t0 + (calls + 1) * period
    BY <2>1, <2>3, <2>4, <1>p
  <2> QED BY <2>1, <2>2, <2>3, <2>4 DEF NoDrift
<1>8. CASE HandlerStop
  BY <1>8, <1>f DEF HandlerStop
<1>9. CASE HandlerStart
  BY <1>9, <1>f DEF HandlerStart
<1>10. CASE handleTimerIrq
  <2>1. irq = "user" /\ irq' = "none" /\ cval' = cval + period
        /\ UNCHANGED <<t0, period, calls, grid>>
    BY <1>10 DEF handleTimerIrq
  <2>2. ASSUME grid PROVE cval = t0 + period * calls
    BY <2>1, <2>2 DEF NoDrift
  <2>3. ASSUME grid PROVE cval' = t0 + period * (calls + 1)
    BY <2>1, <2>2, <2>3, <1>p DEF TypeOK
  <2> QED BY <2>1, <2>3 DEF NoDrift
<1>11. ASSUME NEW us \in Sleeps, usleep(us) PROVE NoDrift'
  BY <1>11, <1>0 DEF usleep
<1>12. CASE Wake
  BY <1>12, <1>0 DEF Wake
<1>13. CASE UnhandledIrq
  BY <1>13, <1>f DEF UnhandledIrq
<1>14. CASE Restart
  BY <1>14, <1>f DEF Restart
<1>15. CASE UNCHANGED vars
  BY <1>15, <1>0 DEF vars
<1> QED BY <1>1, <1>2, <1>3, <1>4, <1>5, <1>6, <1>7, <1>8, <1>9, <1>10, <1>11,
           <1>12, <1>13, <1>14, <1>15 DEF Next

(* The deadlines of a timer that is left alone stay on the grid of its     *)
(* period, however late its interrupts are served.                         *)
THEOREM TimerKeepsGrid == Spec => []NoDrift
<1>1. Init => NoDrift
  BY DEF Init, NoDrift
<1> QED BY <1>1, DriftStep, TimerTypeCorrect, PTL DEF Spec

-----------------------------------------------------------------------------
(* A timer that is running with its interrupt enabled has been started, so *)
(* none fires while a handler is replaced after a stop.                    *)
ReplaceInv ==
    /\ ctl /\ gic => started
    /\ pc = "start" /\ gic => started
    /\ ~whole => pc = "setup"
    /\ pc = "setup" /\ ~careless => irq = "none" /\ ~started

(* No step fires a timer whose handler is being replaced.                  *)
LEMMA ReplaceStep == TypeOK /\ ReplaceInv /\ [Next]_vars => ReplaceInv'
<1> SUFFICES ASSUME TypeOK, ReplaceInv, [Next]_vars PROVE ReplaceInv'
  OBVIOUS
<1> USE DEF ReplaceInv, TypeOK, regs, api, hist, Main
<1>1. CASE Pass
  BY <1>1 DEF Pass
<1>2. ASSUME NEW us \in Periods, SetupAssign(us) PROVE ReplaceInv'
  BY <1>2 DEF SetupAssign
<1>3. CASE SetupStop
  BY <1>3 DEF SetupStop
<1>4. CASE StartEnable
  BY <1>4 DEF StartEnable
<1>5. CASE StartArm
  BY <1>5 DEF StartArm, Arm
<1>6. CASE stopPeriodicInterrupt
  BY <1>6 DEF stopPeriodicInterrupt
<1>7. CASE TimerIrq
  BY <1>7 DEF TimerIrq, Expired
<1>8. CASE HandlerStop
  BY <1>8 DEF HandlerStop
<1>9. CASE HandlerStart
  BY <1>9 DEF HandlerStart, Arm
<1>10. CASE handleTimerIrq
  BY <1>10 DEF handleTimerIrq
<1>11. ASSUME NEW us \in Sleeps, usleep(us) PROVE ReplaceInv'
  BY <1>11 DEF usleep
<1>12. CASE Wake
  BY <1>12 DEF Wake
<1>13. CASE UnhandledIrq
  BY <1>13 DEF UnhandledIrq, Expired
<1>14. CASE Restart
  BY <1>14 DEF Restart
<1>15. CASE UNCHANGED vars
  BY <1>15 DEF vars
<1> QED BY <1>1, <1>2, <1>3, <1>4, <1>5, <1>6, <1>7, <1>8, <1>9, <1>10, <1>11,
           <1>12, <1>13, <1>14, <1>15 DEF Next

(* A handler that is replaced while the timer is stopped is never called   *)
(* half assigned.                                                          *)
THEOREM ReplacementIsSafe == Spec => []ReplacedWhenStopped
<1>1. Init => ReplaceInv
  BY DEF Init, ReplaceInv
<1>2. ReplaceInv => ReplacedWhenStopped
  BY DEF ReplaceInv, ReplacedWhenStopped
<1> QED BY <1>1, <1>2, ReplaceStep, TimerTypeCorrect, PTL DEF Spec

-----------------------------------------------------------------------------
(* The end that usleep computes.                                           *)
SleepInv ==
    pc = "sleep" =>
        sleep.end = sleep.from \div 2 + divideRoundingUp((sleep.us * Freq) % Word, Million)

(* A sleep keeps the end that was computed when it began.                  *)
LEMMA SleepStep == TypeOK /\ SleepInv /\ [Next]_vars => SleepInv'
<1> SUFFICES ASSUME TypeOK, SleepInv, [Next]_vars PROVE SleepInv'
  OBVIOUS
<1>0. ASSUME UNCHANGED <<pc, sleep>> PROVE SleepInv'
  BY <1>0 DEF SleepInv
<1>f. ASSUME pc' # "sleep" PROVE SleepInv'
  BY <1>f DEF SleepInv
<1> USE DEF regs, api, hist
<1>1. CASE Pass
  BY <1>1, <1>0 DEF Pass
<1>2. ASSUME NEW us \in Periods, SetupAssign(us) PROVE SleepInv'
  BY <1>2, <1>f DEF SetupAssign
<1>3. CASE SetupStop
  BY <1>3, <1>f DEF SetupStop
<1>4. CASE StartEnable
  BY <1>4, <1>f DEF StartEnable
<1>5. CASE StartArm
  BY <1>5, <1>f DEF StartArm
<1>6. CASE stopPeriodicInterrupt
  BY <1>6, <1>0 DEF stopPeriodicInterrupt
<1>7. CASE TimerIrq
  BY <1>7, <1>0 DEF TimerIrq
<1>8. CASE HandlerStop
  BY <1>8, <1>0 DEF HandlerStop
<1>9. CASE HandlerStart
  BY <1>9, <1>0 DEF HandlerStart
<1>10. CASE handleTimerIrq
  BY <1>10, <1>0 DEF handleTimerIrq
<1>11. ASSUME NEW us \in Sleeps, usleep(us) PROVE SleepInv'
  <2>1. sleep' = [us |-> us, from |-> time,
                  end |-> Count + divideRoundingUp((us * Freq) % Word, Million)]
    BY <1>11 DEF usleep
  <2>2. /\ sleep'.us = us /\ sleep'.from = time
        /\ sleep'.end = Count + divideRoundingUp((us * Freq) % Word, Million)
    BY <2>1
  <2> QED BY <2>2 DEF SleepInv, Count
<1>12. CASE Wake
  BY <1>12, <1>f DEF Wake
<1>13. CASE UnhandledIrq
  BY <1>13, <1>0 DEF UnhandledIrq
<1>14. CASE Restart
  BY <1>14, <1>f DEF Restart
<1>15. CASE UNCHANGED vars
  BY <1>15, <1>0 DEF vars
<1> QED BY <1>1, <1>2, <1>3, <1>4, <1>5, <1>6, <1>7, <1>8, <1>9, <1>10, <1>11,
           <1>12, <1>13, <1>14, <1>15 DEF Next

(* The division rounds up.                                                 *)
LEMMA RoundsUp ==
    ASSUME NEW n \in Nat, NEW d \in Nat \ {0}
    PROVE  (n + d - 1) \div d \in Nat /\ d * ((n + d - 1) \div d) >= n
  OBVIOUS

(* A number below the modulus is its own remainder.                        *)
LEMMA SmallMod == ASSUME NEW n \in Nat, NEW d \in Nat \ {0}, n < d PROVE n % d = n
  OBVIOUS

(* As long as the product fits, divideRoundingUp is the rounded quotient.  *)
LEMMA TicksRoundUp ==
    ASSUME NEW us \in Nat, us * Freq + Million <= Word
    PROVE  LET D == divideRoundingUp((us * Freq) % Word, Million)
           IN  D \in Nat /\ Million * D >= us * Freq
<1>1. Freq \in Nat /\ Million \in Nat \ {0} /\ Word \in Nat \ {0}
  BY UnitAssumption
<1>2. PICK a \in Nat : a = us * Freq
  BY <1>1
<1>3. a % Word = a
  BY <1>1, <1>2, SmallMod
<1>4. (a + Million - 1) % Word = a + Million - 1
  <2>1. a + Million - 1 \in Nat /\ a + Million - 1 < Word
    BY <1>1, <1>2
  <2> QED BY <1>1, <2>1, SmallMod
<1>5. divideRoundingUp((us * Freq) % Word, Million) = (a + Million - 1) \div Million
  BY <1>2, <1>3, <1>4 DEF divideRoundingUp
<1> QED BY <1>1, <1>2, <1>5, RoundsUp

(* Half ticks and ticks.                                                   *)
LEMMA Halves ==
    ASSUME NEW t \in Nat, NEW c \in Nat, NEW D \in Nat, t \div 2 >= c + D
    PROVE  t - 2 * c >= 2 * D
  OBVIOUS

(* A multiplied inequality.                                                *)
LEMMA Scale ==
    ASSUME NEW x \in Int, NEW D \in Nat, NEW m \in Nat, x >= 2 * D
    PROVE  x * m >= 2 * (m * D)
<1>1. \A y, z \in Int : y >= z => y * m >= z * m
  OBVIOUS
<1>2. x * m >= (2 * D) * m
  BY <1>1
<1>3. (2 * D) * m = 2 * (m * D)
  OBVIOUS
<1> QED BY <1>2, <1>3

(* A sleep never ends before the time asked for has passed since the       *)
(* beginning of the tick it began in, as long as its product fits the      *)
(* word: the conversion to ticks rounds up.                                *)
THEOREM SleepReachesItsTick == Spec => SleepsFromTheTick
<1> DEFINE Long == Wake /\ sleep.us * Freq + Million <= Word =>
          (time - 2 * (sleep.from \div 2)) * Million >= 2 * sleep.us * Freq
<1>1. Init => SleepInv
  BY DEF Init, SleepInv
<1>2. TypeOK /\ SleepInv /\ [Next]_vars => [Long]_vars
  <2> SUFFICES ASSUME TypeOK, SleepInv, Wake, sleep.us * Freq + Million <= Word
               PROVE  (time - 2 * (sleep.from \div 2)) * Million >= 2 * sleep.us * Freq
    OBVIOUS
  <2>1. Count >= sleep.end /\ pc = "sleep"
    BY DEF Wake
  <2>2. /\ time \in Nat /\ sleep.from \in Nat /\ sleep.us \in Nat
        /\ Million \in Nat \ {0} /\ Freq \in Nat
    BY UnitAssumption DEF TypeOK
  <2>3. PICK D \in Nat : /\ D = divideRoundingUp((sleep.us * Freq) % Word, Million)
                         /\ Million * D >= sleep.us * Freq
    BY <2>2, TicksRoundUp
  <2>4. PICK c \in Nat : c = sleep.from \div 2
    BY <2>2, DivType
  <2>5. time \div 2 >= c + D
    BY <2>1, <2>3, <2>4 DEF Count, SleepInv
  <2>6. time - 2 * c >= 2 * D /\ time - 2 * c \in Int
    BY <2>2, <2>5, Halves
  <2>7. (time - 2 * c) * Million >= 2 * (Million * D)
    BY <2>2, <2>6, Scale
  <2>8. PICK a \in Nat : a = sleep.us * Freq /\ 2 * sleep.us * Freq = 2 * a
    BY <2>2
  <2>9. PICK b \in Int : b = (time - 2 * c) * Million
    BY <2>2
  <2>10. PICK e \in Nat : e = Million * D
    BY <2>2
  <2> QED BY <2>3, <2>4, <2>7, <2>8, <2>9, <2>10
<1> QED BY <1>1, <1>2, SleepStep, TimerTypeCorrect, PTL DEF Spec, SleepsFromTheTick
=============================================================================
