------------------------- MODULE Calibration_proofs -------------------------
(***************************************************************************)
(* Theorems about the calibration, for every machine that takes up to 90   *)
(* microseconds for an iteration (above, the first measurement loses a     *)
(* second), sleeps of up to 11 ms and any interruption of the measurement. *)
(*                                                                         *)
(* The argument is in nanoseconds: a spin is fudged_unit * cost long, and  *)
(* act is close to it as long as the sum of ten does not wrap around.      *)
(***************************************************************************)
EXTENDS Calibration, TLAPS

Supported ==
  /\ \A n \in Costs : n <= 90000
  /\ \A n \in Sleeps : n <= 11000
  /\ MaxQuanta <= 500

(* act is the average of ten spins of fudged_unit iterations.              *)
ActIsNear ==
  Duration(fudged_unit) - 19 <= act /\ act <= Duration(fudged_unit) + 10

(* The first guess is at most half a quantum too long, and the loop, which *)
(* tests act before it has measured anything, makes it longer only if it   *)
(* was too short, but for the first time.                                  *)
CalibrationInv ==
  /\ pc \in {"measure", "tune", "done"}
  /\ cost \in Costs
  /\ fudged_unit \in Nat /\ act \in Nat
  /\ pc = "tune" =>
       \/ act = 0 /\ fudged_unit * cost <= 14670000
       \/ ActIsNear /\ fudged_unit * cost <= 14900000
  /\ FUDGE_FACTOR = IF pc = "done" THEN fudged_unit ELSE 0
  /\ pc = "done" => /\ ~OffTarget
                    /\ ActIsNear /\ fudged_unit * cost <= 14900000
  /\ act <= 15000
  /\ pc = "measure" => act = 0 /\ fudged_unit = 0

(* What is invariant on every machine.                                     *)
EveryMachineInv ==
  /\ pc \in {"measure", "tune", "done"}
  /\ cost \in Costs
  /\ fudged_unit \in Int /\ FUDGE_FACTOR \in Int /\ act \in Int
  /\ Measurable => CalibrationInv
-----------------------------------------------------------------------------
(* The ten readings of less than a second: their tenth is close to what is *)
(* measured, and closer if that is a multiple of ten microseconds; they    *)
(* are a number of ticks.                                                  *)
LEMMA SumsNear ==
  ASSUME NEW d \in Nat, d <= 950000, NEW sum \in Sums(d), NEW m, m = sum \div 10
  PROVE  /\ m \in Nat /\ d - 19 <= m /\ m <= d + 10
         /\ d % 10 = 0 => d - 10 <= m
         /\ \E n \in Nat : sum = 100 * n /\ m = 10 * n
<1> DEFINE low   == (d \div Resolution) * Resolution
           share == (10 * (d % Resolution)) \div Resolution
<1>1. PICK k \in (0..10) \cap ((share - 1)..(share + 1)) :
        sum = (10 - k) * (low % Second) + k * ((low + Resolution) % Second)
  BY SMT DEF Sums
<1> DEFINE q == d \div 100
           e == d % 100
<1>2. q \in Nat /\ e \in 0..99 /\ d = 100 * q + e
  BY SMT
<1>3. low = 100 * q /\ share = (10 * e) \div 100
  BY SMT, <1>2 DEF Resolution
<1> HIDE DEF q, e
<1>4. share \in Int /\ 100 * share <= 10 * e /\ 10 * e <= 100 * share + 99
  BY SMT, <1>2, <1>3
<1> HIDE DEF low, share
<1>5. low \in Nat /\ low + 100 < 1000000
  BY SMT, <1>2, <1>3
<1>6. low % Second = low /\ (low + Resolution) % Second = low + 100
  BY SMT, <1>5 DEF Second, Resolution
<1>7. k \in 0..10 /\ share - 1 <= k /\ k <= share + 1
  BY SMT, <1>1, <1>4
<1>8. (10 - k) * low + k * (low + 100) = 10 * (low + 10 * k)
  BY SMT, <1>5, <1>7
<1>9. sum = 10 * (low + 10 * k)
  BY SMT, <1>1, <1>5, <1>6, <1>7, <1>8
<1>10. m = low + 10 * k
  BY SMT, <1>5, <1>7, <1>9
<1>11. 10 * q + k \in Nat /\ sum = 100 * (10 * q + k) /\ m = 10 * (10 * q + k)
  BY SMT, <1>2, <1>3, <1>7, <1>10, <1>9
<1>12. d % 10 = 0 => 10 * e <= 100 * share
  BY SMT, <1>2, <1>3 DEF e
<1>13. \E n \in Nat : sum = 100 * n /\ m = 10 * n
  BY <1>11
<1>14. /\ m \in Nat /\ d - 19 <= m /\ m <= d + 10
       /\ d % 10 = 0 => d - 10 <= m
  BY SMT, <1>2, <1>3, <1>4, <1>5, <1>7, <1>10, <1>12
<1> QED
  BY <1>13, <1>14

(* They are positive, and as act holds them an integer, however long.      *)
LEMMA SumsTyped ==
  ASSUME NEW d \in Nat, NEW sum \in Sums(d)
  PROVE  sum \in Nat /\ sum \div 10 \in Nat /\ Averaged(sum) \in Int
<1> DEFINE low   == (d \div Resolution) * Resolution
           share == (10 * (d % Resolution)) \div Resolution
<1>1. PICK k \in (0..10) \cap ((share - 1)..(share + 1)) :
        sum = (10 - k) * (low % Second) + k * ((low + Resolution) % Second)
  BY SMT DEF Sums
<1>2. low \in Int /\ k \in 0..10
  BY SMT, <1>1 DEF Resolution
<1> HIDE DEF low, share
<1> DEFINE x == low % Second
           y == (low + Resolution) % Second
<1>3. x \in Nat /\ y \in Nat
  BY SMT, <1>2 DEF Second, Resolution
<1> HIDE DEF x, y
<1>4. (10 - k) * x \in Nat /\ k * y \in Nat
  BY SMT, <1>2, <1>3
<1>5. sum \in Nat
  BY SMT, <1>1, <1>4 DEF x, y
<1>6. sum \div 10 \in Nat /\ sum \div Resolution \in Nat
  BY SMT, <1>5 DEF Resolution
<1> DEFINE n == 3125 * (sum \div Resolution) + LongRange \div 2
           w == (n % LongRange) - (LongRange \div 2)
<1>7. n \in Nat
  BY SMT, <1>6 DEF LongRange
<1> HIDE DEF n
<1>8. w \in Int
  BY SMT, <1>7 DEF LongRange
<1>9. Averaged(sum) = (2 * w) \div 625
  BY DEF Averaged, n
<1> HIDE DEF w
<1> QED
  BY SMT, <1>5, <1>6, <1>8, <1>9

(* The average of spins that are not much too long is exact.               *)
LEMMA AveragedIs ==
  ASSUME NEW d \in Nat, d <= 200000, NEW sum \in Sums(d)
  PROVE  Averaged(sum) = sum \div 10
<1>1. PICK n \in Nat : sum = 100 * n /\ sum \div 10 = 10 * n
  BY SMT, SumsNear
<1>2. 10 * n <= 200010
  BY SMT, <1>1, SumsNear
<1>3. sum \div Resolution = n
  BY SMT, <1>1 DEF Resolution
<1>4. LongRange \div 2 = 67108864
  BY SMT DEF LongRange
<1> DEFINE e == 3125 * n + 67108864
<1>5. e \in Nat /\ e < 134217728
  BY SMT, <1>2
<1>6. e % LongRange = e
  BY SMT, <1>5 DEF LongRange
<1>7. (e % LongRange) - 67108864 = 3125 * n
  BY SMT, <1>6
<1>8. Averaged(sum) = (2 * (3125 * n)) \div 625
  BY <1>3, <1>4, <1>7 DEF Averaged
<1>9. (2 * (3125 * n)) \div 625 = 10 * n
  BY SMT
<1> QED
  BY <1>1, <1>8, <1>9

LEMMA DurationIs ==
  ASSUME cost \in Nat, NEW n \in Nat
  PROVE  /\ n * cost \in Nat /\ Duration(n) \in Nat
         /\ 1000 * Duration(n) <= n * cost /\ n * cost <= 1000 * Duration(n) + 999
<1>1. n * cost \in Nat
  BY SMT
<1> DEFINE x == n * cost
<1>2. Duration(n) = x \div 1000
  BY SMT DEF Duration
<1> HIDE DEF x
<1> QED
  BY SMT, <1>1, <1>2 DEF x

LEMMA Ranges ==
  ASSUME Supported, CalibrationInv, Measurable
  PROVE  /\ cost \in Nat /\ 4 <= cost /\ cost <= 90000
         /\ fudged_unit \in Nat /\ act \in Nat /\ act <= 15000
         /\ MaxQuanta \in Nat /\ 1 <= MaxQuanta /\ MaxQuanta <= 500
         /\ Interrupts \subseteq Nat
         /\ \A n \in Sleeps : n \in Nat /\ n <= 11000
  BY SMT, CostsAssumption, SleepsAssumption, QuantaAssumption DEF Supported, CalibrationInv, Measurable

(* The first guess.                                                        *)
LEMMA MeasureStep ==
  ASSUME Supported, CalibrationInv, Measurable, Measure
  PROVE  CalibrationInv'
<1>1. cost \in Nat /\ 4 <= cost /\ cost <= 90000 /\ Duration(Unit) = 10 * cost
  <2>1. cost \in Nat /\ 4 <= cost /\ cost <= 90000
    BY SMT, Ranges
  <2>2. ~(10000 < 0) /\ (10000 * cost) \div 1000 = 10 * cost
    BY SMT, <2>1
  <2> QED
    BY SMT, <2>1, <2>2 DEF Duration, Unit
<1>2. PICK std_elap \in Sleeps, unit_elap \in Sums(10 * cost), more \in Interrupts :
        fudged_unit' = Guess(std_elap, unit_elap \div 10 + more)
  BY SMT, <1>1 DEF Measure
<1> DEFINE average == unit_elap \div 10
<1>3. std_elap \in Nat /\ std_elap <= 11000 /\ more \in Nat
  BY SMT, <1>2, Ranges
<1>4. average \in Nat /\ 10 * cost - 10 <= average
  <2>1. 10 * cost \in Nat /\ 10 * cost <= 950000 /\ (10 * cost) % 10 = 0
    BY SMT, <1>1
  <2> QED
    BY <1>2, <2>1, SumsNear
<1> HIDE DEF average
<1> DEFINE u == average + more
           g == fudged_unit'
<1>5. u \in Nat /\ u >= 30 /\ u >= 10 * cost - 10
  BY SMT, <1>1, <1>3, <1>4
<1>6. g = (10000 * std_elap) \div u
  BY SMT, <1>2, <1>5 DEF Guess, Unit, average
<1> HIDE DEF u, g
<1>7. g \in Nat /\ g * u <= 10000 * std_elap
  BY SMT, <1>3, <1>5, <1>6
<1>8. g * u <= 110000000
  <2>1. g * u \in Int /\ 10000 * std_elap <= 110000000 /\ 10000 * std_elap \in Int
    BY SMT, <1>3, <1>5, <1>7
  <2> QED
    BY SMT, <1>7, <2>1
<1>9. g * 30 <= g * u
  BY SMT, <1>5, <1>7
<1>10. g * (10 * cost - 10) <= g * u
  BY SMT, <1>1, <1>5, <1>7
<1>11. g * (10 * cost - 10) = 10 * (g * cost) - 10 * g /\ g * cost \in Nat
  BY SMT, <1>1, <1>7
<1>12. g * u \in Int
  BY SMT, <1>5, <1>7
<1>13. g * cost <= 14670000
  BY SMT, <1>7, <1>8, <1>9, <1>10, <1>11, <1>12
<1>14. act' = act /\ cost' = cost /\ FUDGE_FACTOR' = FUDGE_FACTOR /\ pc = "measure" /\ pc' = "tune"
  BY SMT DEF Measure
<1> QED
  BY SMT, <1>7, <1>13, <1>14 DEF CalibrationInv, g

(* One iteration of the loop that fine-tunes it.                           *)
LEMMA TuneStep ==
  ASSUME Supported, CalibrationInv, Measurable, Tune
  PROVE  CalibrationInv'
<1>1. /\ pc = "tune" /\ pc' = "tune" /\ cost' = cost /\ FUDGE_FACTOR' = FUDGE_FACTOR
      /\ OffTarget /\ \E sum \in Sums(Duration(fudged_unit')) : act' = Averaged(sum)
      /\ fudged_unit' = Grown(fudged_unit)
  BY DEF Tune
<1>2. cost \in Nat /\ 4 <= cost /\ cost <= 90000 /\ fudged_unit \in Nat /\ act \in Nat
  BY SMT, Ranges
<1> DEFINE f == fudged_unit
           g == fudged_unit'
<1>3. g = f + f \div 100
  BY SMT, <1>1, <1>2 DEF Grown
<1> HIDE DEF g, f
<1>4. f \in Nat /\ f * cost \in Nat
  BY SMT, <1>2 DEF f
<1>5. g \in Nat /\ f <= g /\ 100 * g <= 101 * f
  BY SMT, <1>3, <1>4
<1>6. g * cost \in Nat /\ 100 * (g * cost) <= 101 * (f * cost)
  <2>1. (100 * g) * cost <= (101 * f) * cost
    BY SMT, <1>2, <1>4, <1>5
  <2>2. (100 * g) * cost = 100 * (g * cost) /\ (101 * f) * cost = 101 * (f * cost)
    BY SMT, <1>2, <1>4, <1>5
  <2> QED
    BY SMT, <1>2, <1>5, <2>1, <2>2
<1>7. f * cost <= 14670000
  <2>1. CASE act = 0 /\ f * cost <= 14670000
    BY <2>1
  <2>2. CASE ActIsNear /\ f * cost <= 14900000
    <3>1. /\ Duration(f) \in Nat /\ 1000 * Duration(f) <= f * cost
          /\ f * cost <= 1000 * Duration(f) + 999
      BY SMT, <1>2, <1>4, DurationIs
    <3>2. Duration(f) - 19 <= act /\ act <= Duration(f) + 10
      BY <2>2 DEF ActIsNear, f
    <3>3. 10000 - act > 5000
      BY SMT, <1>1, <1>2, <1>4, <2>2, <3>1, <3>2 DEF OffTarget, Target, Tolerance
    <3> QED
      BY SMT, <1>2, <1>4, <3>1, <3>2, <3>3
  <2> QED
    BY <1>1, <2>1, <2>2 DEF CalibrationInv, f
<1>8. g * cost <= 14900000
  BY SMT, <1>4, <1>6, <1>7
<1>9. /\ Duration(g) \in Nat /\ 1000 * Duration(g) <= g * cost
      /\ g * cost <= 1000 * Duration(g) + 999
  BY SMT, <1>2, <1>5, DurationIs
<1>10. Duration(g) <= 14900
  BY SMT, <1>6, <1>8, <1>9
<1>11. act' \in Nat /\ Duration(g) - 19 <= act' /\ act' <= Duration(g) + 10
  <2>1. PICK sum \in Sums(Duration(g)) : act' = Averaged(sum)
    BY <1>1 DEF g
  <2>2. Duration(g) \in Nat /\ Duration(g) <= 200000 /\ Duration(g) <= 950000
    BY SMT, <1>9, <1>10
  <2>3. act' = sum \div 10
    BY <2>1, <2>2, AveragedIs
  <2> QED
    BY <2>2, <2>3, SumsNear
<1>12. Duration(fudged_unit)' = Duration(g)
  BY <1>1 DEF g, Duration
<1>13. ActIsNear'
  BY <1>11, <1>12 DEF ActIsNear
<1>14. act' <= 15000
  BY SMT, <1>9, <1>10, <1>11
<1>15. cost' \in Costs /\ FUDGE_FACTOR' = 0
  BY SMT, <1>1 DEF CalibrationInv
<1>16. fudged_unit' \in Nat /\ fudged_unit' * cost' <= 14900000
  BY SMT, <1>1, <1>5, <1>8 DEF g
<1> QED
  BY SMT, <1>1, <1>11, <1>13, <1>14, <1>15, <1>16 DEF CalibrationInv

(* The loop has tuned the guess at least once when it ends.                *)
LEMMA FinishStep ==
  ASSUME CalibrationInv, Finish
  PROVE  CalibrationInv'
<1>1. /\ pc = "tune" /\ pc' = "done" /\ ~OffTarget /\ FUDGE_FACTOR' = fudged_unit
      /\ UNCHANGED <<cost, fudged_unit, act>>
  BY DEF Finish
<1>2. act # 0
  BY SMT, <1>1 DEF OffTarget, Target, Tolerance
<1>3. ActIsNear /\ fudged_unit * cost <= 14900000
  BY SMT, <1>1, <1>2 DEF CalibrationInv
<1>4. ActIsNear' /\ ~OffTarget'
  BY <1>1, <1>3 DEF ActIsNear, OffTarget, Duration
<1> QED
  BY SMT, <1>1, <1>3, <1>4 DEF CalibrationInv

(* On a machine that cannot be measured, and on any other, the variables   *)
(* are integers.                                                           *)
LEMMA StepTyped ==
  ASSUME EveryMachineInv, Next
  PROVE  /\ pc' \in {"measure", "tune", "done"} /\ cost' = cost
         /\ fudged_unit' \in Int /\ FUDGE_FACTOR' \in Int /\ act' \in Int
<1>1. /\ cost \in Nat /\ fudged_unit \in Int /\ FUDGE_FACTOR \in Int /\ act \in Int
      /\ pc \in {"measure", "tune", "done"}
  BY CostsAssumption DEF EveryMachineInv
<1>2. ASSUME NEW n \in Int PROVE Duration(n) \in Nat
  <2>1. CASE n < 0
    BY <2>1 DEF Duration
  <2>2. CASE n \in Nat
    BY <1>1, <2>2, DurationIs
  <2> QED
    BY SMT, <1>2, <2>1, <2>2
<1>3. CASE Measure
  <2>1. PICK std_elap \in Sleeps, unit_elap \in Sums(Duration(Unit)), more \in Interrupts :
          fudged_unit' = Guess(std_elap, unit_elap \div 10 + more)
    BY <1>3 DEF Measure
  <2>2. Duration(Unit) \in Nat
    BY <1>2 DEF Unit
  <2>3. std_elap \in Nat /\ more \in Nat /\ unit_elap \div 10 \in Nat
    BY <2>1, <2>2, SumsTyped, SleepsAssumption
  <2> DEFINE u == unit_elap \div 10 + more
  <2>4. u \in Nat
    BY SMT, <2>3
  <2> HIDE DEF u
  <2>5. Guess(std_elap, u) \in Int
    <3>1. u # 0 => (10000 * std_elap) \div u \in Int
      BY SMT, <2>3, <2>4
    <3> QED
      BY <3>1 DEF Guess, NoInt, Unit
  <2> QED
    BY <1>1, <1>3, <2>1, <2>5 DEF Measure, u
<1>4. CASE Tune
  <2>1. fudged_unit' \in Int
    BY SMT, <1>1, <1>4 DEF Tune, Grown, NoInt
  <2>2. Duration(fudged_unit') \in Nat
    BY <1>2, <2>1
  <2>3. act' \in Int
    BY <1>4, <2>2, SumsTyped DEF Tune
  <2> QED
    BY <1>1, <1>4, <2>1, <2>3 DEF Tune
<1>5. CASE Finish
  BY <1>1, <1>5 DEF Finish
<1>6. CASE Calibrated
  BY <1>1, <1>6 DEF Calibrated, vars
<1> QED
  BY <1>3, <1>4, <1>5, <1>6 DEF Next

THEOREM CalibrationInvariance ==
  ASSUME Supported
  PROVE  Spec => []EveryMachineInv
<1>1. Init => EveryMachineInv
  BY SMT DEF Init, EveryMachineInv, CalibrationInv
<1>2. ASSUME CalibrationInv, UNCHANGED vars PROVE CalibrationInv'
  BY SMT, <1>2 DEF vars, CalibrationInv, ActIsNear, Duration, OffTarget
<1>3. ASSUME EveryMachineInv, Next PROVE EveryMachineInv'
  <2>1. ASSUME Measurable PROVE CalibrationInv'
    <3>1. CalibrationInv
      BY <1>3, <2>1 DEF EveryMachineInv
    <3> QED
      BY <1>2, <1>3, <2>1, <3>1, MeasureStep, TuneStep, FinishStep DEF Next, Calibrated
  <2>2. Measurable' = Measurable
    BY <1>3, StepTyped DEF Measurable
  <2> QED
    BY <1>3, <2>1, <2>2, StepTyped DEF EveryMachineInv
<1>4. ASSUME EveryMachineInv, UNCHANGED vars PROVE EveryMachineInv'
  <2>1. Measurable' = Measurable
    BY <1>4 DEF vars, Measurable
  <2> QED
    BY <1>2, <1>4, <2>1 DEF vars, EveryMachineInv
<1>5. EveryMachineInv /\ [Next]_vars => EveryMachineInv'
  BY <1>3, <1>4
<1> QED
  BY <1>1, <1>5, PTL DEF Spec

(* The types; where the clock can measure an iteration the bound of the    *)
(* loop of spin_for does not overflow an int, nor the sum of ten spins a   *)
(* long (spin_calibrate, spin_for).                                        *)
THEOREM CalibrationTyped ==
  ASSUME Supported
  PROVE  Spec => []TypeOK
<1>1. EveryMachineInv => TypeOK
  <2> SUFFICES ASSUME EveryMachineInv, Measurable
               PROVE  /\ FUDGE_FACTOR \in 0..(IntMax \div MaxQuanta)
                      /\ Duration(fudged_unit) <= Target + Tolerance
                      /\ act \in 0..(Target + Tolerance)
    BY DEF EveryMachineInv, TypeOK
  <2>0. CalibrationInv
    BY DEF EveryMachineInv
  <2>1. /\ cost \in Nat /\ 4 <= cost /\ cost <= 90000 /\ fudged_unit \in Nat /\ act \in Nat /\ act <= 15000
    BY SMT, <2>0, Ranges DEF CalibrationInv
  <2>2. Duration(fudged_unit) <= 15000
    <3>1. fudged_unit * cost <= 14900000
      BY SMT, <2>0, <2>1 DEF CalibrationInv
    <3>2. Duration(fudged_unit) \in Nat /\ 1000 * Duration(fudged_unit) <= fudged_unit * cost
      BY <2>1, DurationIs
    <3> DEFINE w == fudged_unit * cost
               d == Duration(fudged_unit)
    <3>3. w \in Int
      BY SMT, <2>1
    <3> HIDE DEF w, d
    <3> QED
      BY SMT, <3>1, <3>2, <3>3 DEF w, d
  <2>3. MaxQuanta \in Nat \ {0} /\ MaxQuanta <= 500
    BY SMT, <2>0, Ranges
  <2>4. FUDGE_FACTOR \in Nat /\ FUDGE_FACTOR <= 3725000
    <3>1. CASE pc = "done"
      <4>1. FUDGE_FACTOR = fudged_unit /\ fudged_unit * cost <= 14900000
        BY <2>0, <3>1 DEF CalibrationInv
      <4>2. fudged_unit * 4 <= fudged_unit * cost /\ fudged_unit * cost \in Int
        BY SMT, <2>1
      <4> QED
        BY SMT, <2>1, <4>1, <4>2
    <3>2. CASE pc # "done"
      BY SMT, <2>0, <3>2 DEF CalibrationInv
    <3> QED
      BY <3>1, <3>2
  <2>5. FUDGE_FACTOR <= IntMax \div MaxQuanta
    <3>1. FUDGE_FACTOR * MaxQuanta <= FUDGE_FACTOR * 500 /\ FUDGE_FACTOR * MaxQuanta \in Int
      BY SMT, <2>3, <2>4
    <3>2. FUDGE_FACTOR * MaxQuanta <= 2147483647
      BY SMT, <2>4, <3>1
    <3> QED
      BY SMT, <2>3, <2>4, <3>2 DEF IntMax
  <2>6. IntMax \div MaxQuanta \in Int
    BY SMT, <2>3 DEF IntMax
  <2> QED
    BY SMT, <2>1, <2>2, <2>4, <2>5, <2>6 DEF Target, Tolerance
<1> QED
  BY <1>1, CalibrationInvariance, PTL

(* On a calibrated machine that can be measured a job of so many quanta    *)
(* takes half as long again at most, and half as long at least (spin_for). *)
THEOREM SpinsAreQuanta ==
  ASSUME Supported
  PROVE  Spec => []MeasuredSpinsForQuanta
<1>1. EveryMachineInv => MeasuredSpinsForQuanta
  <2> SUFFICES ASSUME EveryMachineInv, Measurable, pc = "done", NEW quanta \in 1..MaxQuanta
               PROVE  SpinFor(quanta) \in (quanta * (Target - Tolerance - Resolution))
                        ..(quanta * (Target + Tolerance + Resolution))
    BY DEF MeasuredSpinsForQuanta, SpinsForQuanta
  <2>0. CalibrationInv
    BY DEF EveryMachineInv
  <2> DEFINE f == fudged_unit
             w == f * cost
  <2>1. /\ cost \in Nat /\ 4 <= cost /\ cost <= 90000 /\ f \in Nat /\ act \in Nat /\ FUDGE_FACTOR = f
        /\ quanta \in Nat /\ quanta > 0
    BY SMT, <2>0, Ranges DEF CalibrationInv
  <2>2. w <= 14900000 /\ ActIsNear /\ ~OffTarget
    BY <2>0 DEF CalibrationInv
  <2> HIDE DEF f
  <2>3. w \in Nat /\ Duration(f) \in Nat /\ 1000 * Duration(f) <= w
        /\ w <= 1000 * Duration(f) + 999
    BY SMT, <2>1, DurationIs
  <2>4. act >= 5000 /\ act <= Duration(f) + 10
    BY SMT, <2>1, <2>2 DEF OffTarget, ActIsNear, Target, Tolerance, f
  <2>5. w >= 4990000
    BY SMT, <2>1, <2>3, <2>4
  <2>6. quanta * f \in Nat /\ (quanta * f) * cost = quanta * w
    BY SMT, <2>1
  <2> HIDE DEF w
  <2>7. quanta * 4900000 <= quanta * w /\ quanta * w <= quanta * 15100000
    BY SMT, <2>1, <2>2, <2>3, <2>5
  <2>8. /\ Duration(quanta * f) \in Nat /\ 1000 * Duration(quanta * f) <= quanta * w
        /\ quanta * w <= 1000 * Duration(quanta * f) + 999
    BY SMT, <2>1, <2>6, DurationIs
  <2>9. quanta * w \in Int
    BY SMT, <2>1, <2>3
  <2>10. quanta * 4900 <= Duration(quanta * f) /\ Duration(quanta * f) <= quanta * 15100
    BY SMT, <2>1, <2>7, <2>8, <2>9
  <2> QED
    BY SMT, <2>1, <2>8, <2>10 DEF SpinFor, Target, Tolerance, Resolution
<1> QED
  BY <1>1, CalibrationInvariance, PTL
=============================================================================
