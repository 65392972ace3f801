-------------------------- MODULE TestClock_proofs --------------------------
(***************************************************************************)
(* Theorems about the time of a test, for a second of any length and every *)
(* quantum shorter than a second.                                          *)
(***************************************************************************)
EXTENDS TestClock, TLAPS

LEMMA DivMod ==
  ASSUME NEW n \in Int, NEW d \in Nat \ {0}
  PROVE  /\ n \div d \in Int /\ n % d \in 0..(d - 1)
         /\ n = (n \div d) * d + (n % d)
  OBVIOUS

(* Quotients below two.                                                    *)
LEMMA SmallQuotients ==
  ASSUME NEW n \in Int, NEW d \in Nat \ {0}
  PROVE  /\ 0 <= n /\ n < d => n \div d = 0
         /\ d <= n /\ n < 2 * d => n \div d = 1
<1>1. ASSUME 0 <= n, n < d PROVE n \div d = 0
  BY <1>1
<1>2. ASSUME d <= n, n < 2 * d PROVE n \div d = 1
  BY <1>2
<1> QED
  BY <1>1, <1>2

LEMMA GettimeType ==
  ASSUME NEW w \in Nat
  PROVE  /\ Gettime(w) \in [sec : Int, nsec : 0..(Second - 1)]
         /\ Total(Gettime(w)) = w
<1>1. /\ w \div Second \in Int /\ w % Second \in 0..(Second - 1)
      /\ w = (w \div Second) * Second + (w % Second)
  BY SecondAssumption, DivMod
<1> QED
  BY <1>1 DEF Gettime, Total

(* timing_timespec_sub, called with a normalised x and a y that may hold a *)
(* carry: the instant y stands for does not change, the carry left in it   *)
(* is at most a second, and the difference is exact.                       *)
LEMMA SubCorrect ==
  ASSUME NEW x \in [sec : Int, nsec : 0..(Second - 1)],
         NEW y \in [sec : Int, nsec : (1 - Second)..(Second - 1)]
  PROVE  /\ Carries(x, y) \in [sec : Int, nsec : (1 - Second)..(Second - 1)]
         /\ Total(Carries(x, y)) = Total(y)
         /\ Difference(x, Carries(x, y)) \in [sec : Int, nsec : 0..Second]
         /\ Total(Difference(x, Carries(x, y))) = Total(x) - Total(y)
<1> DEFINE b == Borrow(x, y)
           c == Carries(x, y)
<1>1. /\ x.sec \in Int /\ x.nsec \in Int /\ 0 <= x.nsec /\ x.nsec < Second
      /\ y.sec \in Int /\ y.nsec \in Int /\ 0 - Second < y.nsec /\ y.nsec < Second
      /\ Second \in Nat /\ Second > 0
  BY SecondAssumption
<1>2. b = IF x.nsec < y.nsec THEN [sec |-> y.sec + 1, nsec |-> y.nsec - Second]
                             ELSE y
  <2>1. CASE x.nsec < y.nsec
    <3>1. (y.nsec - x.nsec) \div Second = 0
      BY <1>1, <2>1, SmallQuotients
    <3> QED
      BY <1>1, <2>1, <3>1 DEF Borrow
  <2>2. CASE ~(x.nsec < y.nsec)
    BY <2>2 DEF Borrow
  <2> QED
    BY <2>1, <2>2
<1>3. /\ b.sec \in Int /\ b.nsec \in Int
      /\ 0 - Second < b.nsec /\ b.nsec <= x.nsec
      /\ x.nsec - b.nsec < 2 * Second
  BY <1>1, <1>2
<1>4. b.sec * Second + b.nsec = y.sec * Second + y.nsec
  <2>1. (y.sec + 1) * Second = y.sec * Second + Second
    BY <1>1
  <2> QED
    BY <1>1, <1>2, <2>1
<1>5. c = IF x.nsec - b.nsec > Second
          THEN [sec |-> b.sec - 1, nsec |-> b.nsec + Second] ELSE b
  <2>1. CASE x.nsec - b.nsec > Second
    <3>1. (x.nsec - b.nsec) \div Second = 1
      BY <1>1, <1>3, <2>1, SmallQuotients
    <3> HIDE DEF b
    <3> QED
      BY <1>1, <1>3, <2>1, <3>1 DEF Carries, b
  <2>2. CASE ~(x.nsec - b.nsec > Second)
    BY <2>2 DEF Carries
  <2> QED
    BY <2>1, <2>2
<1> HIDE DEF b, c
<1>6. /\ c.sec \in Int /\ c.nsec \in Int
      /\ 0 - Second < c.nsec /\ c.nsec < Second
      /\ 0 <= x.nsec - c.nsec /\ x.nsec - c.nsec <= Second
  BY <1>1, <1>3, <1>5
<1>7. c.sec * Second + c.nsec = y.sec * Second + y.nsec
  <2>1. (b.sec - 1) * Second = b.sec * Second - Second
    BY <1>1, <1>3
  <2> QED
    BY <1>1, <1>3, <1>4, <1>5, <2>1
<1>8. c = [sec |-> c.sec, nsec |-> c.nsec]
  BY <1>2, <1>5
<1>9. (x.sec - c.sec) * Second = x.sec * Second - c.sec * Second
  BY <1>1, <1>6
<1>10. Total(Difference(x, c)) = Total(x) - Total(y)
  BY <1>1, <1>6, <1>7, <1>9 DEF Total, Difference
<1>11. Total(c) = Total(y)
  BY <1>7 DEF Total
<1>12. /\ c \in [sec : Int, nsec : (1 - Second)..(Second - 1)]
       /\ Difference(x, c) \in [sec : Int, nsec : 0..Second]
  BY <1>1, <1>6, <1>8 DEF Difference
<1> QED
  BY <1>10, <1>11, <1>12 DEF c

LEMMA ModUnique ==
  ASSUME NEW d \in Nat \ {0}, NEW q \in Int, NEW m \in 0..(d - 1)
  PROVE  (q * d + m) % d = m
<1> DEFINE n == q * d + m
<1>1. /\ n \in Int /\ n \div d \in Int /\ n % d \in 0..(d - 1)
      /\ n = (n \div d) * d + (n % d)
  BY DivMod
<1> DEFINE k == (n \div d) - q
<1>2. k * d = m - (n % d) /\ k \in Int
  BY <1>1
<1>3. m - (n % d) < d /\ 0 - d < m - (n % d)
  BY <1>1
<1> HIDE DEF n, k
<1>4. k = 0
  <2>1. k >= 1 => k * d >= d
    BY <1>2
  <2>2. k <= 0 - 1 => k * d <= 0 - d
    BY <1>2
  <2> QED
    BY <1>1, <1>2, <1>3, <2>1, <2>2
<1>5. m - (n % d) = 0
  BY <1>2, <1>4
<1>6. n % d = m
  BY <1>1, <1>5
<1> QED
  BY <1>6 DEF n

(* spin_abstime_in_quanta: exact, and malformed on the second.             *)
LEMMA AbstimeCorrect ==
  ASSUME NEW ts \in [sec : Int, nsec : 0..(Second - 1)]
  PROVE  /\ Abstime(ts, Ahead) \in [sec : Int, nsec : 0..Second]
         /\ Total(Abstime(ts, Ahead)) = Total(ts) + Ahead
         /\ Valid(Abstime(ts, Ahead)) <=> Total(Abstime(ts, Ahead)) % Second # 0
<1> DEFINE f == Abstime(ts, Ahead)
<1>1. /\ Second \in Nat /\ Second > 0 /\ ts.sec \in Int /\ ts.nsec \in Int
      /\ 0 <= ts.nsec /\ ts.nsec < Second
      /\ Ahead \in Nat /\ 0 < Ahead /\ Ahead < Second
  BY SecondAssumption, WaitAssumption DEF Ahead
<1>2. f = IF ts.nsec + Ahead > Second
          THEN [sec |-> ts.sec + 1, nsec |-> ts.nsec + Ahead - Second]
          ELSE [sec |-> ts.sec, nsec |-> ts.nsec + Ahead]
  <2>1. ts.nsec + Ahead - Second > 0 <=> ts.nsec + Ahead > Second
    BY <1>1
  <2>2. [ts EXCEPT !.nsec = @ + Ahead] = [sec |-> ts.sec, nsec |-> ts.nsec + Ahead]
    OBVIOUS
  <2> QED
    BY <2>1, <2>2 DEF Abstime
<1> HIDE DEF f
<1>3. /\ f.sec \in Int /\ f.nsec \in Int /\ 0 < f.nsec /\ f.nsec <= Second
      /\ f = [sec |-> f.sec, nsec |-> f.nsec]
  BY <1>1, <1>2
<1>4. Total(f) = Total(ts) + Ahead
  <2>1. (ts.sec + 1) * Second = ts.sec * Second + Second
    BY <1>1
  <2> QED
    BY <1>1, <1>2, <2>1 DEF Total
<1>5. CASE f.nsec = Second
  <2>1. f.sec * Second + f.nsec = (f.sec + 1) * Second + 0
    BY <1>1, <1>3, <1>5
  <2>2. ((f.sec + 1) * Second + 0) % Second = 0
    <3>1. f.sec + 1 \in Int /\ Second \in Nat \ {0} /\ 0 \in 0..(Second - 1)
      BY <1>1, <1>3
    <3> QED
      BY <3>1, ModUnique, Zenon
  <2>3. Total(f) % Second = 0
    BY <2>1, <2>2 DEF Total
  <2> QED
    BY <1>1, <1>3, <1>4, <1>5, <2>3 DEF Valid, f
<1>6. CASE f.nsec < Second
  <2>1. (f.sec * Second + f.nsec) % Second = f.nsec
    BY <1>1, <1>3, <1>6, ModUnique
  <2>2. Total(f) % Second # 0
    BY <1>3, <2>1 DEF Total
  <2> QED
    BY <1>1, <1>3, <1>4, <1>6, <2>2 DEF Valid, f
<1> QED
  BY <1>1, <1>3, <1>5, <1>6
-----------------------------------------------------------------------------
ClockInv == TypeOK /\ ElapsedExact /\ DeadlineExact

LEMMA InitClock == Init => ClockInv
<1> SUFFICES ASSUME Init PROVE ClockInv
  OBVIOUS
<1>1. wall \in Nat /\ Second \in Nat /\ Second > 0
  BY TestAssumption, SecondAssumption DEF Init
<1>2. /\ Gettime(wall) \in [sec : Int, nsec : 0..(Second - 1)]
      /\ Total(Gettime(wall)) = wall
  BY <1>1, GettimeType
<1>3. Zero \in [sec : Int, nsec : 0..Second] /\ Total(Zero) = 0
  BY <1>1 DEF Zero, Total
<1>4. TypeOK
  BY <1>1, <1>2, <1>3 DEF Init, TypeOK
<1> QED
  BY <1>1, <1>2, <1>3, <1>4 DEF Init, ClockInv, ElapsedExact, DeadlineExact

(* What a check computes, from whatever the checks before have left.       *)
LEMMA CheckExact ==
  ASSUME ClockInv, Check
  PROVE  /\ init' \in [sec : Int, nsec : (1 - Second)..(Second - 1)]
         /\ elap' \in [sec : Int, nsec : 0..Second]
         /\ Total(init') = start /\ Total(elap') = wall - start
         /\ wall \in Nat /\ start \in Nat
<1>1. /\ wall \in Nat /\ start \in Nat /\ Total(init) = start
      /\ init \in [sec : Int, nsec : (1 - Second)..(Second - 1)]
  BY TestAssumption DEF ClockInv, TypeOK, ElapsedExact
<1>2. /\ Gettime(wall) \in [sec : Int, nsec : 0..(Second - 1)]
      /\ Total(Gettime(wall)) = wall
  BY <1>1, GettimeType
<1>3. /\ init' = Carries(Gettime(wall), init)
      /\ elap' = Difference(Gettime(wall), Carries(Gettime(wall), init))
  BY DEF Check
<1>4. /\ init' \in [sec : Int, nsec : (1 - Second)..(Second - 1)]
      /\ Total(init') = Total(init)
      /\ elap' \in [sec : Int, nsec : 0..Second]
      /\ Total(elap') = Total(Gettime(wall)) - Total(init)
  BY <1>1, <1>2, <1>3, SubCorrect
<1> QED
  BY <1>1, <1>2, <1>4

LEMMA NextClock == ClockInv /\ [Next]_vars => ClockInv'
<1> SUFFICES ASSUME ClockInv, [Next]_vars PROVE ClockInv'
  OBVIOUS
<1>1. TypeOK /\ ElapsedExact /\ DeadlineExact
  BY DEF ClockInv
<1>2. CASE Tick
  BY <1>1, <1>2
  DEF Tick, ClockInv, TypeOK, ElapsedExact, DeadlineExact, Total, Valid
<1>3. CASE Fail \/ Block \/ Resume \/ Expire
  BY <1>1, <1>3
  DEF Fail, Block, Resume, Expire, ClockInv, TypeOK, ElapsedExact, DeadlineExact,
      Total
<1>4. CASE BlockTimed
  <2>1. /\ Gettime(wall) \in [sec : Int, nsec : 0..(Second - 1)]
        /\ Total(Gettime(wall)) = wall
    BY <1>1, GettimeType DEF TypeOK
  <2>2. /\ pc' = "timed" /\ abs_next' = Abstime(Gettime(wall), Ahead)
        /\ called' = wall /\ UNCHANGED <<wall, init, elap, start, checked>>
    BY <1>4 DEF BlockTimed
  <2>3. /\ abs_next' \in [sec : Int, nsec : 0..Second]
        /\ Total(abs_next') = wall + Ahead
        /\ Valid(abs_next') <=> Total(abs_next') % Second # 0
    BY <2>1, <2>2, AbstimeCorrect
  <2>4. TypeOK'
    BY <1>1, <2>2, <2>3 DEF TypeOK
  <2>5. ElapsedExact'
    BY <1>1, <2>2 DEF ElapsedExact, Total
  <2>6. DeadlineExact'
    BY <2>2, <2>3 DEF DeadlineExact, Total, Valid
  <2> QED
    BY <2>4, <2>5, <2>6 DEF ClockInv
<1>5. CASE Check
  <2>1. /\ pc' \in {"round", "halt"} /\ checked' = wall
        /\ UNCHANGED <<wall, abs_next, start, called>>
    BY <1>5 DEF Check
  <2>2. /\ init' \in [sec : Int, nsec : (1 - Second)..(Second - 1)]
        /\ elap' \in [sec : Int, nsec : 0..Second]
        /\ Total(init') = start /\ Total(elap') = wall - start
    BY <1>5, CheckExact
  <2>3. TypeOK'
    BY <1>1, <2>1, <2>2 DEF TypeOK
  <2>4. ElapsedExact'
    BY <2>1, <2>2 DEF ElapsedExact, Total
  <2>5. DeadlineExact'
    BY <2>1 DEF DeadlineExact
  <2> QED
    BY <2>3, <2>4, <2>5 DEF ClockInv
<1>6. CASE Halted \/ UNCHANGED vars
  BY <1>1, <1>6
  DEF Halted, vars, ClockInv, TypeOK, ElapsedExact, DeadlineExact, Total, Valid
<1> QED
  BY <1>2, <1>3, <1>4, <1>5, <1>6 DEF Next, Scheduler

THEOREM Invariance == Spec => []ClockInv
<1>1. Init => ClockInv
  BY InitClock
<1>2. ClockInv /\ [Next]_vars => ClockInv'
  BY NextClock
<1> QED
  BY <1>1, <1>2, PTL DEF Spec

(* No field of a timespec leaves its range, whatever carries and borrows   *)
(* the rounds make (timing_timespec_sub, spin_abstime_in_quanta).          *)
THEOREM FieldsStayInRange == Spec => []TypeOK
<1>1. ClockInv => TypeOK
  BY DEF ClockInv
<1> QED
  BY <1>1, Invariance, PTL

(* The elapsed time of a test is exact in every round, although init is    *)
(* modified in each (run_test_on with timing_timespec_sub).                *)
THEOREM ElapsedIsExact == Spec => []ElapsedExact
<1>1. ClockInv => ElapsedExact
  BY DEF ClockInv
<1> QED
  BY <1>1, Invariance, PTL

(* The deadline of a timed wait is exact, and malformed only if it is the  *)
(* beginning of a second (spin_abstime_in_quanta).                         *)
THEOREM DeadlinesAreExact == Spec => []DeadlineExact
<1>1. ClockInv => DeadlineExact
  BY DEF ClockInv
<1> QED
  BY <1>1, Invariance, PTL

(* The clock stops no test early, and lets none start a round late.        *)
THEOREM TestsStopOnTime == Spec => StopsOnTime
<1> DEFINE A == \/ pc \notin {"check", "expired"}
                \/ /\ pc' = "halt"  => wall - start >= TestLength
                   /\ pc' = "round" => wall - start <= TestLength
<1>1. ClockInv /\ [Next]_vars => [A]_vars
  <2> SUFFICES ASSUME ClockInv, Next, pc \in {"check", "expired"}
               PROVE  A
    OBVIOUS
  <2>1. CASE Check
    <3>1. /\ elap'.sec \in Int /\ elap'.nsec \in Int
          /\ 0 <= elap'.nsec /\ elap'.nsec <= Second
          /\ elap'.sec * Second + elap'.nsec = wall - start
          /\ wall \in Nat /\ start \in Nat
          /\ Second \in Nat /\ Second > 0 /\ SecondsPerTest \in Nat
      BY <2>1, CheckExact, SecondAssumption, TestAssumption DEF Total
    <3>2. CASE elap'.sec < SecondsPerTest
      <4>1. pc' = "round"
        BY <2>1, <3>2 DEF Check
      <4>2. (elap'.sec + 1) * Second <= SecondsPerTest * Second
        BY <3>1, <3>2
      <4>3. (elap'.sec + 1) * Second = elap'.sec * Second + Second
        BY <3>1
      <4> QED
        BY <3>1, <4>1, <4>2, <4>3 DEF TestLength
    <3>3. CASE ~(elap'.sec < SecondsPerTest)
      <4>1. pc' = "halt"
        BY <2>1, <3>3 DEF Check
      <4>2. elap'.sec * Second >= SecondsPerTest * Second
        BY <3>1, <3>3
      <4> QED
        BY <3>1, <4>1, <4>2 DEF TestLength
    <3> QED
      BY <3>2, <3>3
  <2>2. CASE ~Check
    BY <2>2
    DEF Next, Scheduler, Tick, Fail, Block, BlockTimed, Resume, Expire, Halted
  <2> QED
    BY <2>1, <2>2
<1> QED
  BY <1>1, Invariance, PTL DEF Spec, StopsOnTime
=============================================================================
