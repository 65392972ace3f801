---------------------------- MODULE Calibration ----------------------------
(***************************************************************************)
(* spin_calibrate and spin_for (spin/spin.c): how many iterations of an    *)
(* empty loop take a quantum.                                              *)
(*                                                                         *)
(* The machine takes Cost nanoseconds for an iteration; its clock advances *)
(* in ticks of Resolution microseconds, so that a measurement is a         *)
(* multiple of a tick, and which one depends on when it starts.  The ten   *)
(* readings that are averaged stand for one sum.  Times are in             *)
(* microseconds and, as in the code, only tv_nsec of an interval is looked *)
(* at: whole seconds are lost.  The sums of the first measurements are     *)
(* int64_t, but act is a long, which has 32 bits on x86: it wraps around   *)
(* when ten spins have taken more than 2147 ms.                            *)
(***************************************************************************)
EXTENDS Integers

CONSTANTS
  Costs,      \* nanoseconds an iteration may take, by the machine
  Sleeps,     \* what usleep(10000) may take on average, in microseconds
  Interrupts, \* what interrupts may add to unit_elap, in microseconds
  MaxQuanta   \* bound: the longest job, in quanta

Unit       == 10000       \* unit: the iterations measured first
Target     == 10000       \* microseconds in a quantum (SPIN_QUANTUM_WIDTH_MS)
Tolerance  == 5000        \* how far act may be off the target
Resolution == 100         \* clk.nsec
Second     == 1000000
NoInt      == -1          \* INT_MIN, what x86 converts an infinity to
LongRange  == 134217728   \* 2^32 nanoseconds, in units of 32
IntMax     == 2147483647

ASSUME CostsAssumption  == Costs \subseteq Nat \ {0}
ASSUME SleepsAssumption == Sleeps \subseteq Nat /\ Interrupts \subseteq Nat
ASSUME QuantaAssumption == MaxQuanta \in Nat \ {0}

VARIABLES
  pc,           \* "measure", "tune" or "done"
  cost,         \* nanoseconds an iteration takes on this machine
  fudged_unit,  \* fudged_unit
  act,          \* act: the average of the last ten measurements
  FUDGE_FACTOR  \* FUDGE_FACTOR

vars == <<pc, cost, fudged_unit, act, FUDGE_FACTOR>>

(* The time n iterations take; a loop with a negative bound takes none.    *)
Duration(n) == IF n < 0 THEN 0 ELSE (n * cost) \div 1000

(* The sums of ten measurements of d.  They follow each other closely, so  *)
(* that the ticks they see together are those of 10 * d, but for one at    *)
(* either end: k of them have seen one tick more than the others.          *)
Sums(d) ==
  LET low   == (d \div Resolution) * Resolution
      share == (10 * (d % Resolution)) \div Resolution
  IN  {(10 - k) * (low % Second) + k * ((low + Resolution) % Second) :
         k \in (0..10) \cap ((share - 1)..(share + 1))}

(* The average of ten measurements as act holds it: their sum, in a long   *)
(* that wraps around, and a tenth of that.  A tick is 3125 times 32        *)
(* nanoseconds.                                                            *)
Averaged(sum) ==
  LET exact   == 3125 * (sum \div Resolution)
      wrapped == ((exact + LongRange \div 2) % LongRange) - (LongRange \div 2)
  IN  (2 * wrapped) \div 625

-----------------------------------------------------------------------------
Init ==
  /\ pc = "measure"
  /\ cost \in Costs
  /\ fudged_unit = 0 /\ act = 0
  /\ FUDGE_FACTOR = 0         \* a static variable

(* Faulty: the sum of the ten sleeps is not divided by ten.                *)
GuessOfSum(std_elap, unit_elap) ==
  IF unit_elap = 0 THEN NoInt ELSE (Unit * std_elap * 10) \div unit_elap

(* The first guess, by the rule of three.                                  *)
Guess(std_elap, unit_elap) ==
  IF unit_elap = 0 THEN NoInt ELSE (Unit * std_elap) \div unit_elap

(* The average of the sleeps and that of Unit iterations, interrupted or   *)
(* not.                                                                    *)
Measure ==
  /\ pc = "measure"
  /\ \E std_elap \in Sleeps, unit_elap \in Sums(Duration(Unit)), more \in Interrupts :
       fudged_unit' = Guess(std_elap, unit_elap \div 10 + more)
  /\ pc' = "tune"
  /\ UNCHANGED <<cost, act, FUDGE_FACTOR>>

(* Faulty: the factor is an integer constant.                              *)
GrownByInteger(n) == n * (101 \div 100)

(* fudged_unit *= 1.01, truncated.                                         *)
Grown(n) == IF n < 0 THEN NoInt ELSE n + n \div 100

OffTarget ==
  \/ Target - act > Tolerance
  \/ act - Target > Tolerance

(* One iteration of the loop that fine-tunes the guess, undisturbed.       *)
Tune ==
  /\ pc = "tune" /\ OffTarget
  /\ fudged_unit' = Grown(fudged_unit)
  /\ \E sum \in Sums(Duration(fudged_unit')) : act' = Averaged(sum)
  /\ UNCHANGED <<pc, cost, FUDGE_FACTOR>>

Finish ==
  /\ pc = "tune" /\ ~OffTarget
  /\ FUDGE_FACTOR' = fudged_unit
  /\ pc' = "done"
  /\ UNCHANGED <<cost, fudged_unit, act>>

Calibrated == pc = "done" /\ UNCHANGED vars

Next == Measure \/ Tune \/ Finish \/ Calibrated

(* One thread, which nobody preempts for ever.                             *)
Spec == Init /\ [][Next]_vars /\ WF_vars(Next)
-----------------------------------------------------------------------------
(* The clock of the machine is fast enough for a loop of Unit iterations:  *)
(* ten of them take several ticks.                                         *)
Measurable == cost >= 4

(* The types.  On a machine that can be measured a factor that is in use   *)
(* is positive or 0, the loop bound quanta * FUDGE_FACTOR of spin_for does *)
(* not overflow, and no spin takes too long, let alone so long that the    *)
(* sum of ten wraps around.                                                *)
TypeOK ==
  /\ pc \in {"measure", "tune", "done"}
  /\ cost \in Costs
  /\ fudged_unit \in Int /\ FUDGE_FACTOR \in Int /\ act \in Int
  /\ Measurable => /\ FUDGE_FACTOR \in 0..(IntMax \div MaxQuanta)
                   /\ Duration(fudged_unit) <= Target + Tolerance
                   /\ act \in 0..(Target + Tolerance)

(* spin_for(quanta).                                                       *)
SpinFor(quanta) == Duration(quanta * FUDGE_FACTOR)

(* "Consume CPU time for a particular number of quanta" (spin_for): on a   *)
(* calibrated machine a job of so many quanta takes half as long again at  *)
(* most, half as long at least, and a clock tick per quantum.              *)
SpinsForQuanta ==
  pc = "done" =>
    \A quanta \in 1..MaxQuanta :
      SpinFor(quanta) \in (quanta * (Target - Tolerance - Resolution))
                           ..(quanta * (Target + Tolerance + Resolution))

(* It does, where the clock can measure Unit iterations at all; else the   *)
(* first guess may be too long, which no turn of the loop corrects         *)
(* (calibration_wraps).                                                    *)
MeasuredSpinsForQuanta == Measurable => SpinsForQuanta

(* The calibration ends: after a guess that was much too short, and after  *)
(* one that was too long, when act wraps around into its window.  What     *)
(* keeps it from ending is a first measurement of 0 only: the guess is     *)
(* then no number of iterations, and no turn of the loop makes it one.     *)
CalibrationEnds == <>(pc = "done" \/ fudged_unit = NoInt)
=============================================================================
