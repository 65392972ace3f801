--------------------------- MODULE MCCalibration ---------------------------
(***************************************************************************)
(* Instances of Calibration for TLC.                                       *)
(***************************************************************************)
EXTENDS Calibration

(* Nanoseconds an iteration takes: a fast loop's to a slow machine's.      *)
Machines == (1..20) \cup {30, 50, 77, 300, 1000, 5000}

(* A loop too fast to be measured with 10000 iterations.                   *)
TwoNanoseconds == {2}

Undisturbed == {0}
SomeInterrupts == {0, 20, 200, 1000}

UsualSleeps == {10000, 10100, 10200, 11000}
=============================================================================
