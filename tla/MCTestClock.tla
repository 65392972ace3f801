---------------------------- MODULE MCTestClock ----------------------------
(***************************************************************************)
(* Instances of TestClock for TLC.                                         *)
(***************************************************************************)
EXTENDS TestClock

AnySecond == 0..(Second - 1)
=============================================================================
