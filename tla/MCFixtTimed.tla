---------------------------- MODULE MCFixtTimed ----------------------------
(***************************************************************************)
(* Instances of FixtTimed for TLC.                                         *)
(***************************************************************************)
EXTENDS FixtTimed

Tuple(x, y, z) == [c |-> x, p |-> y, d |-> z]

(* Jobs of one, two and four quanta that preempt each other; a set that    *)
(* leaves the processor idle; one that no algorithm can schedule; four     *)
(* tasks that are ready at once, two of which share the last priority.     *)
Nested   == <<Tuple(4, 14, 14), Tuple(2, 5, 5), Tuple(1, 4, 4)>>
Sparse   == <<Tuple(2, 9, 9), Tuple(1, 6, 6)>>
Overload == <<Tuple(1, 2, 1), Tuple(1, 2, 1)>>
Four     == <<Tuple(2, 9, 9), Tuple(1, 8, 8), Tuple(2, 10, 10), Tuple(1, 4, 4)>>

ThreeAlgos == <<"rma", "edf", "sct">>
TimedLists == {<<Nested>>, <<Four, Overload>>, <<Sparse>>}

(* Out of the 5 to 15 milliseconds that spin_calibrate accepts: so short   *)
(* that a job is over a round early, on pace, and as long as a timed wait. *)
Calibrations == {5, 8, 10, 11, 12}
=============================================================================
