--------------------------- MODULE MCFixtThreads ---------------------------
(***************************************************************************)
(* Instances of FixtThreads for TLC.                                       *)
(***************************************************************************)
EXTENDS FixtThreads

Tuple(x, y, z) == [c |-> x, p |-> y, d |-> z]

(* A set all algorithms can schedule, one with a job of two quanta that is *)
(* preempted, and one no algorithm can schedule.                           *)
Light    == <<Tuple(1, 2, 2), Tuple(1, 3, 3)>>
Preempts == <<Tuple(1, 2, 2), Tuple(2, 5, 5)>>
Overload == <<Tuple(1, 2, 1), Tuple(1, 2, 1)>>
Three    == <<Tuple(1, 3, 3), Tuple(2, 6, 6), Tuple(1, 5, 5)>>

ThreeAlgos == <<"rma", "edf", "sct">>
OnlyRma    == <<"rma">>

SmallLists == {<<Preempts, Overload>>, <<Overload, Light>>, <<Three>>}
OneSet     == {<<Light>>}
=============================================================================
