---------------------------- MODULE MCFixtSched ----------------------------
(***************************************************************************)
(* Instances of FixtSched for TLC, and the verdicts on registered sets.    *)
(***************************************************************************)
EXTENDS FixtSched

Tuple(x, y, z) == [c |-> x, p |-> y, d |-> z]

(* The task sets of register_tasks.                                        *)
Set1 == <<Tuple(1, 7, 7), Tuple(2, 5, 5), Tuple(1, 8, 8), Tuple(1, 10, 10),
          Tuple(2, 16, 16)>>
Set2 == <<Tuple(1, 3, 3), Tuple(2, 5, 5), Tuple(1, 10, 10)>>
Set3 == <<Tuple(1, 4, 4), Tuple(2, 5, 5), Tuple(1, 8, 8), Tuple(1, 10, 10)>>
Set4 == <<Tuple(1, 4, 4), Tuple(1, 3, 3), Tuple(1, 2, 2)>>
RegisteredSets == {Set1, Set2, Set3, Set4}

TuplesUpTo(n) == [c : 1..n, p : 1..n, d : 1..(n + 1)]

(* Due at the end of the period, or before.                                *)
ImplicitUpTo(n)    == {t \in TuplesUpTo(n) : t.c <= t.p /\ t.d = t.p}
ConstrainedUpTo(n) == {t \in TuplesUpTo(n) : t.c <= t.d /\ t.d <= t.p}

(* All sets of one or two tasks, and of three that are not hopeless alone. *)
SmallSets == [1..1 -> TuplesUpTo(3)] \cup [1..2 -> TuplesUpTo(3)]
  \cup [1..3 -> ConstrainedUpTo(4)] \cup [1..3 -> ImplicitUpTo(5)]
SmallAndRegisteredSets == SmallSets \cup RegisteredSets
-----------------------------------------------------------------------------
(* What the comments of register_tasks say of the four task sets: the      *)
(* first three pass under RMA, and the fourth cannot last a whole test.    *)
RegisteredVerdicts ==
  pc = "halt" /\ algo = "rma" =>
    /\ tasks \in {Set1, Set2, Set3} => schedulable
    /\ tasks = Set4 /\ schedulable  => now < 4
=============================================================================
