----------------------------- MODULE MCFixtHeap -----------------------------
(***************************************************************************)
(* Instances of FixtHeap for TLC.                                          *)
(***************************************************************************)
EXTENDS FixtHeap

CONSTANTS t1, t2, t3, t4

OneAndThree == << <<t4>>, <<t1, t2, t3>> >>
TwoTasks    == << <<t1, t2>> >>

(* The elements that SortIsStable sorts.                                   *)
ASSUME NumbersAssumption == NULL \notin 1..5
-----------------------------------------------------------------------------
(* DL_SORT2 leaves what DLRelink says, and Before of FixtSched relies on:  *)
(* the elements linked in both directions, in the order of their keys, and *)
(* equal ones in the order they were in.  The order decides who runs, and  *)
(* equal keys are the rule.  Checked once, for every list of up to five    *)
(* elements, so that runs of one, two and four are merged with shorter     *)
(* ones.                                                                   *)
SortIsStable ==
  pc = "register" /\ live.sets = {} =>
    \A n \in 1..5 : \A key \in [1..n -> 1..n] :
      LET l   == AppendAll(ListAt(NULL, NoLinks(1..n)), [i \in 1..n |-> i])
          cmp == [p \in (1..n) \X (1..n) |-> key[p[1]] - key[p[2]]]
      IN  SortedStably(DLSort(l, cmp), l, cmp)
=============================================================================
