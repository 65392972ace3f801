--------------------------- MODULE MCKernelTrace ---------------------------
(***************************************************************************)
(* Instances of KernelTrace for TLC.                                       *)
(***************************************************************************)
EXTENDS KernelTrace

Tuple(x, y, z) == [c |-> x, p |-> y, d |-> z]

Preempts == <<Tuple(1, 2, 2), Tuple(2, 5, 5)>>
NotByRma == <<Tuple(1, 2, 3), Tuple(2, 5, 2)>>

RmaThenEdf == <<"rma", "edf">>
TracedLists == {<<NotByRma>>, <<Preempts>>}
=============================================================================
