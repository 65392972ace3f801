--------------------------- MODULE PeriodicTasks ---------------------------
(***************************************************************************)
(* What a scheduling test promises, in absolute time.                      *)
(*                                                                         *)
(* A periodic task with tuple (c, p, d) releases a job every p quanta,     *)
(* starting at time 0.  Each job needs c quanta of the processor and is    *)
(* due d quanta after its release.  A test runs one task set under one     *)
(* policy until the clock ends it (it passed) or until a job cannot meet   *)
(* its deadline any more (it failed).                                      *)
(*                                                                         *)
(* FixtSched keeps no clock and no job numbers: it keeps, for every task,  *)
(* the counters tk_r and tk_a relative to the present.  That those         *)
(* counters implement the specification below is checked by TLC and        *)
(* proved in FixtSched_proofs.                                             *)
(***************************************************************************)
EXTENDS Integers, Sequences

CONSTANTS
  Algos,      \* the policies under test, a subset of {"rma", "edf", "sct"}
  TaskSets    \* the task sets under test: sequences of [c, p, d] records

VARIABLES
  phase,      \* "idle", "testing", "passed" or "failed"
  algo,       \* the policy of the current test; between tests, of the next
  tasks,      \* the task set of the current test, <<>> between tests
  now,        \* quanta since the test began
  jobs,       \* jobs[t]: how many jobs of task t have completed
  work        \* work[t]: quanta already given to the current job of t

vars == <<phase, algo, tasks, now, jobs, work>>
-----------------------------------------------------------------------------
Task == DOMAIN tasks

Release(t)   == jobs[t] * tasks[t].p         \* release of the current job
Deadline(t)  == Release(t) + tasks[t].d      \* its absolute deadline
Remaining(t) == tasks[t].c - work[t]         \* processor time it still needs
Pending      == {t \in Task : Release(t) <= now}

Preemptive == algo \in {"edf", "sct"}

(* The urgency of the current job of t: the smaller, the sooner it runs.   *)
Urgency(t) ==
  CASE algo = "rma" -> tasks[t].p
    [] algo = "edf" -> Deadline(t)
    [] algo = "sct" -> Remaining(t)

(* t is the job the policy picks; the order of the task set breaks ties.   *)
Picked(t) ==
  /\ t \in Pending
  /\ \A u \in Pending \ {t} :
       \/ Urgency(t) < Urgency(u)
       \/ Urgency(t) = Urgency(u) /\ t < u

(* Preemptive policies decide anew every quantum; a job of a               *)
(* non-preemptive policy keeps the processor until it has finished.        *)
Slice(t) == IF Preemptive THEN 1 ELSE Remaining(t)

(* The current job of t misses its deadline even if it runs from time s on *)
Doomed(t, s) == s + Remaining(t) > Deadline(t)
-----------------------------------------------------------------------------
Init ==
  /\ phase = "idle"
  /\ algo \in Algos
  /\ tasks = <<>> /\ jobs = <<>> /\ work = <<>>
  /\ now = 0

Begin ==
  /\ phase = "idle"
  /\ phase' = "testing"
  /\ tasks' \in TaskSets
  /\ now' = 0
  /\ jobs' = [t \in DOMAIN tasks' |-> 0]
  /\ work' = [t \in DOMAIN tasks' |-> 0]
  /\ UNCHANGED algo

(* The picked job runs for its slice.  It can still be on time, and so can *)
(* every other pending job if it waits for one quantum.                    *)
Execute(t) ==
  /\ phase = "testing"
  /\ Picked(t)
  /\ ~Doomed(t, now)
  /\ \A u \in Pending \ {t} : ~Doomed(u, now + 1)
  /\ now' = now + Slice(t)
  /\ IF Slice(t) = Remaining(t)
       THEN /\ jobs' = [jobs EXCEPT ![t] = @ + 1]
            /\ work' = [work EXCEPT ![t] = 0]
       ELSE /\ work' = [work EXCEPT ![t] = @ + Slice(t)]
            /\ UNCHANGED jobs
  /\ phase' \in {"testing", "passed"}
  /\ UNCHANGED <<algo, tasks>>

(* With no job pending, time passes up to the next release.                *)
Idle ==
  /\ phase = "testing"
  /\ Pending = {}
  /\ \E t \in Task :
       /\ now' = Release(t)
       /\ \A u \in Task : Release(t) <= Release(u)
  /\ phase' \in {"testing", "passed"}
  /\ UNCHANGED <<algo, tasks, jobs, work>>

(* A test fails only when a job is lost: the picked one, or one that has   *)
(* to wait one quantum for the picked one.                                 *)
Fail ==
  /\ phase = "testing"
  /\ \E t \in Pending :
       /\ Picked(t)
       /\ \/ Doomed(t, now)
          \/ \E u \in Pending \ {t} : Doomed(u, now + 1)
  /\ phase' = "failed"
  /\ UNCHANGED <<algo, tasks, now, jobs, work>>

End ==
  /\ phase \in {"passed", "failed"}
  /\ phase' = "idle"
  /\ tasks' = <<>> /\ jobs' = <<>> /\ work' = <<>>
  /\ now' = 0
  /\ algo' \in Algos

Next ==
  \/ Begin
  \/ \E t \in Task : Execute(t)
  \/ Idle
  \/ Fail
  \/ End

Spec == Init /\ [][Next]_vars
=============================================================================
