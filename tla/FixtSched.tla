----------------------------- MODULE FixtSched -----------------------------
(***************************************************************************)
(* The scheduler's bookkeeping (fixt/fixt_algo.c and the hooks of          *)
(* fixt/impl/{rma,edf,sct}) inside the test loop of fixt/fixt.c.           *)
(*                                                                         *)
(* A test primes one algorithm with one task set and then alternates       *)
(* fixt_algo_schedule, which picks the queue head and decides              *)
(* al_schedulable, with fixt_algo_run, which lets the head run and then    *)
(* recomputes tk_r and tk_a of every task.  The code keeps only counters   *)
(* relative to the present; now and jobs are history variables the         *)
(* properties compare them with.                                           *)
(*                                                                         *)
(* How the task threads are released and awaited while fixt_algo_run       *)
(* blocks is the subject of FixtThreads, which implements this module.     *)
(***************************************************************************)
EXTENDS Integers, Sequences, Functions

CONSTANTS
  Algos,      \* the registered algorithms, by name (register_algos)
  TaskSets,   \* the task sets that may be registered (register_tasks)
  Horizon     \* bound: the clock ends a test no later than this many quanta

Positive == Nat \ {0}
TaskRec  == [c : Positive, p : Positive, d : Positive]

ASSUME AlgosAssumption    == Algos \subseteq {"rma", "edf", "sct"}
ASSUME TaskSetsAssumption == TaskSets \subseteq Seq(TaskRec) \ {<<>>}
ASSUME HorizonAssumption  == Horizon \in Nat

VARIABLES
  pc,           \* what the fixture thread does next
  algo,         \* the algorithm under test; between tests, the next one
  tasks,        \* al_tasks_head: the tuples of the task list, in list order
  r,            \* tk_r: quanta until ready, negative once it is overdue
  a,            \* tk_a: quanta run in the current period
  head,         \* al_queue_head, or NoTask for NULL
  schedulable,  \* al_schedulable
  now,          \* history: quanta accounted since the test began
  jobs          \* history: jobs of each task the bookkeeping has completed

vars == <<pc, algo, tasks, r, a, head, schedulable, now, jobs>>
-----------------------------------------------------------------------------
Ids    == DOMAIN tasks
NoTask == 0
Period == 1     \* EDF_PERIOD and SCT_PERIOD

CompletionTime(t) == tasks[t].c - a[t]      \* fixt_task_completion_time

(* Faulty: the time left does not shrink while the task waits.             *)
RemainingTimeFixed(t) == tasks[t].d

RemainingTime(t) == tasks[t].d + r[t]       \* fixt_task_remaining_time

Ready == {t \in Ids : r[t] <= 0}
MinR  == CHOOSE m \in {r[t] : t \in Ids} : \A t \in Ids : m <= r[t]

(* Faulty comparators: the operands swapped, the period for the deadline.  *)
RmaKeySwapped(t)  == -tasks[t].p
EdfKeyOfPeriod(t) == tasks[t].p
SctKeySwapped(t)  == a[t] - tasks[t].c

(* What the comparators of the three algorithms compare.                   *)
RmaKey(t) == tasks[t].p              \* rma_comparator
EdfKey(t) == RemainingTime(t)        \* edf_comparator
SctKey(t) == CompletionTime(t)       \* sct_comparator

Key(t) ==
  CASE algo = "rma" -> RmaKey(t)
    [] algo = "edf" -> EdfKey(t)
    [] algo = "sct" -> SctKey(t)

(* Faulty: the sort reverses the order of equal tasks.                     *)
BeforeUnstable(t, u) ==
  \/ Key(t) < Key(u)
  \/ Key(t) = Key(u) /\ t > u

(* DL_SORT2 is a stable merge sort: list order decides between equal keys. *)
Before(t, u) ==
  \/ Key(t) < Key(u)
  \/ Key(t) = Key(u) /\ t < u

(* h is the head of the sorted queue of ready tasks.                       *)
IsHead(h) ==
  IF Ready = {} THEN h = NoTask
  ELSE h \in Ready /\ \A u \in Ready \ {h} : Before(h, u)

(* Faulty check: every queued task is treated like the head.               *)
FitsLikeHead(t, h) == CompletionTime(t) <= RemainingTime(t)

(* The deadline check fixt_algo_schedule makes of a queued task.           *)
Fits(t, h) ==
  IF t = h THEN CompletionTime(t) <= RemainingTime(t)
           ELSE CompletionTime(t) <  RemainingTime(t)
-----------------------------------------------------------------------------
Init ==
  /\ pc = "idle"
  /\ algo \in Algos
  /\ tasks = <<>> /\ r = <<>> /\ a = <<>> /\ jobs = <<>>
  /\ head = NoTask
  /\ schedulable \in BOOLEAN       \* not initialised by fixt_algo_new
  /\ now = 0

(* prime_algo: the task list is copied and every task is (re)started.      *)
Prime ==
  /\ pc = "idle"
  /\ pc' = "schedule"
  /\ tasks' \in TaskSets
  /\ r'    = [t \in DOMAIN tasks' |-> 0]
  /\ a'    = [t \in DOMAIN tasks' |-> 0]
  /\ jobs' = [t \in DOMAIN tasks' |-> 0]
  /\ now'  = 0
  /\ UNCHANGED <<algo, head, schedulable>>

(* Faulty: the loop tests the verdict of the round before.                 *)
ScheduleLateVerdict ==
  /\ pc = "schedule"
  /\ \E h \in Ids \cup {NoTask} :
       /\ IsHead(h)
       /\ head' = h
       /\ schedulable' = (\A t \in Ready : Fits(t, h))
       /\ pc' = IF schedulable THEN "run" ELSE "halt"
  /\ UNCHANGED <<algo, tasks, r, a, now, jobs>>

(* fixt_algo_schedule, and the break of the loop when it says no.          *)
Schedule ==
  /\ pc = "schedule"
  /\ \E h \in Ids \cup {NoTask} :
       /\ IsHead(h)
       /\ head' = h
       /\ \/ /\ \A t \in Ready : Fits(t, h)
             /\ schedulable' = TRUE
             /\ pc' = "run"
          \/ /\ \E t \in Ready : ~Fits(t, h)
             /\ schedulable' = FALSE
             /\ pc' = "halt"
  /\ UNCHANGED <<algo, tasks, r, a, now, jobs>>

(* The quanta the recalc hook takes to have elapsed since the last run.    *)
Delta ==
  IF head = NoTask    THEN MinR
  ELSE IF algo = "rma" THEN tasks[head].c
  ELSE Period

(* Whether the head's current job is complete once Delta is accounted.     *)
Completes ==
  head # NoTask /\ (algo = "rma" \/ CompletionTime(head) - Delta <= 0)

(* Faulty: the next period is counted from the completion, not the release *)
NewRDrifting(t) ==
  IF t = head /\ Completes THEN tasks[t].p - Delta ELSE r[t] - Delta

(* tk_r after the round: the head, if it completed, waits for its next     *)
(* period; for everybody else Delta quanta have passed.                    *)
NewR(t) ==
  IF t = head /\ Completes THEN tasks[t].p - Delta + r[t] ELSE r[t] - Delta

(* tk_a after the round; rma_recalc never touches it.                      *)
NewA(t) ==
  IF t # head \/ algo = "rma" THEN a[t]
  ELSE IF Completes THEN 0 ELSE a[t] + Delta

(* The recalc hooks.                                                       *)
Recalc ==
  /\ r'    = [t \in Ids |-> NewR(t)]
  /\ a'    = [t \in Ids |-> NewA(t)]
  /\ jobs' = [t \in Ids |-> IF t = head /\ Completes THEN jobs[t] + 1 ELSE jobs[t]]

(* fixt_algo_run, and the clock test that closes the loop of run_test_on.  *)
Run ==
  /\ pc = "run"
  /\ Recalc
  /\ now' = now + Delta
  /\ \/ now' < Horizon /\ pc' = "schedule"
     \/ pc' = "halt"
  /\ UNCHANGED <<algo, tasks, head, schedulable>>

(* fixt_algo_halt empties al_tasks_head; al_queue_head keeps its value     *)
(* until the next schedule, which overwrites it before anyone reads it.    *)
(* The next test may be another algorithm's, whose al_schedulable has not  *)
(* been set yet.                                                           *)
Halt ==
  /\ pc = "halt"
  /\ pc' = "idle"
  /\ tasks' = <<>> /\ r' = <<>> /\ a' = <<>> /\ jobs' = <<>>
  /\ now' = 0
  /\ head' = NoTask
  /\ algo' \in Algos
  /\ schedulable' \in BOOLEAN

Next == Prime \/ Schedule \/ Run \/ Halt

Spec == Init /\ [][Next]_vars
-----------------------------------------------------------------------------
TypeOK ==
  /\ pc \in {"idle", "schedule", "run", "halt"}
  /\ algo \in Algos
  /\ IF pc = "idle" THEN tasks = <<>> ELSE tasks \in TaskSets
  /\ r \in [Ids -> Int]
  /\ a \in [Ids -> Nat]
  /\ jobs \in [Ids -> Nat]
  /\ head \in Ids \cup {NoTask}
  /\ schedulable \in BOOLEAN
  /\ now \in Nat

Deadline(t) == jobs[t] * tasks[t].p + tasks[t].d

(* The counter tk_r never drifts: at every point of a test, and however    *)
(* late tasks were served, now + tk_r is exactly the release time of the   *)
(* task's current job, a multiple of its period (the recalc hooks).        *)
NoDrift == \A t \in Ids : now + r[t] = jobs[t] * tasks[t].p

(* A task that was preempted part-way stays ready, so it is queued again   *)
(* and never released a second time by fixt_algo_run, which releases the   *)
(* head only when its tk_a is 0; a task never accumulates its full         *)
(* execution time without being completed, and RMA preempts nobody.        *)
PartlyRunIsReady ==
  \A t \in Ids :
    /\ a[t] > 0 => r[t] <= 0 /\ algo # "rma"
    /\ a[t] < tasks[t].c

(* When fixt_algo_run is called, al_queue_head is the head of the queue of *)
(* the tasks that are ready at that moment, and each of them has passed    *)
(* the deadline check: nothing the run relies on is stale.                 *)
RunIsCleared ==
  pc = "run" =>
    schedulable /\ IsHead(head) /\ \A t \in Ready : Fits(t, head)

(* The inductive invariant behind the theorems of FixtSched_proofs.        *)
IInv == TypeOK /\ NoDrift /\ PartlyRunIsReady /\ RunIsCleared

(* No job is ever completed after its absolute deadline, on any schedule   *)
(* and even in the round before a test fails (fixt_algo_schedule with the  *)
(* recalc hooks).                                                          *)
CompletedOnTime ==
  [][\A t \in Ids :
       pc' # "idle" /\ jobs'[t] > jobs[t] => now' <= Deadline(t)]_vars

(* The verdict al_schedulable is computed before a round and printed after *)
(* it.  When it says PASS no job is past its deadline under EDF and SCT,   *)
(* although the last round ran unchecked; under RMA, whose round lasts a   *)
(* whole job, a job may then be late, but by no more than the longest      *)
(* execution time in the set minus two quanta.                             *)
RoundLengths == IF algo = "rma" THEN {tasks[t].c : t \in Ids} ELSE {Period}
PassMeansOnTime ==
  pc = "halt" /\ schedulable =>
    \A t \in Ids : \E n \in RoundLengths : now < Deadline(t) + n - 1

(* A scheduling round that resumes a job that was already started never    *)
(* interrupts another started job to do so: under EDF and SCT a preempted  *)
(* job resumes only after the jobs that preempted it have completed.       *)
NoPingPong ==
  [][ /\ pc = "schedule" /\ head # NoTask /\ head' # NoTask
      /\ head' # head /\ a[head] > 0
      => a[head'] = 0 ]_vars

(* The jobs of task t that are released and due within the first L quanta, *)
(* and the processor time they and those of all tasks together need.       *)
JobsDue(t, L) ==
  IF L < tasks[t].d THEN 0 ELSE (L - tasks[t].d) \div tasks[t].p + 1
DemandOf(t, L) == JobsDue(t, L) * tasks[t].c
Demand(L)      == SumFunction([t \in Ids |-> DemandOf(t, L)])

LatestDeadline == CHOOSE x \in {Deadline(t) : t \in Ids} : \A t \in Ids : Deadline(t) <= x

(* EDF is optimal, and so is this one: it reports a task set as not        *)
(* schedulable only if the set demands more processor time than there is   *)
(* in some interval, so that no algorithm at all could have scheduled it   *)
(* (edf_comparator with the deadline check of fixt_algo_schedule).         *)
EdfFailsOnlyIfOverloaded ==
  pc = "halt" /\ algo = "edf" /\ ~schedulable =>
    \E L \in 1..LatestDeadline : Demand(L) > L

(* The response-time analysis of fixed priorities without preemption: the  *)
(* tasks that go before t when both are ready, how long a job of another   *)
(* task, once started, keeps t waiting, the time that those before t need  *)
(* within x quanta, and when job k of t starts if none is later than x.    *)
Outranks(u, t) == tasks[u].p < tasks[t].p \/ (tasks[u].p = tasks[t].p /\ u < t)
Blockings(t)   == {0} \cup {tasks[u].c - 1 : u \in {v \in Ids \ {t} : ~Outranks(v, t)}}
Blocking(t)    == CHOOSE b \in Blockings(t) : \A x \in Blockings(t) : x <= b
Needs(u, x)    == (x \div tasks[u].p + 1) * tasks[u].c
Interference(t, x) == SumFunction([u \in Ids |-> IF Outranks(u, t) THEN Needs(u, x) ELSE 0])
StartsBy(t, k, x)  == Blocking(t) + k * tasks[t].c + Interference(t, x)
Responsive(t, k)   ==
  \E x \in 0..(k * tasks[t].p + tasks[t].d - tasks[t].c) : StartsBy(t, k, x) <= x

(* RMA reports a task set as not schedulable only if the analysis does     *)
(* (rma_comparator and rma_recalc, whose rounds nobody interrupts, with    *)
(* the deadline check of fixt_algo_schedule).                              *)
RmaFailsOnlyIfUnresponsive ==
  pc = "halt" /\ algo = "rma" /\ ~schedulable =>
    \E t \in Ids : \E k \in 0..jobs[t] : ~Responsive(t, k)
-----------------------------------------------------------------------------
(* The refinement: the relative counters implement the absolute model.     *)
PhaseOf ==
  IF pc = "idle"      THEN "idle"
  ELSE IF pc # "halt" THEN "testing"
  ELSE IF schedulable THEN "passed" ELSE "failed"

Ideal == INSTANCE PeriodicTasks WITH phase <- PhaseOf, work <- a

(* FixtSched implements PeriodicTasks: every round is a slice of the job   *)
(* the policy must pick, in absolute time, every test that fails has lost  *)
(* a job, and no job is released early, late or twice.                     *)
ImplementsIdeal == Ideal!Spec
=============================================================================
