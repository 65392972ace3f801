-------------------------- MODULE FixtSched_proofs --------------------------
(***************************************************************************)
(* Theorems about the scheduler's bookkeeping, for every set of tasks,     *)
(* every choice of algorithms and every test length.                       *)
(*                                                                         *)
(* IInv is inductive.  NoDrift and PartlyRunIsReady need each other and    *)
(* RunIsCleared: the recalc hook treats al_queue_head as a ready task, and *)
(* that it is one was established by the schedule before.                  *)
(***************************************************************************)
EXTENDS MCFixtSched, NatLemmas, TLAPS

(* The tuples of a task list are positive integers (struct fixt_task).     *)
LEMMA TupleType ==
  ASSUME NEW ts \in TaskSets
  PROVE  /\ \E n \in Nat \ {0} : DOMAIN ts = 1..n
         /\ \A t \in DOMAIN ts :
              /\ ts[t].c \in Nat /\ ts[t].c > 0
              /\ ts[t].p \in Nat /\ ts[t].p > 0
              /\ ts[t].d \in Nat /\ ts[t].d > 0
<1>1. ts \in Seq(TaskRec) /\ ts # <<>>
  BY TaskSetsAssumption
<1>2. Len(ts) \in Nat \ {0} /\ DOMAIN ts = 1..Len(ts)
  BY <1>1
<1>3. \A t \in DOMAIN ts : ts[t] \in TaskRec
  BY <1>1
<1>4. \E n \in Nat \ {0} : DOMAIN ts = 1..n
  BY <1>2
<1>5. \A t \in DOMAIN ts : /\ ts[t].c \in Positive
                           /\ ts[t].p \in Positive
                           /\ ts[t].d \in Positive
  BY <1>3 DEF TaskRec
<1> QED
  BY <1>4, <1>5 DEF Positive

(* NULL is not a task.                                                     *)
LEMMA TaskIds ==
  ASSUME TypeOK, pc # "idle"
  PROVE  /\ Ids # {} /\ NoTask \notin Ids
         /\ \A t \in Ids :
              /\ tasks[t].c \in Nat /\ tasks[t].c > 0
              /\ tasks[t].p \in Nat /\ tasks[t].p > 0
              /\ tasks[t].d \in Nat /\ tasks[t].d > 0
              /\ r[t] \in Int /\ a[t] \in Nat /\ jobs[t] \in Nat
<1>1. tasks \in TaskSets
  BY DEF TypeOK
<1>2. PICK n \in Nat \ {0} : Ids = 1..n
  BY <1>1, TupleType DEF Ids
<1>3. 1 \in Ids /\ 0 \notin Ids
  BY <1>2
<1>4. \A t \in Ids : r[t] \in Int /\ a[t] \in Nat /\ jobs[t] \in Nat
  BY DEF TypeOK
<1> QED
  BY <1>1, <1>3, <1>4, TupleType DEF Ids, NoTask

(* fixt_algo_min_r, called when nothing is ready, is the time to the next  *)
(* release, and positive.                                                  *)
LEMMA MinRType ==
  ASSUME TypeOK, pc # "idle", Ready = {}
  PROVE  /\ MinR \in Nat /\ MinR > 0
         /\ \E t \in Ids : MinR = r[t]
         /\ \A t \in Ids : MinR <= r[t]
<1> DEFINE S == {r[t] : t \in Ids}
<1>1. \A t \in Ids : r[t] \in Nat /\ r[t] > 0
  BY TaskIds DEF Ready
<1>2. S \in SUBSET Nat /\ S # {}
  BY <1>1, TaskIds
<1>3. \E m \in S : \A x \in S : m <= x
  BY <1>2, NatMin
<1>4. \E m \in S : \A t \in Ids : m <= r[t]
  BY <1>3
<1>5. MinR \in S /\ \A t \in Ids : MinR <= r[t]
  BY <1>4 DEF MinR
<1> QED
  BY <1>1, <1>5

(* Everything the recalc hook computes with when fixt_algo_run calls it.   *)
LEMMA DeltaType ==
  ASSUME IInv, pc = "run"
  PROVE  /\ Delta \in Nat /\ Delta > 0
         /\ head # NoTask => head \in Ids /\ r[head] <= 0
         /\ head = NoTask => Ready = {}
<1>1. TypeOK /\ IsHead(head)
  BY DEF IInv, RunIsCleared
<1>2. CASE head = NoTask
  <2>1. Ready = {}
    BY <1>1, <1>2, TaskIds DEF IsHead, Ready
  <2> QED
    BY <1>1, <1>2, <2>1, MinRType DEF Delta
<1>3. CASE head # NoTask
  <2>1. head \in Ids /\ r[head] <= 0
    BY <1>1, <1>3 DEF IsHead, Ready
  <2>2. algo \in {"rma", "edf", "sct"}
    BY <1>1, AlgosAssumption DEF TypeOK
  <2>3. tasks[head].c \in Nat /\ tasks[head].c > 0
    BY <1>1, <2>1, TaskIds
  <2>4. Delta = IF algo = "rma" THEN tasks[head].c ELSE 1
    BY <1>3, <2>2 DEF Delta, Period
  <2> QED
    BY <1>3, <2>1, <2>3, <2>4
<1> QED
  BY <1>2, <1>3
-----------------------------------------------------------------------------
(* Every test starts with the invariant.                                   *)
LEMMA InitIInv == Init => IInv
  BY DEF Init, IInv, TypeOK, NoDrift, PartlyRunIsReady, RunIsCleared, Ids, NoTask

(* prime_algo: all counters are zero.                                      *)
LEMMA PrimeIInv == IInv /\ Prime => IInv'
<1> SUFFICES ASSUME IInv, Prime PROVE IInv'
  OBVIOUS
<1> USE DEF Prime
<1>1. tasks' \in TaskSets /\ Ids' = DOMAIN tasks'
  BY DEF Ids
<1>2. \A t \in Ids' : /\ tasks'[t].c \in Nat /\ tasks'[t].c > 0
                      /\ tasks'[t].p \in Nat
  BY <1>1, TupleType
<1>3. head' = NoTask
  BY DEF IInv, TypeOK, Ids, NoTask
<1>4. TypeOK'
  BY <1>1, <1>3 DEF IInv, TypeOK
<1>5. NoDrift'
  BY <1>1, <1>2 DEF NoDrift
<1>6. PartlyRunIsReady'
  BY <1>1, <1>2 DEF PartlyRunIsReady
<1>7. RunIsCleared'
  BY DEF RunIsCleared
<1> QED
  BY <1>4, <1>5, <1>6, <1>7 DEF IInv

(* fixt_algo_schedule: it changes no counter.                              *)
LEMMA ScheduleIInv == IInv /\ Schedule => IInv'
<1> SUFFICES ASSUME IInv, Schedule PROVE IInv'
  OBVIOUS
<1> USE DEF Schedule
<1>1. UNCHANGED <<algo, tasks, r, a, now, jobs>>
  OBVIOUS
<1>2. Ids' = Ids /\ Ready' = Ready
  BY <1>1 DEF Ids, Ready
<1>3. \A t : Key(t)' = Key(t) /\ CompletionTime(t)' = CompletionTime(t) /\ RemainingTime(t)' = RemainingTime(t)
  BY <1>1 DEF Key, RmaKey, EdfKey, SctKey, CompletionTime, RemainingTime
<1>4. \A t, h : Fits(t, h)' <=> Fits(t, h)
  BY <1>3 DEF Fits
<1>5. \A h : IsHead(h)' <=> IsHead(h)
  BY <1>2, <1>3 DEF IsHead, Before
<1>6. head' \in Ids \cup {NoTask} /\ schedulable' \in BOOLEAN
  BY DEF NoTask
<1>7. TypeOK'
  BY <1>1, <1>2, <1>6 DEF IInv, TypeOK
<1>8. NoDrift'
  BY <1>1, <1>2 DEF IInv, NoDrift
<1>9. PartlyRunIsReady'
  BY <1>1, <1>2 DEF IInv, PartlyRunIsReady
<1>10. RunIsCleared'
  BY <1>2, <1>4, <1>5 DEF RunIsCleared
<1> QED
  BY <1>7, <1>8, <1>9, <1>10 DEF IInv

(* What the recalc hook does to each task.                                 *)
LEMMA RecalcStep ==
  ASSUME IInv, Run, NEW t \in Ids
  PROVE  /\ t # head =>
              /\ r'[t] = r[t] - Delta
              /\ a'[t] = a[t]
              /\ jobs'[t] = jobs[t]
         /\ t = head /\ Completes =>
              /\ r'[t] = tasks[t].p - Delta + r[t]
              /\ a'[t] = 0
              /\ jobs'[t] = jobs[t] + 1
         /\ t = head /\ ~Completes =>
              /\ algo # "rma"
              /\ r'[t] = r[t] - Delta
              /\ a'[t] = a[t] + Delta
              /\ a'[t] < tasks[t].c
              /\ jobs'[t] = jobs[t]
<1>1. pc = "run" /\ TypeOK /\ PartlyRunIsReady
  BY DEF Run, IInv
<1>2. /\ r'[t] = NewR(t)
      /\ a'[t] = NewA(t)
      /\ jobs'[t] = IF t = head /\ Completes THEN jobs[t] + 1 ELSE jobs[t]
  BY DEF Run, Recalc
<1>3. CASE t # head
  BY <1>2, <1>3 DEF NewR, NewA
<1>4. CASE t = head /\ Completes
  <2>1. algo = "rma" => a[t] = 0
    BY <1>1, TaskIds DEF PartlyRunIsReady
  <2> QED
    BY <1>2, <1>4, <2>1 DEF NewR, NewA
<1>5. CASE t = head /\ ~Completes
  <2>1. algo # "rma" /\ ~(CompletionTime(t) - Delta <= 0)
    BY <1>1, <1>5, TaskIds DEF Completes
  <2>2. a[t] + Delta < tasks[t].c
    BY <1>1, <2>1, TaskIds, DeltaType DEF CompletionTime
  <2> QED
    BY <1>2, <1>5, <2>1, <2>2 DEF NewR, NewA
<1> QED
  BY <1>3, <1>4, <1>5

(* fixt_algo_run with its recalc hook.                                     *)
LEMMA RunIInv == IInv /\ Run => IInv'
<1> SUFFICES ASSUME IInv, Run PROVE IInv'
  OBVIOUS
<1>1. pc = "run" /\ TypeOK /\ NoDrift /\ PartlyRunIsReady
  BY DEF Run, IInv
<1>2. UNCHANGED <<algo, tasks, head, schedulable>> /\ now' = now + Delta
  BY DEF Run
<1>3. pc' \in {"schedule", "halt"} /\ Ids' = Ids
  BY <1>2 DEF Run, Ids
<1>4. /\ Delta \in Nat /\ Delta > 0
      /\ head # NoTask => head \in Ids /\ r[head] <= 0
  BY <1>1, DeltaType
<1>5. /\ DOMAIN r' = Ids /\ r' = [t \in Ids |-> r'[t]]
      /\ DOMAIN a' = Ids /\ a' = [t \in Ids |-> a'[t]]
      /\ DOMAIN jobs' = Ids /\ jobs' = [t \in Ids |-> jobs'[t]]
  BY DEF Run, Recalc
<1>6. TypeOK'
  <2>1. \A t \in Ids : r'[t] \in Int /\ a'[t] \in Nat /\ jobs'[t] \in Nat
    BY <1>1, <1>4, TaskIds, RecalcStep
  <2>2. now' \in Nat
    BY <1>1, <1>2, <1>4 DEF TypeOK
  <2> QED
    BY <1>1, <1>2, <1>3, <1>5, <2>1, <2>2 DEF TypeOK
<1>7. NoDrift'
  <2> SUFFICES ASSUME NEW t \in Ids
               PROVE  now' + r'[t] = jobs'[t] * tasks[t].p
    BY <1>2, <1>3 DEF NoDrift
  <2>1. now + r[t] = jobs[t] * tasks[t].p /\ now \in Nat
    BY <1>1 DEF NoDrift, TypeOK
  <2>2. tasks[t].p \in Nat /\ r[t] \in Int /\ jobs[t] \in Nat
    BY <1>1, TaskIds
  <2>3. (jobs[t] + 1) * tasks[t].p = jobs[t] * tasks[t].p + tasks[t].p
    BY <2>2
  <2>4. CASE t = head /\ Completes
    BY <1>2, <1>4, <2>1, <2>2, <2>3, <2>4, RecalcStep
  <2>5. CASE ~(t = head /\ Completes)
    BY <1>2, <1>4, <2>1, <2>2, <2>5, RecalcStep
  <2> QED
    BY <2>4, <2>5
<1>8. PartlyRunIsReady'
  <2> SUFFICES ASSUME NEW t \in Ids
               PROVE  /\ a'[t] > 0 => r'[t] <= 0 /\ algo # "rma"
                      /\ a'[t] < tasks[t].c
    BY <1>2, <1>3 DEF PartlyRunIsReady
  <2>1. /\ a[t] > 0 => r[t] <= 0 /\ algo # "rma"
        /\ a[t] < tasks[t].c
    BY <1>1 DEF PartlyRunIsReady
  <2>2. r[t] \in Int /\ a[t] \in Nat /\ tasks[t].c > 0
    BY <1>1, TaskIds
  <2>3. CASE t # head
    BY <1>4, <2>1, <2>2, <2>3, RecalcStep
  <2>4. CASE t = head /\ Completes
    BY <2>2, <2>4, RecalcStep
  <2>5. CASE t = head /\ ~Completes
    <3>1. r[t] <= 0
      BY <1>1, <1>4, <2>5, TaskIds
    <3> QED
      BY <1>4, <2>2, <2>5, <3>1, RecalcStep
  <2> QED
    BY <2>3, <2>4, <2>5
<1>9. RunIsCleared'
  BY <1>3 DEF RunIsCleared
<1> QED
  BY <1>6, <1>7, <1>8, <1>9 DEF IInv

(* fixt_algo_halt empties the task list.                                   *)
LEMMA HaltIInv == IInv /\ Halt => IInv'
  BY DEF Halt, IInv, TypeOK, NoDrift, PartlyRunIsReady, RunIsCleared, Ids, NoTask

LEMMA StutterIInv == IInv /\ UNCHANGED vars => IInv'
<1> SUFFICES ASSUME IInv, UNCHANGED vars PROVE IInv'
  OBVIOUS
<1> USE DEF vars
<1>1. TypeOK' /\ NoDrift' /\ PartlyRunIsReady'
  BY DEF IInv, TypeOK, NoDrift, PartlyRunIsReady, Ids, NoTask
<1>2. \A t : Key(t)' = Key(t) /\ CompletionTime(t)' = CompletionTime(t) /\ RemainingTime(t)' = RemainingTime(t)
  BY DEF Key, RmaKey, EdfKey, SctKey, CompletionTime, RemainingTime
<1>3. Ready' = Ready /\ Ids' = Ids
  BY DEF Ready, Ids
<1>4. RunIsCleared'
  BY <1>2, <1>3 DEF IInv, RunIsCleared, IsHead, Before, Fits
<1> QED
  BY <1>1, <1>4 DEF IInv

(* The invariant of the bookkeeping: it holds in every reachable state.    *)
THEOREM Invariance == Spec => []IInv
<1>1. IInv /\ [Next]_vars => IInv'
  BY PrimeIInv, ScheduleIInv, RunIInv, HaltIInv, StutterIInv DEF Next
<1> QED
  BY InitIInv, <1>1, PTL DEF Spec

(* No task struct ever holds a counter of the wrong range, and             *)
(* al_queue_head is NULL or a task of the list (fixt_algo.c).              *)
THEOREM TypeCorrect == Spec => []TypeOK
<1>1. IInv => TypeOK
  BY DEF IInv
<1> QED
  BY Invariance, <1>1, PTL

(* tk_r is exact: it neither drifts nor loses lateness (recalc hooks).     *)
THEOREM NeverDrifts == Spec => []NoDrift
<1>1. IInv => NoDrift
  BY DEF IInv
<1> QED
  BY Invariance, <1>1, PTL

(* A job that is preempted part-way is queued again in the next round, and *)
(* is completed once its time is used up: fixt_algo_run, which does not    *)
(* post tk_sem_cont when tk_a > 0, never waits for a job it did not start. *)
THEOREM PreemptedStaysReady == Spec => []PartlyRunIsReady
<1>1. IInv => PartlyRunIsReady
  BY DEF IInv
<1> QED
  BY Invariance, <1>1, PTL
-----------------------------------------------------------------------------
(* What the deadline check guarantees of the round it clears.              *)
LEMMA ClearedRound ==
  ASSUME IInv, pc = "run", NEW t \in Ids
  PROVE  /\ t = head => now + (tasks[t].c - a[t]) <= Deadline(t)
         /\ t # head /\ r[t] <= 0 => now + (tasks[t].c - a[t]) < Deadline(t)
<1>1. /\ tasks[t].c \in Nat /\ tasks[t].d \in Nat
      /\ r[t] \in Int /\ a[t] \in Nat /\ now \in Nat
  BY TaskIds DEF IInv, TypeOK
<1>2. Deadline(t) = now + r[t] + tasks[t].d
  BY DEF IInv, NoDrift, Deadline
<1>3. t \in Ready => Fits(t, head)
  BY DEF IInv, RunIsCleared
<1>4. t = head => t \in Ready
  BY DeltaType, TaskIds DEF IInv, Ready
<1> QED
  BY <1>1, <1>2, <1>3, <1>4 DEF Fits, CompletionTime, RemainingTime, Ready

(* A job that fixt_algo_run completes is completed by its deadline.        *)
LEMMA RunOnTime ==
  ASSUME IInv, Run, NEW t \in Ids, jobs'[t] > jobs[t]
  PROVE  now' <= Deadline(t)
<1>1. pc = "run" /\ now' = now + Delta
  BY DEF Run
<1>2. /\ jobs[t] \in Nat /\ now \in Nat /\ Delta \in Nat
      /\ tasks[t].c \in Nat /\ a[t] \in Nat /\ a[t] < tasks[t].c
      /\ algo = "rma" => a[t] = 0
      /\ tasks[t].p \in Nat /\ tasks[t].d \in Nat
  BY <1>1, TaskIds, DeltaType DEF IInv, PartlyRunIsReady, TypeOK
<1>3. t = head
  BY <1>2, RecalcStep
<1>4. Delta <= tasks[t].c - a[t]
  BY <1>1, <1>2, <1>3, TaskIds DEF IInv, Delta, Period
<1>5. now + (tasks[t].c - a[t]) <= Deadline(t) /\ Deadline(t) \in Nat
  BY <1>1, <1>2, <1>3, ClearedRound DEF Deadline
<1> QED
  BY <1>1, <1>2, <1>4, <1>5

(* Jobs are completed by their deadlines or not at all (fixt_algo_schedule *)
(* with the recalc hooks).                                                 *)
THEOREM NeverLate == Spec => CompletedOnTime
<1> DEFINE OnTime == \A t \in Ids : pc' # "idle" /\ jobs'[t] > jobs[t] => now' <= Deadline(t)
<1>2. ASSUME IInv, Next PROVE OnTime
  <2> SUFFICES ASSUME NEW t \in Ids, pc' # "idle", jobs'[t] > jobs[t]
               PROVE  now' <= Deadline(t)
    OBVIOUS
  <2>1. CASE Prime
    BY <1>2, <2>1 DEF Prime, IInv, TypeOK, Ids
  <2>2. CASE Schedule
    <3>1. pc # "idle" /\ jobs' = jobs
      BY <2>2 DEF Schedule
    <3> QED
      BY <1>2, <3>1, TaskIds DEF IInv
  <2>3. CASE Run
    BY <1>2, <2>3, RunOnTime
  <2>4. CASE Halt
    BY <2>4 DEF Halt
  <2> QED
    BY <1>2, <2>1, <2>2, <2>3, <2>4 DEF Next
<1>3. IInv /\ [Next]_vars => [OnTime]_vars
  BY <1>2
<1> QED
  BY Invariance, <1>3, PTL DEF Spec, CompletedOnTime

(* A verdict of PASS leaves no job late, but for the last round of RMA,    *)
(* which nobody checks (run_test_on and fixt_test).                        *)
THEOREM PassIsSound == Spec => []PassMeansOnTime
<1>1. ASSUME IInv, Run PROVE PassMeansOnTime'
  <2>1. /\ pc = "run" /\ now' = now + Delta /\ Ids' = Ids
        /\ UNCHANGED <<algo, tasks>>
    BY <1>1 DEF Run, Ids
  <2>2. /\ Delta \in Nat /\ Delta > 0 /\ now \in Nat
        /\ head # NoTask => head \in Ids
    BY <1>1, <2>1, DeltaType DEF IInv, TypeOK
  <2>3. PICK n \in RoundLengths : n \in Nat /\ n > 0 /\ (head # NoTask => n = Delta)
    <3>1. CASE head # NoTask
      <4>1. Delta \in RoundLengths
        BY <2>2, <3>1 DEF Delta, RoundLengths
      <4> QED
        BY <2>2, <3>1, <4>1
    <3>2. CASE head = NoTask
      <4>1. PICK u \in Ids : tasks[u].c \in Nat /\ tasks[u].c > 0
        BY <1>1, <2>1, TaskIds DEF IInv
      <4>2. (IF algo = "rma" THEN tasks[u].c ELSE 1) \in RoundLengths
        BY DEF RoundLengths, Period
      <4> QED
        BY <3>2, <4>1, <4>2
    <3> QED
      BY <3>1, <3>2
  <2>4. RoundLengths' = RoundLengths
    BY <2>1 DEF RoundLengths
  <2> SUFFICES ASSUME NEW t \in Ids PROVE now' < Deadline(t)' + n - 1
    BY <2>1, <2>3, <2>4 DEF PassMeansOnTime
  <2>5. /\ tasks[t].c \in Nat /\ tasks[t].p \in Nat /\ tasks[t].d \in Nat
        /\ tasks[t].p > 0 /\ tasks[t].d > 0 /\ r[t] \in Int /\ a[t] \in Nat /\ jobs[t] \in Nat
        /\ a[t] < tasks[t].c
    BY <1>1, <2>1, TaskIds DEF IInv, PartlyRunIsReady
  <2>6. Deadline(t) = now + r[t] + tasks[t].d /\ Deadline(t) \in Nat
    BY <1>1, <2>5 DEF IInv, NoDrift, Deadline
  <2>7. CASE t = head /\ Completes
    <3>1. Deadline(t)' = (jobs[t] + 1) * tasks[t].p + tasks[t].d
      BY <1>1, <2>1, <2>7, RecalcStep DEF Deadline
    <3>2. Deadline(t)' = Deadline(t) + tasks[t].p
      BY <2>5, <3>1 DEF Deadline
    <3>3. jobs'[t] > jobs[t]
      BY <1>1, <2>5, <2>7, RecalcStep
    <3>4. now' <= Deadline(t)
      BY <1>1, <3>3, RunOnTime
    <3> QED
      BY <2>1, <2>2, <2>3, <2>5, <2>6, <3>2, <3>4
  <2>8. CASE ~(t = head /\ Completes)
    <3>1. Deadline(t)' = Deadline(t)
      BY <1>1, <2>1, <2>8, RecalcStep DEF Deadline
    <3>2. CASE t = head
      <4>1. a[t] + Delta < tasks[t].c
        BY <1>1, <2>8, <3>2, RecalcStep
      <4>2. now + (tasks[t].c - a[t]) <= Deadline(t)
        BY <1>1, <2>1, <3>2, ClearedRound
      <4> QED
        BY <2>1, <2>2, <2>3, <2>5, <2>6, <3>1, <4>1, <4>2
    <3>3. CASE t # head /\ r[t] <= 0
      <4>1. now + (tasks[t].c - a[t]) < Deadline(t)
        BY <1>1, <2>1, <3>3, ClearedRound
      <4>2. head # NoTask
        BY <1>1, <2>1, <3>3, DeltaType DEF Ready
      <4> QED
        BY <2>1, <2>2, <2>3, <2>5, <2>6, <3>1, <4>1, <4>2
    <3>4. CASE t # head /\ r[t] > 0
      <4>1. head = NoTask => Delta <= r[t]
        BY <1>1, <2>1, DeltaType, MinRType DEF IInv, Delta
      <4> QED
        BY <2>1, <2>2, <2>3, <2>5, <2>6, <3>1, <3>4, <4>1
    <3> QED
      BY <2>5, <3>2, <3>3, <3>4
  <2> QED
    BY <2>7, <2>8
<1>2. IInv /\ PassMeansOnTime /\ [Next]_vars => PassMeansOnTime'
  <2> SUFFICES ASSUME IInv, PassMeansOnTime, [Next]_vars PROVE PassMeansOnTime'
    OBVIOUS
  <2>1. CASE Prime
    BY <2>1 DEF Prime, PassMeansOnTime
  <2>2. CASE Schedule
    BY <2>2 DEF Schedule, PassMeansOnTime
  <2>3. CASE Halt
    BY <2>3 DEF Halt, PassMeansOnTime
  <2>4. CASE UNCHANGED vars
    BY <2>4 DEF vars, PassMeansOnTime, RoundLengths, Ids, Deadline
  <2> QED
    BY <1>1, <2>1, <2>2, <2>3, <2>4 DEF Next
<1>3. Init => PassMeansOnTime
  BY DEF Init, PassMeansOnTime
<1> QED
  BY Invariance, <1>2, <1>3, PTL DEF Spec
-----------------------------------------------------------------------------
(* The absolute quantities of PeriodicTasks, in terms of the counters.     *)
LEMMA AbsoluteTime ==
  ASSUME IInv, pc # "idle", NEW t \in Ids
  PROVE  /\ Ideal!Release(t) = now + r[t]
         /\ Ideal!Deadline(t) = now + RemainingTime(t)
         /\ Ideal!Remaining(t) = CompletionTime(t)
         /\ t \in Ideal!Pending <=> t \in Ready
         /\ Ideal!Doomed(t, now) <=> ~(CompletionTime(t) <= RemainingTime(t))
         /\ Ideal!Doomed(t, now + 1) <=> ~(CompletionTime(t) < RemainingTime(t))
<1>1. /\ tasks[t].c \in Nat /\ tasks[t].p \in Nat /\ tasks[t].d \in Nat
      /\ r[t] \in Int /\ a[t] \in Nat /\ jobs[t] \in Nat /\ now \in Nat
      /\ now + r[t] = jobs[t] * tasks[t].p
  BY TaskIds DEF IInv, TypeOK, NoDrift
<1>2. Ideal!Release(t) = now + r[t]
  BY <1>1 DEF Ideal!Release
<1>3. Ideal!Deadline(t) = now + RemainingTime(t)
  BY <1>1, <1>2 DEF Ideal!Deadline, RemainingTime
<1>4. Ideal!Remaining(t) = CompletionTime(t)
  BY DEF Ideal!Remaining, CompletionTime
<1>5. t \in Ideal!Pending <=> t \in Ready
  BY <1>1, <1>2 DEF Ideal!Pending, Ideal!Task, Ready, Ids
<1>6. CompletionTime(t) \in Int /\ RemainingTime(t) \in Int
  BY <1>1 DEF CompletionTime, RemainingTime
<1>7. /\ Ideal!Doomed(t, now) <=> ~(CompletionTime(t) <= RemainingTime(t))
      /\ Ideal!Doomed(t, now + 1) <=> ~(CompletionTime(t) < RemainingTime(t))
  BY <1>1, <1>3, <1>4, <1>6 DEF Ideal!Doomed
<1> QED
  BY <1>2, <1>3, <1>4, <1>5, <1>7

(* The comparators order the queue as the policies order pending jobs.     *)
LEMMA SameOrder ==
  ASSUME IInv, pc # "idle", NEW t \in Ids, NEW u \in Ids
  PROVE  /\ Ideal!Urgency(t) < Ideal!Urgency(u) <=> Key(t) < Key(u)
         /\ Ideal!Urgency(t) = Ideal!Urgency(u) <=> Key(t) = Key(u)
<1>1. algo \in {"rma", "edf", "sct"}
  BY AlgosAssumption DEF IInv, TypeOK
<1>2. /\ now \in Nat
      /\ RemainingTime(t) \in Int /\ RemainingTime(u) \in Int
  BY TaskIds DEF IInv, TypeOK, RemainingTime
<1>3. CASE algo = "rma"
  <2>1. \A x : Ideal!Urgency(x) = tasks[x].p /\ Key(x) = tasks[x].p
    BY <1>3 DEF Ideal!Urgency, Key, RmaKey
  <2> QED
    BY <2>1
<1>4. CASE algo = "edf"
  <2>1. \A x : Ideal!Urgency(x) = Ideal!Deadline(x) /\ Key(x) = RemainingTime(x)
    BY <1>4 DEF Ideal!Urgency, Key, EdfKey
  <2>2. Ideal!Urgency(t) = now + Key(t) /\ Ideal!Urgency(u) = now + Key(u)
    BY <2>1, AbsoluteTime
  <2>3. Key(t) \in Int /\ Key(u) \in Int
    BY <1>2, <2>1
  <2>4. now + Key(t) < now + Key(u) <=> Key(t) < Key(u)
    BY <1>2, <2>3
  <2>5. /\ (now + Key(t)) - now = Key(t)
        /\ (now + Key(u)) - now = Key(u)
    BY <1>2, <2>3
  <2> QED
    BY <2>2, <2>4, <2>5
<1>5. CASE algo = "sct"
  <2>1. \A x : Ideal!Urgency(x) = Ideal!Remaining(x) /\ Key(x) = CompletionTime(x)
    BY <1>5 DEF Ideal!Urgency, Key, SctKey
  <2> QED
    BY <2>1, AbsoluteTime
<1> QED
  BY <1>1, <1>3, <1>4, <1>5

(* So the head of the queue is the job the policy picks.                   *)
LEMMA HeadIsPicked ==
  ASSUME IInv, pc # "idle", NEW h, IsHead(h), Ready # {}
  PROVE  Ideal!Picked(h) /\ h \in Ready /\ Ideal!Pending = Ready
<1>1. h \in Ready /\ \A u \in Ready \ {h} : Before(h, u)
  BY DEF IsHead
<1>2. Ideal!Pending = Ready
  BY AbsoluteTime DEF Ideal!Pending, Ideal!Task, Ready, Ids
<1>3. ASSUME NEW u \in Ready \ {h}
      PROVE  \/ Ideal!Urgency(h) < Ideal!Urgency(u)
             \/ Ideal!Urgency(h) = Ideal!Urgency(u) /\ h < u
  BY <1>1, SameOrder DEF Before, Ready
<1> QED
  BY <1>1, <1>2, <1>3 DEF Ideal!Picked

LEMMA RefineSchedule ==
  ASSUME IInv, Schedule
  PROVE  Ideal!Fail \/ UNCHANGED Ideal!vars
<1>1. pc = "schedule" /\ UNCHANGED <<algo, tasks, r, a, now, jobs>>
  BY DEF Schedule
<1>2. PICK h : /\ IsHead(h)
               /\ \/ schedulable' = TRUE /\ pc' = "run"
                  \/ /\ \E t \in Ready : ~Fits(t, h)
                     /\ schedulable' = FALSE /\ pc' = "halt"
  BY DEF Schedule
<1>3. CASE pc' = "run"
  BY <1>1, <1>3 DEF Ideal!vars, PhaseOf
<1>4. CASE pc' = "halt"
  <2>1. PICK t \in Ready : ~Fits(t, h)
    BY <1>2, <1>4
  <2>2. Ideal!Picked(h) /\ h \in Ready /\ Ideal!Pending = Ready
    BY <1>1, <1>2, <2>1, HeadIsPicked
  <2>3. Ideal!Doomed(h, now) \/ \E u \in Ideal!Pending \ {h} : Ideal!Doomed(u, now + 1)
    BY <1>1, <2>1, <2>2, AbsoluteTime DEF Fits, Ready
  <2>4. PhaseOf = "testing" /\ PhaseOf' = "failed"
    BY <1>1, <1>2, <1>4 DEF PhaseOf
  <2> QED
    BY <1>1, <2>2, <2>3, <2>4 DEF Ideal!Fail
<1> QED
  BY <1>2, <1>3, <1>4

LEMMA RefineRun ==
  ASSUME IInv, Run
  PROVE  Ideal!Idle \/ \E t \in Ideal!Task : Ideal!Execute(t)
<1>1. /\ pc = "run" /\ UNCHANGED <<algo, tasks>> /\ now' = now + Delta
      /\ pc' \in {"schedule", "halt"} /\ schedulable' = schedulable
  BY DEF Run
<1>2. schedulable /\ IsHead(head) /\ \A t \in Ready : Fits(t, head)
  BY <1>1 DEF IInv, RunIsCleared
<1>3. PhaseOf = "testing" /\ PhaseOf' \in {"testing", "passed"}
  BY <1>1, <1>2 DEF PhaseOf
<1>4. now \in Nat /\ \A t \in Ids : r[t] \in Int /\ a[t] \in Nat /\ jobs[t] \in Nat
  BY <1>1, TaskIds DEF IInv, TypeOK
<1>5. /\ a = [t \in Ids |-> a[t]] /\ jobs = [t \in Ids |-> jobs[t]]
      /\ a' = [t \in Ids |-> a'[t]] /\ jobs' = [t \in Ids |-> jobs'[t]]
  BY DEF IInv, TypeOK, Run, Recalc
<1>6. CASE head = NoTask
  <2>1. Ready = {}
    BY <1>1, <1>6, DeltaType
  <2>2. /\ Ideal!Pending = {}
        /\ \E t \in Ids : Delta = r[t]
        /\ \A t \in Ids : Delta <= r[t]
    BY <1>1, <1>6, <2>1, MinRType, AbsoluteTime DEF Delta, IInv, Ideal!Pending, Ideal!Task, Ids
  <2>3. \E t \in Ideal!Task : /\ now' = Ideal!Release(t)
                              /\ \A u \in Ideal!Task : Ideal!Release(t) <= Ideal!Release(u)
    BY <1>1, <1>4, <2>2, AbsoluteTime DEF Ideal!Task, Ids
  <2>4. a' = a /\ jobs' = jobs
    <3>1. \A t \in Ids : a'[t] = a[t] /\ jobs'[t] = jobs[t]
      BY <1>1, <1>6, TaskIds, RecalcStep DEF IInv
    <3> QED
      BY <1>5, <3>1
  <2> QED
    BY <1>1, <1>3, <2>2, <2>3, <2>4 DEF Ideal!Idle
<1>7. CASE head # NoTask
  <2>1. head \in Ids /\ head \in Ready
    BY <1>1, <1>7, DeltaType DEF Ready
  <2>2. Ideal!Picked(head) /\ Ideal!Pending = Ready
    BY <1>1, <1>2, <2>1, HeadIsPicked
  <2>3. /\ ~Ideal!Doomed(head, now)
        /\ \A u \in Ideal!Pending \ {head} : ~Ideal!Doomed(u, now + 1)
    BY <1>1, <1>2, <2>1, <2>2, AbsoluteTime DEF Fits, Ready
  <2>4. /\ algo \in {"rma", "edf", "sct"} /\ a[head] < tasks[head].c
        /\ algo = "rma" => a[head] = 0
        /\ tasks[head].c \in Nat
    BY <1>1, <1>4, <2>1, TaskIds, AlgosAssumption DEF IInv, TypeOK, PartlyRunIsReady
  <2>5. Ideal!Slice(head) = Delta
    BY <1>7, <2>4 DEF Ideal!Slice, Ideal!Preemptive, Ideal!Remaining, Delta, Period
  <2>6. Ideal!Slice(head) = Ideal!Remaining(head) <=> Completes
    BY <1>7, <2>4, <1>4, <2>1, <2>5 DEF Ideal!Remaining, Completes, CompletionTime, Delta, Period
  <2>7. CASE Completes
    <3>1. a' = [a EXCEPT ![head] = 0]
      BY <1>5, <2>1, <2>7, RecalcStep
    <3>2. jobs' = [jobs EXCEPT ![head] = @ + 1]
      BY <1>5, <2>1, <2>7, RecalcStep
    <3>3. Ideal!Execute(head)
      BY <1>1, <1>3, <2>2, <2>3, <2>5, <2>6, <2>7, <3>1, <3>2 DEF Ideal!Execute
    <3> QED
      BY <2>1, <3>3 DEF Ideal!Task, Ids
  <2>8. CASE ~Completes
    <3>1. a' = [a EXCEPT ![head] = @ + Ideal!Slice(head)]
      BY <1>5, <2>1, <2>5, <2>8, RecalcStep
    <3>2. jobs' = jobs
      <4>1. \A t \in Ids : jobs'[t] = jobs[t]
        BY <2>8, RecalcStep
      <4> QED
        BY <1>5, <4>1
    <3>3. Ideal!Execute(head)
      BY <1>1, <1>3, <2>2, <2>3, <2>5, <2>6, <2>8, <3>1, <3>2 DEF Ideal!Execute
    <3> QED
      BY <2>1, <3>3 DEF Ideal!Task, Ids
  <2> QED
    BY <2>7, <2>8
<1> QED
  BY <1>6, <1>7

(* The counters of the code implement the absolute model of a test: each   *)
(* round runs the job the policy must pick, jobs are released on time and  *)
(* once, and a test fails only when a job is lost.                         *)
THEOREM Refinement == Spec => ImplementsIdeal
<1>1. Init => Ideal!Init
  BY DEF Init, Ideal!Init, PhaseOf
<1>2. IInv /\ [Next]_vars => [Ideal!Next]_(Ideal!vars)
  <2> SUFFICES ASSUME IInv, [Next]_vars
               PROVE  Ideal!Next \/ UNCHANGED Ideal!vars
    OBVIOUS
  <2>1. CASE Prime
    BY <2>1 DEF Prime, Ideal!Next, Ideal!Begin, PhaseOf
  <2>2. CASE Schedule
    BY <2>2, RefineSchedule DEF Ideal!Next
  <2>3. CASE Run
    BY <2>3, RefineRun DEF Ideal!Next
  <2>4. CASE Halt
    BY <2>4 DEF Halt, Ideal!Next, Ideal!End, PhaseOf
  <2>5. CASE UNCHANGED vars
    BY <2>5 DEF vars, Ideal!vars, PhaseOf
  <2> QED
    BY <2>1, <2>2, <2>3, <2>4, <2>5 DEF Next
<1> QED
  BY <1>1, <1>2, Invariance, PTL DEF Spec, ImplementsIdeal, Ideal!Spec
-----------------------------------------------------------------------------
(* Who has been started before whom.                                       *)

(* After a round its head, if it has not completed its job, still precedes *)
(* all other jobs that have been started.                                  *)
HeadPrecedesStarted ==
  pc = "schedule" /\ head # NoTask =>
    /\ head \in Ids
    /\ a[head] > 0 => \A u \in Ids \ {head} : a[u] > 0 => Before(head, u)

LEMMA BeforeOnce ==
  ASSUME TypeOK, pc # "idle", NEW t \in Ids, NEW u \in Ids, t # u, Before(t, u)
  PROVE  ~Before(u, t)
<1>1. algo \in {"rma", "edf", "sct"}
  BY AlgosAssumption DEF TypeOK
<1>2. Key(t) \in Int /\ Key(u) \in Int
  BY <1>1, TaskIds DEF Key, RmaKey, EdfKey, SctKey, RemainingTime, CompletionTime
<1>3. t \in Int /\ u \in Int
  BY TupleType DEF TypeOK, Ids
<1> QED
  BY <1>2, <1>3 DEF Before

LEMMA RunKeepsPrecedence ==
  ASSUME IInv, Run, pc' = "schedule", head # NoTask
  PROVE  HeadPrecedesStarted'
<1>1. /\ pc = "run" /\ TypeOK /\ PartlyRunIsReady /\ IsHead(head)
      /\ head' = head /\ tasks' = tasks /\ algo' = algo /\ Ids' = Ids
  BY DEF Run, IInv, RunIsCleared, Ids
<1>2. head \in Ids /\ r[head] <= 0 /\ Delta \in Nat /\ Delta > 0
  BY <1>1, DeltaType
<1>3. SUFFICES ASSUME a'[head] > 0, NEW u \in Ids, u # head, a'[u] > 0
               PROVE  Before(head, u)'
  BY <1>1, <1>2 DEF HeadPrecedesStarted
<1>4. /\ ~Completes /\ algo # "rma"
      /\ r'[head] = r[head] - Delta /\ a'[head] = a[head] + Delta
  BY <1>2, <1>3, RecalcStep
<1>5. r'[u] = r[u] - Delta /\ a'[u] = a[u]
  BY <1>3, RecalcStep
<1>6. Before(head, u)
  BY <1>1, <1>2, <1>3, <1>5 DEF PartlyRunIsReady, IsHead, Ready
<1>7. algo \in {"edf", "sct"}
  BY <1>1, <1>4, AlgosAssumption DEF TypeOK
<1>8. /\ head \in Int /\ u \in Int
      /\ \A t \in {head, u} : /\ r[t] \in Int /\ a[t] \in Nat
                              /\ tasks[t].c \in Nat /\ tasks[t].d \in Nat
  <2>1. tasks \in TaskSets /\ pc # "idle"
    BY <1>1 DEF TypeOK
  <2>2. PICK n \in Nat \ {0} : Ids = 1..n
    BY <2>1, TupleType DEF Ids
  <2> QED
    BY <1>1, <1>2, <1>3, <2>1, <2>2, TaskIds
<1>9. CASE algo = "edf"
  BY <1>1, <1>2, <1>4, <1>5, <1>6, <1>8, <1>9
  DEF Before, Key, EdfKey, RemainingTime
<1>10. CASE algo = "sct"
  BY <1>1, <1>2, <1>4, <1>5, <1>6, <1>8, <1>10
  DEF Before, Key, SctKey, CompletionTime
<1> QED
  BY <1>7, <1>9, <1>10

LEMMA NextPrecedence ==
  ASSUME IInv, HeadPrecedesStarted, [Next]_vars
  PROVE  HeadPrecedesStarted'
<1>1. CASE Prime
  <2>1. \A t \in Ids' : a'[t] = 0
    BY <1>1 DEF Prime, Ids
  <2>2. head' = NoTask \/ head' \in Ids'
    BY PrimeIInv, <1>1 DEF IInv, TypeOK
  <2> QED
    BY <2>1, <2>2 DEF HeadPrecedesStarted
<1>2. CASE Schedule
  BY <1>2 DEF Schedule, HeadPrecedesStarted
<1>3. CASE Run
  <2>1. head' = head
    BY <1>3 DEF Run
  <2> QED
    BY <1>3, <2>1, RunKeepsPrecedence DEF HeadPrecedesStarted, NoTask
<1>4. CASE Halt
  BY <1>4 DEF Halt, HeadPrecedesStarted
<1>5. CASE UNCHANGED vars
  BY <1>5 DEF vars, HeadPrecedesStarted, NoTask, Ids, Before, Key, RmaKey, EdfKey, SctKey,
              RemainingTime, CompletionTime
<1> QED
  BY <1>1, <1>2, <1>3, <1>4, <1>5 DEF Next

(* A round never resumes a started job in place of another that has been   *)
(* started: preemptions nest (edf_comparator, sct_comparator and the       *)
(* stable sort).                                                           *)
THEOREM PreemptionsNest == Spec => NoPingPong
<1> DEFINE A == pc = "schedule" /\ head # NoTask /\ head' # NoTask
                  /\ head' # head /\ a[head] > 0 => a[head'] = 0
<1>1. ASSUME IInv, HeadPrecedesStarted, Next PROVE A
  <2> SUFFICES ASSUME pc = "schedule", head # NoTask, head' # NoTask,
                      head' # head, a[head] > 0, a[head'] # 0
               PROVE  FALSE
    OBVIOUS
  <2>1. Schedule
    BY <1>1 DEF Next, Prime, Run, Halt
  <2>2. IsHead(head') /\ head' \in Ids
    BY <2>1 DEF Schedule, NoTask
  <2>3. TypeOK /\ PartlyRunIsReady /\ head \in Ids
    BY <1>1 DEF IInv, HeadPrecedesStarted
  <2>4. head \in Ready
    BY <2>3 DEF PartlyRunIsReady, Ready
  <2>5. Before(head', head)
    BY <2>2, <2>4 DEF IsHead
  <2>6. a[head'] > 0
    BY <2>2, <2>3, TaskIds
  <2>7. Before(head, head')
    BY <1>1, <2>2, <2>6 DEF HeadPrecedesStarted
  <2> QED
    BY <2>2, <2>3, <2>5, <2>7, BeforeOnce
<1>2. Init => HeadPrecedesStarted
  BY DEF Init, HeadPrecedesStarted
<1>3. IInv /\ HeadPrecedesStarted /\ [Next]_vars => HeadPrecedesStarted'
  BY NextPrecedence
<1>4. IInv /\ HeadPrecedesStarted /\ [Next]_vars => [A]_vars
  BY <1>1
<1> QED
  BY <1>2, <1>3, <1>4, Invariance, PTL DEF Spec, NoPingPong
-----------------------------------------------------------------------------
(* EDF is optimal.                                                         *)

(* A test that fails has a ready task that does not fit.                   *)
FailedForATask ==
  pc = "halt" /\ ~schedulable =>
    IsHead(head) /\ \E t \in Ready : ~Fits(t, head)

(* The time that jobs of t have had, from its job number k on, if they are *)
(* due by D.                                                               *)
WorkedFor(t, D, k) ==
  IF jobs[t] < JobsDue(t, D) THEN (jobs[t] - k) * tasks[t].c + a[t]
  ELSE IF k < JobsDue(t, D) THEN (JobsDue(t, D) - k) * tasks[t].c
  ELSE 0

(* Since t0 every quantum went to a job that is due by D and was released  *)
(* at t0 or later; k[t] is the first such job of t.                        *)
BusySince(D, t0, k) ==
  /\ \A t \in Ids :
       k[t] <= jobs[t] /\ (k[t] < JobsDue(t, D) => t0 <= k[t] * tasks[t].p)
  /\ now - t0 = SumFunction([t \in Ids |-> WorkedFor(t, D, k[t])])

(* There is such a time for every D: the last one at which nothing that is *)
(* due by D was pending.                                                   *)
BusyUntilDone ==
  pc # "idle" /\ algo = "edf" =>
    \A D \in Nat : \E t0 \in 0..now : \E k \in [Ids -> Nat] : BusySince(D, t0, k)

LEMMA FiniteIds ==
  ASSUME TypeOK, pc # "idle"
  PROVE  IsFiniteSet(Ids) /\ Ids # {}
<1>1. tasks \in TaskSets
  BY DEF TypeOK
<1>2. PICK n \in Nat \ {0} : Ids = 1..n
  BY <1>1, TupleType DEF Ids
<1>3. IsFiniteSet(1..n) /\ 1 \in 1..n
  BY FS_Interval
<1> QED
  BY <1>2, <1>3

(* The jobs of a task that are due within D quanta are its first ones.     *)
LEMMA JobsDueIs ==
  ASSUME TypeOK, pc # "idle", NEW t \in Ids, NEW D \in Int
  PROVE  /\ JobsDue(t, D) \in Nat
         /\ \A j \in Nat : j < JobsDue(t, D) <=> j * tasks[t].p + tasks[t].d <= D
<1> DEFINE p == tasks[t].p
           d == tasks[t].d
<1>1. p \in Nat \ {0} /\ d \in Nat \ {0}
  BY TaskIds
<1>2. JobsDue(t, D) = IF D < d THEN 0 ELSE (D - d) \div p + 1
  BY DEF JobsDue
<1> HIDE DEF p, d
<1>3. \A j \in Nat : j * p \in Nat
  BY <1>1, ProductNat
<1>4. CASE D < d
  <2>1. \A j \in Nat : ~(j * p + d <= D)
    BY <1>1, <1>3, <1>4
  <2> QED
    BY <1>2, <1>4, <2>1 DEF p, d
<1>5. CASE D >= d
  <2>1. D - d \in Nat
    BY <1>1, <1>5
  <2>2. /\ (D - d) \div p \in Nat
        /\ \A j \in Nat : j <= (D - d) \div p <=> j * p <= D - d
    BY <1>1, <2>1, Quotient
  <2>3. JobsDue(t, D) = (D - d) \div p + 1
    BY <1>1, <1>2, <1>5
  <2>4. \A j \in Nat : j < JobsDue(t, D) <=> j * p + d <= D
    BY <1>1, <1>3, <2>2, <2>3
  <2> QED
    BY <2>2, <2>3, <2>4 DEF p, d
<1> QED
  BY <1>1, <1>4, <1>5

(* In terms of the counters, under EDF.                                    *)
LEMMA DueNow ==
  ASSUME IInv, pc # "idle", NEW t \in Ids, NEW D \in Int
  PROVE  /\ Deadline(t) = now + RemainingTime(t)
         /\ Deadline(t) \in Nat
         /\ jobs[t] < JobsDue(t, D) <=> Deadline(t) <= D
<1>1. TypeOK /\ NoDrift
  BY DEF IInv
<1>2. /\ now \in Nat /\ r[t] \in Int /\ jobs[t] \in Nat
      /\ tasks[t].p \in Nat /\ tasks[t].d \in Nat
  BY <1>1, TaskIds DEF TypeOK
<1>3. jobs[t] * tasks[t].p \in Nat /\ now + r[t] = jobs[t] * tasks[t].p
  BY <1>1, <1>2, ProductNat DEF NoDrift
<1> QED
  BY <1>1, <1>2, <1>3, JobsDueIs DEF Deadline, RemainingTime

LEMMA WorkedType ==
  ASSUME TypeOK, pc # "idle", NEW D \in Nat, NEW k \in [Ids -> Nat]
  PROVE  [t \in Ids |-> WorkedFor(t, D, k[t])] \in [Ids -> Int]
<1> SUFFICES ASSUME NEW t \in Ids PROVE WorkedFor(t, D, k[t]) \in Int
  OBVIOUS
<1>1. /\ tasks[t].c \in Int /\ a[t] \in Int /\ jobs[t] \in Int /\ k[t] \in Int
      /\ JobsDue(t, D) \in Int
  BY TaskIds, JobsDueIs
<1>2. (jobs[t] - k[t]) * tasks[t].c \in Int /\ (JobsDue(t, D) - k[t]) * tasks[t].c \in Int
  BY <1>1
<1> QED
  BY <1>1, <1>2 DEF WorkedFor

(* A quantum that goes to a job due by D prolongs the time before.         *)
LEMMA BusyGoesOn ==
  ASSUME IInv, Run, algo = "edf", NEW D \in Nat, NEW t0 \in 0..now,
         NEW k \in [Ids -> Nat], BusySince(D, t0, k),
         head # NoTask, Deadline(head) <= D
  PROVE  BusySince(D, t0, k)' /\ now' = now + 1
<1>1. /\ pc = "run" /\ TypeOK /\ PartlyRunIsReady /\ TypeOK' /\ pc' # "idle"
      /\ tasks' = tasks /\ Ids' = Ids /\ head \in Ids
  BY RunIInv, DeltaType DEF Run, IInv, Ids
<1>2. Delta = 1 /\ now' = now + 1 /\ now \in Nat
  BY <1>1 DEF Run, Delta, Period, TypeOK
<1> DEFINE n(t) == JobsDue(t, D)
           f    == [t \in Ids |-> WorkedFor(t, D, k[t])]
           g    == [t \in Ids |-> WorkedFor(t, D, k[t])']
<1>3. \A t \in Ids : JobsDue(t, D)' = n(t) /\ n(t) \in Nat
  BY <1>1, JobsDueIs DEF JobsDue
<1>4. \A t \in Ids : t # head => jobs'[t] = jobs[t] /\ a'[t] = a[t]
  BY RecalcStep
<1>5. \A t \in Ids : jobs'[t] \in Nat /\ jobs'[t] >= jobs[t]
  BY <1>1, TaskIds, RecalcStep
<1>6. \A t \in Ids :
        k[t] <= jobs'[t] /\ (k[t] < JobsDue(t, D)' => t0 <= k[t] * tasks'[t].p)
  BY <1>1, <1>3, <1>5, TaskIds DEF BusySince
<1>7. f \in [Ids -> Int]
  BY <1>1, WorkedType
<1>8. \A t \in Ids : t # head => g[t] = f[t]
  BY <1>1, <1>3, <1>4 DEF WorkedFor
<1>9. g[head] = f[head] + 1
  <2> DEFINE c == tasks[head].c
             m == n(head)
             j == jobs[head]
             i == k[head]
  <2>1. /\ c \in Nat /\ j \in Nat /\ i \in Nat /\ m \in Nat /\ a[head] \in Nat
        /\ i <= j /\ a[head] < c /\ a'[head] \in Nat
    BY <1>1, <1>3, TaskIds DEF BusySince, PartlyRunIsReady, TypeOK
  <2>2. j < m
    BY <1>1, DueNow
  <2>3. f[head] = (j - i) * c + a[head]
    BY <1>1, <2>2 DEF WorkedFor
  <2>4. g[head] = IF jobs'[head] < m THEN (jobs'[head] - i) * c + a'[head]
                  ELSE IF i < m THEN (m - i) * c ELSE 0
    BY <1>1, <1>3 DEF WorkedFor
  <2> HIDE DEF f, g, m
  <2>5. (j + 1 - i) * c = (j - i) * c + c /\ (j - i) * c \in Int
    BY <2>1
  <2>6. CASE Completes
    <3>1. jobs'[head] = j + 1 /\ a'[head] = 0
      BY <1>1, <2>6, RecalcStep
    <3>2. c <= a[head] + 1
      BY <1>1, <1>2, <2>1, <2>6 DEF Completes, CompletionTime
    <3>3. c = a[head] + 1
      BY <2>1, <3>2
    <3>4. CASE j + 1 < m
      BY <2>1, <2>3, <2>4, <2>5, <3>1, <3>3, <3>4
    <3>5. CASE ~(j + 1 < m)
      <4>1. m = j + 1 /\ i < m
        BY <2>1, <2>2, <3>5
      <4>2. g[head] = (j + 1 - i) * c
        BY <2>1, <2>4, <3>1, <4>1
      <4> QED
        BY <2>1, <2>3, <2>5, <3>3, <4>2
    <3> QED
      BY <3>4, <3>5
  <2>7. CASE ~Completes
    <3>1. jobs'[head] = j /\ a'[head] = a[head] + 1
      BY <1>1, <1>2, <2>7, RecalcStep
    <3> QED
      BY <2>1, <2>2, <2>3, <2>4, <2>5, <3>1
  <2> QED
    BY <2>6, <2>7
<1>10. g \in [Ids -> Int]
  BY <1>1, <1>7, <1>8, <1>9
<1> HIDE DEF f, g
<1>11. SumFunction(g) = SumFunction(f) + 1
  <2>1. SumFunction(g) = SumFunction(f) + (g[head] - f[head])
    BY <1>1, <1>7, <1>8, <1>10, FiniteIds, SumUpdate
  <2> QED
    BY <1>1, <1>7, <1>9, <2>1
<1>12. now - t0 = SumFunction(f)
  BY DEF BusySince, f
<1>13. SumFunction(f) \in Int
  BY <1>1, <1>7, FiniteIds, SumType
<1>14. now' - t0 = SumFunction(g)
  BY <1>2, <1>11, <1>12, <1>13
<1>15. SumFunction([t \in Ids |-> WorkedFor(t, D, k[t])])' = SumFunction(g)
  BY <1>1 DEF g
<1> QED
  BY <1>1, <1>2, <1>6, <1>14, <1>15 DEF BusySince

(* After a round in which nobody with a job due by D ran, nothing due by D *)
(* is pending.                                                             *)
LEMMA BusyAnew ==
  ASSUME IInv, Run, algo = "edf", NEW D \in Nat,
         ~(head # NoTask /\ Deadline(head) <= D),
         NEW t0, t0 = now', NEW k, k = jobs'
  PROVE  k \in [Ids -> Nat] /\ BusySince(D, t0, k)'
<1>1. /\ pc = "run" /\ TypeOK /\ PartlyRunIsReady /\ NoDrift /\ TypeOK' /\ pc' # "idle"
      /\ tasks' = tasks /\ Ids' = Ids /\ IsHead(head) /\ NoDrift'
  BY RunIInv DEF Run, IInv, Ids, RunIsCleared
<1>2. now' = now + Delta /\ now \in Nat /\ Delta \in Nat /\ now' \in Nat
  BY <1>1, DeltaType DEF Run, TypeOK
<1>3. \A t \in Ids : JobsDue(t, D)' = JobsDue(t, D) /\ JobsDue(t, D) \in Nat
  BY <1>1, JobsDueIs DEF JobsDue
<1>4. jobs' \in [Ids -> Nat]
  BY <1>1 DEF TypeOK
<1>5. ASSUME NEW t \in Ids, jobs'[t] < JobsDue(t, D)
      PROVE  a'[t] = 0 /\ now' <= jobs'[t] * tasks[t].p
  <2>1. /\ r[t] \in Int /\ a[t] \in Nat /\ jobs[t] \in Nat /\ jobs'[t] \in Nat
        /\ jobs'[t] >= jobs[t]
    BY <1>1, <1>4, TaskIds, RecalcStep
  <2>2. jobs[t] < JobsDue(t, D)
    BY <1>3, <1>5, <2>1
  <2>3. Deadline(t) <= D /\ Deadline(t) = now + RemainingTime(t)
    BY <1>1, <2>2, DueNow
  <2>4. r[t] > 0
    <3> SUFFICES ASSUME r[t] <= 0 PROVE FALSE
      BY <2>1
    <3>1. t \in Ready /\ head \in Ready /\ (t = head \/ Before(head, t))
      BY <1>1 DEF Ready, IsHead
    <3>2. head # NoTask /\ head \in Ids /\ r[head] \in Int /\ tasks[head].d \in Int
      BY <1>1, <3>1, TaskIds DEF Ready
    <3>3. EdfKey(head) <= EdfKey(t) /\ EdfKey(head) \in Int /\ EdfKey(t) \in Int
      BY <1>1, <2>1, <3>1, <3>2, TaskIds DEF Before, Key, EdfKey, RemainingTime
    <3>4. Deadline(head) = now + EdfKey(head) /\ Deadline(t) = now + EdfKey(t)
      BY <1>1, <3>2, DueNow DEF EdfKey
    <3> QED
      BY <1>2, <2>3, <3>2, <3>3, <3>4
  <2>5. t # head
    BY <1>1, <2>1, <2>4, DeltaType, TaskIds
  <2>6. a[t] = 0
    BY <1>1, <2>1, <2>4 DEF PartlyRunIsReady
  <2>7. jobs'[t] = jobs[t] /\ a'[t] = 0
    BY <2>5, <2>6, RecalcStep
  <2>8. Delta <= r[t]
    <3>1. CASE head = NoTask
      <4>1. Ready = {} /\ Delta = MinR
        BY <1>1, <3>1, DeltaType DEF Delta
      <4> QED
        BY <1>1, <4>1, MinRType
    <3>2. CASE head # NoTask
      BY <2>1, <2>4, <3>2 DEF Delta, Period
    <3> QED
      BY <3>1, <3>2
  <2>9. now + r[t] = jobs[t] * tasks[t].p
    BY <1>1 DEF NoDrift
  <2> QED
    BY <1>2, <2>1, <2>7, <2>8, <2>9
<1> DEFINE g == [t \in Ids |-> WorkedFor(t, D, k[t])']
<1>6. \A t \in Ids : g[t] = 0
  <2> SUFFICES ASSUME NEW t \in Ids PROVE WorkedFor(t, D, k[t])' = 0
    OBVIOUS
  <2>1. jobs'[t] \in Nat /\ tasks[t].c \in Nat /\ JobsDue(t, D) \in Nat
    BY <1>1, <1>3, <1>4, TaskIds
  <2>2. WorkedFor(t, D, k[t])' =
          IF jobs'[t] < JobsDue(t, D) THEN (jobs'[t] - k[t]) * tasks[t].c + a'[t]
          ELSE IF k[t] < JobsDue(t, D) THEN (JobsDue(t, D) - k[t]) * tasks[t].c
          ELSE 0
    BY <1>1, <1>3 DEF WorkedFor
  <2>3. k[t] = jobs'[t] /\ jobs'[t] - k[t] = 0
    BY <2>1
  <2>4. (jobs'[t] - k[t]) * tasks[t].c = 0
    BY <2>1, <2>3
  <2> QED
    BY <1>5, <2>1, <2>2, <2>3, <2>4
<1>7. SumFunction(g) = 0
  <2>1. g \in [Ids -> Int]
    BY <1>6
  <2> HIDE DEF g
  <2> QED
    BY <1>1, <1>6, <2>1, FiniteIds, SumOfZeros
<1>8. SumFunction([t \in Ids |-> WorkedFor(t, D, k[t])])' = SumFunction(g)
  BY <1>1
<1>9. \A t \in Ids : /\ k[t] <= jobs'[t]
                     /\ k[t] < JobsDue(t, D)' => t0 <= k[t] * tasks'[t].p
  BY <1>1, <1>3, <1>4, <1>5
<1>10. now' - t0 = 0
  BY <1>2
<1> QED
  BY <1>1, <1>4, <1>7, <1>8, <1>9, <1>10 DEF BusySince

LEMMA BusyStill ==
  ASSUME UNCHANGED <<tasks, a, jobs, now>>
  PROVE  \A D, t0, k : BusySince(D, t0, k) => BusySince(D, t0, k)'
<1> SUFFICES ASSUME NEW D, NEW t0, NEW k, BusySince(D, t0, k) PROVE BusySince(D, t0, k)'
  OBVIOUS
<1>1. Ids' = Ids
  BY DEF Ids
<1>2. \A t \in Ids : JobsDue(t, D)' = JobsDue(t, D)
  BY DEF JobsDue
<1>3. \A t \in Ids : WorkedFor(t, D, k[t])' = WorkedFor(t, D, k[t])
  BY <1>2 DEF WorkedFor
<1>4. [t \in Ids |-> WorkedFor(t, D, k[t])]' = [t \in Ids |-> WorkedFor(t, D, k[t])]
  BY <1>1, <1>3
<1>5. SumFunction([t \in Ids |-> WorkedFor(t, D, k[t])])'
        = SumFunction([t \in Ids |-> WorkedFor(t, D, k[t])])
  BY <1>4
<1> QED
  BY <1>1, <1>2, <1>5 DEF BusySince

(* The invariant behind the optimality of EDF.                             *)
LEMMA NextBusy ==
  ASSUME IInv, FailedForATask, BusyUntilDone, [Next]_vars
  PROVE  FailedForATask' /\ BusyUntilDone'
<1>1. CASE Prime
  <2>1. /\ pc' = "schedule" /\ now' = 0 /\ TypeOK' /\ Ids' = DOMAIN tasks'
        /\ \A t \in Ids' : jobs'[t] = 0 /\ a'[t] = 0
    BY <1>1, PrimeIInv DEF Prime, IInv, Ids
  <2>2. ASSUME NEW D \in Nat, NEW k, k = [t \in Ids' |-> 0] PROVE BusySince(D, 0, k)'
    <3> DEFINE g == [t \in Ids' |-> WorkedFor(t, D, k[t])']
    <3>1. IsFiniteSet(Ids')
      <4>1. tasks' \in TaskSets
        BY <1>1 DEF Prime
      <4>2. PICK n \in Nat \ {0} : Ids' = 1..n
        BY <2>1, <4>1, TupleType
      <4>3. IsFiniteSet(1..n)
        BY FS_Interval
      <4> QED
        BY <4>2, <4>3
    <3>2. ASSUME NEW t \in Ids'
          PROVE  /\ tasks'[t].p \in Nat /\ tasks'[t].c \in Nat
                 /\ JobsDue(t, D)' \in Nat
      <4>1. tasks' \in TaskSets
        BY <1>1 DEF Prime
      <4>2. /\ tasks'[t].p \in Nat \ {0} /\ tasks'[t].c \in Nat /\ tasks'[t].d \in Nat
        BY <2>1, <4>1, TupleType
      <4>3. D >= tasks'[t].d => (D - tasks'[t].d) \div tasks'[t].p \in Nat
        BY <4>2, Quotient
      <4> QED
        BY <4>2, <4>3 DEF JobsDue
    <3>3. \A t \in Ids' : g[t] = 0
      <4> SUFFICES ASSUME NEW t \in Ids' PROVE WorkedFor(t, D, k[t])' = 0
        OBVIOUS
      <4>1. k[t] = 0 /\ jobs'[t] = 0 /\ a'[t] = 0 /\ tasks'[t].c \in Nat
            /\ JobsDue(t, D)' \in Nat
        BY <2>1, <2>2, <3>2
      <4>2. (0 - 0) * tasks'[t].c + 0 = 0
        BY <4>1
      <4> QED
        BY <4>1, <4>2 DEF WorkedFor
    <3>4. SumFunction(g) = 0
      <4>1. g \in [Ids' -> Int]
        BY <3>3
      <4> HIDE DEF g
      <4> QED
        BY <3>1, <3>3, <4>1, SumOfZeros
    <3>5. SumFunction([t \in Ids |-> WorkedFor(t, D, k[t])])' = SumFunction(g)
      OBVIOUS
    <3>6. \A t \in Ids' : /\ k[t] <= jobs'[t]
                          /\ k[t] < JobsDue(t, D)' => 0 <= k[t] * tasks'[t].p
      BY <2>1, <2>2, <3>2
    <3> QED
      BY <2>1, <3>4, <3>5, <3>6 DEF BusySince
  <2>3. [t \in Ids' |-> 0] \in [Ids' -> Nat] /\ 0 \in 0..now'
    BY <2>1
  <2> QED
    BY <2>1, <2>2, <2>3 DEF BusyUntilDone, FailedForATask
<1>2. CASE Schedule
  <2>1. /\ pc = "schedule" /\ pc' # "idle" /\ UNCHANGED <<algo, tasks, r, a, now, jobs>>
    BY <1>2 DEF Schedule
  <2>2. FailedForATask'
    <3> SUFFICES ASSUME pc' = "halt", ~schedulable'
                 PROVE  IsHead(head') /\ \E t \in Ready : ~Fits(t, head')
      BY <2>1 DEF FailedForATask, IsHead, Ready, Ids, Before, Key, RmaKey, EdfKey, SctKey,
                  RemainingTime, CompletionTime, Fits, NoTask
    <3> QED
      BY <1>2 DEF Schedule
  <2>3. BusyUntilDone'
    BY <2>1, BusyStill DEF BusyUntilDone, Ids
  <2> QED
    BY <2>2, <2>3
<1>3. CASE Run
  <2>1. /\ pc = "run" /\ pc' # "idle" /\ UNCHANGED <<algo, tasks, head, schedulable>>
        /\ schedulable /\ Ids' = Ids /\ now' = now + Delta /\ TypeOK
    BY <1>3 DEF Run, IInv, RunIsCleared, Ids
  <2>2. FailedForATask'
    BY <2>1 DEF FailedForATask
  <2>3. now \in Nat /\ now' \in Nat /\ now' >= now
    BY <2>1, DeltaType DEF TypeOK
  <2>4. ASSUME algo = "edf", NEW D \in Nat
        PROVE  \E t0 \in 0..now' : \E k \in [Ids -> Nat] : BusySince(D, t0, k)'
    <3>1. CASE head # NoTask /\ Deadline(head) <= D
      <4>1. PICK t0 \in 0..now, k \in [Ids -> Nat] : BusySince(D, t0, k)
        BY <2>1, <2>4 DEF BusyUntilDone
      <4>2. BusySince(D, t0, k)'
        BY <1>3, <2>4, <3>1, <4>1, BusyGoesOn
      <4> QED
        BY <2>3, <4>1, <4>2
    <3>2. CASE ~(head # NoTask /\ Deadline(head) <= D)
      <4>1. \A t0, k : t0 = now' /\ k = jobs'
              => k \in [Ids -> Nat] /\ BusySince(D, t0, k)'
        BY <1>3, <2>4, <3>2, BusyAnew
      <4> QED
        BY <2>3, <4>1
    <3> QED
      BY <3>1, <3>2
  <2> QED
    BY <2>1, <2>2, <2>4 DEF BusyUntilDone
<1>4. CASE Halt
  BY <1>4 DEF Halt, FailedForATask, BusyUntilDone
<1>5. CASE UNCHANGED vars
  <2>1. FailedForATask'
    BY <1>5 DEF vars, FailedForATask, IsHead, Ready, Ids, Before, Key, RmaKey, EdfKey, SctKey,
                RemainingTime, CompletionTime, Fits, NoTask
  <2>2. BusyUntilDone'
    BY <1>5, BusyStill DEF vars, BusyUntilDone, Ids
  <2> QED
    BY <2>1, <2>2
<1> QED
  BY <1>1, <1>2, <1>3, <1>4, <1>5 DEF Next

LEMMA LatestIs ==
  ASSUME IInv, pc # "idle", NEW t \in Ids
  PROVE  LatestDeadline \in Nat /\ Deadline(t) <= LatestDeadline
<1> DEFINE f == [u \in Ids |-> Deadline(u)]
<1>1. \A u \in Ids : Deadline(u) \in Nat
  BY DueNow
<1>2. f \in [Ids -> Nat]
  BY <1>1
<1>3. IsFiniteSet(Ids) /\ Ids # {}
  BY FiniteIds DEF IInv
<1> HIDE DEF f
<1>4. PICK m \in Ids : \A u \in Ids : f[u] <= f[m]
  BY <1>2, <1>3, NatMax
<1>5. \E x \in {Deadline(u) : u \in Ids} : \A u \in Ids : Deadline(u) <= x
  BY <1>4 DEF f
<1>6. /\ LatestDeadline \in {Deadline(u) : u \in Ids}
      /\ \A u \in Ids : Deadline(u) <= LatestDeadline
  BY <1>5 DEF LatestDeadline
<1> QED
  BY <1>1, <1>6

(* A job that does not fit, with those before it and those since t0, asks  *)
(* for more time than there is.                                            *)
LEMMA TooMuchDemand ==
  ASSUME IInv, FailedForATask, BusyUntilDone,
         pc = "halt", algo = "edf", ~schedulable
  PROVE  \E L \in 1..LatestDeadline : Demand(L) > L
<1>1. TypeOK /\ PartlyRunIsReady /\ pc # "idle" /\ now \in Nat /\ IsFiniteSet(Ids)
  BY FiniteIds DEF IInv, TypeOK
<1>2. PICK late \in Ready : ~Fits(late, head)
  BY DEF FailedForATask
<1>3. head \in Ready /\ (late # head => Before(head, late))
  BY <1>2 DEF FailedForATask, IsHead
<1>4. late \in Ids /\ head \in Ids
  BY <1>2, <1>3 DEF Ready
<1> DEFINE D == Deadline(late)
<1>5. D \in Nat /\ D = now + RemainingTime(late)
  BY <1>1, <1>4, DueNow
<1>6. PICK t0 \in 0..now, k \in [Ids -> Nat] : BusySince(D, t0, k)
  BY <1>1, <1>5 DEF BusyUntilDone
<1> DEFINE L == D - t0
           n(t)    == JobsDue(t, D)
           toCome  == [t \in Ids |-> IF jobs[t] < n(t) THEN (n(t) - jobs[t]) * tasks[t].c - a[t]
                                     ELSE 0]
           worked  == [t \in Ids |-> WorkedFor(t, D, k[t])]
           demands == [t \in Ids |-> DemandOf(t, L)]
<1>7. \A t \in Ids : /\ tasks[t].c \in Nat /\ tasks[t].c > 0
                     /\ tasks[t].p \in Nat \ {0} /\ tasks[t].d \in Nat /\ tasks[t].d > 0
                     /\ jobs[t] \in Nat /\ a[t] \in Nat /\ a[t] < tasks[t].c
                     /\ n(t) \in Nat /\ k[t] \in Nat /\ k[t] <= jobs[t]
                     /\ r[t] \in Int
                     /\ k[t] < n(t) => t0 <= k[t] * tasks[t].p
  BY <1>1, <1>5, <1>6, TaskIds, JobsDueIs DEF PartlyRunIsReady, BusySince
<1>8. \A t \in Ids : jobs[t] < n(t) <=> Deadline(t) <= D
  BY <1>1, <1>5, DueNow
<1> HIDE DEF n, D
<1>9. L \in 1..LatestDeadline
  <2>1. jobs[late] < n(late) /\ k[late] < n(late)
    BY <1>4, <1>5, <1>7, <1>8 DEF D
  <2>2. t0 <= k[late] * tasks[late].p
    BY <1>4, <1>7, <2>1
  <2>3. k[late] * tasks[late].p <= jobs[late] * tasks[late].p
    BY <1>4, <1>7, ProductLeq
  <2>4. D = jobs[late] * tasks[late].p + tasks[late].d
    BY DEF D, Deadline
  <2>5. k[late] * tasks[late].p \in Nat /\ jobs[late] * tasks[late].p \in Nat
    BY <1>4, <1>7, ProductNat
  <2>6. D <= LatestDeadline /\ LatestDeadline \in Nat
    BY <1>1, <1>4, LatestIs DEF D
  <2> QED
    BY <1>4, <1>5, <1>6, <1>7, <2>2, <2>3, <2>4, <2>5, <2>6
(* What is left of the jobs due by D.                                      *)
<1>10. ASSUME NEW t \in Ids, jobs[t] < n(t)
       PROVE  toCome[t] \in Nat /\ toCome[t] >= tasks[t].c - a[t] /\ toCome[t] >= 1
  <2>1. n(t) - jobs[t] \in Nat \ {0}
    BY <1>7, <1>10
  <2>2. (n(t) - jobs[t]) * tasks[t].c = tasks[t].c + (n(t) - jobs[t] - 1) * tasks[t].c
    BY <1>7, <2>1
  <2>3. (n(t) - jobs[t] - 1) * tasks[t].c \in Nat
    BY <1>7, <2>1, ProductNat
  <2>4. toCome[t] = (n(t) - jobs[t]) * tasks[t].c - a[t]
    BY <1>10
  <2> HIDE DEF toCome
  <2> QED
    BY <1>7, <2>2, <2>3, <2>4
<1>11. toCome \in [Ids -> Nat]
  BY <1>10
<1>12. SumFunction(toCome) > D - now
  <2>1. ASSUME NEW t \in Ids, jobs[t] < n(t)
        PROVE  toCome[t] >= CompletionTime(t) /\ toCome[t] >= 1 /\ CompletionTime(t) \in Int
    BY <1>7, <1>10, <2>1 DEF CompletionTime
  <2>2. jobs[late] < n(late)
    BY <1>4, <1>5, <1>8 DEF D
  <2>3. RemainingTime(late) \in Int /\ D - now = RemainingTime(late)
    BY <1>1, <1>4, <1>5, <1>7 DEF RemainingTime
  <2>4. toCome \in [Ids -> Int]
    BY <1>11
  <2> HIDE DEF toCome
  <2>5. SumFunction(toCome) \in Int
    BY <1>1, <2>4, SumType
  <2>6. CASE late = head
    <3>1. CompletionTime(late) > RemainingTime(late)
      BY <1>2, <1>4, <2>1, <2>2, <2>3, <2>6 DEF Fits
    <3>2. toCome[late] <= SumFunction(toCome)
      BY <1>1, <1>4, <1>11, SumHasBoth
    <3> QED
      BY <1>4, <1>11, <2>1, <2>2, <2>3, <2>5, <3>1, <3>2
  <2>7. CASE late # head
    <3>1. CompletionTime(late) >= RemainingTime(late)
      BY <1>2, <1>4, <2>1, <2>2, <2>3, <2>7 DEF Fits
    <3>2. RemainingTime(head) <= RemainingTime(late) /\ RemainingTime(head) \in Int
      BY <1>3, <1>4, <1>7, <2>7 DEF Before, Key, EdfKey, RemainingTime
    <3>3. Deadline(head) = now + RemainingTime(head)
      BY <1>1, <1>4, DueNow
    <3>4. jobs[head] < n(head)
      BY <1>1, <1>4, <1>5, <1>8, <2>3, <3>2, <3>3
    <3>5. toCome[late] + toCome[head] <= SumFunction(toCome)
      BY <1>1, <1>4, <1>11, <2>7, SumHasBoth
    <3> QED
      BY <1>4, <1>11, <2>1, <2>2, <2>3, <2>5, <3>1, <3>4, <3>5
  <2> QED
    BY <2>6, <2>7
(* With what they have had since t0, no more than the demand.              *)
<1>13. ASSUME NEW t \in Ids
       PROVE  /\ demands[t] \in Int /\ worked[t] \in Int
              /\ worked[t] + toCome[t] <= demands[t]
  <2> DEFINE c == tasks[t].c
             due == JobsDue(t, L)
  <2>1. due \in Nat /\ L \in Int
    BY <1>1, <1>9, JobsDueIs
  <2>2. demands[t] = due * c /\ due * c \in Nat
    BY <1>7, <2>1, ProductNat DEF DemandOf
  <2>3. worked[t] = IF jobs[t] < n(t) THEN (jobs[t] - k[t]) * c + a[t]
                    ELSE IF k[t] < n(t) THEN (n(t) - k[t]) * c ELSE 0
    BY DEF WorkedFor, n
  <2>4. toCome[t] = IF jobs[t] < n(t) THEN (n(t) - jobs[t]) * c - a[t] ELSE 0
    OBVIOUS
  <2>5. (jobs[t] - k[t]) * c \in Int /\ (n(t) - jobs[t]) * c \in Int /\ (n(t) - k[t]) * c \in Int
        /\ (jobs[t] - k[t]) * c + (n(t) - jobs[t]) * c = (n(t) - k[t]) * c
    BY <1>7
  <2>6. worked[t] \in Int
    BY <1>7, <2>3, <2>5
  <2>7. worked[t] + toCome[t] = IF k[t] < n(t) THEN (n(t) - k[t]) * c ELSE 0
    BY <1>7, <2>3, <2>4, <2>5
  <2>8. k[t] < n(t) => n(t) - k[t] <= due
    <3> SUFFICES ASSUME k[t] < n(t) PROVE n(t) - k[t] - 1 < due
      BY <1>7, <2>1
    <3> DEFINE j == n(t) - 1
               p == tasks[t].p
    <3>1. j \in Nat /\ j < n(t) /\ j - k[t] \in Nat
      BY <1>7
    <3>2. j * p + tasks[t].d <= D
      BY <1>1, <1>5, <3>1, JobsDueIs DEF n
    <3>3. t0 <= k[t] * p
      BY <1>7
    <3>4. (j - k[t]) * p = j * p - k[t] * p /\ j * p \in Int /\ k[t] * p \in Int
      BY <1>7, <3>1
    <3>5. (j - k[t]) * p + tasks[t].d <= L
      BY <1>5, <1>6, <1>7, <3>2, <3>3, <3>4
    <3>6. j - k[t] < due
      BY <1>1, <2>1, <3>1, <3>5, JobsDueIs
    <3> QED
      BY <1>7, <3>6
  <2>9. k[t] < n(t) => (n(t) - k[t]) * c <= due * c
    BY <1>7, <2>1, <2>8, ProductLeq
  <2> HIDE DEF worked, toCome, demands, due
  <2> QED
    BY <2>2, <2>5, <2>6, <2>7, <2>9
<1>14. now - t0 = SumFunction(worked)
  BY <1>6 DEF BusySince
<1>15. Demand(L) = SumFunction(demands)
  BY DEF Demand
<1>16. worked \in [Ids -> Int] /\ demands \in [Ids -> Int] /\ toCome \in [Ids -> Int]
  BY <1>11, <1>13
<1> HIDE DEF worked, toCome, demands
<1> DEFINE all == [t \in Ids |-> worked[t] + toCome[t]]
<1>17. SumFunction(all) = SumFunction(worked) + SumFunction(toCome)
  BY <1>1, <1>16, SumOfSums
<1>18. all \in [Ids -> Int] /\ \A t \in Ids : all[t] <= demands[t]
  BY <1>13, <1>16
<1> HIDE DEF all
<1>19. SumFunction(all) <= SumFunction(demands)
  BY <1>1, <1>16, <1>18, SumLeq
<1>20. SumFunction(worked) \in Int /\ SumFunction(toCome) \in Int /\ SumFunction(demands) \in Int
  BY <1>1, <1>16, SumType
<1>21. SumFunction(demands) > L
  BY <1>1, <1>5, <1>6, <1>12, <1>14, <1>17, <1>19, <1>20
<1> QED
  BY <1>9, <1>15, <1>21

(* EDF fails only task sets that demand more time than there is in some    *)
(* interval (edf_comparator with the check of fixt_algo_schedule), whether *)
(* their deadlines are at the end of the period, before or beyond it.      *)
THEOREM EdfIsOptimal == Spec => []EdfFailsOnlyIfOverloaded
<1>1. Init => FailedForATask /\ BusyUntilDone
  BY DEF Init, FailedForATask, BusyUntilDone
<1>2. IInv /\ FailedForATask /\ BusyUntilDone /\ [Next]_vars
        => FailedForATask' /\ BusyUntilDone'
  BY NextBusy
<1>3. IInv /\ FailedForATask /\ BusyUntilDone => EdfFailsOnlyIfOverloaded
  BY TooMuchDemand DEF EdfFailsOnlyIfOverloaded
<1> QED
  BY <1>1, <1>2, <1>3, Invariance, PTL DEF Spec
-----------------------------------------------------------------------------
(* The tasks whose jobs keep t from starting, apart from one blocking job. *)
OfLevel(u, t) == u = t \/ Outranks(u, t)

WorkOfLevel(u, t, k) == IF OfLevel(u, t) THEN (jobs[u] - k[u]) * tasks[u].c ELSE 0

(* Since t0 the processor has run, but for the rest of one blocking job,   *)
(* jobs that go before t, all of them released at t0 or later; k[u] is the *)
(* first such job of u.  What the analysis says of the job of t that is    *)
(* next, it is not over yet.                                               *)
LevelBusy(t, t0, k) ==
  /\ \A u \in Ids : OfLevel(u, t) =>
       /\ k[u] <= jobs[u] /\ t0 <= k[u] * tasks[u].p
       /\ jobs[u] = k[u] \/ (jobs[u] - 1) * tasks[u].p <= now
  /\ now - t0 <= Blocking(t) + SumFunction([u \in Ids |-> WorkOfLevel(u, t, k)])
  /\ \A x \in Nat : StartsBy(t, jobs[t] - k[t], x) <= x => now - t0 <= x

(* There is such a time for every task: the last one at which nothing that *)
(* goes before it was pending.                                             *)
LevelsBusy ==
  pc # "idle" /\ algo = "rma" =>
    \A t \in Ids : \E t0 \in Nat : \E k \in [Ids -> Nat] : LevelBusy(t, t0, k)

LEMMA TaskNumbers ==
  ASSUME TypeOK, pc # "idle"
  PROVE  Ids \subseteq Nat
<1>1. tasks \in TaskSets
  BY DEF TypeOK
<1>2. PICK n \in Nat \ {0} : Ids = 1..n
  BY <1>1, TupleType DEF Ids
<1> QED
  BY <1>2

(* A job that is already running delays t by what is left of it.           *)
LEMMA BlockingType ==
  ASSUME TypeOK, pc # "idle", NEW t \in Ids
  PROVE  /\ Blocking(t) \in Nat
         /\ \A u \in Ids \ {t} : ~Outranks(u, t) => tasks[u].c - 1 <= Blocking(t)
         /\ \/ Blocking(t) = 0
            \/ \E u \in Ids \ {t} : ~Outranks(u, t) /\ Blocking(t) = tasks[u].c - 1
<1> DEFINE f == [u \in Ids |-> IF u # t /\ ~Outranks(u, t) THEN tasks[u].c - 1 ELSE 0]
<1>1. \A u \in Ids : tasks[u].c - 1 \in Nat
  BY TaskIds
<1>2. f \in [Ids -> Nat]
  BY <1>1
<1>3. IsFiniteSet(Ids) /\ Ids # {}
  BY FiniteIds
<1>4. \A u \in Ids : f[u] \in Blockings(t)
  BY DEF Blockings
<1>5. \A y \in Blockings(t) : y = 0 \/ \E u \in Ids : y = f[u]
  BY DEF Blockings
<1>6. \A y \in Blockings(t) : y \in Nat
  BY <1>2, <1>5
<1>7. \A u \in Ids \ {t} : ~Outranks(u, t) => tasks[u].c - 1 \in Blockings(t)
  BY DEF Blockings
<1>8. 0 \in Blockings(t)
  BY DEF Blockings
<1> HIDE DEF f
<1>9. PICK m \in Ids : \A u \in Ids : f[u] <= f[m]
  BY <1>2, <1>3, NatMax
<1>10. f[m] \in Nat
  BY <1>2, <1>9
<1>11. \A y \in Blockings(t) : y <= f[m]
  BY <1>2, <1>5, <1>9, <1>10
<1>12. \E b \in Blockings(t) : \A y \in Blockings(t) : y <= b
  BY <1>4, <1>9, <1>11
<1>13. Blocking(t) \in Blockings(t) /\ \A y \in Blockings(t) : y <= Blocking(t)
  BY <1>12 DEF Blocking
<1>14. \A y \in Blockings(t) :
         y = 0 \/ \E u \in Ids \ {t} : ~Outranks(u, t) /\ y = tasks[u].c - 1
  BY DEF Blockings
<1> QED
  BY <1>6, <1>7, <1>13, <1>14

(* The longer the time, the more jobs go before t in it.                   *)
LEMMA InterferenceType ==
  ASSUME TypeOK, pc # "idle", NEW t \in Ids, NEW x \in Nat
  PROVE  /\ Interference(t, x) \in Nat
         /\ \A y \in Nat : x <= y => Interference(t, x) <= Interference(t, y)
<1>1. IsFiniteSet(Ids)
  BY FiniteIds
<1> DEFINE f(z) == [u \in Ids |-> IF Outranks(u, t) THEN Needs(u, z) ELSE 0]
<1>2. ASSUME NEW u \in Ids, NEW z \in Nat
      PROVE  Needs(u, z) \in Nat /\ z \div tasks[u].p \in Nat
  <2>1. tasks[u].p \in Nat \ {0} /\ tasks[u].c \in Nat
    BY TaskIds
  <2>2. z \div tasks[u].p \in Nat
    BY <2>1, Quotient
  <2> QED
    BY <2>1, <2>2, ProductNat DEF Needs
<1>3. ASSUME NEW z \in Nat
      PROVE  f(z) \in [Ids -> Int] /\ Interference(t, z) = SumFunction(f(z))
             /\ \A u \in Ids : f(z)[u] >= 0
  BY <1>2 DEF Interference
<1>4. ASSUME NEW u \in Ids, NEW y \in Nat, x <= y
      PROVE  f(x)[u] <= f(y)[u]
  <2>1. tasks[u].p \in Nat \ {0} /\ tasks[u].c \in Nat \ {0}
    BY TaskIds
  <2>2. x \div tasks[u].p \in Nat /\ y \div tasks[u].p \in Nat
    BY <1>2
  <2>3. (x \div tasks[u].p) * tasks[u].p <= x
    BY <2>1, <2>2, Quotient
  <2>4. (x \div tasks[u].p) * tasks[u].p \in Nat
    BY <2>1, <2>2, ProductNat
  <2>5. (x \div tasks[u].p) * tasks[u].p <= y
    BY <1>4, <2>3, <2>4
  <2>6. x \div tasks[u].p <= y \div tasks[u].p
    BY <2>1, <2>2, <2>5, Quotient
  <2> DEFINE i == x \div tasks[u].p + 1
             j == y \div tasks[u].p + 1
  <2>7. i \in Int /\ j \in Int /\ i <= j
    BY <2>2, <2>6
  <2>8. Needs(u, x) = i * tasks[u].c /\ Needs(u, y) = j * tasks[u].c
    BY DEF Needs
  <2> HIDE DEF i, j
  <2>9. Needs(u, x) <= Needs(u, y)
    BY <2>1, <2>7, <2>8, ProductLeq
  <2> QED
    BY <2>9
<1>5. ASSUME NEW y \in Nat, x <= y PROVE SumFunction(f(x)) <= SumFunction(f(y))
  <2>1. f(x) \in [Ids -> Int] /\ f(y) \in [Ids -> Int] /\ \A u \in Ids : f(x)[u] <= f(y)[u]
    BY <1>3, <1>4, <1>5
  <2> HIDE DEF f
  <2> QED
    BY <1>1, <2>1, SumLeq
<1>6. SumFunction(f(x)) \in Nat
  <2> DEFINE z == [u \in Ids |-> 0]
  <2>a. z \in [Ids -> Int] /\ \A u \in Ids : z[u] = 0
    OBVIOUS
  <2>b. f(x) \in [Ids -> Int] /\ \A u \in Ids : f(x)[u] >= 0
    BY <1>3
  <2> HIDE DEF f, z
  <2>1. z \in [Ids -> Int] /\ f(x) \in [Ids -> Int] /\ \A u \in Ids : z[u] <= f(x)[u] /\ z[u] = 0
    BY <2>a, <2>b
  <2>2. SumFunction(z) = 0
    BY <1>1, <2>1, SumOfZeros
  <2>3. SumFunction(z) <= SumFunction(f(x)) /\ SumFunction(f(x)) \in Int
    BY <1>1, <2>1, SumLeq, SumType
  <2> QED
    BY <2>2, <2>3
<1> QED
  BY <1>3, <1>5, <1>6

(* The analysis looks at the task set only.                                *)
LEMMA AnalysisStill ==
  ASSUME tasks' = tasks
  PROVE  /\ Ids' = Ids
         /\ \A t, u : Outranks(u, t)' = Outranks(u, t) /\ OfLevel(u, t)' = OfLevel(u, t)
         /\ \A t : Blocking(t)' = Blocking(t)
         /\ \A t, x : Interference(t, x)' = Interference(t, x)
<1>1. Ids' = Ids
  BY DEF Ids
<1>2. \A t, u : Outranks(u, t)' = Outranks(u, t)
  BY DEF Outranks
<1>3. \A t, u : OfLevel(u, t)' = OfLevel(u, t)
  BY DEF OfLevel, Outranks
<1>4. \A t : Blockings(t)' = Blockings(t)
  BY DEF Blockings, Ids, Outranks
<1>5. \A t : Blocking(t)' = Blocking(t)
  BY <1>4 DEF Blocking
<1>6. \A t, x : Interference(t, x)' = Interference(t, x)
  BY DEF Interference, Ids, Outranks, Needs
<1> QED
  BY <1>1, <1>2, <1>3, <1>5, <1>6

(* While a task that goes before t is ready, t does not start: what has    *)
(* run since t0 and the job about to run belong to the interference.       *)
LEMMA LevelBound ==
  ASSUME TypeOK, PartlyRunIsReady, NoDrift, pc # "idle",
         NEW t \in Ids, NEW t0 \in Nat, NEW k \in [Ids -> Nat], LevelBusy(t, t0, k),
         NEW h \in Ready, Outranks(h, t), NEW x \in Nat, now - t0 <= x
  PROVE  now - t0 + tasks[h].c <= StartsBy(t, jobs[t] - k[t], x)
<1>1. IsFiniteSet(Ids) /\ h \in Ids /\ r[h] <= 0 /\ now \in Nat
  BY FiniteIds DEF Ready, TypeOK
<1>2. \A u \in Ids : /\ tasks[u].c \in Nat /\ tasks[u].c > 0
                     /\ tasks[u].p \in Nat \ {0} /\ r[u] \in Int
                     /\ jobs[u] \in Nat /\ k[u] \in Nat
  BY TaskIds
<1>3. ~Outranks(t, t)
  <2>1. t \in Nat /\ tasks[t].p \in Nat
    BY <1>2, TaskNumbers
  <2> QED
    BY <2>1 DEF Outranks
<1> DEFINE done  == [u \in Ids |-> WorkOfLevel(u, t, k)]
           next  == [u \in Ids |-> IF u = h THEN tasks[h].c ELSE 0]
           own   == [u \in Ids |-> IF u = t THEN (jobs[t] - k[t]) * tasks[t].c ELSE 0]
           other == [u \in Ids |-> IF Outranks(u, t) THEN Needs(u, x) ELSE 0]
           left  == [u \in Ids |-> done[u] + next[u]]
           right == [u \in Ids |-> own[u] + other[u]]
<1>4. ASSUME NEW u \in Ids
      PROVE  done[u] \in Int /\ next[u] \in Int /\ own[u] \in Int /\ other[u] \in Int
  <2>1. (jobs[u] - k[u]) * tasks[u].c \in Int /\ (jobs[t] - k[t]) * tasks[t].c \in Int
        /\ tasks[h].c \in Int
    BY <1>1, <1>2
  <2>2. x \div tasks[u].p \in Nat
    BY <1>2, Quotient
  <2>3. Needs(u, x) \in Int
    BY <1>2, <2>2 DEF Needs
  <2> QED
    BY <2>1, <2>3 DEF WorkOfLevel
<1>5. ASSUME NEW u \in Ids
      PROVE  done[u] + next[u] <= own[u] + other[u]
  <2>1. CASE u = t
    <3>1. u # h /\ OfLevel(u, t) /\ ~Outranks(u, t)
      BY <1>3, <2>1 DEF OfLevel
    <3>2. done[u] = (jobs[t] - k[t]) * tasks[t].c /\ next[u] = 0
          /\ own[u] = (jobs[t] - k[t]) * tasks[t].c /\ other[u] = 0
      BY <2>1, <3>1 DEF WorkOfLevel
    <3> QED
      BY <1>4, <3>2
  <2>2. CASE u # t /\ ~Outranks(u, t)
    <3>1. u # h /\ ~OfLevel(u, t)
      BY <2>2 DEF OfLevel
    <3>2. done[u] = 0 /\ next[u] = 0 /\ own[u] = 0 /\ other[u] = 0
      BY <2>2, <3>1 DEF WorkOfLevel
    <3> QED
      BY <3>2
  <2>3. CASE u # t /\ Outranks(u, t)
    <3> DEFINE c == tasks[u].c
               p == tasks[u].p
               q == x \div p
               i == jobs[u]
               j == k[u]
    <3>1. OfLevel(u, t)
      BY <2>3 DEF OfLevel
    <3>2. j <= i /\ t0 <= j * p /\ (i = j \/ (i - 1) * p <= now)
      BY <3>1 DEF LevelBusy
    <3>3. c \in Nat \ {0} /\ p \in Nat \ {0} /\ i \in Nat /\ j \in Nat /\ r[u] \in Int
      BY <1>2
    <3>4. done[u] = (i - j) * c /\ own[u] = 0 /\ other[u] = (q + 1) * c
      BY <2>3, <3>1 DEF WorkOfLevel, Needs
    <3>5. next[u] = IF u = h THEN c ELSE 0
      OBVIOUS
    <3>6. u = h => i * p <= now
      BY <1>1, <1>2 DEF NoDrift
    <3> HIDE DEF c, p, i, j, done, next, own, other
    <3>7. q \in Nat /\ \A m \in Int : m <= q <=> m * p <= x
      BY <3>3, Quotient
    <3> HIDE DEF q
    <3>8. CASE u = h
      <4>1. (i - j) * p = i * p - j * p /\ i * p \in Int /\ j * p \in Int
        BY <3>3
      <4>2. (i - j) * p <= x /\ i - j \in Int
        BY <1>1, <3>2, <3>3, <3>6, <3>8, <4>1
      <4>3. i - j <= q
        BY <3>7, <4>2
      <4>4. (i - j) * c <= q * c
        BY <3>3, <3>7, <4>2, <4>3, ProductLeq
      <4>5. (q + 1) * c = q * c + c /\ q * c \in Int /\ (i - j) * c \in Int
        BY <3>3, <3>7
      <4> QED
        BY <3>3, <3>4, <3>5, <3>8, <4>4, <4>5
    <3>9. CASE u # h
      <4>1. i - j <= q + 1
        <5>1. CASE i = j
          BY <3>3, <3>7, <5>1
        <5>2. CASE (i - 1) * p <= now
          <6>1. (i - 1 - j) * p = (i - 1) * p - j * p /\ (i - 1) * p \in Int /\ j * p \in Int
            BY <3>3
          <6>2. (i - 1 - j) * p <= x /\ i - 1 - j \in Int
            BY <1>1, <3>2, <3>3, <5>2, <6>1
          <6>3. i - 1 - j <= q
            BY <3>7, <6>2
          <6> QED
            BY <3>3, <3>7, <6>3
        <5> QED
          BY <3>2, <5>1, <5>2
      <4>2. i - j \in Int /\ q + 1 \in Int
        BY <3>3, <3>7
      <4>3. (i - j) * c <= (q + 1) * c
        BY <3>3, <4>1, <4>2, ProductLeq
      <4>4. (q + 1) * c \in Int /\ (i - j) * c \in Int
        BY <3>3, <4>2
      <4> QED
        BY <3>4, <3>5, <3>9, <4>3, <4>4
    <3> QED
      BY <3>8, <3>9
  <2> QED
    BY <2>1, <2>2, <2>3
<1>6. /\ done \in [Ids -> Int] /\ next \in [Ids -> Int]
      /\ own \in [Ids -> Int] /\ other \in [Ids -> Int]
  BY <1>4
<1>7. now - t0 <= Blocking(t) + SumFunction(done)
  BY DEF LevelBusy
<1>8. StartsBy(t, jobs[t] - k[t], x)
        = Blocking(t) + (jobs[t] - k[t]) * tasks[t].c + SumFunction(other)
  BY DEF StartsBy, Interference
<1>9. (jobs[t] - k[t]) * tasks[t].c \in Int /\ tasks[h].c \in Int
  BY <1>1, <1>2
<1>10. SumFunction(next) = tasks[h].c /\ SumFunction(own) = (jobs[t] - k[t]) * tasks[t].c
  <2> DEFINE mine == (jobs[t] - k[t]) * tasks[t].c
             hers == tasks[h].c
  <2>1. mine \in Int /\ hers \in Int
    BY <1>9
  <2> HIDE DEF mine, hers
  <2>2. SumFunction([u \in Ids |-> IF u = h THEN hers ELSE 0]) = hers
    BY <1>1, <2>1, SumOfOne
  <2>3. SumFunction([u \in Ids |-> IF u = t THEN mine ELSE 0]) = mine
    BY <1>1, <2>1, SumOfOne
  <2> QED
    BY <2>2, <2>3 DEF mine, hers
<1> HIDE DEF done, next, own, other
<1>11. left \in [Ids -> Int] /\ right \in [Ids -> Int] /\ \A u \in Ids : left[u] <= right[u]
  BY <1>4, <1>5
<1>12. SumFunction(left) = SumFunction(done) + SumFunction(next)
       /\ SumFunction(right) = SumFunction(own) + SumFunction(other)
  BY <1>1, <1>6, SumOfSums
<1> HIDE DEF left, right
<1>13. SumFunction(left) <= SumFunction(right)
  BY <1>1, <1>11, SumLeq
<1>14. SumFunction(done) \in Int /\ SumFunction(other) \in Int /\ Blocking(t) \in Int
  BY <1>1, <1>6, SumType, BlockingType
<1> QED
  BY <1>1, <1>7, <1>8, <1>9, <1>10, <1>12, <1>13, <1>14

(* A round of a task that goes before t, or of t itself, prolongs the time *)
(* before.                                                                 *)
LEMMA LevelGoesOn ==
  ASSUME IInv, Run, algo = "rma", NEW t \in Ids, NEW t0 \in Nat,
         NEW k \in [Ids -> Nat], LevelBusy(t, t0, k),
         head # NoTask, OfLevel(head, t)
  PROVE  LevelBusy(t, t0, k)'
<1>1. /\ pc = "run" /\ TypeOK /\ PartlyRunIsReady /\ NoDrift /\ TypeOK' /\ pc' # "idle"
      /\ tasks' = tasks /\ Ids' = Ids /\ head \in Ids /\ IsHead(head) /\ now \in Nat
  BY RunIInv, DeltaType DEF Run, IInv, Ids, RunIsCleared, TypeOK
<1>2. \A u \in Ids : /\ tasks[u].c \in Nat /\ tasks[u].c > 0
                     /\ tasks[u].p \in Nat \ {0} /\ r[u] \in Int
                     /\ jobs[u] \in Nat /\ k[u] \in Nat
  BY <1>1, TaskIds
<1> DEFINE c == tasks[head].c
<1>3. Completes /\ Delta = c /\ now' = now + c /\ c \in Nat /\ c > 0
  BY <1>1, <1>2 DEF Completes, Delta, Run
<1>4. head \in Ready /\ r[head] <= 0
  BY <1>1 DEF IsHead, Ready
<1>5. jobs'[head] = jobs[head] + 1 /\ \A u \in Ids : u # head => jobs'[u] = jobs[u]
  BY <1>1, <1>3, RecalcStep
<1>6. /\ \A u \in Ids : OfLevel(u, t)' = OfLevel(u, t)
      /\ Blocking(t)' = Blocking(t)
      /\ \A x \in Nat : Interference(t, x)' = Interference(t, x)
  BY <1>1, AnalysisStill
<1>7. ASSUME NEW u \in Ids, OfLevel(u, t)
      PROVE  /\ k[u] <= jobs'[u] /\ t0 <= k[u] * tasks[u].p
             /\ jobs'[u] = k[u] \/ (jobs'[u] - 1) * tasks[u].p <= now'
  <2>1. /\ k[u] <= jobs[u] /\ t0 <= k[u] * tasks[u].p
        /\ jobs[u] = k[u] \/ (jobs[u] - 1) * tasks[u].p <= now
    BY <1>7 DEF LevelBusy
  <2>2. CASE u = head
    <3>1. jobs[u] * tasks[u].p <= now /\ jobs[u] * tasks[u].p \in Int
      BY <1>1, <1>2, <1>4, <2>2 DEF NoDrift
    <3>2. jobs'[u] - 1 = jobs[u] /\ k[u] <= jobs'[u]
      BY <1>2, <1>5, <2>1, <2>2
    <3> QED
      BY <1>1, <1>3, <2>1, <3>1, <3>2
  <2>3. CASE u # head
    <3>1. jobs'[u] = jobs[u] /\ (jobs[u] - 1) * tasks[u].p \in Int
      BY <1>2, <1>5, <2>3
    <3> QED
      BY <1>1, <1>3, <2>1, <3>1
  <2> QED
    BY <2>2, <2>3
<1> DEFINE f == [u \in Ids |-> WorkOfLevel(u, t, k)]
           g == [u \in Ids |-> WorkOfLevel(u, t, k)']
<1>8. \A u \in Ids : u # head => g[u] = f[u]
  BY <1>1, <1>5, <1>6 DEF WorkOfLevel
<1>9. f \in [Ids -> Int] /\ f[head] = (jobs[head] - k[head]) * c /\ f[head] \in Int
  <2>1. \A u \in Ids : (jobs[u] - k[u]) * tasks[u].c \in Int
    BY <1>2
  <2> QED
    BY <1>1, <2>1 DEF WorkOfLevel
<1>10. g[head] = (jobs[head] + 1 - k[head]) * c
  <2>1. \A u \in Ids : OfLevel(u, t) => g[u] = (jobs'[u] - k[u]) * tasks[u].c
    BY <1>1, <1>6 DEF WorkOfLevel
  <2> HIDE DEF g
  <2>2. g[head] = (jobs'[head] - k[head]) * tasks[head].c
    BY <1>1, <2>1
  <2>3. jobs'[head] - k[head] = jobs[head] + 1 - k[head]
    BY <1>1, <1>2, <1>5
  <2> QED
    BY <2>2, <2>3
<1>11. (jobs[head] + 1 - k[head]) * c = (jobs[head] - k[head]) * c + c
  BY <1>1, <1>2
<1> HIDE DEF f, g, c
<1>12. g[head] = f[head] + c /\ g[head] \in Int
  BY <1>3, <1>9, <1>10, <1>11
<1>13. g \in [Ids -> Int]
  <2>1. \A u \in Ids : g[u] \in Int
    BY <1>8, <1>9, <1>12
  <2> QED
    BY <2>1 DEF g
<1>14. SumFunction(g) = SumFunction(f) + c /\ SumFunction(f) \in Int
  <2>1. SumFunction(g) = SumFunction(f) + (g[head] - f[head])
    BY <1>1, <1>8, <1>9, <1>13, FiniteIds, SumUpdate
  <2>2. SumFunction(f) \in Int
    BY <1>1, <1>9, FiniteIds, SumType
  <2> QED
    BY <1>3, <1>9, <1>12, <2>1, <2>2
<1>15. now' - t0 <= Blocking(t) + SumFunction(g)
  <2>1. now - t0 <= Blocking(t) + SumFunction(f)
    BY DEF LevelBusy, f
  <2>2. Blocking(t) \in Nat
    BY <1>1, BlockingType
  <2> QED
    BY <1>1, <1>3, <1>14, <2>1, <2>2
<1>16. ASSUME NEW x \in Nat,
              Blocking(t) + (jobs'[t] - k[t]) * tasks[t].c + Interference(t, x) <= x
       PROVE  now' - t0 <= x
  <2>1. Blocking(t) \in Nat /\ Interference(t, x) \in Nat
    BY <1>1, BlockingType, InterferenceType
  <2>2. CASE head = t
    <3> DEFINE y == x - c
    <3>1. jobs'[t] - k[t] = jobs[t] - k[t] + 1 /\ jobs[t] - k[t] \in Nat
      <4>1. k[t] <= jobs[t]
        BY DEF LevelBusy, OfLevel
      <4> QED
        BY <1>2, <1>5, <2>2, <4>1
    <3>2. (jobs'[t] - k[t]) * tasks[t].c = (jobs[t] - k[t]) * c + c
          /\ (jobs[t] - k[t]) * c \in Nat /\ tasks[t].c = c
      <4>1. tasks[t].c = c
        BY <2>2 DEF c
      <4>2. (jobs[t] - k[t] + 1) * c = (jobs[t] - k[t]) * c + c
        BY <1>2, <1>3
      <4>3. (jobs[t] - k[t]) * c \in Nat
        BY <1>3, <3>1, ProductNat
      <4> QED
        BY <3>1, <4>1, <4>2, <4>3
    <3>3. y \in Nat /\ y <= x
      BY <1>3, <1>16, <2>1, <3>2
    <3>4. Interference(t, y) \in Nat /\ Interference(t, y) <= Interference(t, x)
      BY <1>1, <3>3, InterferenceType
    <3>5. StartsBy(t, jobs[t] - k[t], y) <= y
      <4>1. StartsBy(t, jobs[t] - k[t], y)
              = Blocking(t) + (jobs[t] - k[t]) * c + Interference(t, y)
        BY <3>2 DEF StartsBy
      <4> QED
        BY <1>3, <1>16, <2>1, <3>2, <3>4, <4>1
    <3>6. now - t0 <= y
      BY <3>3, <3>5 DEF LevelBusy
    <3> QED
      BY <1>1, <1>3, <3>6
  <2>3. CASE head # t
    <3>1. Outranks(head, t) /\ jobs'[t] = jobs[t]
      BY <1>5, <2>3 DEF OfLevel
    <3>2. StartsBy(t, jobs[t] - k[t], x)
            = Blocking(t) + (jobs[t] - k[t]) * tasks[t].c + Interference(t, x)
      BY DEF StartsBy
    <3>3. StartsBy(t, jobs[t] - k[t], x) <= x
      BY <1>16, <3>1, <3>2
    <3>4. now - t0 <= x
      BY <3>3 DEF LevelBusy
    <3>5. now - t0 + c <= StartsBy(t, jobs[t] - k[t], x)
      BY <1>1, <1>4, <3>1, <3>4, LevelBound DEF c
    <3>6. StartsBy(t, jobs[t] - k[t], x) \in Int
      <4>1. (jobs[t] - k[t]) * tasks[t].c \in Int
        BY <1>2
      <4> QED
        BY <2>1, <3>2, <4>1
    <3> QED
      BY <1>1, <1>3, <3>3, <3>5, <3>6
  <2> QED
    BY <2>2, <2>3
<1>17. SumFunction([u \in Ids |-> WorkOfLevel(u, t, k)])' = SumFunction(g)
  BY <1>1 DEF g
<1>18. ASSUME NEW x \in Nat
       PROVE  StartsBy(t, jobs[t] - k[t], x)'
                = Blocking(t) + (jobs'[t] - k[t]) * tasks[t].c + Interference(t, x)
  BY <1>1, <1>6 DEF StartsBy
<1>19. (now - t0 <= Blocking(t) + SumFunction([u \in Ids |-> WorkOfLevel(u, t, k)]))'
  BY <1>6, <1>15, <1>17
<1>20. (\A x \in Nat : StartsBy(t, jobs[t] - k[t], x) <= x => now - t0 <= x)'
  BY <1>16, <1>18
<1>21. (\A u \in Ids : OfLevel(u, t) =>
          /\ k[u] <= jobs[u] /\ t0 <= k[u] * tasks[u].p
          /\ jobs[u] = k[u] \/ (jobs[u] - 1) * tasks[u].p <= now)'
  BY <1>1, <1>6, <1>7
<1> QED
  BY <1>19, <1>20, <1>21 DEF LevelBusy

(* After a round of a task that t goes before, or of nobody, what goes     *)
(* before t and is pending was released while it lasted.                   *)
LEMMA LevelAnew ==
  ASSUME IInv, Run, algo = "rma", NEW t \in Ids,
         ~(head # NoTask /\ OfLevel(head, t)),
         NEW t0, t0 = (IF head = NoTask THEN now' ELSE now + 1), NEW k, k = jobs'
  PROVE  t0 \in Nat /\ k \in [Ids -> Nat] /\ LevelBusy(t, t0, k)'
<1>1. /\ pc = "run" /\ TypeOK /\ PartlyRunIsReady /\ NoDrift /\ TypeOK' /\ pc' # "idle"
      /\ tasks' = tasks /\ Ids' = Ids /\ IsHead(head) /\ now \in Nat
  BY RunIInv DEF Run, IInv, Ids, RunIsCleared, TypeOK
<1>2. \A u \in Ids : /\ tasks[u].c \in Nat /\ tasks[u].c > 0
                     /\ tasks[u].p \in Nat \ {0} /\ r[u] \in Int
                     /\ jobs[u] \in Nat
  BY <1>1, TaskIds
<1>3. now' = now + Delta /\ Delta \in Nat /\ Delta > 0 /\ now' \in Nat
  BY <1>1, DeltaType DEF Run
<1>4. t0 \in Nat /\ t0 <= now'
  BY <1>1, <1>3
<1>5. jobs' \in [Ids -> Nat]
  BY <1>1 DEF TypeOK
<1>6. /\ \A u \in Ids : OfLevel(u, t)' = OfLevel(u, t)
      /\ Blocking(t)' = Blocking(t)
      /\ \A x \in Nat : Interference(t, x)' = Interference(t, x)
  BY <1>1, AnalysisStill
<1>7. now' - t0 <= Blocking(t) /\ Blocking(t) \in Nat
  <2>1. Blocking(t) \in Nat
    BY <1>1, BlockingType
  <2>2. CASE head = NoTask
    BY <1>3, <2>1, <2>2
  <2>3. CASE head # NoTask
    <3>1. head \in Ids \ {t} /\ ~Outranks(head, t)
      BY <1>1, <2>3, DeltaType DEF OfLevel
    <3>2. tasks[head].c - 1 <= Blocking(t)
      BY <1>1, <3>1, BlockingType
    <3>3. Delta = tasks[head].c
      BY <2>3 DEF Delta
    <3> QED
      BY <1>1, <1>2, <1>3, <2>1, <2>3, <3>1, <3>2, <3>3
  <2> QED
    BY <2>1, <2>2, <2>3
<1>8. ASSUME NEW u \in Ids, OfLevel(u, t)
      PROVE  t0 <= jobs'[u] * tasks[u].p
  <2>1. r[u] > 0
    <3> SUFFICES ASSUME r[u] <= 0 PROVE FALSE
      BY <1>2
    <3>1. u \in Ready /\ head \in Ready /\ (u = head \/ Before(head, u))
      BY <1>1 DEF Ready, IsHead
    <3>2. head \in Ids /\ head # NoTask /\ u # head
      BY <1>1, <1>8, <3>1, TaskIds DEF Ready
    <3>3. Outranks(head, u)
      BY <3>1, <3>2 DEF Before, Key, RmaKey, Outranks
    <3>4. /\ head \in Nat /\ u \in Nat /\ t \in Nat
          /\ tasks[head].p \in Nat /\ tasks[u].p \in Nat /\ tasks[t].p \in Nat
      BY <1>1, <1>2, <3>2, TaskNumbers
    <3>5. Outranks(head, t)
      BY <1>8, <3>3, <3>4 DEF OfLevel, Outranks
    <3> QED
      BY <3>2, <3>5 DEF OfLevel
  <2>2. u # head
    BY <1>1, <1>2, <2>1, DeltaType, TaskIds
  <2>3. jobs'[u] = jobs[u]
    BY <2>2, RecalcStep
  <2>4. now + r[u] = jobs[u] * tasks[u].p
    BY <1>1 DEF NoDrift
  <2>5. CASE head = NoTask
    <3>1. Ready = {} /\ Delta = MinR
      BY <1>1, <2>5, DeltaType DEF Delta
    <3>2. Delta <= r[u]
      BY <1>1, <3>1, MinRType
    <3> QED
      BY <1>1, <1>2, <1>3, <2>3, <2>4, <2>5, <3>2
  <2>6. CASE head # NoTask
    BY <1>1, <1>2, <2>1, <2>3, <2>4, <2>6
  <2> QED
    BY <2>5, <2>6
<1> DEFINE g == [u \in Ids |-> WorkOfLevel(u, t, k)']
<1>9. \A u \in Ids : g[u] = 0
  <2> SUFFICES ASSUME NEW u \in Ids PROVE WorkOfLevel(u, t, k)' = 0
    OBVIOUS
  <2>1. (jobs'[u] - k[u]) * tasks'[u].c = 0
    BY <1>1, <1>2, <1>5
  <2> QED
    BY <2>1 DEF WorkOfLevel
<1>10. SumFunction(g) = 0
  <2>1. g \in [Ids -> Int]
    BY <1>9
  <2> HIDE DEF g
  <2> QED
    BY <1>1, <1>9, <2>1, FiniteIds, SumOfZeros
<1>11. SumFunction([u \in Ids |-> WorkOfLevel(u, t, k)])' = SumFunction(g)
  BY <1>1
<1> HIDE DEF g
<1>12. (now - t0 <= Blocking(t) + SumFunction([u \in Ids |-> WorkOfLevel(u, t, k)]))'
  BY <1>6, <1>7, <1>10, <1>11
<1>13. ASSUME NEW x \in Nat, StartsBy(t, jobs[t] - k[t], x)' <= x
       PROVE  now' - t0 <= x
  <2>1. StartsBy(t, jobs[t] - k[t], x)'
          = Blocking(t) + (jobs'[t] - k[t]) * tasks[t].c + Interference(t, x)
    BY <1>1, <1>6 DEF StartsBy
  <2>2. (jobs'[t] - k[t]) * tasks[t].c = 0
    BY <1>2, <1>5
  <2>3. Interference(t, x) \in Nat
    BY <1>1, InterferenceType
  <2> QED
    BY <1>3, <1>4, <1>7, <1>13, <2>1, <2>2, <2>3
<1>14. (\A x \in Nat : StartsBy(t, jobs[t] - k[t], x) <= x => now - t0 <= x)'
  BY <1>13
<1>15. (\A u \in Ids : OfLevel(u, t) =>
          /\ k[u] <= jobs[u] /\ t0 <= k[u] * tasks[u].p
          /\ jobs[u] = k[u] \/ (jobs[u] - 1) * tasks[u].p <= now)'
  BY <1>1, <1>5, <1>6, <1>8
<1>16. LevelBusy(t, t0, k)'
  BY <1>12, <1>14, <1>15 DEF LevelBusy
<1> QED
  BY <1>4, <1>5, <1>16

LEMMA LevelStill ==
  ASSUME UNCHANGED <<tasks, jobs, now>>
  PROVE  \A t, t0, k : LevelBusy(t, t0, k) => LevelBusy(t, t0, k)'
<1> SUFFICES ASSUME NEW t, NEW t0, NEW k, LevelBusy(t, t0, k) PROVE LevelBusy(t, t0, k)'
  OBVIOUS
<1>1. /\ Ids' = Ids
      /\ \A u \in Ids : OfLevel(u, t)' = OfLevel(u, t)
      /\ Blocking(t)' = Blocking(t)
      /\ \A x \in Nat : Interference(t, x)' = Interference(t, x)
  BY AnalysisStill
<1>2. \A u \in Ids : WorkOfLevel(u, t, k)' = WorkOfLevel(u, t, k)
  BY <1>1 DEF WorkOfLevel
<1>3. SumFunction([u \in Ids |-> WorkOfLevel(u, t, k)])'
        = SumFunction([u \in Ids |-> WorkOfLevel(u, t, k)])
  BY <1>1, <1>2
<1>4. \A x \in Nat : StartsBy(t, jobs[t] - k[t], x)' = StartsBy(t, jobs[t] - k[t], x)
  BY <1>1 DEF StartsBy
<1> QED
  BY <1>1, <1>3, <1>4 DEF LevelBusy

Typed ==
  IsFiniteSet(Ids) /\ \A u \in Ids :
    /\ Blocking(u) \in Nat
    /\ \A x \in Nat : Interference(u, x) \in Nat
    /\ tasks[u].c \in Nat /\ tasks[u].p \in Nat

LEMMA AnalysisType == TypeOK /\ pc # "idle" => Typed
  BY FiniteIds, BlockingType, InterferenceType, TaskIds DEF Typed

(* prime_algo releases everything at once, and nobody blocks.              *)
LEMMA LevelAtFirst ==
  ASSUME IInv, Prime, NEW t \in Ids', NEW k, k = [u \in Ids' |-> 0]
  PROVE  LevelBusy(t, 0, k)'
<1>1. /\ pc' = "schedule" /\ pc' # "idle" /\ now' = 0 /\ TypeOK' /\ Ids' = DOMAIN tasks'
      /\ \A u \in Ids' : jobs'[u] = 0
  BY PrimeIInv DEF Prime, IInv, Ids
<1>2. /\ (IsFiniteSet(Ids))'
      /\ (Blocking(t) \in Nat)'
      /\ (\A x \in Nat : Interference(t, x) \in Nat)'
      /\ (\A u \in Ids : tasks[u].c \in Nat /\ tasks[u].p \in Nat)'
  <2>1. (TypeOK /\ pc # "idle")'
    BY <1>1
  <2>2. Typed'
    BY <2>1, AnalysisType, PTL
  <2> QED
    BY <2>2 DEF Typed
<1> DEFINE g == [u \in Ids' |-> WorkOfLevel(u, t, k)']
<1>3. \A u \in Ids' : g[u] = 0
  <2> SUFFICES ASSUME NEW u \in Ids' PROVE WorkOfLevel(u, t, k)' = 0
    OBVIOUS
  <2>1. (0 - 0) * tasks'[u].c = 0
    BY <1>2
  <2>2. k[u] = 0 /\ jobs'[u] = 0
    BY <1>1
  <2> QED
    BY <2>1, <2>2 DEF WorkOfLevel
<1>4. SumFunction(g) = 0
  <2>1. g \in [Ids' -> Int]
    BY <1>3
  <2> HIDE DEF g
  <2> QED
    BY <1>2, <1>3, <2>1, SumOfZeros
<1>5. SumFunction([u \in Ids |-> WorkOfLevel(u, t, k)])' = SumFunction(g)
  OBVIOUS
<1>6. ASSUME NEW x \in Nat, StartsBy(t, jobs[t] - k[t], x)' <= x PROVE now' - 0 <= x
  BY <1>1, <1>6
<1>7. \A u \in Ids' : /\ k[u] <= jobs'[u] /\ 0 <= k[u] * tasks'[u].p
                      /\ jobs'[u] = k[u]
  BY <1>1, <1>2
<1> HIDE DEF g
<1>8. (now - 0 <= Blocking(t) + SumFunction([u \in Ids |-> WorkOfLevel(u, t, k)]))'
  BY <1>1, <1>2, <1>4, <1>5
<1>9. (\A x \in Nat : StartsBy(t, jobs[t] - k[t], x) <= x => now - 0 <= x)'
  BY <1>6
<1>10. (\A u \in Ids : OfLevel(u, t) =>
          /\ k[u] <= jobs[u] /\ 0 <= k[u] * tasks[u].p
          /\ jobs[u] = k[u] \/ (jobs[u] - 1) * tasks[u].p <= now)'
  BY <1>7
<1> QED
  BY <1>8, <1>9, <1>10 DEF LevelBusy

(* The invariant behind the response times of RMA.                         *)
LEMMA NextLevels ==
  ASSUME IInv, LevelsBusy, [Next]_vars
  PROVE  LevelsBusy'
<1>1. CASE Prime
  <2>1. ASSUME NEW t \in Ids'
        PROVE  \E t0 \in Nat : \E k \in [Ids' -> Nat] : LevelBusy(t, t0, k)'
    <3>1. \A k : k = [u \in Ids' |-> 0] => LevelBusy(t, 0, k)'
      BY <1>1, LevelAtFirst
    <3>2. [u \in Ids' |-> 0] \in [Ids' -> Nat]
      OBVIOUS
    <3> QED
      BY <3>1, <3>2
  <2> QED
    BY <2>1 DEF LevelsBusy
<1>2. CASE Schedule
  <2>1. pc # "idle" /\ UNCHANGED <<algo, tasks, jobs, now>> /\ Ids' = Ids
    BY <1>2 DEF Schedule, Ids
  <2> QED
    BY <2>1, LevelStill DEF LevelsBusy
<1>3. CASE Run
  <2>1. pc = "run" /\ algo' = algo /\ Ids' = Ids
    BY <1>3 DEF Run, Ids
  <2>2. ASSUME algo = "rma", NEW t \in Ids
        PROVE  \E t0 \in Nat : \E k \in [Ids -> Nat] : LevelBusy(t, t0, k)'
    <3>1. CASE head # NoTask /\ OfLevel(head, t)
      <4>1. PICK t0 \in Nat, k \in [Ids -> Nat] : LevelBusy(t, t0, k)
        BY <2>1, <2>2 DEF LevelsBusy
      <4>2. LevelBusy(t, t0, k)'
        BY <1>3, <2>2, <3>1, <4>1, LevelGoesOn
      <4> QED
        BY <4>1, <4>2
    <3>2. CASE ~(head # NoTask /\ OfLevel(head, t))
      <4>1. \A t0, k : t0 = (IF head = NoTask THEN now' ELSE now + 1) /\ k = jobs'
              => t0 \in Nat /\ k \in [Ids -> Nat] /\ LevelBusy(t, t0, k)'
        BY <1>3, <2>2, <3>2, LevelAnew
      <4> QED
        BY <4>1
    <3> QED
      BY <3>1, <3>2
  <2> QED
    BY <2>1, <2>2 DEF LevelsBusy
<1>4. CASE Halt
  BY <1>4 DEF Halt, LevelsBusy
<1>5. CASE UNCHANGED vars
  <2>1. UNCHANGED <<pc, algo, tasks, jobs, now>> /\ Ids' = Ids
    BY <1>5 DEF vars, Ids
  <2> QED
    BY <2>1, LevelStill DEF LevelsBusy
<1> QED
  BY <1>1, <1>2, <1>3, <1>4, <1>5 DEF Next

(* The job that does not fit has waited longer than the analysis says.     *)
LEMMA TooLongAWait ==
  ASSUME IInv, FailedForATask, LevelsBusy,
         pc = "halt", algo = "rma", ~schedulable
  PROVE  \E t \in Ids : \E n \in 0..jobs[t] : ~Responsive(t, n)
<1>1. TypeOK /\ PartlyRunIsReady /\ NoDrift /\ pc # "idle" /\ now \in Nat
  BY DEF IInv, TypeOK
<1>2. PICK late \in Ready : ~Fits(late, head)
  BY DEF FailedForATask
<1>3. head \in Ready /\ (late # head => Before(head, late))
  BY <1>2 DEF FailedForATask, IsHead
<1>4. late \in Ids /\ head \in Ids
  BY <1>2, <1>3 DEF Ready
<1>5. PICK t0 \in Nat, k \in [Ids -> Nat] : LevelBusy(late, t0, k)
  BY <1>1, <1>4 DEF LevelsBusy
<1> DEFINE c == tasks[late].c
           p == tasks[late].p
           d == tasks[late].d
           n == jobs[late] - k[late]
<1>6. /\ c \in Nat /\ c > 0 /\ p \in Nat \ {0} /\ d \in Nat /\ r[late] \in Int
      /\ jobs[late] \in Nat /\ k[late] \in Nat /\ a[late] = 0
      /\ tasks[head].c \in Nat /\ tasks[head].c > 0 /\ t0 \in Nat
  BY <1>1, <1>4, TaskIds DEF PartlyRunIsReady
<1>7. k[late] <= jobs[late] /\ t0 <= k[late] * p
  BY <1>4, <1>5 DEF LevelBusy, OfLevel
<1>8. n \in 0..jobs[late]
  BY <1>6, <1>7
<1>9. jobs[late] * p = now + r[late]
  BY <1>1, <1>4 DEF NoDrift
<1>10. IF late = head THEN c > d + r[late] ELSE c >= d + r[late]
  BY <1>2, <1>4, <1>6 DEF Fits, CompletionTime, RemainingTime
<1>11. n * p = jobs[late] * p - k[late] * p /\ n * p \in Int /\ k[late] * p \in Int
       /\ jobs[late] * p \in Int
  BY <1>6
<1>12. SUFFICES ASSUME Responsive(late, n) PROVE FALSE
  BY <1>4, <1>8
<1>13. PICK x \in 0..(n * p + d - c) : StartsBy(late, n, x) <= x
  BY <1>12 DEF Responsive
<1>14. x \in Nat /\ x <= n * p + d - c
  BY <1>6, <1>11, <1>13
<1>15. now - t0 <= x
  BY <1>5, <1>13, <1>14 DEF LevelBusy
<1>16. CASE late = head
  <2>1. now - t0 > n * p + d - c
    <3> HIDE DEF c, p, d, n
    <3> QED
      BY <1>1, <1>6, <1>7, <1>9, <1>10, <1>11, <1>16
  <2> HIDE DEF c, p, d, n
  <2> QED
    BY <1>1, <1>6, <1>11, <1>14, <1>15, <2>1
<1>17. CASE late # head
  <2>1. Outranks(head, late)
    BY <1>1, <1>3, <1>17 DEF Before, Key, RmaKey, Outranks
  <2>2. now - t0 + tasks[head].c <= StartsBy(late, n, x)
    BY <1>1, <1>3, <1>4, <1>5, <1>6, <1>14, <1>15, <2>1, LevelBound
  <2>3. StartsBy(late, n, x) \in Int
    <3>1. Blocking(late) \in Nat /\ Interference(late, x) \in Nat
      BY <1>1, <1>4, <1>14, BlockingType, InterferenceType
    <3>2. n * tasks[late].c \in Int
      BY <1>6, <1>8
    <3> QED
      BY <3>1, <3>2 DEF StartsBy
  <2>4. now - t0 >= n * p + d - c
    <3> HIDE DEF c, p, d, n
    <3> QED
      BY <1>1, <1>6, <1>7, <1>9, <1>10, <1>11, <1>17
  <2> HIDE DEF c, p, d, n
  <2> QED
    BY <1>1, <1>6, <1>11, <1>13, <1>14, <2>2, <2>3, <2>4
<1> QED
  BY <1>16, <1>17

(* RMA fails only task sets that the response-time analysis of fixed       *)
(* priorities without preemption fails, too (rma_comparator, rma_recalc    *)
(* and the check of fixt_algo_schedule).                                   *)
THEOREM RmaFailsAsAnalysed == Spec => []RmaFailsOnlyIfUnresponsive
<1>1. Init => FailedForATask /\ BusyUntilDone /\ LevelsBusy
  BY DEF Init, FailedForATask, BusyUntilDone, LevelsBusy
<1>2. IInv /\ FailedForATask /\ BusyUntilDone /\ LevelsBusy /\ [Next]_vars
        => FailedForATask' /\ BusyUntilDone' /\ LevelsBusy'
  BY NextBusy, NextLevels
<1>3. IInv /\ FailedForATask /\ LevelsBusy => RmaFailsOnlyIfUnresponsive
  BY TooLongAWait DEF RmaFailsOnlyIfUnresponsive
<1> QED
  BY <1>1, <1>2, <1>3, Invariance, PTL DEF Spec
-----------------------------------------------------------------------------
(* What the analysis reserves for task i within x quanta.                  *)
Share(i, t, x) == IF i \in Ids /\ Outranks(i, t) THEN Needs(i, x) ELSE 0

(* A job starts in time if the analysis says so of the last moment at      *)
(* which it can; for a set of at most five tasks.                          *)
LEMMA ResponsiveIf ==
  ASSUME TypeOK, pc # "idle", Ids \subseteq 1..5, NEW t \in Ids, NEW k \in Nat,
         NEW x \in Nat, x = k * tasks[t].p + tasks[t].d - tasks[t].c,
         NEW b \in Nat, \A u \in Ids \ {t} : ~Outranks(u, t) => tasks[u].c - 1 <= b,
         b + k * tasks[t].c + (Share(1, t, x) + Share(2, t, x) + Share(3, t, x)
                               + Share(4, t, x) + Share(5, t, x)) <= x
  PROVE  Responsive(t, k)
<1> DEFINE f == [u \in Ids |-> IF Outranks(u, t) THEN Needs(u, x) ELSE 0]
           v == [i \in 1..5 |-> Share(i, t, x)]
<1>1. Blocking(t) \in Nat /\ Blocking(t) <= b
  <2>1. Blocking(t) \in Nat
    BY BlockingType
  <2>2. \/ Blocking(t) = 0
        \/ \E u \in Ids \ {t} : ~Outranks(u, t) /\ Blocking(t) = tasks[u].c - 1
    BY BlockingType
  <2>3. \A u \in Ids \ {t} : ~Outranks(u, t) => tasks[u].c - 1 <= b
    OBVIOUS
  <2>4. 0 <= b
    OBVIOUS
  <2> QED
    BY <2>1, <2>2, <2>3, <2>4
<1>2. f \in [Ids -> Int] /\ v \in [1..5 -> Int]
  <2>1. ASSUME NEW u \in Ids PROVE Needs(u, x) \in Int
    <3>1. tasks[u].p \in Nat \ {0} /\ tasks[u].c \in Nat
      BY TaskIds
    <3>2. x \div tasks[u].p \in Nat
      BY <3>1, Quotient
    <3> QED
      BY <3>1, <3>2 DEF Needs
  <2> QED
    BY <2>1 DEF Share
<1>3. \A i \in 1..5 : v[i] = IF i \in Ids THEN f[i] ELSE 0
  BY DEF Share
<1>4. Interference(t, x) = SumFunction(f)
  BY DEF Interference
<1>5. /\ v[1] = Share(1, t, x) /\ v[2] = Share(2, t, x) /\ v[3] = Share(3, t, x)
      /\ v[4] = Share(4, t, x) /\ v[5] = Share(5, t, x)
  OBVIOUS
<1> HIDE DEF f, v
<1> DEFINE sum  == v[1] + v[2] + v[3] + v[4] + v[5]
           mine == k * tasks[t].c
<1>6. SumFunction(f) = sum
  BY <1>2, <1>3, SumOfFive
<1>7. sum \in Int
  BY <1>2
<1>8. mine \in Int /\ k * tasks[t].p + tasks[t].d - tasks[t].c \in Int
  <2>1. tasks[t].c \in Nat /\ tasks[t].p \in Nat /\ tasks[t].d \in Nat
    BY TaskIds
  <2> QED
    BY <2>1
<1>9. b + mine + sum <= x
  BY <1>5
<1>10. StartsBy(t, k, x) = Blocking(t) + mine + sum
  BY <1>4, <1>6 DEF StartsBy
<1> HIDE DEF sum, mine
<1>11. StartsBy(t, k, x) <= x
  BY <1>1, <1>7, <1>8, <1>9, <1>10
<1>12. x \in 0..(k * tasks[t].p + tasks[t].d - tasks[t].c)
  BY <1>8
<1> QED
  BY <1>11, <1>12 DEF Responsive

LEMMA FirstSetResponds ==
  ASSUME TypeOK, pc # "idle", tasks = Set1, NEW t \in Ids, NEW k \in Nat
  PROVE  Responsive(t, k)
<1>1. /\ Ids = 1..5
      /\ tasks[1].c = 1 /\ tasks[1].p = 7 /\ tasks[1].d = 7
      /\ tasks[2].c = 2 /\ tasks[2].p = 5 /\ tasks[2].d = 5
      /\ tasks[3].c = 1 /\ tasks[3].p = 8 /\ tasks[3].d = 8
      /\ tasks[4].c = 1 /\ tasks[4].p = 10 /\ tasks[4].d = 10
      /\ tasks[5].c = 2 /\ tasks[5].p = 16 /\ tasks[5].d = 16
  BY DEF Ids, Set1, Tuple
<1>2. Ids \subseteq 1..5
  BY <1>1
<1>3. CASE t = 1
  <2> DEFINE x == 7 * k + 6
  <2>1. x = k * tasks[t].p + tasks[t].d - tasks[t].c /\ x \in Nat /\ 1 \in Nat
    BY <1>1, <1>3
  <2>2. /\ Share(1, t, x) = 0
        /\ Share(2, t, x) = (x \div 5 + 1) * 2
        /\ Share(3, t, x) = 0
        /\ Share(4, t, x) = 0
        /\ Share(5, t, x) = 0
    BY <1>1, <1>3 DEF Share, Outranks, Needs
  <2>3. \A u \in Ids \ {t} : ~Outranks(u, t) => tasks[u].c - 1 <= 1
    BY <1>1, <1>3 DEF Outranks
  <2>4. 1 + k * tasks[t].c + (Share(1, t, x) + Share(2, t, x) + Share(3, t, x)
                                + Share(4, t, x) + Share(5, t, x)) <= x
    BY <1>1, <1>3, <2>2
  <2> HIDE DEF x
  <2> QED
    BY <1>2, <2>1, <2>3, <2>4, ResponsiveIf
<1>4. CASE t = 2
  <2> DEFINE x == 5 * k + 3
  <2>1. x = k * tasks[t].p + tasks[t].d - tasks[t].c /\ x \in Nat /\ 1 \in Nat
    BY <1>1, <1>4
  <2>2. /\ Share(1, t, x) = 0
        /\ Share(2, t, x) = 0
        /\ Share(3, t, x) = 0
        /\ Share(4, t, x) = 0
        /\ Share(5, t, x) = 0
    BY <1>1, <1>4 DEF Share, Outranks, Needs
  <2>3. \A u \in Ids \ {t} : ~Outranks(u, t) => tasks[u].c - 1 <= 1
    BY <1>1, <1>4 DEF Outranks
  <2>4. 1 + k * tasks[t].c + (Share(1, t, x) + Share(2, t, x) + Share(3, t, x)
                                + Share(4, t, x) + Share(5, t, x)) <= x
    BY <1>1, <1>4, <2>2
  <2> HIDE DEF x
  <2> QED
    BY <1>2, <2>1, <2>3, <2>4, ResponsiveIf
<1>5. CASE t = 3
  <2> DEFINE x == 8 * k + 7
  <2>1. x = k * tasks[t].p + tasks[t].d - tasks[t].c /\ x \in Nat /\ 1 \in Nat
    BY <1>1, <1>5
  <2>2. /\ Share(1, t, x) = (x \div 7 + 1) * 1
        /\ Share(2, t, x) = (x \div 5 + 1) * 2
        /\ Share(3, t, x) = 0
        /\ Share(4, t, x) = 0
        /\ Share(5, t, x) = 0
    BY <1>1, <1>5 DEF Share, Outranks, Needs
  <2>3. \A u \in Ids \ {t} : ~Outranks(u, t) => tasks[u].c - 1 <= 1
    BY <1>1, <1>5 DEF Outranks
  <2>4. 1 + k * tasks[t].c + (Share(1, t, x) + Share(2, t, x) + Share(3, t, x)
                                + Share(4, t, x) + Share(5, t, x)) <= x
    BY <1>1, <1>5, <2>2
  <2> HIDE DEF x
  <2> QED
    BY <1>2, <2>1, <2>3, <2>4, ResponsiveIf
<1>6. CASE t = 4
  <2> DEFINE x == 10 * k + 9
  <2>1. x = k * tasks[t].p + tasks[t].d - tasks[t].c /\ x \in Nat /\ 1 \in Nat
    BY <1>1, <1>6
  <2>2. /\ Share(1, t, x) = (x \div 7 + 1) * 1
        /\ Share(2, t, x) = (x \div 5 + 1) * 2
        /\ Share(3, t, x) = (x \div 8 + 1) * 1
        /\ Share(4, t, x) = 0
        /\ Share(5, t, x) = 0
    BY <1>1, <1>6 DEF Share, Outranks, Needs
  <2>3. \A u \in Ids \ {t} : ~Outranks(u, t) => tasks[u].c - 1 <= 1
    BY <1>1, <1>6 DEF Outranks
  <2>4. 1 + k * tasks[t].c + (Share(1, t, x) + Share(2, t, x) + Share(3, t, x)
                                + Share(4, t, x) + Share(5, t, x)) <= x
    BY <1>1, <1>6, <2>2
  <2> HIDE DEF x
  <2> QED
    BY <1>2, <2>1, <2>3, <2>4, ResponsiveIf
<1>7. CASE t = 5
  <2> DEFINE x == 16 * k + 14
  <2>1. x = k * tasks[t].p + tasks[t].d - tasks[t].c /\ x \in Nat /\ 0 \in Nat
    BY <1>1, <1>7
  <2>2. /\ Share(1, t, x) = (x \div 7 + 1) * 1
        /\ Share(2, t, x) = (x \div 5 + 1) * 2
        /\ Share(3, t, x) = (x \div 8 + 1) * 1
        /\ Share(4, t, x) = (x \div 10 + 1) * 1
        /\ Share(5, t, x) = 0
    BY <1>1, <1>7 DEF Share, Outranks, Needs
  <2>3. \A u \in Ids \ {t} : ~Outranks(u, t) => tasks[u].c - 1 <= 0
    BY <1>1, <1>7 DEF Outranks
  <2>4. 0 + k * tasks[t].c + (Share(1, t, x) + Share(2, t, x) + Share(3, t, x)
                                + Share(4, t, x) + Share(5, t, x)) <= x
    BY <1>1, <1>7, <2>2
  <2> HIDE DEF x
  <2> QED
    BY <1>2, <2>1, <2>3, <2>4, ResponsiveIf
<1> QED
  BY <1>1, <1>3, <1>4, <1>5, <1>6, <1>7

LEMMA SecondSetResponds ==
  ASSUME TypeOK, pc # "idle", tasks = Set2, NEW t \in Ids, NEW k \in Nat
  PROVE  Responsive(t, k)
<1>1. /\ Ids = 1..3
      /\ tasks[1].c = 1 /\ tasks[1].p = 3 /\ tasks[1].d = 3
      /\ tasks[2].c = 2 /\ tasks[2].p = 5 /\ tasks[2].d = 5
      /\ tasks[3].c = 1 /\ tasks[3].p = 10 /\ tasks[3].d = 10
  BY DEF Ids, Set2, Tuple
<1>2. Ids \subseteq 1..5
  BY <1>1
<1>3. CASE t = 1
  <2> DEFINE x == 3 * k + 2
  <2>1. x = k * tasks[t].p + tasks[t].d - tasks[t].c /\ x \in Nat /\ 1 \in Nat
    BY <1>1, <1>3
  <2>2. /\ Share(1, t, x) = 0
        /\ Share(2, t, x) = 0
        /\ Share(3, t, x) = 0
        /\ Share(4, t, x) = 0
        /\ Share(5, t, x) = 0
    BY <1>1, <1>3 DEF Share, Outranks, Needs
  <2>3. \A u \in Ids \ {t} : ~Outranks(u, t) => tasks[u].c - 1 <= 1
    BY <1>1, <1>3 DEF Outranks
  <2>4. 1 + k * tasks[t].c + (Share(1, t, x) + Share(2, t, x) + Share(3, t, x)
                                + Share(4, t, x) + Share(5, t, x)) <= x
    BY <1>1, <1>3, <2>2
  <2> HIDE DEF x
  <2> QED
    BY <1>2, <2>1, <2>3, <2>4, ResponsiveIf
<1>4. CASE t = 2
  <2> DEFINE x == 5 * k + 3
  <2>1. x = k * tasks[t].p + tasks[t].d - tasks[t].c /\ x \in Nat /\ 0 \in Nat
    BY <1>1, <1>4
  <2>2. /\ Share(1, t, x) = (x \div 3 + 1) * 1
        /\ Share(2, t, x) = 0
        /\ Share(3, t, x) = 0
        /\ Share(4, t, x) = 0
        /\ Share(5, t, x) = 0
    BY <1>1, <1>4 DEF Share, Outranks, Needs
  <2>3. \A u \in Ids \ {t} : ~Outranks(u, t) => tasks[u].c - 1 <= 0
    BY <1>1, <1>4 DEF Outranks
  <2>4. 0 + k * tasks[t].c + (Share(1, t, x) + Share(2, t, x) + Share(3, t, x)
                                + Share(4, t, x) + Share(5, t, x)) <= x
    BY <1>1, <1>4, <2>2
  <2> HIDE DEF x
  <2> QED
    BY <1>2, <2>1, <2>3, <2>4, ResponsiveIf
<1>5. CASE t = 3
  <2> DEFINE x == 10 * k + 9
  <2>1. x = k * tasks[t].p + tasks[t].d - tasks[t].c /\ x \in Nat /\ 0 \in Nat
    BY <1>1, <1>5
  <2>2. /\ Share(1, t, x) = (x \div 3 + 1) * 1
        /\ Share(2, t, x) = (x \div 5 + 1) * 2
        /\ Share(3, t, x) = 0
        /\ Share(4, t, x) = 0
        /\ Share(5, t, x) = 0
    BY <1>1, <1>5 DEF Share, Outranks, Needs
  <2>3. \A u \in Ids \ {t} : ~Outranks(u, t) => tasks[u].c - 1 <= 0
    BY <1>1, <1>5 DEF Outranks
  <2>4. 0 + k * tasks[t].c + (Share(1, t, x) + Share(2, t, x) + Share(3, t, x)
                                + Share(4, t, x) + Share(5, t, x)) <= x
    BY <1>1, <1>5, <2>2
  <2> HIDE DEF x
  <2> QED
    BY <1>2, <2>1, <2>3, <2>4, ResponsiveIf
<1> QED
  BY <1>1, <1>3, <1>4, <1>5

LEMMA ThirdSetResponds ==
  ASSUME TypeOK, pc # "idle", tasks = Set3, NEW t \in Ids, NEW k \in Nat
  PROVE  Responsive(t, k)
<1>1. /\ Ids = 1..4
      /\ tasks[1].c = 1 /\ tasks[1].p = 4 /\ tasks[1].d = 4
      /\ tasks[2].c = 2 /\ tasks[2].p = 5 /\ tasks[2].d = 5
      /\ tasks[3].c = 1 /\ tasks[3].p = 8 /\ tasks[3].d = 8
      /\ tasks[4].c = 1 /\ tasks[4].p = 10 /\ tasks[4].d = 10
  BY DEF Ids, Set3, Tuple
<1>2. Ids \subseteq 1..5
  BY <1>1
<1>3. CASE t = 1
  <2> DEFINE x == 4 * k + 3
  <2>1. x = k * tasks[t].p + tasks[t].d - tasks[t].c /\ x \in Nat /\ 1 \in Nat
    BY <1>1, <1>3
  <2>2. /\ Share(1, t, x) = 0
        /\ Share(2, t, x) = 0
        /\ Share(3, t, x) = 0
        /\ Share(4, t, x) = 0
        /\ Share(5, t, x) = 0
    BY <1>1, <1>3 DEF Share, Outranks, Needs
  <2>3. \A u \in Ids \ {t} : ~Outranks(u, t) => tasks[u].c - 1 <= 1
    BY <1>1, <1>3 DEF Outranks
  <2>4. 1 + k * tasks[t].c + (Share(1, t, x) + Share(2, t, x) + Share(3, t, x)
                                + Share(4, t, x) + Share(5, t, x)) <= x
    BY <1>1, <1>3, <2>2
  <2> HIDE DEF x
  <2> QED
    BY <1>2, <2>1, <2>3, <2>4, ResponsiveIf
<1>4. CASE t = 2
  <2> DEFINE x == 5 * k + 3
  <2>1. x = k * tasks[t].p + tasks[t].d - tasks[t].c /\ x \in Nat /\ 0 \in Nat
    BY <1>1, <1>4
  <2>2. /\ Share(1, t, x) = (x \div 4 + 1) * 1
        /\ Share(2, t, x) = 0
        /\ Share(3, t, x) = 0
        /\ Share(4, t, x) = 0
        /\ Share(5, t, x) = 0
    BY <1>1, <1>4 DEF Share, Outranks, Needs
  <2>3. \A u \in Ids \ {t} : ~Outranks(u, t) => tasks[u].c - 1 <= 0
    BY <1>1, <1>4 DEF Outranks
  <2>4. 0 + k * tasks[t].c + (Share(1, t, x) + Share(2, t, x) + Share(3, t, x)
                                + Share(4, t, x) + Share(5, t, x)) <= x
    BY <1>1, <1>4, <2>2
  <2> HIDE DEF x
  <2> QED
    BY <1>2, <2>1, <2>3, <2>4, ResponsiveIf
<1>5. CASE t = 3
  <2> DEFINE x == 8 * k + 7
  <2>1. x = k * tasks[t].p + tasks[t].d - tasks[t].c /\ x \in Nat /\ 0 \in Nat
    BY <1>1, <1>5
  <2>2. /\ Share(1, t, x) = (x \div 4 + 1) * 1
        /\ Share(2, t, x) = (x \div 5 + 1) * 2
        /\ Share(3, t, x) = 0
        /\ Share(4, t, x) = 0
        /\ Share(5, t, x) = 0
    BY <1>1, <1>5 DEF Share, Outranks, Needs
  <2>3. \A u \in Ids \ {t} : ~Outranks(u, t) => tasks[u].c - 1 <= 0
    BY <1>1, <1>5 DEF Outranks
  <2>4. 0 + k * tasks[t].c + (Share(1, t, x) + Share(2, t, x) + Share(3, t, x)
                                + Share(4, t, x) + Share(5, t, x)) <= x
    BY <1>1, <1>5, <2>2
  <2> HIDE DEF x
  <2> QED
    BY <1>2, <2>1, <2>3, <2>4, ResponsiveIf
<1>6. CASE t = 4
  <2> DEFINE x == 10 * k + 9
  <2>1. x = k * tasks[t].p + tasks[t].d - tasks[t].c /\ x \in Nat /\ 0 \in Nat
    BY <1>1, <1>6
  <2>2. /\ Share(1, t, x) = (x \div 4 + 1) * 1
        /\ Share(2, t, x) = (x \div 5 + 1) * 2
        /\ Share(3, t, x) = (x \div 8 + 1) * 1
        /\ Share(4, t, x) = 0
        /\ Share(5, t, x) = 0
    BY <1>1, <1>6 DEF Share, Outranks, Needs
  <2>3. \A u \in Ids \ {t} : ~Outranks(u, t) => tasks[u].c - 1 <= 0
    BY <1>1, <1>6 DEF Outranks
  <2>4. 0 + k * tasks[t].c + (Share(1, t, x) + Share(2, t, x) + Share(3, t, x)
                                + Share(4, t, x) + Share(5, t, x)) <= x
    BY <1>1, <1>6, <2>2
  <2> HIDE DEF x
  <2> QED
    BY <1>2, <2>1, <2>3, <2>4, ResponsiveIf
<1> QED
  BY <1>1, <1>3, <1>4, <1>5, <1>6

(* All that happens to the fourth set under RMA.                           *)
Reads(x, y, z) == r[1] = x /\ r[2] = y /\ r[3] = z

FourthSetRuns ==
  pc # "idle" /\ algo = "rma" /\ tasks = Set4 =>
    \/ now = 0 /\ Reads(0, 0, 0)
    \/ now = 1 /\ Reads(-1, -1, 1)
    \/ now = 2 /\ Reads(-2, 1, 0)
    \/ now = 3 /\ Reads(-3, 0, 1)

LEMMA FourthSetRound ==
  ASSUME IInv, FourthSetRuns, Run, algo = "rma", tasks = Set4
  PROVE  FourthSetRuns'
<1>1. /\ Ids = 1..3
      /\ tasks[1].c = 1 /\ tasks[1].p = 4 /\ tasks[1].d = 4
      /\ tasks[2].c = 1 /\ tasks[2].p = 3 /\ tasks[2].d = 3
      /\ tasks[3].c = 1 /\ tasks[3].p = 2 /\ tasks[3].d = 2
  BY DEF Ids, Set4, Tuple
<1>2. /\ pc = "run" /\ TypeOK /\ PartlyRunIsReady /\ tasks' = tasks
      /\ IsHead(head) /\ \A t \in Ready : Fits(t, head)
  BY DEF Run, IInv, RunIsCleared
<1>3. \A t \in Ids : a[t] = 0
  BY <1>2, TaskIds DEF PartlyRunIsReady
<1>4. \A t, u : Before(t, u) <=> tasks[t].p < tasks[u].p \/ (tasks[t].p = tasks[u].p /\ t < u)
  BY DEF Before, Key, RmaKey
<1>5. \A h \in Ids :
        head = h =>
          /\ now' = now + 1
          /\ r'[h] = tasks[h].p - 1 + r[h]
          /\ \A u \in Ids \ {h} : r'[u] = r[u] - 1
  <2> SUFFICES ASSUME NEW h \in Ids, head = h
               PROVE  /\ now' = now + 1
                      /\ r'[h] = tasks[h].p - 1 + r[h]
                      /\ \A u \in Ids \ {h} : r'[u] = r[u] - 1
    OBVIOUS
  <2>1. tasks[h].c = 1 /\ h # NoTask
    BY <1>1 DEF NoTask
  <2>2. Delta = 1 /\ Completes
    BY <2>1 DEF Delta, Completes
  <2> QED
    BY <1>2, <2>2, RecalcStep DEF Run
<1>6. /\ pc # "idle"
      /\ \/ now = 0 /\ Reads(0, 0, 0)
         \/ now = 1 /\ Reads(-1, -1, 1)
         \/ now = 2 /\ Reads(-2, 1, 0)
         \/ now = 3 /\ Reads(-3, 0, 1)
  BY <1>2 DEF FourthSetRuns
<1>7. CASE now = 0 /\ Reads(0, 0, 0)
  <2>1. Ready = {1, 2, 3}
    BY <1>1, <1>7 DEF Ready, Reads
  <2>2. head = 3
    BY <1>1, <1>2, <1>4, <2>1 DEF IsHead
  <2>3. now' = 1 /\ r'[1] = -1 /\ r'[2] = -1 /\ r'[3] = 1
    BY <1>1, <1>5, <1>7, <2>2 DEF Reads
  <2> QED
    BY <2>3 DEF FourthSetRuns, Reads
<1>8. CASE now = 1 /\ Reads(-1, -1, 1)
  <2>1. Ready = {1, 2}
    BY <1>1, <1>8 DEF Ready, Reads
  <2>2. head = 2
    BY <1>1, <1>2, <1>4, <2>1 DEF IsHead
  <2>3. now' = 2 /\ r'[1] = -2 /\ r'[2] = 1 /\ r'[3] = 0
    BY <1>1, <1>5, <1>8, <2>2 DEF Reads
  <2> QED
    BY <2>3 DEF FourthSetRuns, Reads
<1>9. CASE now = 2 /\ Reads(-2, 1, 0)
  <2>1. Ready = {1, 3}
    BY <1>1, <1>9 DEF Ready, Reads
  <2>2. head = 3
    BY <1>1, <1>2, <1>4, <2>1 DEF IsHead
  <2>3. now' = 3 /\ r'[1] = -3 /\ r'[2] = 0 /\ r'[3] = 1
    BY <1>1, <1>5, <1>9, <2>2 DEF Reads
  <2> QED
    BY <2>3 DEF FourthSetRuns, Reads
<1>10. CASE now = 3 /\ Reads(-3, 0, 1)
  <2>1. Ready = {1, 2}
    BY <1>1, <1>10 DEF Ready, Reads
  <2>2. head = 2
    BY <1>1, <1>2, <1>4, <2>1 DEF IsHead
  <2>3. ~Fits(1, head)
    BY <1>1, <1>3, <1>10, <2>2 DEF Fits, CompletionTime, RemainingTime, Reads
  <2> QED
    BY <1>2, <2>1, <2>3
<1> QED
  BY <1>6, <1>7, <1>8, <1>9, <1>10

LEMMA NextFourthSetRuns ==
  ASSUME IInv, FourthSetRuns, [Next]_vars
  PROVE  FourthSetRuns'
<1>1. CASE Prime
  <2> SUFFICES ASSUME tasks' = Set4 PROVE now' = 0 /\ r'[1] = 0 /\ r'[2] = 0 /\ r'[3] = 0
    BY DEF FourthSetRuns, Reads
  <2>1. DOMAIN tasks' = 1..3
    BY DEF Set4
  <2> QED
    BY <1>1, <2>1 DEF Prime
<1>2. CASE Schedule
  BY <1>2 DEF Schedule, FourthSetRuns, Reads
<1>3. CASE Run
  <2>1. CASE algo = "rma" /\ tasks = Set4
    BY <1>3, <2>1, FourthSetRound
  <2>2. CASE ~(algo = "rma" /\ tasks = Set4)
    BY <1>3, <2>2 DEF Run, FourthSetRuns
  <2> QED
    BY <2>1, <2>2
<1>4. CASE Halt
  BY <1>4 DEF Halt, FourthSetRuns
<1>5. CASE UNCHANGED vars
  BY <1>5 DEF vars, FourthSetRuns, Reads
<1> QED
  BY <1>1, <1>2, <1>3, <1>4, <1>5 DEF Next

(* The verdicts that register_tasks announces: RMA passes its first three  *)
(* task sets, in tests of any length and whatever other sets are tested,   *)
(* and fails the fourth before a test of four quanta is over.              *)
THEOREM RegisteredSetsPass == Spec => []RegisteredVerdicts
<1>1. Init => FourthSetRuns
  BY DEF Init, FourthSetRuns
<1>2. IInv /\ FourthSetRuns /\ [Next]_vars => FourthSetRuns'
  BY NextFourthSetRuns
<1>3. IInv /\ FourthSetRuns /\ RmaFailsOnlyIfUnresponsive => RegisteredVerdicts
  <2> SUFFICES ASSUME IInv, FourthSetRuns, RmaFailsOnlyIfUnresponsive,
                      pc = "halt", algo = "rma"
               PROVE  /\ tasks \in {Set1, Set2, Set3} => schedulable
                      /\ tasks = Set4 /\ schedulable  => now < 4
    BY DEF RegisteredVerdicts
  <2>1. ASSUME tasks \in {Set1, Set2, Set3} PROVE schedulable
    <3>1. TypeOK /\ pc # "idle"
      BY DEF IInv
    <3> SUFFICES ASSUME ~schedulable PROVE FALSE
      OBVIOUS
    <3>2. PICK t \in Ids : \E k \in 0..jobs[t] : ~Responsive(t, k)
      BY DEF RmaFailsOnlyIfUnresponsive
    <3>3. PICK k \in 0..jobs[t] : ~Responsive(t, k)
      BY <3>2
    <3>4. k \in Nat
      BY <3>1, TaskIds
    <3>5. Responsive(t, k)
      BY <2>1, <3>1, <3>4, FirstSetResponds, SecondSetResponds, ThirdSetResponds
    <3> QED
      BY <3>3, <3>5
  <2>2. ASSUME tasks = Set4 PROVE now < 4
    BY <2>2 DEF FourthSetRuns
  <2> QED
    BY <2>1, <2>2
<1> QED
  BY <1>1, <1>2, <1>3, Invariance, RmaFailsAsAnalysed, PTL DEF Spec
=============================================================================
