-------------------------- MODULE FixtTimed_proofs --------------------------
(***************************************************************************)
(* Theorems about the fixture on one processor, for every list of tasks,   *)
(* every algorithm, every test length and every calibration.               *)
(*                                                                         *)
(* A step in time is one of FixtThreads or leaves it alone, so that the    *)
(* invariants of FixtThreads_proofs hold here too.  On top of them: while  *)
(* the queue's head has a job to do nobody else gets the processor, so     *)
(* that a job that has been charged n rounds has had n timed waits.        *)
(***************************************************************************)
EXTENDS FixtTimed, FixtThreads_proofs

(* In a test every thread is alive.                                        *)
Alive == Testing => \A t \in Ids : th[t].at \in {"wait", "poison", "spin"}

(* A job is charged less than it needs, and only after its release.        *)
ChargedInPeriod ==
  Testing =>
    \A t \in Ids : /\ a[si][t] < set[t].c
                   /\ a[si][t] > 0 => r[si][t] <= 0

(* The queue holds the ready tasks, and its head only once.                *)
QueueOfReady ==
  pc \in {"dispatch", "block", "recalc"} =>
    /\ \A i \in DOMAIN queue : /\ r[si][queue[i]] <= 0
                               /\ i > 1 => queue[i] # queue[1]
    /\ \A t \in Ids : r[si][t] <= 0 => \E i \in DOMAIN queue : queue[i] = t

(* The head has the highest priority, and no other queued task has it.     *)
HeadFirst ==
  pc = "block" =>
    /\ th[head].prio = BasePrio - 1
    /\ \A t \in Ids \ {head} : r[si][t] <= 0 => th[t].prio < BasePrio - 1

(* A job that has not been done, what is left of it, and the time it has   *)
(* had in this round.                                                      *)
Undone(t) == th[t].cont > 0 \/ Busy(t)
Left(t)   == IF th[t].at = "spin" THEN work[t] ELSE set[t].c * spin
HadNow(t) ==
  IF t # head THEN 0
  ELSE IF pc = "block" THEN WaitTime - timer
  ELSE IF pc = "recalc" THEN WaitTime ELSE 0

(* A job with all the time it is charged for.                              *)
Rounds(t) == Left(t) + a[si][t] * WaitTime + HadNow(t)

(* The bookkeeping completes no job before its token was taken.            *)
Acknowledged(t) ==
  /\ jobs[t] <= acked[t]
  /\ pc = "recalc" /\ t = head => th[t].done = 0

(* A preempted job has had a timed wait for every round it is charged.     *)
HadItsRounds(t) == Undone(t) => Rounds(t) <= set[t].c * spin

(* On pace it has had no more, and its thread is not done before the last  *)
(* round it is charged.                                                    *)
NoMoreThanRounds(t) ==
  /\ Undone(t) => Rounds(t) >= set[t].c * spin
  /\ th[t].done > 0 => a[si][t] = set[t].c - 1
  /\ InProgress(t) /\ Outstanding(t) = 0 =>
       pc = "recalc" /\ t = head /\ a[si][t] = set[t].c - 1

(* The part of the invariant that does not depend on time, and the other.  *)
LogicInv == IInv /\ Alive /\ ChargedInPeriod /\ QueueOfReady /\ HeadFirst
TimeInv  ==
  InTime /\ Testing /\ algo \in Preemptive =>
    \A t \in Ids :
      Acknowledged(t) /\ HadItsRounds(t) /\ (OnPace => NoMoreThanRounds(t))
TimedInv == LogicInv /\ TimedTypeOK /\ TimeInv

(* The time the job of t has had, over all its rounds, and how much of it  *)
(* is this round's.                                                        *)
Had(t)     == set[t].c * spin - (IF Undone(t) THEN Left(t) ELSE 0)
RoundSoFar ==
  IF pc \notin {"block", "recalc"} THEN 0
  ELSE IF head = 0 THEN Sched!MinR * spin
  ELSE Had(head) - a[si][head] * WaitTime

(* On pace the time of a test is that of the quanta accounted, of the      *)
(* grace periods of the jobs under way and of this round; the token of a   *)
(* job is taken in the round in which it is posted.                        *)
Grace     == [t \in Ids |-> AccumulatedBy(t)]
RoundInv  ==
  OnPace /\ Testing =>
    /\ \A t \in Ids : th[t].done > 0 => pc = "block" /\ t = head
    /\ elapsed = now * spin + SumFunction(Grace) + RoundSoFar
-----------------------------------------------------------------------------
(* Steps in time.                                                          *)

LEMMA Width == WaitTime = 12
BY DEF WaitTime, QuantumWidth, Jitter, Sched!Period

(* What a step in time does to the threads and the scheduler is a step of  *)
(* FixtThreads, or nothing.                                                *)
LEMMA TimedSteps ==
  ASSUME TypeOK, [TimedNext]_timedVars
  PROVE  [Next]_vars /\ spin' = spin /\ WaitTime' = WaitTime
<1>1. DOMAIN th \subseteq AllTasks
  BY ThreadIds
<1>2. [Next]_vars /\ spin' = spin
  BY <1>1
  DEF TimedNext, RunScheduler, Execute, RunTask, Idle, AllDone, timedVars, clock, Next
<1> QED
  BY <1>2 DEF WaitTime, Sched!Period

(* A job's work is a number.                                               *)
LEMMA JobType ==
  ASSUME TypeOK, spin \in Spins, NEW t \in Ids
  PROVE  /\ spin \in Nat \ {0} /\ set[t].c \in Nat \ {0}
         /\ set[t].c * spin \in Nat
<1>1. spin \in Nat \ {0}
  BY SpinsAssumption
<1>2. set[t].c \in Nat \ {0}
  BY SetUnderTest
<1> QED
  BY <1>1, <1>2, ProductNat

LEMMA InitTimed == TimedInit => TimedTypeOK
<1> SUFFICES ASSUME TimedInit PROVE TimedTypeOK
  OBVIOUS
<1>1. spin \in Spins /\ timer = 0 /\ elapsed = 0 /\ WaitTime = 12
  BY Width DEF TimedInit
<1>2. work \in [DOMAIN th -> Nat]
  BY DEF TimedInit, Init
<1> QED
  BY <1>1, <1>2 DEF TimedTypeOK

LEMMA NextTimed ==
  ASSUME StructInv, TimedTypeOK, [TimedNext]_timedVars
  PROVE  TimedTypeOK'
<1>1. /\ TypeOK /\ ListsFollow /\ WaitTime = 12 /\ WaitTime' = 12
      /\ spin' = spin /\ spin \in Spins /\ spin \in Nat \ {0}
      /\ work \in [DOMAIN th -> Nat] /\ timer \in 0..12 /\ elapsed \in Nat
      /\ Spins' = Spins
  BY Width, TimedSteps, SpinsAssumption DEF StructInv, TimedTypeOK
<1>2. CASE RunScheduler
  <2>1. timer' \in 0..12
    BY <1>1, <1>2 DEF RunScheduler
  <2>2. work' \in [DOMAIN th' -> Nat]
    BY <1>1, <1>2 DEF RunScheduler
  <2>3. SchedulerSpins \in Nat
    <3>1. CASE pc = "dispatch" /\ queue = <<>>
      <4>1. Sched!MinR \in Nat
        BY <1>1, <3>1, MinRType
      <4> QED
        BY <1>1, <4>1, ProductNat DEF SchedulerSpins
    <3>2. CASE ~(pc = "dispatch" /\ queue = <<>>)
      BY <3>2 DEF SchedulerSpins
    <3> QED
      BY <3>1, <3>2
  <2>4. elapsed' \in Nat
    BY <1>1, <1>2, <2>3 DEF RunScheduler
  <2> QED
    BY <1>1, <2>1, <2>2, <2>4 DEF TimedTypeOK
<1>3. ASSUME NEW t \in DOMAIN th, Execute(t) PROVE TimedTypeOK'
  <2>1. PICK n \in {IF Timed /\ timer < work[t] THEN timer ELSE work[t]} :
          /\ work' = [work EXCEPT ![t] = @ - n]
          /\ timer' = IF Timed THEN timer - n ELSE timer
          /\ elapsed' = elapsed + n
    BY <1>3 DEF Execute
  <2>2. th' = th /\ work[t] \in Nat
    BY <1>1, <1>3 DEF Execute, vars
  <2>3. n \in Nat /\ work[t] - n \in Nat /\ (Timed => timer - n \in 0..12)
    BY <1>1, <2>1, <2>2
  <2> QED
    BY <1>1, <2>1, <2>2, <2>3 DEF TimedTypeOK
<1>4. ASSUME NEW t \in DOMAIN th, RunTask(t) PROVE TimedTypeOK'
  <2>1. t \in Ids /\ set[t].c * spin \in Nat
    BY <1>1, ThreadIds, JobType
  <2>2. DOMAIN th' = DOMAIN th
    BY <1>4 DEF RunTask, Task, Wake, ReadPill, FinishJob
  <2>3. work' \in [DOMAIN th' -> Nat]
    BY <1>1, <1>4, <2>1, <2>2 DEF RunTask
  <2> QED
    BY <1>1, <1>4, <2>3 DEF RunTask, TimedTypeOK
<1>5. CASE Idle
  <2>1. th' = th /\ work' = work /\ timer' = 0 /\ elapsed' = elapsed + timer
    BY <1>5 DEF Idle, vars
  <2> QED
    BY <1>1, <2>1 DEF TimedTypeOK
<1>6. CASE AllDone \/ UNCHANGED timedVars
  <2>1. th' = th /\ work' = work /\ timer' = timer /\ elapsed' = elapsed
    BY <1>6 DEF AllDone, Terminated, timedVars, clock, vars
  <2> QED
    BY <1>1, <2>1 DEF TimedTypeOK
<1> QED
  BY <1>2, <1>3, <1>4, <1>5, <1>6 DEF TimedNext
-----------------------------------------------------------------------------
(* LogicInv.                                                               *)

LEMMA NextAlive ==
  ASSUME IInv, Alive, [Next]_vars
  PROVE  Alive'
<1>1. TypeOK /\ ListsFollow /\ FreshThreads /\ NobodyTold
  BY DEF IInv, StructInv
<1>2. ASSUME NEW t \in DOMAIN th, Start(t) PROVE Alive'
  <2> SUFFICES ASSUME pc' = "schedule", NEW u \in Ids
               PROVE  th'[u].at = "wait"
    BY <1>2 DEF Alive, Testing, Start, Starting, Ids, set
  <2>1. /\ pc = "start" /\ th \in [Ids -> ThreadRec] /\ t \in Ids
        /\ al_tasks = [v \in Ids |-> v] /\ Ids = 1..Len(set) /\ Len(set) \in Nat
    BY <1>1, <1>2, SetUnderTest DEF Start, Starting, TypeOK, ListsFollow
  <2>2. PICK g \in Garbage : th' = [th EXCEPT ![t] = NewThread(g)]
    BY <1>2 DEF Start, Starting
  <2>3. t = Len(set)
    BY <1>2, <2>1 DEF Start, Starting
  <2>4. u # t => u \in 1..(t - 1)
    BY <2>1, <2>3
  <2>5. u # t => th[u].at = "wait"
    BY <1>1, <1>2, <2>1, <2>4 DEF Start, Starting, FreshThreads
  <2> QED
    BY <2>1, <2>2, <2>5 DEF NewThread
<1>3. CASE Schedule
  BY <1>3 DEF Schedule, Alive, Testing, Ids, set
<1>4. CASE Dispatch
  BY <1>1, <1>4, DispatchEffect DEF Alive, Testing
<1>5. CASE Block
  BY <1>1, <1>5, BlockEffect DEF Alive, Testing
<1>6. CASE Recalc
  BY <1>1, <1>6, RecalcEffect DEF Alive, Testing
<1>7. ASSUME NEW t \in AllTasks, Task(t) PROVE Alive'
  <2>1. UNCHANGED <<set_list, sched>>
    BY <1>7 DEF Task, Wake, ReadPill, FinishJob
  <2>2. Ids' = Ids /\ pc' = pc
    BY <2>1 DEF Ids, set, sched
  <2> SUFFICES ASSUME Testing, NEW u \in Ids
               PROVE  th'[u].at \in {"wait", "poison", "spin"}
    BY <2>2 DEF Alive, Testing
  <2>3. th \in [Ids -> ThreadRec] /\ t \in Ids /\ th[t] \in ThreadRec
    BY <1>1, <1>7, Counts DEF Task
  <2>4. ~th[t].pipe /\ th[t].pill # PoisonPill
    BY <1>1, <2>3 DEF NobodyTold
  <2>5. th'[t].at \in {"wait", "poison", "spin"}
    BY <1>7, <2>3, <2>4 DEF Task, Wake, ReadPill, FinishJob, ThreadRec
  <2>6. u # t => th'[u] = th[u]
    BY <1>7, <2>3 DEF Task, Wake, ReadPill, FinishJob
  <2> QED
    BY <2>5, <2>6 DEF Alive
<1>8. CASE Prime \/ StopWrite \/ StopPost \/ StopJoin
  BY <1>8 DEF Prime, StopWrite, StopPost, StopJoin, Alive, Testing
<1>9. CASE Terminated \/ UNCHANGED vars
  BY <1>9 DEF Terminated, vars, sched, Alive, Testing, Ids, set
<1> QED
  BY <1>2, <1>3, <1>4, <1>5, <1>6, <1>7, <1>8, <1>9 DEF Next, Scheduler

(* What the recalc hook makes of the counters, in the fixture's own terms. *)
LEMMA RecalcCharge ==
  ASSUME TypeOK, ListsFollow, pc = "recalc"
  PROVE  /\ head # 0 /\ algo \in Preemptive =>
              (Sched!Completes <=> set[head].c - a[si][head] - 1 <= 0)
         /\ \A t \in Ids :
              /\ Sched!NewA(t) = IF t # head \/ algo = "rma" THEN a[si][t]
                                 ELSE IF Sched!Completes THEN 0 ELSE a[si][t] + 1
              /\ ~(t = head /\ Sched!Completes) => Sched!NewR(t) <= r[si][t]
<1>1. Sched!Delta \in Nat /\ \A t \in Ids : r[si][t] \in Int
  BY RecalcType, SchedView
<1>2. head # 0 /\ algo # "rma" => Sched!Delta = 1
  BY DEF Sched!Delta, Sched!NoTask, Sched!Period, Between
<1>3. head # 0 /\ algo \in Preemptive =>
        (Sched!Completes <=> set[head].c - a[si][head] - 1 <= 0)
  <2> SUFFICES ASSUME head # 0, algo \in Preemptive
               PROVE  Sched!Completes <=> set[head].c - a[si][head] - 1 <= 0
    OBVIOUS
  <2>1. algo # "rma" /\ Sched!Delta = 1
    BY <1>2 DEF Preemptive
  <2>2. Sched!CompletionTime(head) = set[head].c - a[si][head]
    BY DEF Sched!CompletionTime, Between
  <2> QED
    BY <2>1, <2>2 DEF Sched!Completes, Sched!NoTask
<1>4. ASSUME NEW t \in Ids
      PROVE  Sched!NewA(t) = IF t # head \/ algo = "rma" THEN a[si][t]
                             ELSE IF Sched!Completes THEN 0 ELSE a[si][t] + 1
  <2>1. t = head => head # 0
    BY SetUnderTest
  <2> QED
    BY <1>2, <2>1 DEF Sched!NewA, Between
<1>5. ASSUME NEW t \in Ids, ~(t = head /\ Sched!Completes)
      PROVE  Sched!NewR(t) <= r[si][t]
  <2>1. Sched!NewR(t) = r[si][t] - Sched!Delta
    BY <1>5 DEF Sched!NewR, Between
  <2> QED
    BY <1>1, <2>1
<1> QED
  BY <1>3, <1>4, <1>5

LEMMA NextCharged ==
  ASSUME IInv, QueueOfReady, ChargedInPeriod, [Next]_vars
  PROVE  ChargedInPeriod'
<1>1. TypeOK /\ ListsFollow /\ FreshThreads /\ RmaTokens
  BY DEF IInv, StructInv
<1>2. ASSUME NEW t \in DOMAIN th, Start(t) PROVE ChargedInPeriod'
  <2> SUFFICES ASSUME pc' = "schedule", NEW u \in Ids
               PROVE  a'[si'][u] = 0 /\ 0 < set'[u].c
    BY <1>2 DEF ChargedInPeriod, Testing, Start, Starting, Ids, set
  <2>1. /\ pc = "start" /\ th \in [Ids -> ThreadRec] /\ t \in Ids
        /\ al_tasks = [v \in Ids |-> v] /\ Ids = 1..Len(set) /\ Len(set) \in Nat
        /\ set[u].c \in Nat \ {0} /\ set' = set
    BY <1>1, <1>2, SetUnderTest DEF Start, Starting, TypeOK, ListsFollow, set
  <2>2. u # t => u \in 1..(t - 1)
    BY <1>2, <2>1 DEF Start, Starting
  <2>3. u # t => a[si][u] = 0
    BY <1>1, <1>2, <2>1, <2>2 DEF Start, Starting, FreshThreads
  <2>4. a'[si'][u] = IF u = t THEN 0 ELSE a[si][u]
    BY <1>1, <1>2, <2>1 DEF Start, Starting, TypeOK, Ids, set
  <2> QED
    BY <2>1, <2>3, <2>4
<1>3. CASE Schedule \/ Dispatch \/ Block
  BY <1>3 DEF Schedule, Dispatch, Block, ChargedInPeriod, Testing, Ids, set
<1>4. CASE Recalc
  <2>1. /\ pc = "recalc" /\ Ids' = Ids /\ set' = set /\ si' = si
        /\ \A t \in Ids : /\ r'[si][t] = Sched!NewR(t) /\ a'[si][t] = Sched!NewA(t)
    BY <1>1, <1>4, RecalcEffect
  <2> SUFFICES ASSUME NEW t \in Ids
               PROVE  /\ Sched!NewA(t) < set[t].c
                      /\ Sched!NewA(t) > 0 => Sched!NewR(t) <= 0
    BY <2>1 DEF ChargedInPeriod
  <2>2. /\ a[si][t] \in Nat /\ r[si][t] \in Int /\ set[t].c \in Nat \ {0}
        /\ a[si][t] < set[t].c /\ (a[si][t] > 0 => r[si][t] <= 0)
        /\ Sched!NewR(t) \in Int
    BY <1>1, <2>1, SchedView, SetUnderTest, RecalcType DEF ChargedInPeriod, Testing
  <2>3. CASE t # head \/ algo = "rma"
    <3>1. Sched!NewA(t) = a[si][t]
      BY <1>1, <2>1, <2>3, RecalcCharge
    <3>2. algo = "rma" => a[si][t] = 0
      BY <1>1, <2>1 DEF RmaTokens, Testing
    <3>3. t # head => Sched!NewR(t) <= r[si][t]
      BY <1>1, <2>1, RecalcCharge
    <3> QED
      BY <2>2, <2>3, <3>1, <3>2, <3>3
  <2>4. CASE t = head /\ algo # "rma"
    <3>1. algo \in Preemptive /\ head # 0
      BY <1>1, <2>4, SetUnderTest DEF Preemptive
    <3>2. r[si][head] <= 0
      <4>1. queue # <<>> /\ queue \in Seq(Ids) /\ head = queue[1]
        BY <1>1, <3>1 DEF head, TypeOK
      <4>2. 1 \in DOMAIN queue
        BY <4>1
      <4> QED
        BY <2>1, <4>1, <4>2 DEF QueueOfReady
    <3>3. CASE Sched!Completes
      <4>1. Sched!NewA(t) = 0
        BY <1>1, <2>1, <2>4, <3>3, RecalcCharge
      <4> QED
        BY <2>2, <4>1
    <3>4. CASE ~Sched!Completes
      <4>1. Sched!NewA(t) = a[si][t] + 1 /\ Sched!NewR(t) <= r[si][t]
        BY <1>1, <2>1, <2>4, <3>4, RecalcCharge
      <4>2. ~(set[t].c - a[si][t] - 1 <= 0)
        BY <1>1, <2>1, <2>4, <3>1, <3>4, RecalcCharge
      <4> QED
        BY <2>2, <2>4, <3>2, <4>1, <4>2
    <3> QED
      BY <3>3, <3>4
  <2> QED
    BY <2>3, <2>4
<1>5. ASSUME NEW t \in AllTasks, Task(t) PROVE ChargedInPeriod'
  <2>1. UNCHANGED <<set_list, sched>>
    BY <1>5 DEF Task, Wake, ReadPill, FinishJob
  <2> QED
    BY <2>1 DEF sched, ChargedInPeriod, Testing, Ids, set
<1>6. CASE Prime \/ StopWrite \/ StopPost \/ StopJoin
  BY <1>6 DEF Prime, StopWrite, StopPost, StopJoin, ChargedInPeriod, Testing
<1>7. CASE Terminated \/ UNCHANGED vars
  BY <1>7 DEF Terminated, vars, sched, ChargedInPeriod, Testing, Ids, set
<1> QED
  BY <1>2, <1>3, <1>4, <1>5, <1>6, <1>7 DEF Next, Scheduler

LEMMA NextQueueOfReady ==
  ASSUME IInv, QueueOfReady, [Next]_vars
  PROVE  QueueOfReady'
<1>1. TypeOK /\ ListsFollow
  BY DEF IInv, StructInv
<1>2. CASE Schedule
  <2>1. PICK q \in [1..Cardinality(Sched!Ready) -> Sched!Ready] :
          /\ \A i, j \in DOMAIN q : i < j => Sched!Before(q[i], q[j])
          /\ queue' = q
    BY <1>2 DEF Schedule
  <2>2. pc = "schedule" /\ Ids' = Ids /\ si' = si /\ r' = r
    BY <1>2 DEF Schedule, Ids, set
  <2>3. Sched!Ready = {t \in Ids : r[si][t] <= 0}
    BY <1>1, <2>2, SchedView
  <2>4. /\ \A i, j \in DOMAIN q : i # j => q[i] # q[j]
        /\ \A u \in Sched!Ready : \E i \in DOMAIN q : q[i] = u
    BY <1>1, <2>1, <2>2, SortedQueue
  <2>5. DOMAIN q = 1..Cardinality(Sched!Ready) /\ Cardinality(Sched!Ready) \in Nat
        /\ \A i \in DOMAIN q : q[i] \in Sched!Ready
    BY <1>1, <2>2, QueueType
  <2>6. \A i \in DOMAIN q : i > 1 => q[i] # q[1]
    <3> TAKE i \in DOMAIN q
    <3>1. i > 1 => 1 \in DOMAIN q /\ i # 1
      BY <2>5
    <3> QED
      BY <2>4, <3>1
  <2> QED
    BY <2>1, <2>2, <2>3, <2>4, <2>5, <2>6 DEF QueueOfReady
<1>3. CASE Dispatch \/ Block
  BY <1>3 DEF Dispatch, Block, QueueOfReady, Ids, set
<1>4. ASSUME NEW t \in DOMAIN th, Start(t) PROVE QueueOfReady'
  BY <1>4 DEF Start, Starting, QueueOfReady
<1>5. ASSUME NEW t \in AllTasks, Task(t) PROVE QueueOfReady'
  <2>1. UNCHANGED <<set_list, sched>>
    BY <1>5 DEF Task, Wake, ReadPill, FinishJob
  <2> QED
    BY <2>1 DEF sched, QueueOfReady, Ids, set
<1>6. CASE Prime \/ Recalc \/ StopWrite \/ StopPost \/ StopJoin
  BY <1>6 DEF Prime, Recalc, StopWrite, StopPost, StopJoin, QueueOfReady
<1>7. CASE Terminated \/ UNCHANGED vars
  BY <1>7 DEF Terminated, vars, sched, QueueOfReady, Ids, set
<1> QED
  BY <1>2, <1>3, <1>4, <1>5, <1>6, <1>7 DEF Next, Scheduler

(* fixt_algo_run gives the head the highest priority of the tasks.         *)
LEMMA DispatchPriorities ==
  ASSUME TypeOK, QueueOfReady, Dispatch, queue # <<>>
  PROVE  /\ th'[head].prio = BasePrio - 1
         /\ \A t \in Ids \ {head} : r[si][t] <= 0 => th'[t].prio < BasePrio - 1
<1>1. /\ pc = "dispatch" /\ queue \in Seq(Ids) /\ th \in [Ids -> ThreadRec]
  BY DEF Dispatch, TypeOK
<1>2. /\ head = queue[1] /\ 1 \in DOMAIN queue /\ head \in Ids
      /\ \A i \in DOMAIN queue : i \in Nat /\ i >= 1
  BY <1>1 DEF head
<1> DEFINE at(t) == CHOOSE i \in DOMAIN queue : queue[i] = t
           prio(t) == IF BasePrio - at(t) < MinPrio THEN MinPrio ELSE BasePrio - at(t)
<1>3. ASSUME NEW t \in Ids, \E i \in DOMAIN queue : queue[i] = t
      PROVE  /\ th'[t].prio = prio(t)
             /\ at(t) \in DOMAIN queue /\ queue[at(t)] = t
  <2>1. at(t) \in DOMAIN queue /\ queue[at(t)] = t
    BY <1>3
  <2>2. PICK cont : th'[t] = [th[t] EXCEPT !.prio = prio(t), !.cont = cont]
    BY <1>3 DEF Dispatch, Released
  <2> HIDE DEF prio
  <2>3. th'[t].prio = prio(t)
    BY <1>1, <2>2 DEF ThreadRec
  <2> QED
    BY <2>1, <2>3
<1> HIDE DEF at
<1>4. th'[head].prio = BasePrio - 1
  <2>1. /\ th'[head].prio = prio(head)
        /\ at(head) \in DOMAIN queue /\ queue[at(head)] = head
    BY <1>2, <1>3
  <2>2. at(head) = 1
    BY <1>1, <1>2, <2>1 DEF QueueOfReady
  <2> QED
    BY <2>1, <2>2 DEF BasePrio, MinPrio
<1>5. ASSUME NEW t \in Ids \ {head}, r[si][t] <= 0
      PROVE  th'[t].prio < BasePrio - 1
  <2>1. \E i \in DOMAIN queue : queue[i] = t
    BY <1>1, <1>5 DEF QueueOfReady
  <2>2. /\ th'[t].prio = prio(t)
        /\ at(t) \in DOMAIN queue /\ queue[at(t)] = t
    BY <1>3, <2>1
  <2>3. at(t) \in Nat /\ at(t) >= 2
    BY <1>2, <2>2
  <2> QED
    BY <2>2, <2>3 DEF BasePrio, MinPrio
<1> QED
  BY <1>4, <1>5

LEMMA NextHeadFirst ==
  ASSUME IInv, QueueOfReady, HeadFirst, [Next]_vars
  PROVE  HeadFirst'
<1>1. TypeOK /\ ListsFollow
  BY DEF IInv, StructInv
<1>2. CASE Dispatch
  BY <1>1, <1>2, DispatchEffect, DispatchPriorities DEF HeadFirst, BasePrio
<1>3. ASSUME NEW t \in AllTasks, Task(t) PROVE HeadFirst'
  <2>1. UNCHANGED <<set_list, sched>>
    BY <1>3 DEF Task, Wake, ReadPill, FinishJob
  <2>2. Ids' = Ids /\ head' = head /\ UNCHANGED <<pc, si, r>>
    BY <2>1 DEF Ids, set, sched, head
  <2> SUFFICES ASSUME pc = "block" PROVE HeadFirst'
    BY <2>2 DEF HeadFirst
  <2>3. th \in [Ids -> ThreadRec] /\ t \in Ids /\ th[t] \in ThreadRec
    BY <1>1, <1>3, <2>2 DEF Task, TypeOK
  <2>4. \A u \in Ids : th'[u].prio = th[u].prio
    BY <1>3, <2>3 DEF Task, Wake, ReadPill, FinishJob, ThreadRec
  <2>5. head \in Ids
    BY <1>1, HeadType DEF ListsFollow
  <2> QED
    BY <2>2, <2>4, <2>5 DEF HeadFirst
<1>4. CASE Prime \/ Schedule \/ Block \/ Recalc \/ StopWrite \/ StopPost \/ StopJoin
  BY <1>4
  DEF Prime, Schedule, Block, Recalc, StopWrite, StopPost, StopJoin, HeadFirst
<1>5. ASSUME NEW t \in DOMAIN th, Start(t) PROVE HeadFirst'
  BY <1>5 DEF Start, Starting, HeadFirst
<1>6. CASE Terminated \/ UNCHANGED vars
  BY <1>6 DEF Terminated, vars, sched, HeadFirst, Ids, set, head
<1> QED
  BY <1>2, <1>3, <1>4, <1>5, <1>6 DEF Next, Scheduler

LEMMA NextLogic ==
  ASSUME PoisonPill \notin Garbage, LogicInv, [Next]_vars
  PROVE  LogicInv'
BY NextIInv, NextAlive, NextCharged, NextQueueOfReady, NextHeadFirst DEF LogicInv

LEMMA InitLogic == Init => LogicInv
<1>1. Init => IInv
  BY InitStruct
  DEF Init, IInv, NobodyTold, ReleaseConservation, RmaTokens, Testing
<1> QED
  BY <1>1 DEF Init, LogicInv, Alive, ChargedInPeriod, QueueOfReady, HeadFirst, Testing
-----------------------------------------------------------------------------
(* What the invariant says of a single task.                               *)

(* No job is completed before its token was taken; under RMA, whatever the *)
(* time.                                                                   *)
LEMMA AllAcknowledged ==
  ASSUME LogicInv, TimeInv, InTime, Testing, NEW t \in Ids
  PROVE  Acknowledged(t)
<1>1. CASE algo = "rma"
  <2>1. acked[t] = jobs[t] + (IF pc = "recalc" /\ t = head THEN 1 ELSE 0)
    BY <1>1 DEF LogicInv, IInv, RmaTokens
  <2>2. jobs[t] \in Nat /\ th[t].cont \in Nat /\ th[t].done \in Nat
    BY Counts DEF LogicInv, IInv, StructInv
  <2>3. pc = "recalc" => Outstanding(t) = 0
    BY <1>1, Lockstep DEF RmaLockstep, LogicInv
  <2>4. pc = "recalc" => th[t].done = 0
    BY <2>2, <2>3 DEF Outstanding
  <2> QED
    BY <2>1, <2>2, <2>4 DEF Acknowledged
<1>2. CASE algo # "rma"
  <2>1. algo \in Preemptive
    BY <1>2, SetUnderTest DEF LogicInv, IInv, StructInv, Preemptive
  <2> QED
    BY <2>1 DEF TimeInv
<1> QED
  BY <1>1, <1>2

(* A task has one job outstanding at most, and only if the counters say    *)
(* that one was started.                                                   *)
LEMMA OneJob ==
  ASSUME LogicInv, TimeInv, InTime, Testing, NEW t \in Ids
  PROVE  /\ th[t].cont \in Nat /\ th[t].done \in Nat
         /\ Outstanding(t) \in Nat /\ Outstanding(t) <= 1
         /\ Outstanding(t) = 1 => InProgress(t)
         /\ Outstanding(t) = 0 /\ InProgress(t) => acked[t] = jobs[t] + 1
         /\ Undone(t) <=> Outstanding(t) = 1 /\ th[t].done = 0
         /\ th[t].cont > 0 => ~Busy(t)
<1>1. /\ th[t].cont \in Nat /\ th[t].done \in Nat
      /\ jobs[t] \in Nat /\ acked[t] \in Nat
  BY Counts DEF LogicInv, IInv, StructInv
<1>2. Outstanding(t) + acked[t] = jobs[t] + (IF InProgress(t) THEN 1 ELSE 0)
  BY DEF LogicInv, IInv, ReleaseConservation
<1>3. jobs[t] <= acked[t]
  BY AllAcknowledged DEF Acknowledged
<1>4. Outstanding(t) \in Nat
  BY <1>1 DEF Outstanding
<1>5. InProgress(t) => Outstanding(t) + acked[t] = jobs[t] + 1
  BY <1>2
<1>6. ~InProgress(t) => Outstanding(t) + acked[t] = jobs[t]
  BY <1>1, <1>2
<1>7. \/ Outstanding(t) = 0
      \/ Outstanding(t) = 1 /\ InProgress(t) /\ acked[t] = jobs[t]
  BY <1>1, <1>3, <1>4, <1>5, <1>6
<1>8. th[t].cont > 0 => ~Busy(t)
  BY <1>1, <1>7 DEF Outstanding
<1>9. Undone(t) <=> Outstanding(t) = 1 /\ th[t].done = 0
  BY <1>1, <1>7 DEF Outstanding, Undone
<1> QED
  BY <1>1, <1>4, <1>5, <1>6, <1>7, <1>8, <1>9

(* A thread with a job to do is ready to run.                              *)
LEMMA UndoneRuns ==
  ASSUME LogicInv, Testing, NEW t \in Ids
  PROVE  Undone(t) <=> Runnable(t)
<1>1. th[t].at \in {"wait", "poison", "spin"}
  BY DEF LogicInv, Alive
<1>2. Busy(t) => th[t].at # "wait"
  BY DEF Busy
<1>3. th[t].at # "wait" => Busy(t)
  BY <1>1 DEF Busy
<1> QED
  BY <1>2, <1>3 DEF Undone, Runnable

(* While the head has a job to do nobody else gets the processor.          *)
LEMMA HeadHasIt ==
  ASSUME LogicInv, TimeInv, InTime, pc = "block", Undone(head),
         NEW t \in DOMAIN th, HasProcessor(t)
  PROVE  t = head
<1>1. TypeOK /\ Testing /\ head \in Ids /\ DOMAIN th = Ids
  BY HeadType, Counts DEF LogicInv, IInv, StructInv, Testing, ListsFollow
<1>2. th[head].prio <= th[t].prio /\ Runnable(t)
  BY <1>1, UndoneRuns DEF HasProcessor
<1> SUFFICES ASSUME t # head PROVE FALSE
  OBVIOUS
<1>3. InProgress(t)
  BY <1>1, <1>2, UndoneRuns, OneJob
<1>4. r[si][t] <= 0
  BY <1>1, <1>3 DEF InProgress, LogicInv, ChargedInPeriod
<1>5. th[head].prio = BasePrio - 1 /\ th[t].prio < BasePrio - 1
  BY <1>1, <1>4 DEF LogicInv, HeadFirst
<1>6. th[t].prio \in Int
  BY <1>1, Counts DEF ThreadRec, MinPrio, BasePrio
<1> QED
  BY <1>2, <1>5, <1>6 DEF BasePrio

(* A job with a timed wait for each of its rounds is over.                 *)
LEMMA JobTakesLess ==
  ASSUME TypeOK, TimedTypeOK, InTime, NEW t \in Ids
  PROVE  set[t].c * spin < set[t].c * 12
<1>1. spin \in Nat \ {0} /\ set[t].c \in Nat \ {0} /\ spin < 12
  BY JobType, Width DEF TimedTypeOK, InTime
<1> QED
  BY <1>1, ProductLess

(* The numbers in Rounds.                                                  *)
LEMMA RoundsType ==
  ASSUME TypeOK, TimedTypeOK, Testing, NEW t \in Ids
  PROVE  /\ Left(t) \in Nat /\ a[si][t] \in Nat
         /\ timer \in 0..12 /\ HadNow(t) \in 0..12
         /\ Rounds(t) = Left(t) + a[si][t] * 12 + HadNow(t)
         /\ set[t].c * spin \in Nat /\ set[t].c \in Nat \ {0}
<1>1. /\ set[t].c * spin \in Nat /\ set[t].c \in Nat \ {0}
      /\ timer \in 0..12 /\ WaitTime = 12
  BY JobType, Width DEF TimedTypeOK
<1>2. a[si][t] \in Nat /\ DOMAIN th = Ids /\ work[t] \in Nat
  BY Counts DEF TimedTypeOK
<1>3. Left(t) \in Nat
  BY <1>1, <1>2 DEF Left
<1>4. HadNow(t) \in 0..12
  BY <1>1 DEF HadNow
<1> QED
  BY <1>1, <1>2, <1>3, <1>4 DEF Rounds

(* When the bookkeeping completes a job, its token has been taken.         *)
LEMMA CompleteIsDone ==
  ASSUME TimedInv, InTime, pc = "recalc", Sched!Completes
  PROVE  head \in Ids /\ Outstanding(head) = 0 /\ acked[head] = jobs[head] + 1
<1>1. /\ LogicInv /\ TypeOK /\ ListsFollow /\ TimedTypeOK /\ Testing
      /\ TimeInv
  BY DEF TimedInv, LogicInv, IInv, StructInv, Testing
<1>2. head # 0 /\ head \in Ids
  BY <1>1, HeadType DEF Sched!Completes, Sched!NoTask
<1>3. th[head].done = 0 /\ InProgress(head)
  BY <1>1, <1>2, AllAcknowledged DEF Acknowledged, InProgress
<1>4. ~Undone(head)
  <2> SUFFICES ASSUME Undone(head) PROVE FALSE
    OBVIOUS
  <2>1. CASE algo = "rma"
    <3>1. Outstanding(head) = 0
      BY <1>1, <1>2, <2>1, Lockstep DEF RmaLockstep, LogicInv
    <3> QED
      BY <1>1, <1>2, <3>1, OneJob
  <2>2. CASE algo # "rma"
    <3>1. algo \in Preemptive
      BY <1>1, <2>2, SetUnderTest DEF Preemptive
    <3>2. set[head].c - a[si][head] - 1 <= 0
      BY <1>1, <1>2, <3>1, RecalcCharge
    <3>3. Rounds(head) <= set[head].c * spin
      BY <1>1, <1>2, <3>1 DEF TimeInv, HadItsRounds
    <3>4. HadNow(head) = 12
      BY Width DEF HadNow
    <3>5. set[head].c * spin < set[head].c * 12
      BY <1>1, <1>2, JobTakesLess
    <3> QED
      BY <1>1, <1>2, <3>2, <3>3, <3>4, <3>5, RoundsType
  <2> QED
    BY <2>1, <2>2
<1>5. Outstanding(head) = 0 /\ acked[head] = jobs[head] + 1
  BY <1>1, <1>2, <1>3, <1>4, OneJob
<1> QED
  BY <1>2, <1>5
-----------------------------------------------------------------------------
(* TimeInv, step by step.                                                  *)

(* The parts of the invariant, where a preemptive algorithm is under test  *)
(* and the timed wait is long enough.                                      *)
LEMMA Parts ==
  ASSUME TimedInv, Testing
  PROVE  /\ LogicInv /\ TimedTypeOK /\ TypeOK /\ ListsFollow /\ TimeInv
         /\ Ids = 1..Len(set) /\ Len(set) \in Nat
         /\ DOMAIN th = Ids /\ th \in [Ids -> ThreadRec]
         /\ algo = "rma" \/ algo \in Preemptive
         /\ OnPace => InTime
<1>1. LogicInv /\ TimedTypeOK /\ TypeOK /\ ListsFollow /\ TimeInv
  BY DEF TimedInv, LogicInv, IInv, StructInv
<1>2. th \in [Ids -> ThreadRec]
  BY <1>1 DEF TypeOK, Testing
<1> QED
  BY <1>1, <1>2, SetUnderTest DEF Preemptive, OnPace

(* What does not change during a test.                                     *)
LEMMA SameTest ==
  ASSUME TypeOK, [TimedNext]_timedVars, set' = set
  PROVE  /\ Ids' = Ids /\ spin' = spin /\ WaitTime' = WaitTime
         /\ InTime' <=> InTime
         /\ OnPace' <=> OnPace
BY TimedSteps DEF Ids, InTime, OnPace

(* The first round begins with threads that have nothing to do.            *)
LEMMA StartTime ==
  ASSUME TimedInv, NEW t \in DOMAIN th, Start(t)
  PROVE  TimeInv'
<1> SUFFICES ASSUME pc' = "schedule", NEW u \in Ids
             PROVE  /\ Acknowledged(u)'
                    /\ HadItsRounds(u)' /\ NoMoreThanRounds(u)'
  BY DEF TimeInv, Testing, Start, Starting, Ids, set
<1>1. /\ TypeOK /\ ListsFollow /\ FreshThreads /\ pc = "start"
      /\ th \in [Ids -> ThreadRec] /\ t \in Ids
  BY DEF TimedInv, LogicInv, IInv, StructInv, Start, Starting, TypeOK
<1>2. /\ al_tasks = [v \in Ids |-> v] /\ Ids = 1..Len(set) /\ Len(set) \in Nat
  BY <1>1, SetUnderTest DEF ListsFollow
<1>3. PICK g \in Garbage : th' = [th EXCEPT ![t] = NewThread(g)]
  BY DEF Start, Starting
<1>4. u # t => u \in 1..(t - 1)
  BY <1>2 DEF Start, Starting
<1>5. u # t => th[u].at = "wait"
  BY <1>1, <1>4 DEF Start, Starting, FreshThreads
<1>6. /\ th'[u].at = "wait" /\ th'[u].cont = 0 /\ th'[u].done = 0
      /\ jobs'[u] = 0 /\ acked'[u] = 0
  BY <1>1, <1>3, <1>5 DEF FreshThreads, NewThread, Start, Starting, history
<1>7. a'[si'][u] = 0
  BY <1>1, <1>5 DEF FreshThreads, Start, Starting, TypeOK, Ids, set
<1> QED
  BY <1>6, <1>7
  DEF Acknowledged, HadItsRounds, NoMoreThanRounds, Undone, Busy, InProgress

(* fixt_algo_schedule changes nothing for the threads.                     *)
LEMMA ScheduleTime ==
  ASSUME TimedInv, RunScheduler, Schedule, algo \in Preemptive
  PROVE  TimeInv'
<1>1. /\ pc = "schedule" /\ Testing /\ pc' \in {"dispatch", "halt"}
      /\ set' = set /\ algo' = algo
      /\ UNCHANGED <<si, r, a, th, jobs, acked>>
  BY DEF Schedule, set, algo, Testing, history
<1>2. [TimedNext]_timedVars /\ work' = work
  BY <1>1 DEF RunScheduler, TimedNext
<1>3. /\ Ids' = Ids /\ spin' = spin /\ WaitTime' = WaitTime
      /\ (InTime' <=> InTime) /\ (OnPace' <=> OnPace)
  BY <1>1, <1>2, Parts, SameTest
<1> SUFFICES ASSUME pc' = "dispatch", InTime, NEW t \in Ids
             PROVE  /\ Acknowledged(t)' /\ HadItsRounds(t)'
                    /\ OnPace => NoMoreThanRounds(t)'
  BY <1>1, <1>3 DEF TimeInv, Testing
<1>4. Acknowledged(t) /\ HadItsRounds(t) /\ (OnPace => NoMoreThanRounds(t))
  BY <1>1, Parts DEF TimeInv
<1>5. /\ Undone(t)' <=> Undone(t)
      /\ Outstanding(t)' = Outstanding(t)
      /\ InProgress(t)' <=> InProgress(t)
      /\ Left(t)' = Left(t) /\ HadNow(t) = 0 /\ HadNow(t)' = 0
  BY <1>1, <1>2, <1>3
  DEF Undone, Busy, Outstanding, InProgress, Left, HadNow
<1>6. Rounds(t)' = Rounds(t)
  BY <1>1, <1>3, <1>5 DEF Rounds
<1> QED
  BY <1>1, <1>3, <1>4, <1>5, <1>6 DEF Acknowledged, HadItsRounds, NoMoreThanRounds

(* A new job has all of its work before it, and the timer is set.          *)
LEMMA DispatchTime ==
  ASSUME TimedInv, RunScheduler, Dispatch, algo \in Preemptive
  PROVE  TimeInv'
<1>1. /\ Testing /\ TypeOK /\ TimeInv /\ LogicInv /\ TimedTypeOK
      /\ Ids = 1..Len(set) /\ Len(set) \in Nat /\ (OnPace => InTime)
  BY Parts DEF Dispatch, Testing
<1>2. /\ pc = "dispatch" /\ pc' = (IF queue = <<>> THEN "recalc" ELSE "block")
      /\ Ids' = Ids /\ set' = set /\ head' = head /\ algo' = algo
      /\ UNCHANGED <<queue, r, a, si, jobs, acked>>
      /\ DOMAIN th' = DOMAIN th
      /\ \A t \in Ids :
           /\ th'[t].at = th[t].at /\ th'[t].done = th[t].done
           /\ th'[t].cont = IF t = head /\ queue # <<>> /\ a[si][head] = 0
                            THEN th[t].cont + 1 ELSE th[t].cont
  BY <1>1, DispatchEffect
<1>3. /\ [TimedNext]_timedVars /\ work' = work
      /\ pc' = "block" => timer' = 12
  BY <1>2, Width DEF RunScheduler, TimedNext
<1>4. /\ spin' = spin /\ WaitTime' = WaitTime /\ WaitTime = 12
      /\ (InTime' <=> InTime) /\ (OnPace' <=> OnPace)
  BY <1>1, <1>2, <1>3, SameTest, Width
<1> SUFFICES ASSUME InTime, NEW t \in Ids
             PROVE  /\ Acknowledged(t)' /\ HadItsRounds(t)'
                    /\ OnPace => NoMoreThanRounds(t)'
  BY <1>2, <1>4 DEF TimeInv
<1>5. Acknowledged(t) /\ HadItsRounds(t) /\ (OnPace => NoMoreThanRounds(t))
  BY <1>1 DEF TimeInv
<1>6. /\ th[t].cont \in Nat /\ th[t].done \in Nat
      /\ Outstanding(t) \in Nat /\ Outstanding(t) <= 1
      /\ Outstanding(t) = 1 => InProgress(t)
      /\ a[si][t] \in Nat /\ set[t].c * spin \in Nat
  BY <1>1, OneJob, RoundsType
<1>7. HadNow(t) = 0 /\ HadNow(t)' = 0
  <2>1. pc' = "recalc" => t # head
    BY <1>1, <1>2, HeadType
  <2> QED
    BY <1>2, <1>3, <1>4, <2>1 DEF HadNow
<1>8. Acknowledged(t)'
  <2>1. pc' = "recalc" => t # head
    BY <1>1, <1>2, HeadType
  <2> QED
    BY <1>2, <1>5, <2>1 DEF Acknowledged
<1>9. CASE t = head /\ queue # <<>> /\ a[si][head] = 0
  <2>1. ~InProgress(t) /\ Outstanding(t) = 0
    BY <1>2, <1>6, <1>9 DEF InProgress
  <2>2. ~Busy(t) /\ th[t].done = 0 /\ th[t].at # "spin"
    <3>1. ~Busy(t)
      BY <1>6, <2>1 DEF Outstanding
    <3>2. th[t].done = 0
      BY <1>6, <2>1, <3>1 DEF Outstanding
    <3> QED
      BY <3>1, <3>2 DEF Busy
  <2>3. Rounds(t)' = set[t].c * spin
    <3>1. Left(t)' = set[t].c * spin
      BY <1>2, <1>4, <2>2 DEF Left
    <3> QED
      BY <1>2, <1>4, <1>6, <1>7, <1>9, <3>1 DEF Rounds
  <2>4. Outstanding(t)' # 0
    BY <1>2, <1>6, <1>9, <2>2 DEF Outstanding, Busy
  <2> QED
    BY <1>2, <1>4, <1>6, <1>8, <2>2, <2>3, <2>4 DEF HadItsRounds, NoMoreThanRounds
<1>10. CASE ~(t = head /\ queue # <<>> /\ a[si][head] = 0)
  <2>1. /\ Undone(t)' <=> Undone(t)
        /\ Outstanding(t)' = Outstanding(t)
        /\ Left(t)' = Left(t)
    BY <1>2, <1>3, <1>4, <1>10 DEF Undone, Busy, Outstanding, Left
  <2>2. Rounds(t)' = Rounds(t)
    BY <1>2, <1>4, <1>7, <2>1 DEF Rounds
  <2>3. InProgress(t)' => InProgress(t)
    <3>1. queue = <<>> => t # head
      BY <1>1, HeadType
    <3> QED
      BY <1>2, <1>6, <1>10, <3>1 DEF InProgress
  <2> QED
    BY <1>2, <1>4, <1>5, <1>8, <2>1, <2>2, <2>3 DEF HadItsRounds, NoMoreThanRounds
<1> QED
  BY <1>9, <1>10

(* The wait ends with a token, or when the time is over.                   *)
LEMMA BlockTime ==
  ASSUME TimedInv, RunScheduler, Block, algo \in Preemptive
  PROVE  TimeInv'
<1>1. /\ Testing /\ TypeOK /\ ListsFollow /\ TimeInv /\ LogicInv /\ TimedTypeOK
  BY Parts DEF Block, Testing
<1>2. /\ pc = "block" /\ pc' = "recalc"
      /\ Ids' = Ids /\ set' = set /\ head' = head /\ algo' = algo
      /\ UNCHANGED <<queue, r, a, si, jobs>>
      /\ head \in Ids /\ DOMAIN th' = DOMAIN th
      /\ \A t \in Ids :
           /\ th'[t].at = th[t].at /\ th'[t].cont = th[t].cont
           /\ IF t = head /\ TakeDone(head)
              THEN th'[t].done = th[t].done - 1 /\ acked'[t] = acked[t] + 1
              ELSE th'[t].done = th[t].done     /\ acked'[t] = acked[t]
  BY <1>1, BlockEffect
<1>3. [TimedNext]_timedVars /\ work' = work
  BY <1>2 DEF RunScheduler, TimedNext
<1>4. /\ spin' = spin /\ WaitTime' = WaitTime /\ WaitTime = 12
      /\ (InTime' <=> InTime) /\ (OnPace' <=> OnPace)
  BY <1>1, <1>2, <1>3, SameTest, Width
<1> SUFFICES ASSUME InTime, NEW t \in Ids
             PROVE  /\ Acknowledged(t)' /\ HadItsRounds(t)'
                    /\ OnPace => NoMoreThanRounds(t)'
  BY <1>2, <1>4 DEF TimeInv
<1>5. Acknowledged(t) /\ HadItsRounds(t) /\ (OnPace => NoMoreThanRounds(t))
  BY <1>1 DEF TimeInv
<1>6. /\ th[t].cont \in Nat /\ th[t].done \in Nat
      /\ Outstanding(t) \in Nat /\ Outstanding(t) <= 1
      /\ jobs[t] \in Nat /\ acked[t] \in Nat
  BY <1>1, OneJob, Counts
<1>7. /\ Left(t)' = Left(t)
      /\ InProgress(t)' <=> InProgress(t)
  BY <1>2, <1>3, <1>4 DEF Left, InProgress
<1>8. CASE t = head /\ TakeDone(head)
  <2>1. th[t].done > 0
    BY <1>8 DEF TakeDone
  <2>2. th[t].cont = 0 /\ ~Busy(t) /\ th[t].done = 1
    BY <1>6, <2>1 DEF Outstanding
  <2>3. ~Undone(t)' /\ th'[t].done = 0 /\ acked'[t] = acked[t] + 1
    BY <1>2, <1>8, <2>2 DEF Undone, Busy
  <2> QED
    BY <1>2, <1>4, <1>5, <1>6, <1>8, <2>1, <2>3
    DEF Acknowledged, HadItsRounds, NoMoreThanRounds
<1>9. CASE ~(t = head /\ TakeDone(head))
  <2>1. /\ th'[t].done = th[t].done /\ acked'[t] = acked[t]
        /\ Undone(t)' <=> Undone(t)
        /\ Outstanding(t)' = Outstanding(t)
    BY <1>2, <1>9 DEF Undone, Busy, Outstanding
  <2>2. t = head => th[t].done = 0 /\ timer = 0
    <3> SUFFICES ASSUME t = head PROVE th[head].done = 0 /\ timer = 0
      OBVIOUS
    <3>1. NotDone(head) /\ th[head].done = 0
      BY <1>9 DEF Block, NotDone
    <3>2. timer \in 0..12 /\ ~(timer > 0)
      BY <1>1, <1>2, <1>4, <3>1 DEF RunScheduler, Blocked, Timed, TimedTypeOK
    <3> QED
      BY <3>1, <3>2
  <2>3. HadNow(t)' = HadNow(t)
    BY <1>2, <1>4, <2>2 DEF HadNow
  <2>4. Rounds(t)' = Rounds(t)
    BY <1>2, <1>4, <1>7, <2>3 DEF Rounds
  <2>5. NoMoreThanRounds(t) => ~(InProgress(t) /\ Outstanding(t) = 0)
    BY <1>2 DEF NoMoreThanRounds
  <2> QED
    BY <1>2, <1>4, <1>5, <1>7, <2>1, <2>2, <2>4, <2>5
    DEF Acknowledged, HadItsRounds, NoMoreThanRounds
<1> QED
  BY <1>8, <1>9

(* A round more is charged to a head that has had its timed wait.          *)
LEMMA RecalcTime ==
  ASSUME TimedInv, RunScheduler, Recalc, algo \in Preemptive
  PROVE  TimeInv'
<1>1. /\ Testing /\ TypeOK /\ ListsFollow /\ TimeInv /\ LogicInv /\ TimedTypeOK
      /\ algo # "rma" /\ Ids = 1..Len(set) /\ Len(set) \in Nat
  BY Parts DEF Recalc, Testing, Preemptive
<1>2. /\ pc = "recalc" /\ pc' \in {"schedule", "halt"}
      /\ Ids' = Ids /\ set' = set /\ head' = head /\ algo' = algo
      /\ UNCHANGED <<queue, si, th, acked>>
      /\ \A t \in Ids :
           /\ a'[si][t] = Sched!NewA(t)
           /\ jobs'[t] = IF t = head /\ Sched!Completes THEN jobs[t] + 1
                                                        ELSE jobs[t]
  BY <1>1, RecalcEffect
<1>3. [TimedNext]_timedVars /\ work' = work
  BY <1>2 DEF RunScheduler, TimedNext
<1>4. /\ spin' = spin /\ WaitTime' = WaitTime /\ WaitTime = 12
      /\ (InTime' <=> InTime) /\ (OnPace' <=> OnPace)
  BY <1>1, <1>2, <1>3, SameTest, Width
<1> SUFFICES ASSUME pc' = "schedule", InTime, NEW t \in Ids
             PROVE  /\ Acknowledged(t)' /\ HadItsRounds(t)'
                    /\ OnPace => NoMoreThanRounds(t)'
  BY <1>2, <1>4 DEF TimeInv, Testing
<1>5. Acknowledged(t) /\ HadItsRounds(t) /\ (OnPace => NoMoreThanRounds(t))
  BY <1>1 DEF TimeInv
<1>6. /\ jobs[t] \in Nat /\ acked[t] \in Nat /\ a[si][t] \in Nat
      /\ Left(t) \in Nat /\ set[t].c \in Nat \ {0}
  BY <1>1, Counts, RoundsType
<1>7. /\ Left(t)' = Left(t) /\ HadNow(t)' = 0
      /\ HadNow(t) = IF t = head THEN 12 ELSE 0
      /\ Undone(t)' <=> Undone(t)
      /\ Outstanding(t)' = Outstanding(t)
      /\ InProgress(t)' <=> Sched!NewA(t) > 0
  BY <1>2, <1>3, <1>4
  DEF Left, HadNow, Undone, Busy, Outstanding, InProgress
<1>8. CASE t # head
  <2>1. a'[si][t] = a[si][t] /\ jobs'[t] = jobs[t]
    BY <1>1, <1>2, <1>8, RecalcCharge
  <2>2. Rounds(t)' = Rounds(t)
    BY <1>2, <1>4, <1>7, <1>8, <2>1 DEF Rounds
  <2>3. InProgress(t)' => InProgress(t)
    BY <1>2, <1>7, <2>1 DEF InProgress
  <2> QED
    BY <1>2, <1>4, <1>5, <1>7, <1>8, <2>1, <2>2, <2>3
    DEF Acknowledged, HadItsRounds, NoMoreThanRounds
<1>9. CASE t = head /\ Sched!Completes
  <2>1. Outstanding(t) = 0 /\ acked[t] = jobs[t] + 1
    BY <1>2, <1>9, CompleteIsDone
  <2>2. ~Undone(t) /\ th[t].done = 0
    BY <1>1, <1>2, <1>5, <1>9, <2>1, OneJob DEF Acknowledged
  <2>3. Sched!NewA(t) = 0
    BY <1>1, <1>2, <1>9, RecalcCharge
  <2> QED
    BY <1>2, <1>6, <1>7, <1>9, <2>1, <2>2, <2>3
    DEF Acknowledged, HadItsRounds, NoMoreThanRounds
<1>10. CASE t = head /\ ~Sched!Completes
  <2>1. /\ a'[si][t] = a[si][t] + 1 /\ jobs'[t] = jobs[t]
        /\ a[si][t] # set[t].c - 1
    <3>1. t # 0
      BY <1>1
    <3>2. a'[si][t] = a[si][t] + 1
      BY <1>1, <1>2, <1>10, RecalcCharge
    <3>3. ~(set[t].c - a[si][t] - 1 <= 0)
      BY <1>1, <1>2, <1>10, <3>1, RecalcCharge
    <3> QED
      BY <1>2, <1>6, <1>10, <3>2, <3>3
  <2>2. Rounds(t)' = Rounds(t)
    BY <1>2, <1>4, <1>6, <1>7, <1>10, <2>1 DEF Rounds
  <2>3. th[t].done = 0
    BY <1>2, <1>5, <1>10 DEF Acknowledged
  <2>4. NoMoreThanRounds(t) => Outstanding(t) # 0
    BY <1>2, <1>10, <2>1 DEF NoMoreThanRounds, InProgress
  <2> QED
    BY <1>2, <1>4, <1>5, <1>7, <1>10, <2>1, <2>2, <2>3, <2>4
    DEF Acknowledged, HadItsRounds, NoMoreThanRounds
<1> QED
  BY <1>8, <1>9, <1>10

(* On pace the head has a job to do for as long as its token has not come. *)
LEMMA HeadAtWork ==
  ASSUME TimedInv, OnPace, pc = "block", Blocked
  PROVE  Undone(head)
<1>1. Testing /\ InTime /\ head \in Ids /\ LogicInv /\ TimeInv
  BY Parts, HeadType DEF Testing, ListsFollow, OnPace
<1>2. th[head].done = 0 /\ InProgress(head)
  BY DEF Blocked, InProgress
<1>3. CASE algo = "rma"
  <2>1. Outstanding(head) = 1
    BY <1>1, <1>3, Lockstep DEF RmaLockstep, LogicInv
  <2> QED
    BY <1>1, <1>2, <2>1, OneJob
<1>4. CASE algo \in Preemptive
  <2>1. Outstanding(head) # 0
    BY <1>1, <1>2, <1>4 DEF TimeInv, NoMoreThanRounds
  <2>2. Outstanding(head) = 1
    BY <1>1, <2>1, OneJob
  <2> QED
    BY <1>1, <1>2, <2>2, OneJob
<1> QED
  BY <1>1, <1>3, <1>4, Parts

(* While a thread spins the time goes to the head, if it has a job to do.  *)
LEMMA ExecuteTime ==
  ASSUME TimedInv, NEW t \in DOMAIN th, Execute(t), algo \in Preemptive
  PROVE  TimeInv'
<1>1. UNCHANGED <<vars, spin>> /\ [TimedNext]_timedVars
  BY DEF Execute, TimedNext
<1>2. /\ set' = set /\ Ids' = Ids /\ head' = head /\ algo' = algo
      /\ UNCHANGED <<pc, si, a, th, jobs, acked, queue>>
  BY <1>1 DEF vars, sched, history, set, Ids, head, algo
<1>3. pc = "block" \/ pc = "join"
  BY DEF Execute, HasProcessor, Blocked
<1> SUFFICES ASSUME pc = "block", InTime', NEW u \in Ids
             PROVE  /\ Acknowledged(u)' /\ HadItsRounds(u)'
                    /\ OnPace' => NoMoreThanRounds(u)'
  BY <1>2, <1>3 DEF TimeInv, Testing
<1>4. /\ Testing /\ TypeOK /\ ListsFollow /\ TimeInv /\ LogicInv /\ TimedTypeOK
      /\ DOMAIN th = Ids /\ Timed
  BY Parts DEF Testing, Timed
<1>5. /\ spin' = spin /\ WaitTime' = WaitTime /\ WaitTime = 12
      /\ InTime /\ (OnPace' <=> OnPace)
  BY <1>1, <1>2, <1>4, SameTest, Width
<1>6. Acknowledged(u) /\ HadItsRounds(u) /\ (OnPace => NoMoreThanRounds(u))
  BY <1>4, <1>5 DEF TimeInv
<1>7. PICK n \in {IF Timed /\ timer < work[t] THEN timer ELSE work[t]} :
        /\ work' = [work EXCEPT ![t] = @ - n]
        /\ timer' = IF Timed THEN timer - n ELSE timer
  BY DEF Execute
<1>8. /\ work \in [Ids -> Nat] /\ timer \in 0..12 /\ a[si][u] \in Nat
      /\ HasProcessor(t) /\ Blocked /\ th[t].at = "spin"
      /\ set[u].c * spin \in Nat
  BY <1>4, <1>5, RoundsType DEF TimedTypeOK, Execute, HasProcessor
<1>9. n \in Nat /\ timer' = timer - n
      /\ work'[u] = IF u = t THEN work[u] - n ELSE work[u]
  BY <1>4, <1>7, <1>8
<1>10. /\ Undone(u)' <=> Undone(u)
       /\ Outstanding(u)' = Outstanding(u)
       /\ InProgress(u)' <=> InProgress(u)
  BY <1>2 DEF Undone, Busy, Outstanding, InProgress
<1>11. Acknowledged(u)'
  BY <1>2, <1>6 DEF Acknowledged
<1>12. /\ Left(u) \in Int /\ HadNow(u) \in Int
       /\ Rounds(u) = Left(u) + a[si][u] * 12 + HadNow(u)
       /\ Left(u)' = IF u = t THEN Left(u) - n ELSE Left(u)
       /\ HadNow(u)' = IF u = head THEN HadNow(u) + n ELSE HadNow(u)
       /\ Rounds(u)' = Left(u)' + a[si][u] * 12 + HadNow(u)'
  <2>1. /\ Left(u) \in Int /\ HadNow(u) \in Int
        /\ Rounds(u) = Left(u) + a[si][u] * 12 + HadNow(u)
    BY <1>4, RoundsType
  <2>2. Left(u)' = IF u = t THEN Left(u) - n ELSE Left(u)
    BY <1>2, <1>5, <1>8, <1>9 DEF Left
  <2>3. HadNow(u)' = IF u = head THEN HadNow(u) + n ELSE HadNow(u)
    BY <1>2, <1>5, <1>8, <1>9 DEF HadNow
  <2>4. Rounds(u)' = Left(u)' + a[si][u] * 12 + HadNow(u)'
    BY <1>2, <1>5 DEF Rounds
  <2> QED
    BY <2>1, <2>2, <2>3, <2>4
<1>13. Undone(head) => t = head
  BY <1>4, <1>5, <1>8, HeadHasIt
<1>14. CASE t = head
  <2>1. Rounds(u)' = Rounds(u)
    BY <1>8, <1>9, <1>12, <1>14
  <2> QED
    BY <1>2, <1>5, <1>6, <1>10, <1>11, <2>1 DEF HadItsRounds, NoMoreThanRounds
<1>15. CASE t # head
  <2>1. ~Undone(head) /\ ~OnPace
    BY <1>8, <1>13, <1>15, HeadAtWork
  <2>2. Undone(u) => u # head
    BY <2>1
  <2>3. Undone(u) => Rounds(u)' <= Rounds(u)
    BY <1>8, <1>9, <1>12, <2>2
  <2>4. Rounds(u)' \in Int /\ Rounds(u) \in Int
    BY <1>8, <1>9, <1>12
  <2> QED
    BY <1>2, <1>5, <1>6, <1>8, <1>10, <1>11, <2>1, <2>3, <2>4 DEF HadItsRounds
<1> QED
  BY <1>14, <1>15

(* A thread begins its job with all of the work, and posts after the rest. *)
LEMMA RunTaskTime ==
  ASSUME TimedInv, NEW t \in DOMAIN th, RunTask(t), algo \in Preemptive
  PROVE  TimeInv'
<1>1. UNCHANGED <<set_list, sched, history, spin, timer>> /\ [TimedNext]_timedVars
  BY DEF RunTask, Task, Wake, ReadPill, FinishJob, TimedNext
<1>2. /\ set' = set /\ Ids' = Ids /\ head' = head /\ algo' = algo
      /\ UNCHANGED <<pc, si, a, jobs, acked, timer>>
  BY <1>1 DEF sched, history, set, Ids, head, algo
<1>3. pc = "block" \/ pc = "join"
  BY DEF RunTask, HasProcessor, Blocked
<1> SUFFICES ASSUME pc = "block", InTime', NEW u \in Ids
             PROVE  /\ Acknowledged(u)' /\ HadItsRounds(u)'
                    /\ OnPace' => NoMoreThanRounds(u)'
  BY <1>2, <1>3 DEF TimeInv, Testing
<1>4. /\ Testing /\ TypeOK /\ ListsFollow /\ TimeInv /\ LogicInv /\ TimedTypeOK
      /\ DOMAIN th = Ids /\ th \in [Ids -> ThreadRec]
  BY Parts DEF Testing
<1>5. /\ spin' = spin /\ WaitTime' = WaitTime /\ WaitTime = 12
      /\ InTime /\ (OnPace' <=> OnPace)
  BY <1>1, <1>2, <1>4, SameTest, Width
<1>6. Acknowledged(u) /\ HadItsRounds(u) /\ (OnPace => NoMoreThanRounds(u))
  BY <1>4, <1>5 DEF TimeInv
<1>7. Acknowledged(u)' /\ HadNow(u)' = HadNow(u) /\ (InProgress(u)' <=> InProgress(u))
  BY <1>2, <1>5, <1>6 DEF Acknowledged, HadNow, InProgress
<1>8. /\ work' = [work EXCEPT ![t] = IF th'[t].at = "spin" THEN set[t].c * spin ELSE @]
      /\ work \in [Ids -> Nat] /\ (th[t].at = "spin" => work[t] = 0)
  BY <1>4 DEF RunTask, TimedTypeOK
<1>9. CASE u # t
  <2>1. th'[u] = th[u] /\ work'[u] = work[u]
    BY <1>4, <1>8, <1>9 DEF RunTask, Task, Wake, ReadPill, FinishJob
  <2>2. /\ Undone(u)' <=> Undone(u)
        /\ Outstanding(u)' = Outstanding(u) /\ Left(u)' = Left(u)
    BY <1>2, <1>5, <2>1 DEF Undone, Busy, Outstanding, Left
  <2>3. Rounds(u)' = Rounds(u)
    BY <1>2, <1>5, <1>7, <2>2 DEF Rounds
  <2> QED
    BY <1>2, <1>5, <1>6, <1>7, <2>1, <2>2, <2>3 DEF HadItsRounds, NoMoreThanRounds
<1>10. CASE u = t
  <2>1. /\ th[t] \in ThreadRec /\ th[t].cont \in Nat /\ th[t].done \in Nat
        /\ Outstanding(t) \in Nat /\ Outstanding(t) <= 1
        /\ Undone(t) <=> Outstanding(t) = 1 /\ th[t].done = 0
        /\ th[t].cont > 0 => ~Busy(t)
    BY <1>4, <1>5, OneJob
  <2>2. ~th[t].pipe /\ th[t].pill # PoisonPill
    BY <1>4 DEF LogicInv, IInv, NobodyTold
  <2>3. Undone(t)
    BY <1>4, UndoneRuns DEF RunTask, HasProcessor
  <2>4. CASE Wake(t) \/ ReadPill(t)
    <3>1. /\ Undone(t)' /\ Outstanding(t)' = Outstanding(t) /\ th'[t].done = th[t].done
          /\ Left(t)' = Left(t)
      <4>1. CASE Wake(t)
        <5>1. /\ th'[t].at = "poison" /\ th'[t].cont = th[t].cont - 1
              /\ th'[t].done = th[t].done /\ th[t].at = "wait"
          BY <1>4, <2>1, <4>1 DEF Wake, ThreadRec
        <5> QED
          BY <1>2, <1>5, <2>1, <5>1 DEF Undone, Busy, Outstanding, Left
      <4>2. CASE ReadPill(t)
        <5>1. /\ th'[t].at = "spin" /\ th'[t].cont = th[t].cont
              /\ th'[t].done = th[t].done /\ th[t].at = "poison"
          BY <1>4, <2>1, <2>2, <4>2 DEF ReadPill, ThreadRec
        <5>2. work'[t] = set[t].c * spin
          BY <1>4, <1>8, <5>1
        <5> QED
          BY <1>2, <1>5, <2>1, <5>1, <5>2 DEF Undone, Busy, Outstanding, Left
      <4> QED
        BY <2>4, <4>1, <4>2
    <3>2. Rounds(t)' = Rounds(t)
      BY <1>2, <1>5, <1>7, <1>10, <3>1 DEF Rounds
    <3> QED
      BY <1>2, <1>5, <1>6, <1>7, <1>10, <2>3, <3>1, <3>2
      DEF HadItsRounds, NoMoreThanRounds
  <2>5. CASE FinishJob(t)
    <3>1. /\ th'[t].at = "wait" /\ th'[t].cont = th[t].cont
          /\ th'[t].done = th[t].done + 1 /\ th[t].at = "spin"
      BY <1>4, <2>1, <2>5 DEF FinishJob, ThreadRec
    <3>2. th[t].cont = 0
      BY <2>1, <3>1 DEF Busy
    <3>3. ~Undone(t)' /\ Outstanding(t)' # 0
      BY <2>1, <3>1, <3>2 DEF Undone, Busy, Outstanding
    <3>4. ASSUME OnPace PROVE a[si][t] = set[t].c - 1
      <4>1. Rounds(t) >= set[t].c * spin /\ Left(t) = 0
        BY <1>6, <1>8, <1>10, <2>3, <3>1, <3>4 DEF NoMoreThanRounds, Left
      <4>2. (set[t].c - 1) * 12 < set[t].c * spin
        BY <1>4, <1>5, <1>10, <3>4 DEF OnPace
      <4>3. a[si][t] < set[t].c
        BY <1>4, <1>10 DEF LogicInv, ChargedInPeriod
      <4>4. /\ a[si][t] \in Nat /\ HadNow(t) \in 0..12
            /\ Rounds(t) = Left(t) + a[si][t] * 12 + HadNow(t)
            /\ set[t].c * spin \in Nat /\ set[t].c \in Nat \ {0}
        BY <1>4, <1>10, RoundsType
      <4> QED
        BY <4>1, <4>2, <4>3, <4>4
    <3> QED
      BY <1>2, <1>5, <1>7, <1>10, <3>3, <3>4 DEF HadItsRounds, NoMoreThanRounds
  <2> QED
    BY <2>4, <2>5 DEF RunTask, Task
<1> QED
  BY <1>9, <1>10

(* Everybody waits only if the head has no job to do, off pace.            *)
LEMMA IdleTime ==
  ASSUME TimedInv, Idle
  PROVE  TimeInv'
<1>1. UNCHANGED <<vars, spin, work>> /\ [TimedNext]_timedVars /\ pc = "block"
      /\ algo \in Preemptive /\ Blocked
  BY DEF Idle, TimedNext, Timed
<1>2. /\ set' = set /\ Ids' = Ids /\ head' = head /\ algo' = algo
      /\ UNCHANGED <<pc, si, a, th, jobs, acked>>
  BY <1>1 DEF vars, sched, history, set, Ids, head, algo
<1>3. Testing /\ TypeOK /\ ListsFollow /\ TimeInv /\ LogicInv /\ DOMAIN th = Ids
  BY <1>1, Parts DEF Testing
<1>4. (InTime' <=> InTime) /\ (OnPace' <=> OnPace)
  BY <1>1, <1>2, <1>3, SameTest
<1> SUFFICES ASSUME InTime, NEW u \in Ids
             PROVE  Acknowledged(u)' /\ HadItsRounds(u)' /\ ~OnPace'
  BY <1>2, <1>4 DEF TimeInv
<1>5. ASSUME NEW t \in Ids PROVE ~Undone(t)
  BY <1>3, UndoneRuns DEF Idle
<1>6. Acknowledged(u)'
  BY <1>1, <1>2, <1>3 DEF TimeInv, Acknowledged
<1>7. HadItsRounds(u)'
  BY <1>2, <1>5 DEF HadItsRounds, Undone, Busy
<1>8. ~OnPace
  <2>1. head \in Ids
    BY <1>1, <1>3, HeadType DEF ListsFollow
  <2> QED
    BY <1>1, <1>5, <2>1, HeadAtWork
<1> QED
  BY <1>4, <1>6, <1>7, <1>8

LEMMA NextTime ==
  ASSUME PoisonPill \notin Garbage, TimedInv, [TimedNext]_timedVars
  PROVE  TimedInv'
<1>1. LogicInv /\ TypeOK /\ StructInv /\ TimedTypeOK /\ TimeInv
  BY DEF TimedInv, LogicInv, IInv, StructInv
<1>2. LogicInv' /\ TimedTypeOK'
  BY <1>1, TimedSteps, NextLogic, NextTimed
<1>3. TimeInv'
  <2>1. CASE algo' = "rma"
    BY <2>1 DEF TimeInv, Preemptive
  <2>2. CASE algo' # "rma" /\ Testing'
    <3>1. CASE algo' = algo
      <4>1. CASE Testing
        <5>1. algo \in Preemptive
          BY <2>2, <3>1, <4>1, Parts
        <5>2. CASE RunScheduler
          <6>1. Schedule \/ Dispatch \/ Block \/ Recalc
            BY <4>1, <5>2
            DEF Testing, RunScheduler, Scheduler, Prime, Start, Starting,
                StopWrite, StopPost, StopJoin
          <6> QED
            BY <5>1, <5>2, <6>1, ScheduleTime, DispatchTime, BlockTime, RecalcTime
        <5>3. CASE AllDone \/ UNCHANGED timedVars
          <6>1. UNCHANGED timedVars
            BY <5>3 DEF AllDone, Terminated, timedVars
          <6> QED
            BY <1>1, <6>1
            DEF timedVars, clock, vars, sched, history, TimeInv, InTime, Testing, Ids,
                set, algo, head, WaitTime, Sched!Period, OnPace, Acknowledged,
                HadItsRounds, NoMoreThanRounds, Undone, Busy, Rounds, Left, HadNow,
                InProgress, Outstanding
        <5> QED
          BY <5>1, <5>2, <5>3, ExecuteTime, RunTaskTime, IdleTime DEF TimedNext
      <4>2. CASE ~Testing
        <5>1. \E t \in DOMAIN th : Start(t)
          <6>1. [Next]_vars
            BY <1>1, TimedSteps
          <6>2. pc' # pc
            BY <2>2, <4>2 DEF Testing
          <6> QED
            BY <2>2, <4>2, <6>1, <6>2
            DEF Next, Scheduler, Testing, Prime, Schedule, Dispatch, Block, Recalc,
                StopWrite, StopPost, StopJoin, Task, Wake, ReadPill, FinishJob,
                Terminated, vars, sched
        <5> QED
          BY <5>1, StartTime
      <4> QED
        BY <4>1, <4>2
    <3>2. CASE algo' # algo
      <4>1. [Next]_vars /\ ai' # ai
        BY <1>1, <3>2, TimedSteps DEF algo
      <4>2. StopJoin
        BY <4>1
        DEF Next, Scheduler, Prime, Start, Starting, Schedule, Dispatch, Block,
            Recalc, StopWrite, StopPost, Task, Wake, ReadPill, FinishJob,
            Terminated, vars, sched
      <4> QED
        BY <2>2, <4>2 DEF StopJoin, Testing
    <3> QED
      BY <3>1, <3>2
  <2>3. CASE ~Testing'
    BY <2>3 DEF TimeInv
  <2> QED
    BY <2>1, <2>2, <2>3
<1> QED
  BY <1>2, <1>3 DEF TimedInv
-----------------------------------------------------------------------------
(* RoundInv, step by step.                                                 *)

(* The numbers.                                                            *)
LEMMA GraceType ==
  ASSUME TypeOK, TimedTypeOK, Testing
  PROVE  /\ IsFiniteSet(Ids) /\ Grace \in [Ids -> Int]
         /\ \A t \in Ids : Grace[t] = a[si][t] * (12 - spin)
         /\ SumFunction(Grace) \in Int
         /\ now \in Nat /\ spin \in Nat /\ now * spin \in Int /\ elapsed \in Nat
<1>1. /\ spin \in Nat /\ now \in Nat /\ elapsed \in Nat /\ WaitTime = 12
      /\ now * spin \in Int
  <2>1. spin \in Nat /\ now \in Nat /\ elapsed \in Nat
    BY SpinsAssumption DEF TimedTypeOK, TypeOK
  <2> QED
    BY <2>1, Width, ProductNat
<1>2. \A t \in Ids : a[si][t] \in Nat
  BY Counts
<1>3. Grace = [t \in Ids |-> a[si][t] * (12 - spin)]
  BY <1>1 DEF Grace, AccumulatedBy
<1>4. Grace \in [Ids -> Int]
  BY <1>1, <1>2, <1>3
<1>5. IsFiniteSet(Ids)
  <2>1. Ids = 1..Len(set) /\ Len(set) \in Nat
    BY SetUnderTest
  <2> QED
    BY <2>1, FS_Interval
<1> QED
  BY <1>1, <1>3, <1>4, <1>5, SumType

(* On pace the job of the head has had all rounds it is charged and, while *)
(* it runs, this one.                                                      *)
LEMMA HeadHad ==
  ASSUME TimedInv, RoundInv, OnPace, Testing, head \in Ids
  PROVE  /\ Left(head) \in Nat /\ a[si][head] \in Nat
         /\ set[head].c * spin \in Nat /\ Had(head) \in Int
         /\ algo = "rma" => a[si][head] = 0
         /\ algo \in Preemptive /\ Undone(head) =>
              Had(head) - a[si][head] * 12 = HadNow(head)
<1>1. LogicInv /\ TypeOK /\ TimedTypeOK /\ TimeInv /\ InTime
  BY Parts
<1>2. /\ Left(head) \in Nat /\ a[si][head] \in Nat
      /\ HadNow(head) \in 0..12
      /\ Rounds(head) = Left(head) + a[si][head] * 12 + HadNow(head)
      /\ set[head].c * spin \in Nat
  BY <1>1, RoundsType
<1>3. Had(head) \in Int
  BY <1>2 DEF Had
<1>4. algo = "rma" => a[si][head] = 0
  BY <1>1 DEF LogicInv, IInv, RmaTokens
<1>5. ASSUME algo \in Preemptive, Undone(head)
      PROVE  Had(head) - a[si][head] * 12 = HadNow(head)
  <2>1. /\ Rounds(head) <= set[head].c * spin
        /\ Rounds(head) >= set[head].c * spin
    BY <1>1, <1>5 DEF TimeInv, HadItsRounds, NoMoreThanRounds
  <2>2. Had(head) = set[head].c * spin - Left(head)
    BY <1>5 DEF Had
  <2> QED
    BY <1>2, <2>1, <2>2
<1> QED
  BY <1>2, <1>3, <1>4, <1>5

(* A test begins at time 0 with nothing accounted.                         *)
LEMMA StartRound ==
  ASSUME TimedInv, TimedInv', NEW t \in DOMAIN th, Start(t), elapsed' = 0
  PROVE  RoundInv'
<1> SUFFICES ASSUME pc' = "schedule"
             PROVE  /\ \A u \in Ids' : th'[u].done = 0
                    /\ 0 = now' * spin' + SumFunction(Grace')
  BY DEF RoundInv, RoundSoFar, Testing, Start, Starting
<1>1. /\ TypeOK /\ ListsFollow /\ FreshThreads /\ pc = "start"
      /\ th \in [Ids -> ThreadRec] /\ t \in Ids /\ Ids' = Ids
  BY DEF TimedInv, LogicInv, IInv, StructInv, Start, Starting, TypeOK, Ids, set
<1>2. /\ al_tasks = [v \in Ids |-> v] /\ Ids = 1..Len(set) /\ Len(set) \in Nat
  BY <1>1, SetUnderTest DEF ListsFollow
<1>3. PICK g \in Garbage : th' = [th EXCEPT ![t] = NewThread(g)]
  BY DEF Start, Starting
<1>4. ASSUME NEW u \in Ids
      PROVE  th'[u].done = 0 /\ a'[si'][u] = 0
  <2>1. u # t => u \in 1..(t - 1)
    BY <1>2 DEF Start, Starting
  <2>2. u # t => th[u].at = "wait"
    BY <1>1, <2>1 DEF Start, Starting, FreshThreads
  <2>3. th'[u].done = 0
    BY <1>1, <1>3 DEF FreshThreads, NewThread
  <2>4. a'[si'][u] = 0
    BY <1>1, <2>2 DEF FreshThreads, Start, Starting, TypeOK, Ids, set
  <2> QED
    BY <2>3, <2>4
<1>5. now' = 0
  BY <1>1 DEF FreshThreads, Start, Starting, history
<1>6. IsFiniteSet(Ids) /\ spin' \in Nat /\ \A u \in Ids : Grace'[u] = 0
  <2>1. IsFiniteSet(Ids)
    BY <1>2, FS_Interval
  <2>2. spin' \in Nat /\ WaitTime' = 12
    BY SpinsAssumption, Width DEF TimedInv, TimedTypeOK
  <2>3. Grace' = [u \in Ids |-> a'[si'][u] * (12 - spin')]
    BY <1>1, <2>2 DEF Grace, AccumulatedBy
  <2>4. \A u \in Ids : Grace'[u] = 0 * (12 - spin')
    BY <1>4, <2>3
  <2> QED
    BY <2>1, <2>2, <2>4
<1>7. SumFunction(Grace') = 0
  <2>1. Grace' \in [Ids -> Int]
    BY <1>1, <1>6 DEF Grace
  <2> QED
    BY <1>6, <2>1, SumOfZeros
<1> QED
  BY <1>1, <1>4, <1>5, <1>6, <1>7

(* Neither fixt_algo_schedule nor the dispatch takes time, but for a       *)
(* scheduler that spins to the next release.                               *)
LEMMA ScheduleRound ==
  ASSUME TimedInv, RoundInv, RunScheduler, Schedule
  PROVE  RoundInv'
<1>1. /\ pc = "schedule" /\ Testing /\ pc' \in {"dispatch", "halt"}
      /\ set' = set /\ UNCHANGED <<si, a, th, now>>
  BY DEF Schedule, set, Testing, history
<1>2. [TimedNext]_timedVars /\ elapsed' = elapsed + 0
  BY <1>1 DEF RunScheduler, TimedNext, SchedulerSpins, Between
<1>3. /\ Ids' = Ids /\ spin' = spin /\ WaitTime' = WaitTime
      /\ (OnPace' <=> OnPace)
  BY <1>1, <1>2, Parts, SameTest
<1>4. Grace' = Grace
  BY <1>1, <1>3 DEF Grace, AccumulatedBy
<1>5. elapsed' = elapsed
  BY <1>1, <1>2, Parts, GraceType
<1>6. RoundSoFar = 0 /\ (Testing' => RoundSoFar' = 0)
  BY <1>1 DEF RoundSoFar, Testing
<1> QED
  BY <1>1, <1>3, <1>4, <1>5, <1>6 DEF RoundInv

LEMMA DispatchRound ==
  ASSUME TimedInv, TimedInv', RoundInv, RunScheduler, Dispatch
  PROVE  RoundInv'
<1>1. /\ Testing /\ TypeOK /\ ListsFollow /\ TimeInv /\ LogicInv /\ TimedTypeOK
      /\ Ids = 1..Len(set) /\ Len(set) \in Nat /\ (OnPace => InTime)
      /\ algo = "rma" \/ algo \in Preemptive
  BY Parts DEF Dispatch, Testing
<1>2. /\ pc = "dispatch" /\ pc' = (IF queue = <<>> THEN "recalc" ELSE "block")
      /\ Ids' = Ids /\ set' = set /\ head' = head /\ algo' = algo
      /\ UNCHANGED <<queue, r, a, si, jobs, acked, now>>
      /\ DOMAIN th' = DOMAIN th
      /\ \A t \in Ids :
           /\ th'[t].at = th[t].at /\ th'[t].done = th[t].done
           /\ th'[t].cont = IF t = head /\ queue # <<>> /\ a[si][head] = 0
                            THEN th[t].cont + 1 ELSE th[t].cont
  BY <1>1, DispatchEffect DEF Dispatch, history
<1>3. [TimedNext]_timedVars /\ work' = work /\ elapsed' = elapsed + SchedulerSpins
  BY <1>2 DEF RunScheduler, TimedNext, Between
<1>4. /\ spin' = spin /\ WaitTime' = WaitTime /\ WaitTime = 12
      /\ (OnPace' <=> OnPace)
  BY <1>1, <1>2, <1>3, SameTest, Width
<1> SUFFICES ASSUME OnPace
             PROVE  /\ \A t \in Ids : th'[t].done = 0
                    /\ elapsed' = now * spin + SumFunction(Grace') + RoundSoFar'
  BY <1>2, <1>4 DEF RoundInv
<1>5. Grace' = Grace
  BY <1>2, <1>4 DEF Grace, AccumulatedBy
<1>6. /\ elapsed = now * spin + SumFunction(Grace)
      /\ now * spin \in Int /\ SumFunction(Grace) \in Int /\ elapsed \in Nat
  <2>1. /\ now * spin \in Int /\ SumFunction(Grace) \in Int /\ elapsed \in Nat
    BY <1>1, GraceType
  <2>2. elapsed = now * spin + SumFunction(Grace) + 0
    BY <1>1, <1>2 DEF RoundInv, RoundSoFar
  <2> QED
    BY <2>1, <2>2
<1>7. ASSUME NEW t \in Ids PROVE th[t].done = 0 /\ th[t].cont \in Nat
  <2>1. ~(th[t].done > 0) /\ th[t].done \in Nat /\ th[t].cont \in Nat
    BY <1>1, <1>2, Counts DEF RoundInv
  <2> QED
    BY <2>1
<1>8. CASE queue = <<>>
  <2>1. head = 0 /\ Sched!MinR' = Sched!MinR
    BY <1>1, <1>2, <1>8, HeadType DEF Sched!MinR, Sched!Ids, Between
  <2>2. RoundSoFar' = Sched!MinR * spin /\ SchedulerSpins = Sched!MinR * spin
    BY <1>2, <1>4, <1>8, <2>1 DEF RoundSoFar, SchedulerSpins
  <2> QED
    BY <1>2, <1>3, <1>5, <1>6, <1>7, <2>2
<1>9. CASE queue # <<>>
  <2>1. head \in Ids /\ head # 0 /\ SchedulerSpins = 0
    BY <1>1, <1>2, <1>9, HeadType DEF SchedulerSpins
  <2>2. RoundSoFar' = Had(head)' - a[si][head] * 12
    BY <1>2, <1>4, <1>9, <2>1 DEF RoundSoFar
  <2>3. /\ a[si][head] \in Nat /\ set[head].c * spin \in Nat
        /\ algo = "rma" => a[si][head] = 0
        /\ algo \in Preemptive /\ Undone(head) =>
             Had(head) - a[si][head] * 12 = HadNow(head)
        /\ Left(head) \in Nat /\ Had(head) \in Int
    BY <1>1, <2>1, HeadHad
  <2>4. RoundSoFar' = 0
    <3>1. CASE a[si][head] = 0
      <4>1. Outstanding(head) = 0
        BY <1>1, <1>2, <2>1, <3>1, OneJob DEF InProgress
      <4>2. ~Busy(head)
        BY <1>7, <2>1, <4>1 DEF Outstanding
      <4>3. Undone(head)' /\ Left(head)' = set[head].c * spin
        BY <1>2, <1>4, <1>7, <1>9, <2>1, <3>1, <4>2 DEF Undone, Left, Busy
      <4> QED
        BY <1>2, <1>4, <2>2, <2>3, <3>1, <4>3 DEF Had
    <3>2. CASE a[si][head] # 0
      <4>1. InProgress(head) /\ algo \in Preemptive
        BY <1>1, <2>3, <3>2 DEF InProgress
      <4>2. Outstanding(head) # 0
        BY <1>1, <1>2, <2>1, <4>1 DEF TimeInv, NoMoreThanRounds
      <4>3. Undone(head)
        BY <1>1, <1>7, <2>1, <4>2, OneJob
      <4>4. Had(head)' = Had(head) /\ HadNow(head) = 0
        BY <1>2, <1>3, <1>4, <2>1, <3>2 DEF Had, Undone, Busy, Left, HadNow
      <4> QED
        BY <2>2, <2>3, <4>1, <4>3, <4>4
    <3> QED
      BY <3>1, <3>2
  <2>5. elapsed' = elapsed
    BY <1>3, <1>6, <2>1
  <2> QED
    BY <1>2, <1>5, <1>6, <1>7, <2>4, <2>5
<1> QED
  BY <1>8, <1>9

(* The end of the wait takes none either.                                  *)
LEMMA BlockRound ==
  ASSUME TimedInv, RoundInv, RunScheduler, Block
  PROVE  RoundInv'
<1>1. /\ Testing /\ TypeOK /\ ListsFollow /\ TimeInv /\ LogicInv /\ TimedTypeOK
      /\ (OnPace => InTime)
  BY Parts DEF Block, Testing
<1>2. /\ pc = "block" /\ pc' = "recalc"
      /\ Ids' = Ids /\ set' = set /\ head' = head /\ algo' = algo
      /\ UNCHANGED <<queue, r, a, si, jobs, now>>
      /\ head \in Ids /\ DOMAIN th' = DOMAIN th
      /\ \A t \in Ids :
           /\ th'[t].at = th[t].at /\ th'[t].cont = th[t].cont
           /\ IF t = head /\ TakeDone(head)
              THEN th'[t].done = th[t].done - 1 /\ acked'[t] = acked[t] + 1
              ELSE th'[t].done = th[t].done     /\ acked'[t] = acked[t]
  BY <1>1, BlockEffect DEF Block
<1>3. /\ [TimedNext]_timedVars /\ work' = work /\ elapsed' = elapsed + 0
  BY <1>2 DEF RunScheduler, TimedNext, SchedulerSpins, Between
<1>4. /\ spin' = spin /\ WaitTime' = WaitTime /\ (OnPace' <=> OnPace)
  BY <1>1, <1>2, <1>3, SameTest
<1> SUFFICES ASSUME OnPace
             PROVE  /\ \A t \in Ids : ~(th'[t].done > 0)
                    /\ elapsed' = now * spin + SumFunction(Grace') + RoundSoFar'
  BY <1>2, <1>4 DEF RoundInv
<1>5. Grace' = Grace
  BY <1>2, <1>4 DEF Grace, AccumulatedBy
<1>6. elapsed' = elapsed
  BY <1>1, <1>3, GraceType
<1>7. ASSUME NEW t \in Ids PROVE ~(th'[t].done > 0)
  <2>1. /\ th[t].done \in Nat /\ th[t].cont \in Nat
        /\ Outstanding(t) \in Nat /\ Outstanding(t) <= 1
    BY <1>1, OneJob
  <2>2. th[t].done <= 1
    BY <2>1 DEF Outstanding
  <2>3. CASE t = head
    BY <1>2, <2>1, <2>2, <2>3 DEF Block, TakeDone, NotDone
  <2>4. CASE t # head
    BY <1>1, <1>2, <2>4 DEF RoundInv
  <2> QED
    BY <2>3, <2>4
<1>8. RoundSoFar' = RoundSoFar
  <2>1. Left(head)' = Left(head) /\ (Undone(head)' <=> Undone(head))
    BY <1>2, <1>3, <1>4 DEF Left, Undone, Busy
  <2>2. Had(head)' = Had(head)
    BY <1>2, <1>4, <2>1 DEF Had
  <2>3. head # 0
    BY <1>1, <1>2, SetUnderTest
  <2> QED
    BY <1>2, <1>4, <2>2, <2>3 DEF RoundSoFar
<1> QED
  BY <1>1, <1>2, <1>5, <1>6, <1>7, <1>8 DEF RoundInv

(* The round's time is what is accounted for it: its quanta, and the grace *)
(* periods that a job gathers until its last round, which is shorter.      *)
LEMMA RecalcRound ==
  ASSUME TimedInv, RoundInv, RunScheduler, Recalc
  PROVE  RoundInv'
<1>1. /\ Testing /\ TypeOK /\ ListsFollow /\ TimeInv /\ LogicInv /\ TimedTypeOK
      /\ Ids = 1..Len(set) /\ Len(set) \in Nat /\ (OnPace => InTime)
      /\ algo = "rma" \/ algo \in Preemptive
  BY Parts DEF Recalc, Testing
<1>2. /\ pc = "recalc" /\ pc' \in {"schedule", "halt"}
      /\ Ids' = Ids /\ set' = set /\ head' = head /\ algo' = algo
      /\ UNCHANGED <<queue, si, th, acked>> /\ now' = now + Sched!Delta
      /\ \A t \in Ids : a'[si][t] = Sched!NewA(t)
  BY <1>1, RecalcEffect DEF Recalc
<1>3. [TimedNext]_timedVars /\ work' = work /\ elapsed' = elapsed + 0
  BY <1>2 DEF RunScheduler, TimedNext, SchedulerSpins, Between
<1>4. /\ spin' = spin /\ WaitTime' = WaitTime /\ WaitTime = 12
      /\ (OnPace' <=> OnPace)
  BY <1>1, <1>2, <1>3, SameTest, Width
<1>5. /\ IsFiniteSet(Ids) /\ Grace \in [Ids -> Int]
      /\ \A t \in Ids : Grace[t] = a[si][t] * (12 - spin)
      /\ SumFunction(Grace) \in Int
      /\ now \in Nat /\ spin \in Nat /\ now * spin \in Int /\ elapsed \in Nat
  BY <1>1, GraceType
<1> SUFFICES ASSUME OnPace, pc' = "schedule"
             PROVE  /\ \A t \in Ids : ~(th[t].done > 0)
                    /\ elapsed = (now + Sched!Delta) * spin + SumFunction(Grace')
  <2>1. elapsed' = elapsed
    BY <1>3, <1>5
  <2>2. pc' = "schedule" => RoundSoFar' = 0
    BY DEF RoundSoFar
  <2>3. Testing' => pc' = "schedule"
    BY <1>2 DEF Testing
  <2>4. (now + Sched!Delta) * spin \in Int
    <3>1. Sched!Delta \in Nat
      BY <1>1, <1>2, RecalcType
    <3> QED
      BY <1>5, <3>1, ProductNat
  <2>5. Grace' \in [Ids -> Int]
    <3>1. \A t \in Ids : a[si][t] \in Nat /\ Sched!NewA(t) \in Nat
      BY <1>1, <1>2, Counts, RecalcCharge
    <3>2. Grace' = [t \in Ids |-> a'[si][t] * (12 - spin)]
      BY <1>2, <1>4 DEF Grace, AccumulatedBy
    <3> QED
      BY <1>2, <1>5, <3>1, <3>2
  <2>6. SumFunction(Grace') \in Int
    BY <1>5, <2>5, SumType
  <2> QED
    BY <1>2, <1>4, <1>5, <2>1, <2>2, <2>3, <2>4, <2>6 DEF RoundInv
<1>6. \A t \in Ids : ~(th[t].done > 0)
  BY <1>1, <1>2 DEF RoundInv
<1>7. elapsed = now * spin + SumFunction(Grace) + RoundSoFar
  BY <1>1 DEF RoundInv
<1>8. \A t \in Ids : a[si][t] \in Nat /\ Sched!NewA(t) \in Nat
  BY <1>1, <1>2, Counts, RecalcCharge
<1>9. Grace' = [t \in Ids |-> Sched!NewA(t) * (12 - spin)]
  BY <1>2, <1>4 DEF Grace, AccumulatedBy
<1>10. Grace' \in [Ids -> Int]
  BY <1>5, <1>8, <1>9
<1>11. \A t \in Ids : t # head => Grace'[t] = Grace[t]
  BY <1>1, <1>2, <1>5, <1>9, RecalcCharge
<1>12. CASE head = 0
  <2>1. Grace' = Grace
    BY <1>1, <1>5, <1>10, <1>11, <1>12
  <2>2. Sched!Delta = Sched!MinR
    BY <1>12 DEF Sched!Delta, Sched!NoTask
  <2>3. Sched!Delta \in Nat
    BY <1>1, <1>2, RecalcType
  <2>4. RoundSoFar = Sched!Delta * spin
    BY <1>2, <1>12, <2>2 DEF RoundSoFar
  <2>5. (now + Sched!Delta) * spin = now * spin + Sched!Delta * spin
    BY <1>5, <2>3, Distributes
  <2>6. Sched!Delta * spin \in Int
    BY <1>5, <2>3, ProductNat
  <2> QED
    BY <1>5, <1>6, <1>7, <2>1, <2>4, <2>5, <2>6
<1>13. CASE head # 0
  <2>1. head \in Ids
    BY <1>1, <1>13, HeadType DEF head
  <2>2. /\ Left(head) \in Nat /\ a[si][head] \in Nat
        /\ set[head].c * spin \in Nat /\ Had(head) \in Int
        /\ algo = "rma" => a[si][head] = 0
        /\ algo \in Preemptive /\ Undone(head) =>
             Had(head) - a[si][head] * 12 = HadNow(head)
        /\ set[head].c \in Nat \ {0}
    BY <1>1, <2>1, HeadHad, RoundsType
  <2>3. RoundSoFar = Had(head) - a[si][head] * 12
    BY <1>2, <1>4, <1>13 DEF RoundSoFar
  <2>4. SumFunction(Grace') = SumFunction(Grace) + (Grace'[head] - Grace[head])
    BY <1>5, <1>10, <1>11, <2>1, SumUpdate
  <2>5. th[head].done = 0 /\ InProgress(head)
    BY <1>1, <1>2, <1>6, <2>1, Counts DEF InProgress
  <2>6. CASE algo = "rma"
    <3>1. Sched!Delta = set[head].c
      BY <1>2, <1>13, <2>6 DEF Sched!Delta, Sched!NoTask, Between
    <3>2. ~Undone(head)
      <4>1. Outstanding(head) = 0
        BY <1>1, <1>2, <2>1, <2>6, Lockstep DEF RmaLockstep, LogicInv
      <4> QED
        BY <1>1, <2>1, <4>1, OneJob
    <3>3. Had(head) = set[head].c * spin
      BY <2>2, <3>2 DEF Had
    <3>4. Grace'[head] = Grace[head]
      BY <1>1, <1>2, <1>5, <1>9, <2>1, <2>6, RecalcCharge
    <3>5. Grace[head] \in Int
      BY <1>5, <2>1
    <3>6. (now + set[head].c) * spin = now * spin + set[head].c * spin
      BY <1>5, <2>2, Distributes
    <3> QED
      BY <1>5, <1>6, <1>7, <2>2, <2>3, <2>4, <2>6, <3>1, <3>3, <3>4, <3>5, <3>6
  <2>7. CASE algo \in Preemptive
    <3>1. Sched!Delta = 1 /\ algo # "rma"
      BY <1>2, <1>13, <2>7
      DEF Sched!Delta, Sched!NoTask, Sched!Period, Between, Preemptive
    <3>2. (now + 1) * spin = now * spin + spin
      BY <1>5, Distributes
    <3>3. CASE Sched!Completes
      <4>1. a[si][head] = set[head].c - 1
        <5>1. set[head].c - a[si][head] - 1 <= 0
          BY <1>1, <1>2, <1>13, <2>7, <3>3, RecalcCharge
        <5>2. a[si][head] < set[head].c
          BY <1>1, <2>1 DEF LogicInv, ChargedInPeriod
        <5> QED
          BY <2>2, <5>1, <5>2
      <4>2. ~Undone(head)
        <5>1. Outstanding(head) = 0
          BY <1>1, <1>2, <3>3, CompleteIsDone
        <5> QED
          BY <1>1, <2>1, <5>1, OneJob
      <4>3. Had(head) = (a[si][head] + 1) * spin
        BY <2>2, <4>1, <4>2 DEF Had
      <4>4. Grace'[head] = 0
        <5>1. Grace'[head] = 0 * (12 - spin)
          BY <1>1, <1>2, <1>9, <2>1, <3>1, <3>3, RecalcCharge
        <5> QED
          BY <1>5, <5>1
      <4>5. Grace[head] = a[si][head] * 12 - a[si][head] * spin
        BY <1>5, <2>1, <2>2, Distributes
      <4>6. (a[si][head] + 1) * spin = a[si][head] * spin + spin
        BY <1>5, <2>2, Distributes
      <4>7. a[si][head] * spin \in Int
        BY <1>5, <2>2, ProductNat
      <4> QED
        BY <1>5, <1>6, <1>7, <2>2, <2>3, <2>4, <3>1, <3>2, <4>3, <4>4, <4>5, <4>6, <4>7
    <3>4. CASE ~Sched!Completes
      <4>1. set[head].c - a[si][head] - 1 > 0
        BY <1>1, <1>2, <1>13, <2>2, <2>7, <3>4, RecalcCharge
      <4>2. Outstanding(head) # 0
        BY <1>1, <1>2, <2>1, <2>2, <2>5, <2>7, <4>1 DEF TimeInv, NoMoreThanRounds
      <4>3. Undone(head)
        BY <1>1, <2>1, <2>5, <4>2, OneJob
      <4>4. Had(head) - a[si][head] * 12 = 12
        BY <1>2, <1>4, <2>2, <2>7, <4>3 DEF HadNow
      <4>5. Grace'[head] = (a[si][head] + 1) * (12 - spin)
        BY <1>1, <1>2, <1>9, <2>1, <3>1, <3>4, RecalcCharge
      <4>6. (a[si][head] + 1) * (12 - spin) = a[si][head] * (12 - spin) + (12 - spin)
        BY <1>5, <2>2, Distributes
      <4>7. Grace[head] = a[si][head] * (12 - spin) /\ Grace[head] \in Int
        BY <1>5, <2>1
      <4> QED
        BY <1>5, <1>6, <1>7, <2>3, <2>4, <3>1, <3>2, <4>4, <4>5, <4>6, <4>7
    <3> QED
      BY <3>3, <3>4
  <2> QED
    BY <1>1, <2>6, <2>7
<1> QED
  BY <1>12, <1>13

(* While a job runs its time and that of the test go on together.          *)
LEMMA ExecuteRound ==
  ASSUME TimedInv, RoundInv, NEW t \in DOMAIN th, Execute(t)
  PROVE  RoundInv'
<1>1. UNCHANGED <<vars, spin>> /\ [TimedNext]_timedVars
  BY DEF Execute, TimedNext
<1>2. /\ set' = set /\ Ids' = Ids /\ head' = head /\ algo' = algo
      /\ UNCHANGED <<pc, si, r, a, th, now, queue>>
  BY <1>1 DEF vars, sched, history, set, Ids, head, algo
<1>3. pc = "block" \/ pc = "join"
  BY DEF Execute, HasProcessor, Blocked
<1> SUFFICES ASSUME pc = "block", OnPace' PROVE RoundInv'
  BY <1>2, <1>3 DEF RoundInv, Testing
<1>4. /\ Testing /\ TypeOK /\ ListsFollow /\ TimeInv /\ LogicInv /\ TimedTypeOK
      /\ DOMAIN th = Ids /\ head \in Ids /\ head # 0
  BY Parts, HeadType DEF Testing, ListsFollow
<1>5. /\ spin' = spin /\ WaitTime' = WaitTime /\ OnPace /\ InTime
  BY <1>1, <1>2, <1>4, SameTest, Parts
<1>6. t = head
  BY <1>4, <1>5, HeadAtWork, HeadHasIt DEF Execute, HasProcessor
<1>7. Undone(head)
  BY <1>5, HeadAtWork DEF Execute, HasProcessor
<1>8. PICK n \in {IF Timed /\ timer < work[t] THEN timer ELSE work[t]} :
        work' = [work EXCEPT ![t] = @ - n] /\ elapsed' = elapsed + n
  BY DEF Execute
<1>9. work \in [Ids -> Nat] /\ timer \in 0..WaitTime /\ th[t].at = "spin"
  BY <1>4 DEF TimedTypeOK, Execute
<1>10. n \in Int /\ Left(head) = work[head] /\ Left(head)' = work[head] - n
  BY <1>2, <1>4, <1>6, <1>8, <1>9, Width DEF Left
<1>11. Undone(head)' /\ Had(head)' = Had(head) + n /\ Had(head) \in Int
  BY <1>2, <1>4, <1>5, <1>7, <1>9, <1>10, HeadHad DEF Undone, Busy, Had
<1>12. Grace' = Grace
  BY <1>2, <1>5 DEF Grace, AccumulatedBy
<1>13. RoundSoFar = Had(head) - a[si][head] * 12
       /\ RoundSoFar' = Had(head)' - a[si][head] * 12
  BY <1>2, <1>4, <1>5, Width DEF RoundSoFar
<1>14. elapsed = now * spin + SumFunction(Grace) + RoundSoFar
  BY <1>4, <1>5 DEF RoundInv
<1>15. elapsed' = now * spin + SumFunction(Grace) + RoundSoFar'
  <2>1. now * spin \in Int /\ SumFunction(Grace) \in Int /\ a[si][head] \in Nat
    BY <1>4, GraceType, Counts
  <2> QED
    BY <1>8, <1>10, <1>11, <1>13, <1>14, <2>1
<1> QED
  BY <1>2, <1>4, <1>5, <1>12, <1>15 DEF RoundInv

LEMMA RunTaskRound ==
  ASSUME TimedInv, RoundInv, NEW t \in DOMAIN th, RunTask(t)
  PROVE  RoundInv'
<1>1. UNCHANGED <<set_list, sched, history, spin, elapsed>> /\ [TimedNext]_timedVars
  BY DEF RunTask, Task, Wake, ReadPill, FinishJob, TimedNext
<1>2. /\ set' = set /\ Ids' = Ids /\ head' = head /\ algo' = algo
      /\ UNCHANGED <<pc, si, r, a, now, queue>>
  BY <1>1 DEF sched, history, set, Ids, head, algo
<1>3. pc = "block" \/ pc = "join"
  BY DEF RunTask, HasProcessor, Blocked
<1> SUFFICES ASSUME pc = "block", OnPace' PROVE RoundInv'
  BY <1>2, <1>3 DEF RoundInv, Testing
<1>4. /\ Testing /\ TypeOK /\ ListsFollow /\ TimeInv /\ LogicInv /\ TimedTypeOK
      /\ DOMAIN th = Ids /\ th \in [Ids -> ThreadRec] /\ head \in Ids /\ head # 0
  BY Parts, HeadType DEF Testing, ListsFollow
<1>5. /\ spin' = spin /\ WaitTime' = WaitTime /\ OnPace /\ InTime
  BY <1>1, <1>2, <1>4, SameTest, Parts
<1>6. Undone(head)
  BY <1>5, HeadAtWork DEF RunTask, HasProcessor
<1>7. t = head
  BY <1>4, <1>5, <1>6, HeadHasIt DEF RunTask
<1>8. /\ th[t] \in ThreadRec /\ th[t].cont \in Nat /\ th[t].done \in Nat
      /\ th[t].cont > 0 => ~Busy(t)
      /\ ~th[t].pipe /\ th[t].pill # PoisonPill
  BY <1>4, <1>5, OneJob DEF LogicInv, IInv, NobodyTold
<1>9. /\ work' = [work EXCEPT ![t] = IF th'[t].at = "spin" THEN set[t].c * spin ELSE @]
      /\ work \in [Ids -> Nat] /\ (th[t].at = "spin" => work[t] = 0)
  BY <1>4 DEF RunTask, TimedTypeOK
<1>10. Had(head)' = Had(head)
  <2>1. CASE Wake(t)
    <3>1. th'[t].at = "poison" /\ th[t].at = "wait"
      BY <1>4, <1>8, <2>1 DEF Wake, ThreadRec
    <3> QED
      BY <1>2, <1>5, <1>6, <1>7, <3>1 DEF Had, Undone, Busy, Left
  <2>2. CASE ReadPill(t)
    <3>1. th'[t].at = "spin" /\ th[t].at = "poison"
      BY <1>4, <1>8, <2>2 DEF ReadPill, ThreadRec
    <3>2. work'[t] = set[t].c * spin
      BY <1>4, <1>9, <3>1
    <3> QED
      BY <1>2, <1>5, <1>6, <1>7, <3>1, <3>2 DEF Had, Undone, Busy, Left
  <2>3. CASE FinishJob(t)
    <3>1. /\ th'[t].at = "wait" /\ th'[t].cont = th[t].cont /\ th[t].at = "spin"
      BY <1>4, <1>8, <2>3 DEF FinishJob, ThreadRec
    <3>2. ~Undone(head)' /\ Left(head) = 0
      BY <1>2, <1>7, <1>8, <1>9, <3>1 DEF Undone, Busy, Left
    <3> QED
      BY <1>2, <1>5, <1>6, <1>7, <3>2 DEF Had
  <2> QED
    BY <2>1, <2>2, <2>3 DEF RunTask, Task
<1>11. \A u \in Ids : u # t => th'[u] = th[u]
  BY <1>4 DEF RunTask, Task, Wake, ReadPill, FinishJob
<1>12. Grace' = Grace /\ RoundSoFar' = RoundSoFar
  BY <1>2, <1>4, <1>5, <1>10 DEF Grace, AccumulatedBy, RoundSoFar
<1> QED
  BY <1>1, <1>2, <1>4, <1>5, <1>7, <1>11, <1>12 DEF RoundInv

LEMMA NextRound ==
  ASSUME TimedInv, TimedInv', RoundInv, [TimedNext]_timedVars
  PROVE  RoundInv'
<1>1. CASE RunScheduler
  <2>1. ASSUME NEW t \in DOMAIN th, Start(t) PROVE RoundInv'
    <3>1. elapsed' = 0
      BY <1>1, <2>1 DEF RunScheduler, Start, Starting, Between
    <3> QED
      BY <2>1, <3>1, StartRound
  <2>2. CASE Prime \/ StopWrite \/ StopPost \/ StopJoin
    BY <2>2 DEF Prime, StopWrite, StopPost, StopJoin, RoundInv, Testing
  <2> QED
    BY <1>1, <2>1, <2>2, ScheduleRound, DispatchRound, BlockRound, RecalcRound
    DEF RunScheduler, Scheduler
<1>2. ASSUME NEW t \in DOMAIN th, Execute(t) \/ RunTask(t) PROVE RoundInv'
  BY <1>2, ExecuteRound, RunTaskRound
<1>3. CASE Idle
  <2>1. UNCHANGED <<vars, spin>> /\ pc = "block" /\ Blocked
    BY <1>3 DEF Idle, Timed
  <2>2. set' = set /\ Testing
    BY <2>1 DEF vars, sched, set, Testing
  <2>3. /\ TypeOK /\ LogicInv /\ ListsFollow /\ DOMAIN th = Ids
        /\ OnPace' <=> OnPace
    BY <2>2, Parts, SameTest
  <2>4. ~OnPace
    <3>1. head \in Ids
      BY <2>1, <2>3, HeadType DEF ListsFollow
    <3>2. ~Undone(head)
      BY <1>3, <2>2, <2>3, <3>1, UndoneRuns DEF Idle
    <3> QED
      BY <2>1, <3>2, HeadAtWork
  <2> QED
    BY <2>3, <2>4 DEF RoundInv
<1>4. CASE AllDone \/ UNCHANGED timedVars
  <2>1. UNCHANGED timedVars
    BY <1>4 DEF AllDone, Terminated, timedVars
  <2>2. /\ set' = set /\ Ids' = Ids /\ head' = head
        /\ UNCHANGED <<pc, si, r, a, th, now, queue, spin, work, elapsed>>
    BY <2>1 DEF timedVars, vars, sched, history, clock, set, Ids, head
  <2>3. Sched!MinR' = Sched!MinR
    BY <2>1 DEF timedVars, vars, sched, set, Sched!MinR, Sched!Ids
  <2>4. WaitTime' = WaitTime
    BY DEF WaitTime, Sched!Period
  <2>5. (OnPace' <=> OnPace) /\ (Testing' <=> Testing) /\ Grace' = Grace
    BY <2>2, <2>4 DEF OnPace, InTime, Testing, Grace, AccumulatedBy
  <2>6. \A t : Undone(t)' <=> Undone(t)
    BY <2>2 DEF Undone, Busy
  <2>7. \A t : Left(t)' = Left(t)
    BY <2>2 DEF Left
  <2>8. RoundSoFar' = RoundSoFar
    BY <2>2, <2>3, <2>4, <2>6, <2>7 DEF RoundSoFar, Had
  <2> QED
    BY <2>2, <2>5, <2>8 DEF RoundInv
<1> QED
  BY <1>1, <1>2, <1>3, <1>4 DEF TimedNext
-----------------------------------------------------------------------------
(* The theorems.                                                           *)

(* The invariant holds at all times, for a Garbage that cannot be mistaken *)
(* for the pill: the tokens and the counters agree with the priorities and *)
(* with the time each job has had (fixt_algo_run, the hooks of the         *)
(* algorithms, fixt_task_routine).                                         *)
THEOREM TimedInvariance ==
  ASSUME PoisonPill \notin Garbage
  PROVE  TimedSpec => []TimedInv
<1>1. TimedInit => TimedInv
  <2> SUFFICES ASSUME TimedInit PROVE TimedInv
    OBVIOUS
  <2>1. Init /\ pc = "prime"
    BY DEF TimedInit, Init
  <2>2. LogicInv /\ TimedTypeOK
    BY <2>1, InitLogic, InitTimed
  <2> QED
    BY <2>1, <2>2 DEF TimedInv, TimeInv, Testing
<1>2. TimedInv /\ [TimedNext]_timedVars => TimedInv'
  BY NextTime
<1> QED
  BY <1>1, <1>2, PTL DEF TimedSpec

(* What is left to spin, the timer and the time are what they should be,   *)
(* whatever Garbage is: in particular the timer never runs past the end of *)
(* the wait (spin_abstime_in_quanta, fixt_task_timeddone).                 *)
THEOREM TimedTyped == TimedSpec => []TimedTypeOK
<1>1. TimedInit => StructInv /\ TimedTypeOK
  BY InitStruct, InitTimed DEF TimedInit
<1>2. StructInv /\ TimedTypeOK /\ [TimedNext]_timedVars
        => StructInv' /\ TimedTypeOK'
  <2> SUFFICES ASSUME StructInv, TimedTypeOK, [TimedNext]_timedVars
               PROVE  StructInv' /\ TimedTypeOK'
    OBVIOUS
  <2>1. [Next]_vars
    BY TimedSteps DEF StructInv
  <2> QED
    BY <2>1, NextStruct, NextTimed
<1> QED
  BY <1>1, <1>2, PTL DEF TimedSpec

(* A fixture in time is one of FixtThreads: the priorities and the timer   *)
(* only take behaviours away, so that every invariant and action property  *)
(* of FixtThreads is one of the fixture on one processor (fixt_algo_run,   *)
(* fixt_task_routine).                                                     *)
THEOREM ImplementsThreadsSafely == TimedSpec => Init /\ [][Next]_vars
<1>1. TimedInit => Init /\ StructInv
  BY InitStruct DEF TimedInit
<1>2. StructInv /\ [TimedNext]_timedVars => StructInv' /\ [Next]_vars
  <2> SUFFICES ASSUME StructInv, [TimedNext]_timedVars
               PROVE  StructInv' /\ [Next]_vars
    OBVIOUS
  <2>1. [Next]_vars
    BY TimedSteps DEF StructInv
  <2> QED
    BY <2>1, NextStruct
<1> QED
  BY <1>1, <1>2, PTL DEF TimedSpec

(* When the bookkeeping completes a job, its thread has finished it and    *)
(* the token is taken, if a quantum is shorter than the timed wait: the    *)
(* counters of edf_recalc and sct_recalc are right although nobody asks    *)
(* the thread.                                                             *)
THEOREM CountersAreRight ==
  ASSUME PoisonPill \notin Garbage
  PROVE  TimedSpec => []CountersRight
<1>1. TimedInv => CountersRight
  BY CompleteIsDone DEF CountersRight
<1> QED
  BY <1>1, TimedInvariance, PTL

(* On pace, the processor time of a round goes to the queue's head: the    *)
(* dispatch hooks give it a priority of its own, and its job is not over   *)
(* before the round is (fixt_algo_run, edf_dispatch, sct_dispatch,         *)
(* rma_dispatch).                                                          *)
THEOREM OnlyTheHeadRuns ==
  ASSUME PoisonPill \notin Garbage
  PROVE  TimedSpec => HeadRuns
<1> DEFINE A == OnPace /\ pc = "block" =>
                  \A t \in DOMAIN th : work'[t] < work[t] => t = head
<1>1. TimedInv /\ [TimedNext]_timedVars => [A]_timedVars
  <2> SUFFICES ASSUME TimedInv, TimedNext, OnPace, pc = "block",
                      NEW u \in DOMAIN th, work'[u] < work[u]
               PROVE  u = head
    OBVIOUS
  <2>1. /\ LogicInv /\ TimeInv /\ InTime /\ TypeOK /\ ListsFollow
        /\ work \in [DOMAIN th -> Nat] /\ work' # work
    <3>1. LogicInv /\ TimeInv /\ InTime /\ TypeOK /\ ListsFollow /\ TimedTypeOK
      BY Parts DEF Testing
    <3>2. work \in [DOMAIN th -> Nat]
      BY <3>1 DEF TimedTypeOK
    <3>3. work[u] \in Nat
      BY <3>2
    <3> QED
      BY <3>1, <3>2, <3>3
  <2>2. PICK t \in DOMAIN th : Execute(t) \/ RunTask(t)
    <3>1. ~RunScheduler
      <4> SUFFICES ASSUME RunScheduler PROVE FALSE
        OBVIOUS
      <4>1. Block
        BY DEF RunScheduler, Scheduler, Prime, Start, Starting, Schedule, Dispatch,
               Recalc, StopWrite, StopPost, StopJoin
      <4>2. DOMAIN th' = DOMAIN th
        BY <2>1, <4>1, BlockEffect
      <4> QED
        BY <2>1, <4>2 DEF RunScheduler
    <3> QED
      BY <2>1, <3>1 DEF TimedNext, Idle, AllDone, clock
  <2>3. HasProcessor(t) /\ Blocked
    BY <2>2 DEF Execute, RunTask, HasProcessor
  <2>4. u = t
    <3>1. work'[u] # work[u]
      BY <2>1
    <3>2. \A v \in DOMAIN th : v # t => work'[v] = work[v]
      BY <2>1, <2>2 DEF Execute, RunTask
    <3> QED
      BY <3>1, <3>2
  <2>5. Undone(head)
    BY <2>3, HeadAtWork
  <2> QED
    BY <2>1, <2>3, <2>4, <2>5, HeadHasIt
<1> QED
  BY <1>1, TimedInvariance, PTL DEF TimedSpec, HeadRuns

(* On pace the quanta of the bookkeeping are real ones: at the start of a  *)
(* round the time since the test began is that of the quanta accounted,    *)
(* plus a grace period for each round of a job under way                   *)
(* (spin_abstime_in_quanta with the recalc hooks).                         *)
THEOREM QuantaAreRealOnes ==
  ASSUME PoisonPill \notin Garbage
  PROVE  TimedSpec => []QuantaAreReal
<1>1. TimedInit => RoundInv
  BY DEF TimedInit, Init, RoundInv, Testing
<1>2. TimedInv /\ TimedInv' /\ RoundInv /\ [TimedNext]_timedVars => RoundInv'
  BY NextRound
<1>3. TimedInv /\ RoundInv => QuantaAreReal
  <2> SUFFICES ASSUME TimedInv, RoundInv, OnPace, pc = "schedule"
               PROVE  elapsed = now * spin + SumFunction(Grace)
    BY DEF QuantaAreReal, Grace
  <2>1. Testing /\ TypeOK /\ TimedTypeOK
    BY Parts DEF Testing
  <2>2. elapsed = now * spin + SumFunction(Grace) + 0
    BY <2>1 DEF RoundInv, RoundSoFar
  <2> QED
    BY <2>1, <2>2, GraceType
<1> QED
  BY <1>1, <1>2, <1>3, TimedInvariance, PTL DEF TimedSpec
=============================================================================
