---------------------------- MODULE FixtThreads ----------------------------
(***************************************************************************)
(* The test fixture with its threads: the scheduler thread, which runs     *)
(* every registered algorithm on every registered task set (fixt/fixt.c,   *)
(* fixt/fixt_algo.c), and one thread per task of the set under test        *)
(* (fixt/fixt_task.c).                                                     *)
(*                                                                         *)
(* They share two semaphores and a pipe per task.  The scheduler posts     *)
(* tk_sem_cont to release a job and waits on tk_sem_done, for EDF and SCT  *)
(* no longer than a quantum; a pill in the pipe tells the thread to quit.  *)
(* Threads are interleaved freely and a timed wait may expire whenever the *)
(* semaphore is 0, so a job may take any time at all: what holds here      *)
(* holds for every calibration, load and number of processors.             *)
(*                                                                         *)
(* The counters are those of FixtSched, whose operators are used through   *)
(* Sched; that the fixture implements FixtSched is ImplementsSched.        *)
(***************************************************************************)
EXTENDS Integers, Sequences, FiniteSets

CONSTANTS
  AlgoList,   \* algo_list: the names of the registered algorithms
  SetLists,   \* the values set_list may have: sequences of task sets
  Horizon,    \* bound: the clock ends a test no later than this many quanta
  Garbage     \* what an uninitialised int may hold: PoisonPill or another

PoisonPill == 1     \* POISON_PILL
BasePrio   == 10    \* FIXT_ALGO_BASE_PRIO
MinPrio    == 7     \* FIXT_ALGO_MIN_PRIO
Preemptive == {"edf", "sct"}

TaskRec  == [c : Nat \ {0}, p : Nat \ {0}, d : Nat \ {0}]
AllSets  == UNION {{l[i] : i \in DOMAIN l} : l \in SetLists}
AllTasks == UNION {DOMAIN s : s \in AllSets}

ASSUME AlgoListAssumption == AlgoList \in Seq({"rma", "edf", "sct"}) \ {<<>>}
ASSUME SetListsAssumption ==
  SetLists \subseteq Seq(Seq(TaskRec) \ {<<>>}) \ {<<>>}
ASSUME GarbageAssumption  == Garbage \subseteq Int

VARIABLES
  set_list,       \* set_list, chosen once: a sequence of task sets
  pc,             \* what the scheduler thread does next
  ai,             \* fixt_test's place in algo_list
  si,             \* fixt_test's place in set_list
  al_tasks,       \* al_tasks_head: the tasks of the test, in list order
  queue,          \* al_queue_head: the ready tasks, most urgent first
  al_schedulable, \* al_schedulable of the current algorithm
  r,              \* r[s][t]: tk_r of task t of the set at s in set_list
  a,              \* a[s][t]: its tk_a
  th,             \* th[t]: the thread of task t, its semaphores and its pipe
  now,            \* history: quanta accounted since the test began
  jobs,           \* history: jobs[t], the jobs the bookkeeping has completed
  acked           \* history: acked[t], tokens the scheduler took from tk_sem_done

sched   == <<pc, ai, si, al_tasks, queue, al_schedulable, r, a>>
history == <<now, jobs, acked>>
vars    == <<set_list, sched, th, history>>
-----------------------------------------------------------------------------
algo == AlgoList[ai]
set  == set_list[si]
Ids  == DOMAIN set
head == IF queue = <<>> THEN 0 ELSE queue[1]

Between == {"prime", "start", "term"}     \* no test is going on

Sched == INSTANCE FixtSched WITH
  Algos    <- {AlgoList[i] : i \in DOMAIN AlgoList},
  TaskSets <- AllSets,
  pc       <- IF pc \in Between THEN "idle"
              ELSE IF pc = "schedule" THEN "schedule"
              ELSE IF pc \in {"dispatch", "block", "recalc"} THEN "run"
              ELSE "halt",
  tasks    <- IF pc \in Between THEN <<>> ELSE set,
  r        <- IF pc \in Between THEN <<>> ELSE r[si],
  a        <- IF pc \in Between THEN <<>> ELSE a[si],
  jobs     <- IF pc \in Between THEN <<>> ELSE jobs,
  now      <- IF pc \in Between THEN 0 ELSE now,
  head     <- head,
  schedulable <- al_schedulable

(* A task that has no thread yet.                                          *)
NoThread ==
  [at |-> "none", cont |-> 0, done |-> 0, pill |-> 0, pipe |-> FALSE, prio |-> 0]

(* pthread_create for fixt_task_routine: fresh semaphores and an empty     *)
(* pipe; the local variable pill holds whatever is on the stack.  Without  *)
(* PTHREAD_EXPLICIT_SCHED the priority in the attributes is ignored and    *)
(* the thread inherits the one of the scheduler.                           *)
NewThread(garbage) ==
  [at |-> "wait", cont |-> 0, done |-> 0, pill |-> garbage, pipe |-> FALSE,
   prio |-> BasePrio]

Busy(t) == th[t].at \in {"poison", "spin"}
-----------------------------------------------------------------------------
(* The scheduler thread.                                                   *)

Init ==
  /\ set_list \in SetLists
  /\ pc = "prime" /\ ai = 1 /\ si = 1
  /\ al_tasks = <<>> /\ queue = <<>>
  /\ al_schedulable \in BOOLEAN           \* not set by fixt_algo_new
  /\ r = [s \in DOMAIN set_list |-> [t \in DOMAIN set_list[s] |-> 0]]
  /\ a = [s \in DOMAIN set_list |-> [t \in DOMAIN set_list[s] |-> 0]]
  /\ th = <<>> /\ jobs = <<>> /\ acked = <<>>
  /\ now = 0

(* prime_algo: the tasks of the set are appended to al_tasks_head.         *)
Prime ==
  /\ pc = "prime"
  /\ pc' = "start"
  /\ al_tasks' = [t \in Ids |-> t]
  /\ th'    = [t \in Ids |-> NoThread]
  /\ jobs'  = [t \in Ids |-> 0]
  /\ acked' = [t \in Ids |-> 0]
  /\ now' = 0
  /\ UNCHANGED <<set_list, ai, si, queue, al_schedulable, r, a>>

(* fixt_algo_init: fixt_task_run for the next task of the list.            *)
Starting(t) ==
  /\ pc = "start"
  /\ th[t].at = "none" /\ \A u \in 1..(t - 1) : th[u].at # "none"
  /\ \E g \in Garbage : th' = [th EXCEPT ![t] = NewThread(g)]
  /\ pc' = IF t = Len(al_tasks) THEN "schedule" ELSE "start"
  /\ UNCHANGED <<set_list, ai, si, al_tasks, queue, al_schedulable, history>>

(* Faulty: the counters keep the values of the previous test of the set.   *)
StartKept(t) == Starting(t) /\ UNCHANGED <<r, a>>

Start(t) ==
  /\ Starting(t)
  /\ r' = [r EXCEPT ![si][t] = 0]
  /\ a' = [a EXCEPT ![si][t] = 0]

(* fixt_algo_schedule: al_schedule rebuilds and sorts the queue; then every*)
(* queued task is checked.                                                 *)
Schedule ==
  /\ pc = "schedule"
  /\ \E q \in [1..Cardinality(Sched!Ready) -> Sched!Ready] :
       /\ \A i, j \in DOMAIN q : i < j => Sched!Before(q[i], q[j])
       /\ queue' = q
       /\ al_schedulable' =
            \A t \in Sched!Ready : Sched!Fits(t, IF q = <<>> THEN 0 ELSE q[1])
  /\ pc' = IF al_schedulable' THEN "dispatch" ELSE "halt"
  /\ UNCHANGED <<set_list, ai, si, al_tasks, r, a, th, history>>

(* Faulty: the priorities ascend along the queue.                          *)
ReleasedAscending(post) ==
  [t \in Ids |->
     [th[t] EXCEPT
        !.prio = IF \E i \in DOMAIN queue : queue[i] = t
                 THEN LET i == CHOOSE i \in DOMAIN queue : queue[i] = t
                      IN  IF MinPrio + i < BasePrio THEN MinPrio + i ELSE BasePrio - 1
                 ELSE @,
        !.cont = IF t = head /\ post THEN @ + 1 ELSE @]]

(* The threads after fixt_algo_run has set the priorities of the queued    *)
(* tasks and, if post holds, released the head.                            *)
Released(post) ==
  [t \in Ids |->
     [th[t] EXCEPT
        !.prio = IF \E i \in DOMAIN queue : queue[i] = t
                 THEN LET i == CHOOSE i \in DOMAIN queue : queue[i] = t
                      IN  IF BasePrio - i < MinPrio THEN MinPrio ELSE BasePrio - i
                 ELSE @,
        !.cont = IF t = head /\ post THEN @ + 1 ELSE @]]

(* Faulty: the head is released in every round.                            *)
DispatchAlways ==
  /\ pc = "dispatch"
  /\ th' = Released(TRUE)
  /\ pc' = IF queue = <<>> THEN "recalc" ELSE "block"
  /\ UNCHANGED <<set_list, ai, si, al_tasks, queue, al_schedulable, r, a, history>>

(* fixt_algo_run up to al_block.  Only a head that is not already executing*)
(* is released.  With an empty queue the scheduler spins to the next       *)
(* release instead.                                                        *)
Dispatch ==
  /\ pc = "dispatch"
  /\ th' = Released(queue # <<>> /\ a[si][head] = 0)
  /\ pc' = IF queue = <<>> THEN "recalc" ELSE "block"
  /\ UNCHANGED <<set_list, ai, si, al_tasks, queue, al_schedulable, r, a, history>>

(* sem_wait, or a sem_timedwait that returns 0.                            *)
TakeDone(h) ==
  /\ th[h].done > 0
  /\ th' = [th EXCEPT ![h].done = @ - 1]
  /\ acked' = [acked EXCEPT ![h] = @ + 1]

(* sem_timedwait fails: the quantum has expired, or the deadline it was    *)
(* given is not a valid time.  It does not fail while the semaphore is     *)
(* positive.                                                               *)
NotDone(h) == th[h].done = 0 /\ UNCHANGED <<th, acked>>

(* Faulty: RMA gives up waiting after a quantum too.                       *)
BlockTimed ==
  /\ pc = "block"
  /\ TakeDone(head) \/ NotDone(head)
  /\ pc' = "recalc"
  /\ UNCHANGED <<set_list, ai, si, al_tasks, queue, al_schedulable, r, a, now, jobs>>

(* al_block.                                                               *)
Block ==
  /\ pc = "block"
  /\ TakeDone(head) \/ (algo \in Preemptive /\ NotDone(head))
  /\ pc' = "recalc"
  /\ UNCHANGED <<set_list, ai, si, al_tasks, queue, al_schedulable, r, a, now, jobs>>

(* al_recalc, and the clock test of run_test_on.                           *)
Recalc ==
  /\ pc = "recalc"
  /\ r' = [r EXCEPT ![si] = [t \in Ids |-> Sched!NewR(t)]]
  /\ a' = [a EXCEPT ![si] = [t \in Ids |-> Sched!NewA(t)]]
  /\ jobs' = [t \in Ids |-> IF t = head /\ Sched!Completes THEN jobs[t] + 1
                                                           ELSE jobs[t]]
  /\ now' = now + Sched!Delta
  /\ \/ now' < Horizon /\ pc' = "schedule"
     \/ pc' = "halt"
  /\ UNCHANGED <<set_list, ai, si, al_tasks, queue, al_schedulable, th, acked>>

(* fixt_algo_halt calls fixt_task_stop for each task in turn, which writes *)
(* the pill, ...                                                           *)
StopWrite ==
  /\ pc = "halt"
  /\ th' = [th EXCEPT ![al_tasks[1]].pipe = TRUE]
  /\ pc' = "post"
  /\ UNCHANGED <<set_list, ai, si, al_tasks, queue, al_schedulable, r, a, history>>

(* ... posts tk_sem_cont so that the thread sees it, ...                   *)
StopPost ==
  /\ pc = "post"
  /\ th' = [th EXCEPT ![al_tasks[1]].cont = @ + 1]
  /\ pc' = "join"
  /\ UNCHANGED <<set_list, ai, si, al_tasks, queue, al_schedulable, r, a, history>>

(* ... and joins it.  The last thread gone, fixt_test goes on to the next  *)
(* combination of algorithm and task set.                                  *)
StopJoin ==
  /\ pc = "join"
  /\ th[al_tasks[1]].at = "exited"
  /\ al_tasks' = Tail(al_tasks)
  /\ IF al_tasks' # <<>>
       THEN /\ pc' = "halt"
            /\ UNCHANGED <<ai, si, queue, al_schedulable, r, a, th, history>>
       ELSE /\ queue' = <<>>
            /\ th' = <<>> /\ jobs' = <<>> /\ acked' = <<>> /\ now' = 0
            /\ UNCHANGED <<r, a>>
            /\ \/ /\ si < Len(set_list)
                  /\ si' = si + 1
                  /\ pc' = "prime"
                  /\ UNCHANGED <<ai, al_schedulable>>
               \/ /\ si = Len(set_list) /\ ai < Len(AlgoList)
                  /\ ai' = ai + 1 /\ si' = 1
                  /\ pc' = "prime"
                  /\ al_schedulable' \in BOOLEAN
               \/ /\ si = Len(set_list) /\ ai = Len(AlgoList)
                  /\ pc' = "term"
                  /\ UNCHANGED <<ai, si, al_schedulable>>
  /\ UNCHANGED set_list

Scheduler ==
  \/ Prime
  \/ \E t \in DOMAIN th : Start(t)
  \/ Schedule \/ Dispatch \/ Block \/ Recalc
  \/ StopWrite \/ StopPost \/ StopJoin
-----------------------------------------------------------------------------
(* A task thread: fixt_task_routine.                                       *)

(* sem_wait on tk_sem_cont returns.                                        *)
Wake(t) ==
  /\ th[t].at = "wait" /\ th[t].cont > 0
  /\ th' = [th EXCEPT ![t].at = "poison", ![t].cont = @ - 1]
  /\ UNCHANGED <<set_list, sched, history>>

(* Faulty: the pill is tested before the pipe is read.                     *)
ReadPillLate(t) ==
  /\ th[t].at = "poison"
  /\ th' = [th EXCEPT ![t].pill = IF th[t].pipe THEN PoisonPill ELSE @,
                      ![t].pipe = FALSE,
                      ![t].at = IF th[t].pill = PoisonPill THEN "exited" ELSE "spin"]
  /\ UNCHANGED <<set_list, sched, history>>

(* The non-blocking read of the pipe, which leaves pill alone when the     *)
(* pipe is empty.                                                          *)
ReadPill(t) ==
  /\ th[t].at = "poison"
  /\ LET pill == IF th[t].pipe THEN PoisonPill ELSE th[t].pill IN
     th' = [th EXCEPT ![t].pill = pill,
                      ![t].pipe = FALSE,
                      ![t].at   = IF pill = PoisonPill THEN "exited" ELSE "spin"]
  /\ UNCHANGED <<set_list, sched, history>>

(* Faulty: nobody is told that the job is done.                            *)
FinishSilently(t) ==
  /\ th[t].at = "spin"
  /\ th' = [th EXCEPT ![t].at = "wait"]
  /\ UNCHANGED <<set_list, sched, history>>

(* spin_for has run the job; tk_sem_done is posted.                        *)
FinishJob(t) ==
  /\ th[t].at = "spin"
  /\ th' = [th EXCEPT ![t].at = "wait", ![t].done = @ + 1]
  /\ UNCHANGED <<set_list, sched, history>>

Task(t) == t \in DOMAIN th /\ (Wake(t) \/ ReadPill(t) \/ FinishJob(t))
-----------------------------------------------------------------------------
Terminated == pc = "term" /\ UNCHANGED vars     \* fixt_test has returned

Next == Scheduler \/ (\E t \in AllTasks : Task(t)) \/ Terminated

(* A thread that can go on is eventually given a processor.  A task thread *)
(* may be kept from it by more urgent ones, but only until the test ends.  *)
Fairness == WF_vars(Scheduler) /\ \A t \in AllTasks : WF_vars(Task(t))

Spec == Init /\ [][Next]_vars /\ Fairness
-----------------------------------------------------------------------------
ThreadRec ==
  [at   : {"none", "wait", "poison", "spin", "exited"},
   cont : Nat, done : Nat,
   pill : Garbage \cup {0, PoisonPill},
   pipe : BOOLEAN,
   prio : {0} \cup MinPrio..BasePrio]

TypeOK ==
  /\ pc \in Between \cup {"schedule", "dispatch", "block", "recalc",
                         "halt", "post", "join"}
  /\ set_list \in SetLists
  /\ ai \in DOMAIN AlgoList /\ si \in DOMAIN set_list
  /\ al_tasks \in Seq(Ids) /\ queue \in Seq(Ids)
  /\ al_schedulable \in BOOLEAN
  /\ DOMAIN r = DOMAIN set_list /\ DOMAIN a = DOMAIN set_list
  /\ \A s \in DOMAIN set_list : /\ r[s] \in [DOMAIN set_list[s] -> Int]
                               /\ a[s] \in [DOMAIN set_list[s] -> Nat]
  /\ \A c \in {jobs, acked} :
       c \in [IF pc \in {"prime", "term"} THEN {} ELSE Ids -> Nat]
  /\ th \in [IF pc \in {"prime", "term"} THEN {} ELSE Ids -> ThreadRec]
  /\ now \in Nat

Testing == pc \in {"schedule", "dispatch", "block", "recalc"}

(* Jobs of t that were released and of which the scheduler has not yet     *)
(* taken the token.                                                        *)
Outstanding(t) ==
  th[t].cont + (IF Busy(t) THEN 1 ELSE 0) + th[t].done

(* The job of t that the counters consider started but not complete.       *)
InProgress(t) ==
  \/ a[si][t] > 0
  \/ pc \in {"block", "recalc"} /\ t = head

(* fixt_algo_run releases every job exactly once: whatever the timed waits *)
(* returned, what was posted is what the counters say was started, no job  *)
(* is lost in a semaphore and none is posted again when it is resumed      *)
(* after a preemption ("this was a nasty bug").                            *)
ReleaseConservation ==
  Testing =>
    \A t \in Ids :
      Outstanding(t) + acked[t] = jobs[t] + (IF InProgress(t) THEN 1 ELSE 0)

(* Under RMA the scheduler and the threads move in lockstep: when it       *)
(* schedules, every thread is waiting and every token has been consumed,   *)
(* and when it blocks exactly one job is outstanding, the head's.          *)
RmaLockstep ==
  Testing /\ algo = "rma" =>
    \A t \in Ids :
      Outstanding(t) = IF pc = "block" /\ t = head THEN 1 ELSE 0

(* The inductive invariant behind the theorems of FixtThreads_proofs, for  *)
(* a Garbage that cannot be mistaken for the pill.                         *)

(* The lists agree with the place of the scheduler: between tests nothing  *)
(* is queued, and an empty queue means that no task is ready.              *)
ListsFollow ==
  /\ pc \in Between => queue = <<>>
  /\ pc = "start" \/ Testing => al_tasks = [t \in Ids |-> t]
  /\ pc \in {"halt", "post", "join"} => al_tasks # <<>>
  /\ pc = "block" => queue # <<>>
  /\ pc \in {"dispatch", "block", "recalc"} /\ queue = <<>> =>
       \A t \in Ids : r[si][t] > 0

(* While threads are started none of them has been given anything to do.   *)
FreshThreads ==
  pc = "start" =>
    /\ now = 0
    /\ \A t \in Ids :
         /\ th[t].at \in {"none", "wait"} /\ th[t].cont = 0 /\ th[t].done = 0
         /\ th[t].at = "wait" => r[si][t] = 0 /\ a[si][t] = 0
         /\ jobs[t] = 0 /\ acked[t] = 0

(* Nobody is told to quit, or takes garbage for a pill, before the halt.   *)
NobodyTold ==
  pc = "start" \/ Testing =>
    \A t \in Ids : ~th[t].pipe /\ th[t].pill # PoisonPill

(* RMA accumulates nothing, and its scheduler has taken the token of each  *)
(* job that the bookkeeping completes.                                     *)
RmaTokens ==
  Testing /\ algo = "rma" =>
    \A t \in Ids :
      /\ a[si][t] = 0
      /\ acked[t] = jobs[t] + (IF pc = "recalc" /\ t = head THEN 1 ELSE 0)

StructInv == TypeOK /\ ListsFollow /\ FreshThreads
IInv == StructInv /\ NobodyTold /\ ReleaseConservation /\ RmaTokens

(* Once the pill is in its pipe a thread starts no further job, even if    *)
(* released jobs are waiting in tk_sem_cont (fixt_task_stop writes before  *)
(* it posts, and fixt_task_routine reads after it waits).                  *)
NoStartAfterPill ==
  [][\A t \in DOMAIN th :
       t \in DOMAIN th' /\ th[t].pipe /\ th[t].at # "spin" => th'[t].at # "spin"]_vars

(* fixt_test returns: no wait of the scheduler for a token and no join     *)
(* waits for ever.                                                         *)
Terminates == <>(pc = "term")

(* FixtThreads implements FixtSched: each combination of an algorithm and  *)
(* a task set is tested as the bookkeeping prescribes, from fresh counters *)
(* and with all threads of the test before gone, whatever the threads and  *)
(* the timed waits do in the meantime (fixt_test, prime_algo, run_test_on).*)
ImplementsSched == Sched!Spec

(* fixt_task_stop has written the pill of t: t is the task being stopped,  *)
(* or it was stopped and deleted from al_tasks_head before.                *)
Told(t) ==
  /\ pc \in {"halt", "post", "join"}
  /\ \A i \in DOMAIN al_tasks : al_tasks[i] = t => i = 1 /\ pc # "halt"

(* A thread ends only if it was told to: "If the thread was told to quit   *)
(* while waiting, quit now!" (fixt_task.c:131).                            *)
QuitOnlyWhenTold == \A t \in DOMAIN th : th[t].at = "exited" => Told(t)
=============================================================================
