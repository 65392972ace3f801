----------------------------- MODULE FixtTimed -----------------------------
(***************************************************************************)
(* FixtThreads on one processor, with priorities and with time: a task     *)
(* thread runs only while the scheduler thread is blocked and no thread of *)
(* a higher priority can run, a job of c quanta needs c times what         *)
(* spin_calibrate has made of a quantum, and a timed wait expires when its *)
(* time is over and not before.                                            *)
(*                                                                         *)
(* Time passes while a thread spins, or while everybody waits; all other   *)
(* steps take none.  A deadline is the instant it should be, which leaves  *)
(* out the malformed ones of TestClock.                                    *)
(***************************************************************************)
EXTENDS FixtThreads, Functions

CONSTANT Spins  \* what a quantum may be calibrated to, in milliseconds

QuantumWidth == 10      \* SPIN_QUANTUM_WIDTH_MS
Jitter       == 2       \* EDF_JITTER and SCT_JITTER

ASSUME SpinsAssumption == Spins \subseteq Nat \ {0}

VARIABLES
  spin,   \* the length of spin_for(1)
  work,   \* work[t]: what thread t has left to spin of its job
  timer,  \* the time until the timed wait of the scheduler expires
  elapsed \* history: the time since the test began

clock     == <<spin, work, timer, elapsed>>
timedVars == <<vars, clock>>
-----------------------------------------------------------------------------
(* What spin_abstime_in_quanta adds to the present.                        *)
WaitTime == QuantumWidth * Sched!Period + Jitter

Timed == pc = "block" /\ algo \in Preemptive

(* The scheduler is blocked, in al_block or in pthread_join.               *)
Blocked ==
  \/ pc = "block" /\ th[head].done = 0 /\ (Timed => timer > 0)
  \/ pc = "join" /\ th[al_tasks[1]].at # "exited"

Runnable(t) == Busy(t) \/ (th[t].at = "wait" /\ th[t].cont > 0)

(* Any of the threads with the highest priority may have the processor.    *)
HasProcessor(t) ==
  /\ Blocked /\ Runnable(t)
  /\ \A u \in DOMAIN th : Runnable(u) => th[u].prio <= th[t].prio

(* Faulty: it spins for one quantum and looks again.                       *)
SchedulerSpinsOnce == IF pc = "dispatch" /\ queue = <<>> THEN spin ELSE 0

(* How long the scheduler itself spins in a round: to the next release.    *)
SchedulerSpins == IF pc = "dispatch" /\ queue = <<>> THEN Sched!MinR * spin ELSE 0
-----------------------------------------------------------------------------
TimedInit ==
  /\ Init
  /\ spin \in Spins
  /\ work = <<>> /\ timer = 0 /\ elapsed = 0

(* The scheduler thread is never kept from running.  Its timed wait fails  *)
(* only when the time is over.                                             *)
RunScheduler ==
  /\ ~Blocked
  /\ Scheduler
  /\ timer' = IF pc = "dispatch" /\ pc' = "block" /\ algo \in Preemptive
              THEN WaitTime ELSE 0
  /\ work' = IF DOMAIN th' = DOMAIN th THEN work ELSE [t \in DOMAIN th' |-> 0]
  /\ elapsed' = IF pc \in Between THEN 0 ELSE elapsed + SchedulerSpins
  /\ UNCHANGED spin

(* Faulty: nothing interrupts a thread that spins.                         *)
ExecuteThrough(t) ==
  /\ HasProcessor(t) /\ th[t].at = "spin" /\ work[t] > 0
  /\ work' = [work EXCEPT ![t] = 0]
  /\ timer' = IF Timed THEN timer - work[t] ELSE timer
  /\ elapsed' = elapsed + work[t]
  /\ UNCHANGED <<vars, spin>>

(* A thread with work left spins until it is done or the timer interrupt   *)
(* comes first.                                                            *)
Execute(t) ==
  /\ HasProcessor(t) /\ th[t].at = "spin" /\ work[t] > 0
  /\ \E n \in {IF Timed /\ timer < work[t] THEN timer ELSE work[t]} :
       /\ work' = [work EXCEPT ![t] = @ - n]
       /\ timer' = IF Timed THEN timer - n ELSE timer
       /\ elapsed' = elapsed + n
  /\ UNCHANGED <<vars, spin>>

(* The other steps of a thread; spin_for is entered with a job's work.     *)
RunTask(t) ==
  /\ HasProcessor(t) /\ (th[t].at = "spin" => work[t] = 0)
  /\ Task(t)
  /\ work' = [work EXCEPT ![t] = IF th'[t].at = "spin" THEN set[t].c * spin ELSE @]
  /\ UNCHANGED <<spin, timer, elapsed>>

(* Faulty: the wait has no timeout.                                        *)
IdleForEver ==
  /\ Timed /\ Blocked /\ \A t \in DOMAIN th : ~Runnable(t)
  /\ UNCHANGED timedVars

(* Everybody waits for the timer.                                          *)
Idle ==
  /\ Timed /\ Blocked /\ \A t \in DOMAIN th : ~Runnable(t)
  /\ timer' = 0
  /\ elapsed' = elapsed + timer
  /\ UNCHANGED <<vars, spin, work>>

AllDone == Terminated /\ UNCHANGED clock

TimedNext ==
  \/ RunScheduler
  \/ \E t \in DOMAIN th : Execute(t) \/ RunTask(t)
  \/ Idle \/ AllDone

(* The processor never stops; which thread it is given to is up to the     *)
(* priorities.                                                             *)
TimedSpec == TimedInit /\ [][TimedNext]_timedVars /\ WF_timedVars(TimedNext)
-----------------------------------------------------------------------------
TimedTypeOK ==
  /\ spin \in Spins
  /\ work \in [DOMAIN th -> Nat]
  /\ timer \in 0..WaitTime
  /\ elapsed \in Nat

(* A quantum is shorter than the timed wait ...                            *)
InTime == spin < WaitTime

(* ... but not so short that a job is over a round before its last.        *)
OnPace == InTime /\ \A t \in Ids : (set[t].c - 1) * WaitTime < set[t].c * spin

(* The scheduler, which never asks a thread whether it is done, is right   *)
(* about it: when the bookkeeping completes a job its thread has finished  *)
(* it, and the token is taken, even if the job was preempted several       *)
(* times.  It takes a quantum that is shorter than the timed wait; else a  *)
(* thread is left with a job that nobody charges it for (edf_recalc,       *)
(* sct_recalc, after the timed wait of the block hooks).                   *)
CountersRight ==
  InTime /\ pc = "recalc" /\ Sched!Completes =>
    Outstanding(head) = 0 /\ acked[head] = jobs[head] + 1

(* The processor time of a round goes to the job it is charged to:         *)
(* "user tasks may only run when the scheduler thread is blocked", and     *)
(* then it is the queue's head that runs.  Although there are only three   *)
(* priorities, and a task that is not queued keeps the one it had.         *)
HeadRuns ==
  [][ OnPace /\ pc = "block" =>
        \A t \in DOMAIN th : work'[t] < work[t] => t = head ]_timedVars

(* The quanta of the bookkeeping are real ones.  A round of a preempted    *)
(* job is longer than a quantum by the grace period, but its last one is   *)
(* shorter by as much, so that now, and with it every deadline, is exact   *)
(* but for the jobs that are under way (spin_abstime_in_quanta with the    *)
(* recalc hooks).                                                          *)
AccumulatedBy(t) == a[si][t] * (WaitTime - spin)
QuantaAreReal ==
  OnPace /\ pc = "schedule" =>
    elapsed = now * spin + SumFunction([t \in Ids |-> AccumulatedBy(t)])

(* The priorities of one processor give every thread what the fairness of  *)
(* FixtThreads assumes.                                                    *)
ImplementsThreads == Spec
=============================================================================
