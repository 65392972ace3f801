# A verification project for qnx-scheduling

qnx-scheduling runs real-time scheduling algorithms (rate monotonic, earliest
deadline first, shortest completion time) on sets of periodic tasks, each a
thread that burns processor time, and reports for each combination whether the
set was schedulable. The TLA+ modules here model the program under `src/`, TLC
checks them on small instances, and TLAPS proves the main results for every
task set and every test length.

## The system

| part | source | state it keeps | operations |
|---|---|---|---|
| test fixture | `fixt/fixt.c`, `qnx-scheduling.c` | `set_list`, `algo_list` | `fixt_init`, `fixt_test`, `fixt_term`, `prime_algo`, `run_test_on` |
| algorithm core | `fixt/fixt_algo.c` | per algorithm: task list, queue, `al_schedulable` | `init`, `schedule`, `run`, `min_r`, `halt`, `new`, `del`, `add_task` |
| RMA, EDF, SCT | `fixt/impl/*` | none of their own | the hooks `al_init`, `al_schedule`, `al_block`, `al_recalc` |
| task | `fixt/fixt_task.c` | `tk_c/p/d`, counters `tk_a`, `tk_r`, two semaphores, a pipe, a thread | `new`, `run`, `stop`, `del`, the thread routine, accessors |
| task set | `fixt/fixt_set.c` | list of tasks | `new`, `del` |
| spin | `spin/spin.c` | `FUDGE_FACTOR` | `spin_calibrate`, `spin_for`, `spin_abstime_in_quanta` |
| timing | `spin/timing.c` | none | timespec subtraction, future times, heartbeat (unused) |
| kernel trace | `log/kernel_trace.c` | `log_event`, `log_time`, `log_entry` | `k_log_csv_start/end/print` |
| text log | `log/log.c` | none | `printf`s, compiled out |
| lists | `utlist.h` | links inside the elements | append, delete, stable merge sort, iteration |

`fixt_test` runs every algorithm on every set. `prime_algo` puts the set's tasks
in the algorithm's list and starts a thread for each. `run_test_on` then
alternates two steps until a second has passed or the set turns out not to be
schedulable. `fixt_algo_schedule` queues the tasks with `tk_r <= 0`, sorts them by
the algorithm's comparator and checks that each can still meet its deadline.
`fixt_algo_run` sets the threads' priorities, posts the head's `tk_sem_cont`
unless the head was preempted half-way, blocks (RMA until the head's
`tk_sem_done`, EDF and SCT for at most a quantum) and recomputes the counters: it
assumes that the round took `c` quanta (RMA), one quantum (EDF, SCT) or the time
to the next release (nothing was ready). `fixt_algo_halt` stops the threads with
a poison pill each.

Two things make this hard to test. The counters are relative to a present that
nobody writes down, so an error of one quantum shows hundreds of rounds later.
And the scheduler never asks a thread what it is doing: counters, semaphores and
threads agree only because each step keeps them so, although a timed wait may
expire while the job it waits for is still running.

What makes each part correct:

* bookkeeping: `tk_r` is exact at all times; the queue's head is the job the
  policy must pick; a job is never completed late; PASS and FAIL mean what they
  should; a preempted job is neither lost nor released twice.
* threads: every job released by the counters is posted once; under RMA scheduler
  and threads stay in lockstep; a thread told to quit starts nothing more; every
  test ends with all its threads gone.
* lists and memory: an element is in a list exactly when its links say so; the sort
  is stable; nothing freed is reached; what a test allocates is freed. (The last two
  fail, see `heap_teardown` and `heap_leak`.)
* spin and timing: times stay normalised; the calibration ends.
* kernel trace: what one thread records is not lost or overwritten by another, and
  nothing is written past the end.
* threads and time: what the counters say a job has used is what its thread has spun.

## The modules

```
PeriodicTasks   what a test promises, in absolute time
     ^  implemented by (ImplementsIdeal; proved)
FixtSched       the counters, the queue head and the verdict
     ^  implemented by (ImplementsSched; proved)
FixtThreads     scheduler thread, task threads, semaphores, pipes, the test loop
     ^                          ^  extended by
     |  implemented by          KernelTrace   the trace buffer they all write
     |  (ImplementsThreads)
FixtTimed       one processor, priorities, timed waits, calibrated spins

TestClock       the time of a test        uses Timespec, the arithmetic on times
FixtHeap        objects, lists, memory    uses DoublyLinked, the lists of utlist.h
Calibration     the length of a quantum
```

The last three modules look at the same program from other sides: `TestClock`
gives the wall-clock time that `FixtThreads` leaves open, `FixtHeap` the links behind
its sequences, `Calibration` the length of its spins. `MC*` are the instances TLC
checks; `*_proofs` hold the theorems, `NatLemmas` what several of them need of naturals and sums.

**PeriodicTasks.** Task `t` releases job number `jobs[t]` at
`jobs[t] * p`, it needs `c` quanta and is due `d` later. A step runs the job the
policy picks for its slice, or lets time pass to the next release; the test
fails exactly when the picked job, or a job that has to wait one more quantum,
is lost.

**FixtSched.** One action for each of `prime_algo`, `fixt_algo_schedule`,
`fixt_algo_run` (with the recalc hook and the clock test that follows) and
`fixt_algo_halt`. `tasks`, `r`, `a`, `head`, `schedulable` are `al_tasks_head`,
`tk_r`, `tk_a`, `al_queue_head`, `al_schedulable`; `now` and `jobs` are history.
The queue appears only through its head and its members: the sort is stable, so
list order breaks ties (`Before`). The clock of `run_test_on` may end the test
after any round (`Horizon` bounds how late). The next algorithm's
`al_schedulable` is arbitrary until it is set, as in the code. `fixt_algo_halt`
leaves `al_queue_head` pointing at the last head; the model drops it there, since
the next schedule overwrites it before it is read.

**FixtThreads.** The scheduler thread is a program counter over the steps
between which a task thread can make a difference: `Prime`, `Start` (one thread
created), `Schedule`, `Dispatch` (priorities and post), `Block`, `Recalc`, and for
each task to stop `StopWrite`, `StopPost`, `StopJoin`. A task thread has `Wake`
(its `sem_wait` returns), `ReadPill` (the non-blocking read and the test) and
`FinishJob` (the spin ends, `tk_sem_done` is posted). `th[t]` holds the thread's
place, both semaphores, the pipe, the local `pill` and the priority. The counters
`r[s][t]` and `a[s][t]` live as long as the set does and are reset when a thread is
started, as `fixt_task_run` does. The loop over `algo_list` and `set_list` is the
one of `fixt_test`, one test after the other.

Priorities are recorded but do not restrict the interleaving, and time is not
modelled: a job may take arbitrarily long and a timed wait may fail whenever the
semaphore is 0 (it does so too when its absolute time is malformed, see
`TestClock`). What is shown holds for any calibration, any load and any number of
processors.

**FixtTimed.** The same steps on one processor. A task thread runs only when the
scheduler is blocked and no runnable thread has a higher priority (`HasProcessor`;
equal priorities are resolved either way). `spin_for(c)` leaves a thread with `c`
times the calibrated quantum to spin (`work`), and `Execute` lets it spin until it
is done or the timer of the scheduler's wait runs out, whichever comes first; `Idle`
is the timer running out while nobody can run. Nothing else takes time. `spin` is
what `spin_calibrate` has made of a quantum, between 5 and 15 ms, a timed wait
is 12 ms (`EDF_PERIOD` quanta of `SPIN_QUANTUM_WIDTH_MS` and the jitter). Deadlines are
the instants they should be: the malformed ones of `TestClock` are left out here,
and covered by `FixtThreads`. Every step of `FixtTimed` is one of `FixtThreads` or a
stutter, and its only fairness, that the processor does not stop, implies the
fairness that `FixtThreads` assumes of each thread.

Three regimes come out of it. With a quantum as long as a timed wait (`~InTime`) a
thread falls behind its counters, which complete jobs it is still spinning. With
quanta so short that a job ends a round before its last, the rest of its rounds goes
to whoever has the next priority. In between (`OnPace`), where a calibration near its
target is, the scheduler's idea of the threads is right although it never asks.

**KernelTrace.** `k_log_csv_start` and `k_log_csv_end` one memory access at a time,
wrapped around the steps of `FixtThreads`: two calls in `fixt_algo_schedule` and in
`fixt_algo_run` around the priorities and around the recalc hook, which are atomic
since the scheduler has the highest priority on one processor ("user tasks may only
run when the scheduler thread is blocked"), and two calls around each job, which may be
preempted at every access by any other thread. The accesses differ in the two builds
under `x86/`: unoptimised code reads `log_entry` anew for each use and increments it by
a load and a store; optimised code keeps the tested index for the event and the
address of the time, and increments memory in one instruction (`clock_gettime`, an
external call, forces `log_entry` back into memory before that). Priorities are not
modelled, so any task thread may preempt any other. Events and times carry the number
of the call that wrote them; what lies behind the arrays is only a flag, `strayed`.

**Timespec** and **TestClock.** `timing_timespec_sub` subtracts after carrying
between the fields of its subtrahend, in place: `Carries` is what it leaves there,
`Difference` what it returns. `run_test_on` subtracts the same `init` in every
round, so carries accumulate. `TestClock` is the loop of `run_test_on` with a clock
of nanoseconds (`Tick`); a round waits without a timeout (`Block`), or until
a deadline computed by `spin_abstime_in_quanta` (`BlockTimed`), and ends with its
token (`Resume`) or without (`Expire`), then `Check` decides whether there is another.
`Second`, `Quantum` and `Jitter` are parameters, which lets TLC take a second of eight
nanoseconds and the proofs the real one.

**DoublyLinked** and **FixtHeap.** `DLAppend` and `DLDelete` are `DL_APPEND2` and
`DL_DELETE2`, link by link, and `DLSort` is the bottom-up merge sort `DL_SORT2`: runs are
split off (`SplitRuns`), merged an element at a time (`MergeStep`) in passes
(`MergePass`). `FixtHeap` uses its result, `DLRelink`; that the sort computes it is
what `SortedStably` says.
`FixtHeap` runs the program from `register_tasks` to `clean_algos` on them: `ts`, `at`
and `aq` are the three pairs of links in `struct fixt_task`, shared by all lists of a
kind, `live` and `sems` what is allocated. Which tasks are ready and how they are
ordered is open in every round. Freed memory keeps its contents, since nothing is
allocated between `clean_tasks` and `clean_algos`; any other outcome of reading it is
worse.

**Calibration.** `spin_calibrate` and `spin_for` on a machine that takes `cost`
nanoseconds for an iteration and has a clock that ticks every 100 microseconds.
The sum of ten readings (`Sums`) is computed from the ticks they can have seen, and each
interval loses its whole seconds, as the code adds `tv_nsec` only. The first two sums
are `int64_t`, but `act` is a `long`, of 32 bits on x86, and the function is compiled with
`O0`: the sum of the fine-tuning loop wraps around when ten spins take more than 2147 ms,
which is what `Averaged` does, in units of 32 ns (2^32 ns would overflow TLC's integers,
and a tick is a multiple of 32 ns). The first measurement may be lengthened by
interrupts; the fine-tuning loop is undisturbed.

## The runs

| run | instance | question |
|---|---|---|
| `sched` | all sets of one or two tasks with `c,p <= 3`, `d <= 4`; of three with `c <= d <= p <= 4`, or with `d = p <= 5`; the four sets of `register_tasks`; all algorithms, 600 quanta | do the counters implement PeriodicTasks, without drift, and what do the verdicts mean; does EDF fail only overloaded sets, RMA only sets that the response-time analysis fails; do resumed jobs nest; do the registered sets behave as their comments say; is `IInv` invariant |
| `threads_loop` | three algorithms in sequence over three lists of sets of two or three tasks, 6 quanta per test | are releases and tokens conserved, does every thread quit, does every test end, does the fixture implement FixtSched, is `IInv` invariant |
| `threads_pill` | one set, RMA, `pill` may start as 1 | expected violation of `QuitOnlyWhenTold` |
| `timed` | three algorithms, sets of two to four tasks (three levels of preemption, idle time, overload, more ready tasks than priorities), quanta calibrated to 5, 8, 10, 11 and 12 ms, 14 quanta per test | are the counters right about the threads, does the head run, are quanta real, does `FixtTimed` implement `FixtThreads` with its fairness |
| `trace` | RMA and then EDF, two sets of two tasks, an array of 21, both builds, 3 quanta per test | when is the trace exact, what can an interrupted call damage, is anything written past the end |
| `clock_test` | a second of 8 ticks, a quantum of 2, every start within a second, 20 ticks | is the elapsed time exact whatever the carries, does the clock stop a test on time, what are the deadlines of the timed waits |
| `clock_wait` | the same | expected violation of `BlocksForAQuantum` |
| `heap_tests` | two algorithms, sets of one and of three tasks, two rounds per test; for the sort, all lists of one to five elements with all keys | are the lists in use intact, does a test leave nothing behind, what is freed, does the merge sort do what the models of the queue assume |
| `heap_teardown` | two algorithms, one set of two tasks | expected violation of `TearsDown` |
| `heap_leak` | as `heap_tests` | expected violation of `FreesResources` |
| `calibration` | 26 machines from 1 ns to 5 microseconds an iteration, interrupted by up to a millisecond | does the calibration end unless its first measurement is 0; from 4 ns on, is a job of `c` quanta that long |
| `calibration_wraps` | 2 ns an iteration | expected violation of `SpinsForQuanta` |

`IInv` contains the type invariant of its module.

Bounds. Two tasks suffice for a preemption, a tie and a starved task; three for
nested preemptions. Deadlines below, at and beyond the period and tasks with
`c > p` are included, so most sets fail sooner or later and the verdict is
exercised both ways. A real test lasts at most about 100 quanta of 10 ms; 600 is
beyond the hyperperiod (560) of the largest registered set and ten times that of any
other, so nothing new can happen later. The bounded bookkeeping state is covered for all
values by the proofs. For the threads, six quanta are enough for a set with a job
of two quanta to be preempted, resumed and released again, for a job to lag
behind its counters by several rounds and several releases to queue up in
`tk_sem_cont`, and for a test to fail and be followed by another of the same set.

Eight ticks to a second are enough for rounds that end before, at and after a
second's boundary and for deadlines on either side of it, and 20 ticks for two
boundaries in one round, where both carries of the subtraction are taken. Three
tasks give a list a head, a middle and a tail, two rounds and two algorithms give
the queue links all they can inherit from an earlier round or another algorithm.
Sixteen quanta is more than the longest registered job. Five elements are merged in
runs of one, two and four, each with a shorter or an empty partner at the end.

For `timed`, 14 quanta let a job of four quanta be preempted twice at two levels and
released again. `InTime` and `OnPace` are needed: without its condition TLC finds each of
`CountersRight`, `HeadRuns` and `QuantaAreReal` violated in this run's instances. In
`trace`, both sets make two threads interrupt each other's calls, the array is filled
before the last test ends, and both bounds of `StaysInside` and `DamageIsLocal` are reached.

Fairness (`threads_loop`): weak fairness of the scheduler thread and of each task
thread. The scheduler has the highest priority. A task thread may be starved
while a test runs, but a test ends after a second, and then the scheduler is
blocked in `pthread_join` and every thread gets the processor in turn; the RMA
scheduler waits only for the thread with the highest priority of all tasks.
`ImplementsThreads` of `timed` checks this argument: on a processor that never stops
(weak fairness of `TimedNext`, nothing per thread) the priorities alone give each
thread its fairness. `trace` checks safety only.
`FixtThreads` stops at `Terminated`, so deadlock is checked everywhere else.
`clock_test` assumes that time passes and that the scheduler goes on, so no round
lasts for ever, which `Terminates` of `threads_loop` shows. `heap_tests` and
`calibration` have one thread, at the highest priority, whose steps are always
enabled until it is done.

### Where code and comments disagree

* `fixt_task_routine` tests an uninitialised `pill` after a read that may have
  failed (`threads_pill`). If the stack holds 1, the thread quits at its first
  release, and an RMA test then never ends. The other runs assume `Garbage = {0}`.
* The comment on EDF and SCT says no two user threads share a priority. There
  are only three priorities below the scheduler's, and `MAX(prio,
  FIXT_ALGO_MIN_PRIO)` maps the rest to the last one; a thread starts with the
  priority of the scheduler, which created it (`fixt_task_run` asks for another but not for
  `PTHREAD_EXPLICIT_SCHED`), until it is first queued. `HeadRuns` of `timed` shows that
  this does no harm while a calibration is on pace.
* The comment in `fixt_task_routine` says a task loses control as soon as it posts
  `tk_sem_done`. It does if the scheduler is waiting for that token. When the job at the
  head has ended a round before its last, the scheduler waits for a token that is
  already gone, and a thread of lower priority runs and posts meanwhile: hence `OnPace`.
* A timed wait is said to block for `EDF_PERIOD` quanta. If its deadline is exactly
  the beginning of a second, `tv_nsec` is 1000000000 and `sem_timedwait` fails at
  once (`clock_wait`). `FixtThreads` allows for it, so what is shown there stands.
* `fixt_algo_del` walks the queue of the algorithm's last round, whose tasks
  `clean_tasks` has freed. Even where freed memory keeps its contents,
  the links are those of the queues scheduled since, by other algorithms: when the
  old head is the tail of one of them, `DL_DELETE2` dereferences NULL and the program
  crashes after its tests (`heap_teardown`).
* `fixt_term` is to "free up resources created while testing". `fixt_task_run` allocates
  two semaphores whenever a task is started, over the pointers of the test before;
  `fixt_task_stop` destroys them without freeing them, and `fixt_task_del` frees one pair.
  All but the last pair of every task are lost (`heap_leak`). `TeardownFrees` of
  `heap_tests` says that nothing else is.
* `spin_calibrate` measures 10000 iterations with a clock of 100 microseconds and
  fine-tunes upwards only, on `tv_nsec` alone. At 2 ns an iteration the first guess
  may be twice too long. The loop then goes on until the sum of ten spins wraps around
  in the 32 bits of `act` and happens to look right: that window, 435 to 444 ms a spin, is
  wider than one turn of the loop, so it never misses it, and a quantum takes about 44
  (`calibration_wraps`). `SpinsForQuanta` is therefore claimed from 4 ns an iteration on
  (`MeasuredSpinsForQuanta`).
* At 1 ns an iteration the first measurement may be 0. The guess is then an infinity
  converted to `int`, INT_MIN on x86, and the loop never ends: `CalibrationEnds`, which
  `calibration` checks from 1 ns on, says that this is the only way for it not to.

## What is proved

For every `Algos`, every set of task sets with positive tuples and every
`Horizon` (the three named assumptions of `FixtSched`), `FixtSched_proofs`
establishes:

* `Invariance`: `IInv` is invariant. `IInv` is the type invariant with `NoDrift`,
  `PartlyRunIsReady` and `RunIsCleared`. None of them is inductive alone: that the
  recalc hook keeps `tk_r <= 0` for a task with `tk_a > 0` needs the head to be a
  ready task when `fixt_algo_run` is called, which only the preceding schedule
  established (`RunIsCleared`); that the clock advances by a positive amount when
  nothing is ready needs the minimum of a non-empty set of naturals to exist
  (`NatMin`, from the well-foundedness of `<`).
* `NeverDrifts`, `PreemptedStaysReady`, `TypeCorrect`: its parts (`PartlyRunIsReady` is
  checked as a part of `IInv`).
* `NeverLate` and `PassIsSound`: a job that is completed is on time; after a PASS
  nobody is late under EDF and SCT, and under RMA at most by the length of the
  last, unchecked round.
* `PreemptionsNest`: after a round its head precedes all other started jobs
  (`HeadPrecedesStarted`), as it preceded all that were ready and the keys of
  EDF and SCT move together. So a round never resumes one of them in its place.
* `EdfIsOptimal`: if EDF says FAIL, no algorithm could have scheduled the set. For every
  deadline `D` there is a time `t0` since which every quantum went to a job that is due by
  `D` and was released at `t0` or later (`BusyUntilDone`): a round that runs such a job
  prolongs that time, and one that does not shows that none is pending, since EDF would
  have picked it, so that `t0` starts anew. When a job does not fit, what is left of it and
  of the head exceeds the time to its deadline; with what the jobs have had since `t0` it is
  at most the demand of an interval as long as from `t0` to the deadline
  (`TooMuchDemand`). Periods and deadlines need not be related.
* `RmaFailsAsAnalysed`: if RMA says FAIL, the response-time analysis of fixed priorities
  without preemption fails the set as well: some job of some task `t` has no starting
  time `x` that leaves room for the rest of one job of lower rank (`Blocking`), the earlier
  jobs of `t` and all that goes before `t` within `x` (`Interference`), and that is early
  enough for its deadline. (`Responsive` asks this of every job in turn, since the first
  one after an idle time need not be the worst.) The invariant, `LevelsBusy`, has for every
  `t` a time `t0` since which, but for the rest of one blocking job, only jobs that go before
  `t` or of `t` itself have run, all released at `t0` or later, and says that this time has
  not lasted longer than any `x` that satisfies the analysis of the next job of `t`. A round of
  `t` shifts `x` by the length of a job (`LevelGoesOn`), a round of a task that goes before
  `t` is covered by the interference (`LevelBound`), any other round shows that nothing of
  the level is pending, so that `t0` starts anew (`LevelAnew`). A job that does not fit has
  waited longer than that (`TooLongAWait`).
* `RegisteredSetsPass`: what the comments of `register_tasks` say of its four sets, for
  tests of any length. The first three pass the analysis, each job of each task with the
  latest start that meets its deadline as `x` (`FirstSetResponds` and the two after it, from
  `ResponsiveIf`); the fourth has but one course, and fails after three quanta
  (`FourthSetRuns`).
* `Refinement`: FixtSched implements PeriodicTasks, step by step: a schedule that
  clears the round is a stutter, one that does not is `Fail`, a run is `Execute`
  of the head or `Idle`. `AbsoluteTime` translates the counters, `SameOrder` the
  comparators.

For every `AlgoList`, `SetLists`, `Horizon` and `Garbage` that satisfy the
assumptions of `FixtThreads`, and every interleaving, `FixtThreads_proofs`
establishes:

* `Structure`: types, lists and freshly started threads (`StructInv`). It is
  inductive by itself and does not depend on what uninitialised memory holds.
* `Refinement`: FixtThreads implements FixtSched. The last thread started is
  `Prime`, the recalc hook is `Run`, the last join is `Halt`; every other step but
  `Schedule` stutters. `SortedHead` is the step that needs an argument: the queue
  is as long as the set of ready tasks and strictly sorted, hence injective, hence
  onto, so its first element precedes all of them. Together with the refinement
  above, what is proved of the bookkeeping holds of the fixture with its threads.
* `Invariance`, `ReleasesConserved`, `RmaInLockstep`: conservation of releases and
  lockstep under RMA, under the hypothesis `PoisonPill \notin Garbage`. Without it
  they are false (`threads_pill`): a thread that quits takes a job with it. The
  invariant adds `NobodyTold` (no thread can quit during a test) and `RmaTokens`
  (RMA leaves `tk_a` at 0 and takes a token for each job it completes), which the
  recalc step needs to see that the head's job was in progress.
* `NothingStartsAfterPill`: a thread whose pill is written starts no further job.

For every `Second`, every quantum and jitter that fit into one, every length of a
test and every start, `TestClock_proofs` establishes:

* `ElapsedIsExact`: the carries change the representation of `init` and never the
  instant (`SubCorrect`), so `elap` is the time since the start of the test.
* `TestsStopOnTime`: no test is stopped early, and no round starts after the second
  is over. It may start when exactly a second has passed, because the second carry
  is taken for more than a second only. The invariant `ClockInv` bounds `init.nsec` on
  both sides of 0, which is what keeps `elap.sec` within one of the whole seconds.
* `DeadlinesAreExact`: a deadline is the instant it should be, and malformed exactly
  if that is the beginning of a second.
* `FieldsStayInRange`: the types, which the carries in `init` could outgrow.

For every machine and calibration within `FixtTimed`'s assumptions and everything
`FixtThreads` is proved for, `FixtTimed_proofs` establishes:

* `ImplementsThreadsSafely`: a step on one processor is a step of `FixtThreads` or a
  stutter. What is proved of `FixtThreads` holds of it.
* `CountersAreRight`, from `TimedInvariance`. `TimedInv` adds to the invariant of the
  threads a lower bound on what each has spun: a thread whose task has been charged
  `tk_a` rounds of a job has spun it for at least as many quanta (`HadItsRounds`), and all
  tokens of earlier jobs are taken (`Acknowledged`). It is inductive only with
  `ChargedInPeriod` and `HeadFirst`: no other queued task has the head's priority, and a
  task that is not queued, which may have it, has nothing outstanding. So a wait ends
  with the head either done or having had the whole of it.
* `OnlyTheHeadRuns`: with the matching upper bound (`NoMoreThanRounds`) the head is not
  done before its last round, and nobody else is given the processor.
* `QuantaAreRealOnes`: the time of a test is that of the quanta accounted, plus a grace
  period for each round of the jobs under way. It is an equation between a counter and
  a sum over the tasks, so its proof (`RoundInv`) rests on the sum lemmas of `NatLemmas`.
* `TimedTyped`: the types, whatever uninitialised memory holds.

For arrays of any length from 2, any number of threads and both builds,
`KernelTrace_proofs` establishes, from one invariant (`TraceInv`):

* `NothingLostUnlessCut` (`ExactInv`): as long as no call was interrupted, at most one is
  under way, and what it has loaded and stored so far is what the next record is to be.
* `NothingPastTheEnd` (`InsideInv`): in the optimised build a call writes where its test
  found room. Each call under way may still increment the index once: hence the
  bound, in which the number of calls under way is part of the invariant.
* `DamageBounded` (`UncutAtEnd`, `Charged`): every damaged slot is charged to a call that was
  interrupted, as the slot that it writes late or the one that it counts and never
  writes; two functions on `cut` count them.
* `RmaTracesExact`: under RMA no call is ever interrupted. It takes the lockstep that
  `FixtThreads_proofs` shows, hence the hypothesis `PoisonPill \notin Garbage`.
* `TraceTyped`: the types.

For any number of sets, tasks, algorithms and rounds, `FixtHeap_proofs` establishes,
from one invariant (`HeapInv`):

* `ListsStayIntact`: each list in use represents a sequence, although all lists of a kind
  share their links. The lemmas before it are about the lists alone: what an element
  appended or deleted does to the sequence a list represents (`Appended`,
  `HeadDeleted`), that a list elsewhere with the same links is untouched (`Untouched`,
  `QueueKept`), and that the walk along the links finds the sequence (`ElementsAre`). The
  loops of the code are recursive functions on the naturals; that they exist
  and what they compute follows from `Induction` of `NatLemmas` (`FoldExists`, `AllAppended`,
  `AllDeleted`).
* `QueueHasTheReady`: the queue of a round holds what is ready, whatever queues of
  other algorithms and earlier rounds have left in the links.
* `NothingIsLeft`: a test takes all its tasks off the list of the algorithm.
* `TeardownIsComplete`: `clean_tasks` and `clean_algos` free every set, task and algorithm.
  `SemsCounted` counts how often the tasks of each set have been started at each place of
  the two nested loops: once for every algorithm at the end, so that with the pair freed
  with its task, less than one pair of semaphores for each algorithm is left of it.
* `HeapTyped`: the types; no semaphore is freed that was not allocated.
* `SortsStably`: `DL_SORT2` leaves the elements of a list linked in both directions and in
  the order of the comparator, equal ones in the order they were in, and touches no other
  links: for a list of any length, and every comparator under which any two elements
  compare, consistently (`Comparators`). A pass takes runs off one list and builds another in the same
  links. Its invariant (`Merging`) relates what has been built up to `tail`, and what is left
  at `p` and `q`, to the sequence at its start: what is built is sorted within each pair of
  runs merged so far (`InRuns`, twice as long), what is left is linked as it was. One step
  keeps it (`MergingStep`), splitting off the next two runs does (`SplitStep`,
  `RunsSplit`), and a pass that has merged more than one pair of runs is followed by one
  with runs of twice the length (`PassMerges`, `SortingStep`). The length of the list bounds
  both loops, which are recursive functions (`FoldExists`).
* `KeysSorted`: the lists that TLC sorts are instances of it.

`NatLemmas` holds what several of these need: least elements, induction, quotients, and
sums over finite sets. The induction theorems of the library take an operator as a parameter,
which the provers cannot instantiate; `Induction` is stated with the set of the naturals
for which the claim holds instead, and proved from the well-foundedness of `<`.

For every machine that takes up to 90 microseconds for an iteration, sleeps of at most
11 ms, any interruption of the first measurement and jobs of up to 500 quanta
(`Supported`, which the run `calibration` satisfies), `Calibration_proofs` establishes the
two properties below. On a faster machine, which is not measured well enough
(`calibration_wraps`, `Measurable`), only the types are claimed (`EveryMachineInv`). The
other bounds are needed as well: a slower loop takes a second or more for the first
measurement, and the loop bound of a longer job could overflow.

* `SpinsAreQuanta` and `CalibrationTyped`. `CalibrationInv` keeps the length of a spin, in
  nanoseconds, below one and a half quanta: the first guess is too long by a third at
  most, the first turn of the loop, which nothing has been measured for yet, adds a
  hundredth, and later turns lengthen only what is too short. So no interval ever reaches
  a second, no sum of ten wraps around, and the average that ends the loop is within two
  ticks of the truth.

Only model-checked: everything about termination (`Terminates`, `TestEnds`,
`CalibrationEnds`) and fairness (the fairness half of `ImplementsThreads`), since liveness is
out of the prover's reach. Every safety property that a passing run checks is a theorem. `WalksEnd`
of `heap_tests` and `Terminates` of `threads_loop` are also what shows that the loops of
the program as modelled end; those inside an action (the merge sort, the walks along a list) are functions,
and their proofs include that they are defined.

## What is not modelled

In the unoptimised build no bound on `log_entry` is claimed: the store of a preempted
increment can set it back, and records made since are overwritten; on more than one
processor the scheduler's own calls can be interrupted as well. A write past the array
has no further effect in the model.

Left out for good: the text log (compiled out), `spin_for_nmt`, `timing_future_nanos`,
the heartbeat functions, `fixt_algo_copy_all` and `fixt_task_set_param` (never called),
the `TraceEvent` variants of the kernel trace (not selected) and its printing (reads
only), the unused macros of `utlist.h`, the build files beyond the two builds they
yield, and the system calls themselves beyond their effect on semaphores, pipes,
threads, priorities and the clock.
