----------------------------- MODULE TestClock -----------------------------
(***************************************************************************)
(* The time of a test: run_test_on of fixt/fixt.c, which runs rounds until *)
(* a second has passed, and the timed waits of EDF and SCT in between.     *)
(*                                                                         *)
(* What a round does is left to FixtSched and FixtThreads.  Here it takes  *)
(* any time: a wait for a token without a timeout (RMA) or an idle spin    *)
(* ends whenever it does, a timed wait with its token or at its deadline.  *)
(*                                                                         *)
(* init is subtracted from the present once in every round by              *)
(* timing_timespec_sub, which modifies it, so a round inherits the carries *)
(* of all rounds before.                                                   *)
(***************************************************************************)
EXTENDS Timespec

CONSTANTS
  Quantum,        \* nanoseconds in EDF_PERIOD, or SCT_PERIOD, quanta
  Jitter,         \* EDF_JITTER, SCT_JITTER
  SecondsPerTest, \* FIXT_SECONDS_PER_TEST
  Starts,         \* the instants at which a test may start
  Limit           \* bound: time stops this long after the start

Ahead      == Quantum + Jitter
TestLength == SecondsPerTest * Second

ASSUME WaitAssumption ==
  Quantum \in Nat \ {0} /\ Jitter \in Nat /\ Ahead < Second
ASSUME TestAssumption ==
  /\ SecondsPerTest \in Nat \ {0}
  /\ Starts \subseteq Nat
  /\ Limit \in Nat /\ Limit > TestLength

VARIABLES
  pc,         \* what the scheduler thread does next
  wall,       \* CLOCK_REALTIME, in nanoseconds since the epoch
  init,       \* init of run_test_on
  elap,       \* elap of run_test_on
  abs_next,   \* abs_next of the block hook
  start,      \* history: wall when the test began
  checked,    \* history: wall when elap was computed
  called      \* history: wall when the block hook was called

vars == <<pc, wall, init, elap, abs_next, start, checked, called>>

Zero == [sec |-> 0, nsec |-> 0]
-----------------------------------------------------------------------------
(* The declarations of run_test_on and its first clock_gettime.            *)
Init ==
  /\ pc = "round"
  /\ wall \in Starts
  /\ init = Gettime(wall)
  /\ elap = Zero /\ abs_next = Zero      \* not read before they are set
  /\ start = wall /\ checked = wall /\ called = wall

Tick ==
  /\ pc # "halt" /\ wall < start + Limit
  /\ wall' = wall + 1
  /\ UNCHANGED <<pc, init, elap, abs_next, start, checked, called>>

(* fixt_algo_schedule finds that the set cannot be scheduled.              *)
Fail ==
  /\ pc = "round"
  /\ pc' = "halt"
  /\ UNCHANGED <<wall, init, elap, abs_next, start, checked, called>>

(* The head of the queue is awaited without a timeout, or there is none    *)
(* and the scheduler spins.                                                *)
Block ==
  /\ pc = "round"
  /\ pc' = "untimed"
  /\ UNCHANGED <<wall, init, elap, abs_next, start, checked, called>>

(* The block hook of EDF and SCT computes the deadline of its wait.        *)
BlockTimed ==
  /\ pc = "round"
  /\ pc' = "timed"
  /\ abs_next' = Abstime(Gettime(wall), Ahead)
  /\ called' = wall
  /\ UNCHANGED <<wall, init, elap, start, checked>>

(* The round is over: the token is there, or the spin is done.             *)
Resume ==
  /\ pc \in {"untimed", "timed"}
  /\ pc' = "check"
  /\ UNCHANGED <<wall, init, elap, abs_next, start, checked, called>>

(* sem_timedwait fails: the deadline has passed, or it is not a time.      *)
Expire ==
  /\ pc = "timed"
  /\ Valid(abs_next) => Total(abs_next) <= wall
  /\ pc' = "expired"
  /\ UNCHANGED <<wall, init, elap, abs_next, start, checked, called>>

(* Faulty: init is read again in every round.                              *)
CheckFromNow ==
  /\ pc \in {"check", "expired"}
  /\ init' = Gettime(wall)
  /\ elap' = Difference(Gettime(wall), init')
  /\ checked' = wall
  /\ pc' = IF elap'.sec < SecondsPerTest THEN "round" ELSE "halt"
  /\ UNCHANGED <<wall, abs_next, start, called>>

(* The clock test that closes the loop.                                    *)
Check ==
  /\ pc \in {"check", "expired"}
  /\ init' = Carries(Gettime(wall), init)
  /\ elap' = Difference(Gettime(wall), init')
  /\ checked' = wall
  /\ pc' = IF elap'.sec < SecondsPerTest THEN "round" ELSE "halt"
  /\ UNCHANGED <<wall, abs_next, start, called>>

Scheduler == Fail \/ Block \/ BlockTimed \/ Resume \/ Expire \/ Check

Halted == pc = "halt" /\ UNCHANGED vars     \* run_test_on is done

Next == Tick \/ Scheduler \/ Halted

(* Time passes, and no round lasts for ever (FixtThreads!Terminates).      *)
Fairness == WF_vars(Tick) /\ WF_vars(Scheduler)

Spec == Init /\ [][Next]_vars /\ Fairness
-----------------------------------------------------------------------------
(* tv_nsec of the three timespecs: the carries that accumulate in init     *)
(* cancel out, so that 32 bits are enough, and no more than one second is  *)
(* left in the nanoseconds of the others.                                  *)
TypeOK ==
  /\ pc \in {"round", "untimed", "timed", "check", "expired", "halt"}
  /\ init \in [sec : Int, nsec : (1 - Second)..(Second - 1)]
  /\ elap \in [sec : Int, nsec : 0..Second]
  /\ abs_next \in [sec : Int, nsec : 0..Second]
  /\ start \in Starts
  /\ wall \in Nat /\ checked \in Nat /\ called \in Nat

(* However many rounds have modified init, it still stands for the start   *)
(* of the test, and elap for the time from then to the last check.         *)
ElapsedExact == Total(init) = start /\ Total(elap) = checked - start

(* A test is stopped by the clock no earlier than FIXT_SECONDS_PER_TEST,   *)
(* and no round starts later than that.                                    *)
StopsOnTime ==
  [][ \/ pc \notin {"check", "expired"}
      \/ /\ pc' = "halt"  => wall - start >= TestLength
         /\ pc' = "round" => wall - start <= TestLength ]_vars

(* The deadline of a timed wait is the instant it should be, but it is     *)
(* malformed, and the wait fails at once, exactly if that instant is the   *)
(* beginning of a second (spin_abstime_in_quanta tests > 0 for >= 0).      *)
DeadlineExact ==
  pc = "timed" =>
    /\ Total(abs_next) = called + Ahead
    /\ Valid(abs_next) <=> Total(abs_next) % Second # 0

(* Every test ends, at the latest with its first check after a second.     *)
TestEnds == <>(pc = "halt")

(* "We block the scheduler for EDF_PERIOD quanta by using a timed wait"    *)
(* (the comment on fixt_algo_impl_edf_block): a wait that ends without a   *)
(* token has lasted as long.                                               *)
BlocksForAQuantum ==
  [][pc' = "expired" => wall - called >= Quantum]_vars
=============================================================================
