---------------------------- MODULE KernelTrace ----------------------------
(***************************************************************************)
(* The trace that log/kernel_trace.c keeps of the program: an array of     *)
(* events, one of times and the index log_entry, written without a lock by *)
(* the scheduler thread and by the task threads, before and after a job.   *)
(*                                                                         *)
(* One processor: a task thread makes a step only while the scheduler is   *)
(* blocked, and the scheduler's own calls, at the highest priority, are    *)
(* never interrupted.  A task thread may be preempted between any two      *)
(* accesses of k_log_csv_start or k_log_csv_end, which are the same code.  *)
(*                                                                         *)
(* The unsynchronised accesses are those of the two builds under x86: o-g, *)
(* not optimised, reads log_entry again for each use and increments it in  *)
(* a load and a store; o keeps the index it has tested for both arrays,    *)
(* and increments in one instruction.                                      *)
(*                                                                         *)
(* Events and times are numbered by the call that wrote them.  What lies   *)
(* behind the arrays is not modelled, only that it was written to.         *)
(***************************************************************************)
EXTENDS FixtThreads

CONSTANT Length     \* LOG_K_LENGTH

ASSUME LengthAssumption == Length \in Nat /\ Length >= 2
ASSUME TasksAssumption  == IsFiniteSet(AllTasks)

VARIABLES
  build,      \* the variant under x86 that is running
  log_event, log_time, log_entry,
  tr,         \* tr[t]: where thread t is between ReadPill and FinishJob
  accepted,   \* history: calls that found room
  cut,        \* history: of these, the ones that another call interrupted
  strayed     \* history: an element past the end was written

trace      == <<build, log_event, log_time, log_entry, tr, accepted, cut, strayed>>
tracedVars == <<vars, trace>>
-----------------------------------------------------------------------------
Slots == 0..(Length - 1)

(* The two calls around a job, the accesses of each, and what is between.  *)
Calls    == {"start", "end"}
Accesses == {"test", "event", "time", "count", "put"}

NotTracing == [call |-> "none", at |-> "test", index |-> 0, value |-> 0, id |-> 0]

InFlight == {t \in DOMAIN tr : tr[t].call \in Calls /\ tr[t].at # "test"}

(* The calls of the threads in s are interrupted.                          *)
Interrupt(s) == cut' = cut \cup {tr[t].id : t \in s}

(* The scheduler makes n calls in a row, as far as there is room.          *)
Log(n) ==
  \E k \in {IF log_entry + n <= Length THEN n
            ELSE IF log_entry < Length THEN Length - log_entry ELSE 0} :
    LET new(i, old) ==
          IF i \in log_entry..(log_entry + k - 1) THEN accepted + 1 + i - log_entry
          ELSE old
    IN  /\ log_event' = [i \in Slots |-> new(i, log_event[i])]
        /\ log_time'  = [i \in Slots |-> new(i, log_time[i])]
        /\ log_entry' = log_entry + k
        /\ accepted' = accepted + k
        /\ Interrupt(IF k > 0 THEN InFlight ELSE {})

(* The calls of fixt_algo_schedule and of fixt_algo_run, whose first two   *)
(* are skipped when nothing is queued.                                     *)
CallsOf ==
  CASE pc = "schedule"                   -> 2
    [] pc = "dispatch" /\ queue # <<>>   -> 2
    [] pc = "recalc"                     -> 2
    [] OTHER                             -> 0

(* The scheduler is blocked, in al_block or in pthread_join.               *)
Blocked ==
  \/ pc = "block" /\ th[head].done = 0
  \/ pc = "join" /\ th[al_tasks[1]].at # "exited"
-----------------------------------------------------------------------------
(* fixt_init has made two calls.                                           *)
TracedInit ==
  /\ Init
  /\ build \in {"o", "o-g"}
  /\ log_event = [i \in Slots |-> IF i < 2 THEN i + 1 ELSE 0]
  /\ log_time = log_event
  /\ log_entry = 2 /\ accepted = 2
  /\ tr = <<>> /\ cut = {} /\ strayed = FALSE

(* A step of the scheduler, with the calls it makes.                       *)
TracedScheduler ==
  /\ Scheduler
  /\ Log(CallsOf)
  /\ tr' = IF DOMAIN th' = DOMAIN th THEN tr ELSE [t \in DOMAIN th' |-> NotTracing]
  /\ UNCHANGED <<build, strayed>>

(* Faulty: the job is reported before the second call is made.             *)
TracedTaskPostsFirst(t) ==
  /\ Blocked
  /\ \/ /\ tr[t].call = "none" /\ Task(t)
        /\ tr' = [tr EXCEPT ![t].call = IF th'[t].at = "spin" THEN "start" ELSE @]
     \/ /\ tr[t].call = "spinning" /\ Task(t)
        /\ tr' = [tr EXCEPT ![t].call = "end"]
     \/ /\ tr[t].call = "over"
        /\ tr' = [tr EXCEPT ![t] = NotTracing]
        /\ UNCHANGED vars
  /\ UNCHANGED <<build, log_event, log_time, log_entry, accepted, cut, strayed>>

(* A step of a thread outside of its calls: it begins the first one when   *)
(* it is about to spin, the second one when it has, and posts after that.  *)
TracedTask(t) ==
  /\ Blocked
  /\ \/ /\ tr[t].call = "none" /\ Task(t)
        /\ tr' = [tr EXCEPT ![t].call = IF th'[t].at = "spin" THEN "start" ELSE @]
     \/ /\ tr[t].call = "spinning"
        /\ tr' = [tr EXCEPT ![t].call = "end"]
        /\ UNCHANGED vars
     \/ /\ tr[t].call = "over" /\ Task(t)
        /\ tr' = [tr EXCEPT ![t] = NotTracing]
  /\ UNCHANGED <<build, log_event, log_time, log_entry, accepted, cut, strayed>>

(* The call of t returns.                                                  *)
Return(t) ==
  tr' = [tr EXCEPT ![t] =
           [NotTracing EXCEPT !.call = IF tr[t].call = "start" THEN "spinning" ELSE "over"]]

(* Faulty: <=.                                                             *)
TestAtMost(t) ==
  /\ tr[t].at = "test"
  /\ IF log_entry <= Length
       THEN /\ tr' = [tr EXCEPT ![t].at = "event", ![t].index = log_entry,
                                ![t].id = accepted + 1]
            /\ accepted' = accepted + 1
       ELSE Return(t) /\ UNCHANGED accepted
  /\ UNCHANGED <<log_event, log_time, log_entry, strayed>>

(* if (log_entry < LOG_K_LENGTH)                                           *)
Test(t) ==
  /\ tr[t].at = "test"
  /\ IF log_entry < Length
       THEN /\ tr' = [tr EXCEPT ![t].at = "event", ![t].index = log_entry,
                                ![t].id = accepted + 1]
            /\ accepted' = accepted + 1
       ELSE Return(t) /\ UNCHANGED accepted
  /\ UNCHANGED <<log_event, log_time, log_entry, strayed>>

(* The index that is used for an access to the arrays.                     *)
IndexOf(t) == IF build = "o" THEN tr[t].index ELSE log_entry

(* log_event[log_entry] = c                                                *)
StoreEvent(t) ==
  /\ tr[t].at = "event"
  /\ log_event' = [i \in Slots |-> IF i = IndexOf(t) THEN tr[t].id ELSE log_event[i]]
  /\ strayed' = (strayed \/ IndexOf(t) \notin Slots)
  /\ tr' = [tr EXCEPT ![t].at = "time"]
  /\ UNCHANGED <<log_time, log_entry, accepted>>

(* Faulty: only k_log_csv_start records the time.                          *)
StoreTimeOfStarts(t) ==
  /\ tr[t].at = "time"
  /\ log_time' = [i \in Slots |-> IF i = IndexOf(t) /\ tr[t].call = "start"
                                  THEN tr[t].id ELSE log_time[i]]
  /\ tr' = [tr EXCEPT ![t].at = "count"]
  /\ UNCHANGED <<log_event, log_entry, accepted, strayed>>

(* clock_gettime(CLOCK_REALTIME, &log_time[log_entry])                     *)
StoreTime(t) ==
  /\ tr[t].at = "time"
  /\ log_time' = [i \in Slots |-> IF i = IndexOf(t) THEN tr[t].id ELSE log_time[i]]
  /\ strayed' = (strayed \/ IndexOf(t) \notin Slots)
  /\ tr' = [tr EXCEPT ![t].at = "count"]
  /\ UNCHANGED <<log_event, log_entry, accepted>>

(* Faulty: only k_log_csv_start counts.                                    *)
CountStarts(t) ==
  /\ tr[t].at = "count" /\ build = "o"
  /\ log_entry' = log_entry + (IF tr[t].call = "start" THEN 1 ELSE 0)
  /\ Return(t)
  /\ UNCHANGED <<log_event, log_time, accepted, strayed>>

(* log_entry++                                                             *)
Count(t) ==
  /\ tr[t].at = "count" /\ build = "o"
  /\ log_entry' = log_entry + 1
  /\ Return(t)
  /\ UNCHANGED <<log_event, log_time, accepted, strayed>>

CountLoad(t) ==
  /\ tr[t].at = "count" /\ build = "o-g"
  /\ tr' = [tr EXCEPT ![t].at = "put", ![t].value = log_entry]
  /\ UNCHANGED <<log_event, log_time, log_entry, accepted, strayed>>

CountStore(t) ==
  /\ tr[t].at = "put"
  /\ log_entry' = tr[t].value + 1
  /\ Return(t)
  /\ UNCHANGED <<log_event, log_time, accepted, strayed>>

(* k_log_csv_start and k_log_csv_end, an access at a time.                 *)
TraceStep(t) ==
  /\ Blocked /\ tr[t].call \in Calls
  /\ Test(t) \/ StoreEvent(t) \/ StoreTime(t)
       \/ Count(t) \/ CountLoad(t) \/ CountStore(t)
  /\ Interrupt(InFlight \ {t})
  /\ UNCHANGED <<vars, build>>

TracedNext ==
  \/ TracedScheduler
  \/ \E t \in DOMAIN tr : TracedTask(t) \/ TraceStep(t)
  \/ Terminated /\ UNCHANGED trace

TracedSpec == TracedInit /\ [][TracedNext]_tracedVars
-----------------------------------------------------------------------------
TracedTypeOK ==
  /\ log_event \in [Slots -> 0..accepted] /\ log_time \in [Slots -> 0..accepted]
  /\ log_entry \in Nat /\ accepted \in Nat
  /\ cut \subseteq 1..accepted
  /\ DOMAIN tr = DOMAIN th
  /\ \A t \in DOMAIN tr :
       /\ tr[t].call \in Calls \cup {"none", "spinning", "over"}
       /\ tr[t].at \in Accesses
       /\ tr[t].call # "none" => th[t].at = "spin"

Written == {i \in Slots : i < log_entry}

(* Slots below log_entry that do not hold the record of one call.          *)
Damaged == {i \in Written : log_event[i] # log_time[i] \/ log_event[i] = 0}

(* As long as no call was interrupted the trace is the sequence of all     *)
(* calls until it is full: nothing is lost, torn or out of order.          *)
ExactUnlessCut ==
  cut = {} => /\ \A i \in Written : log_event[i] = i + 1 /\ log_time[i] = i + 1
              /\ log_entry + Cardinality(InFlight) = accepted
              /\ ~strayed

(* The traces of RMA are exact: its scheduler waits for the token, and a   *)
(* thread posts it after k_log_e, so that no two calls ever overlap.       *)
RmaIsExact ==
  (\A i \in 1..ai : AlgoList[i] = "rma") => cut = {}

(* In the optimised build no element past the end is written, although     *)
(* log_entry passes the end by as many calls as were under way: one for    *)
(* each thread.                                                            *)
StaysInside ==
  build = "o" =>
    /\ ~strayed
    /\ log_entry + Cardinality(InFlight) <= Length + Cardinality(AllTasks)

(* There, a call that is interrupted spoils two slots at most: the one it  *)
(* writes late, and one that is counted and never written.                 *)
DamageIsLocal ==
  build = "o" => Cardinality(Damaged) <= 2 * Cardinality(cut)
=============================================================================
