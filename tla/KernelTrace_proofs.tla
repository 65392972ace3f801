------------------------- MODULE KernelTrace_proofs -------------------------
(***************************************************************************)
(* Theorems about the kernel trace, for every length of the arrays, every  *)
(* number of tasks and every interleaving of their calls.                  *)
(*                                                                         *)
(* A step of the traced program is one of FixtThreads or leaves it alone,  *)
(* so that the invariants of FixtThreads_proofs hold here too.  For the    *)
(* trace there are two kinds of steps: an access of a call under way, and  *)
(* everything else, which may add whole records but leaves the calls under *)
(* way as they are (Outside).                                              *)
(***************************************************************************)
EXTENDS KernelTrace, FixtThreads_proofs

TraceRec ==
  [call : Calls \cup {"none", "spinning", "over"}, at : Accesses,
   index : Nat, value : Nat, id : Nat]

(* The types, and that only a call has accesses to make.                   *)
TraceTypes ==
  /\ build \in {"o", "o-g"} /\ strayed \in BOOLEAN
  /\ log_event \in [Slots -> 0..accepted] /\ log_time \in [Slots -> 0..accepted]
  /\ log_entry \in Nat /\ accepted \in Nat
  /\ cut \subseteq 1..accepted
  /\ tr \in [DOMAIN th -> TraceRec]
  /\ \A t \in DOMAIN th :
       /\ tr[t].call # "none" => th[t].at = "spin"
       /\ tr[t].call \notin Calls => tr[t].at = "test"
       /\ tr[t].at # "test" => tr[t].id \in 1..accepted

(* What fixt_algo_halt has taken off its list has been joined.             *)
StoppedAreGone ==
  pc \in {"halt", "post", "join"} =>
    \A t \in Ids : th[t].at = "exited" \/ \E i \in DOMAIN al_tasks : al_tasks[i] = t

(* While no call has been interrupted there is one under way at most, and  *)
(* the record it has written so far is the next of the trace.              *)
ExactInv ==
  cut = {} =>
    /\ ~strayed
    /\ \A i \in Written : log_event[i] = i + 1 /\ log_time[i] = i + 1
    /\ InFlight = {} => log_entry = accepted
    /\ \A t \in InFlight :
         /\ InFlight = {t}
         /\ accepted = log_entry + 1 /\ log_entry < Length
         /\ tr[t].id = accepted /\ tr[t].index = log_entry
         /\ tr[t].at # "event" => log_event[log_entry] = tr[t].id
         /\ tr[t].at \in {"count", "put"} => log_time[log_entry] = tr[t].id
         /\ tr[t].at = "put" => tr[t].value = log_entry

(* The optimised build writes where it has tested that there is room.      *)
InsideInv ==
  build = "o" =>
    /\ ~strayed
    /\ \A t \in InFlight :
         tr[t].at # "put" /\ tr[t].index \in Slots /\ tr[t].index <= log_entry
    /\ log_entry + Cardinality(InFlight) <= Length + Cardinality(AllTasks)

(* A call that has not been interrupted has all of its record at the end.  *)
UncutAtEnd ==
  /\ \A t, u \in InFlight : tr[t].id = tr[u].id => t = u
  /\ build = "o" =>
       \A t \in InFlight : tr[t].id \notin cut =>
         /\ tr[t].index = log_entry
         /\ tr[t].at # "event" => log_event[log_entry] = tr[t].id
         /\ tr[t].at = "count" => log_time[log_entry] = tr[t].id

(* Every damaged slot is charged to an interrupted call: as the one that   *)
(* it writes, or, when it has returned, as the one that it has counted.    *)
Charges(late, counted) ==
  /\ \A i \in Damaged : \E c \in cut :
       \/ i = late[c]
       \/ i = counted[c] /\ \A t \in InFlight : tr[t].id # c
  /\ \A t \in InFlight : tr[t].id \in cut => late[tr[t].id] = tr[t].index
Charged == build = "o" => \E late, counted \in [cut -> Nat] : Charges(late, counted)

(* Under RMA nobody is left with a job when the test is halted.            *)
RmaQuiet ==
  algo = "rma" /\ pc \in {"halt", "post", "join"} =>
    /\ \A t \in Ids :
         /\ th[t].at # "spin"
         /\ th[t].at = "poison" => th[t].pipe
         /\ th[t].at = "wait" /\ th[t].cont > 0 => th[t].pipe
    /\ pc = "post" =>
         th[al_tasks[1]].at = "exited" \/ th[al_tasks[1]].pipe

TraceInv ==
  /\ StructInv /\ TraceTypes /\ StoppedAreGone
  /\ ExactInv /\ InsideInv /\ UncutAtEnd /\ Charged
-----------------------------------------------------------------------------
(* What the steps have in common.                                          *)

(* k records are added at the end, and interrupt what is under way.        *)
LogBy(k) ==
  /\ k > 0 => log_entry + k <= Length
  /\ log_event' = [i \in Slots |-> IF i \in log_entry..(log_entry + k - 1)
                                  THEN accepted + 1 + i - log_entry
                                  ELSE log_event[i]]
  /\ log_time' = [i \in Slots |-> IF i \in log_entry..(log_entry + k - 1)
                                 THEN accepted + 1 + i - log_entry
                                 ELSE log_time[i]]
  /\ log_entry' = log_entry + k
  /\ accepted' = accepted + k
  /\ cut' = cut \cup {tr[t].id : t \in (IF k > 0 THEN InFlight ELSE {})}

(* A step that is no access of a call.                                     *)
Outside ==
  /\ InFlight' = InFlight /\ \A t \in InFlight : tr'[t] = tr[t]
  /\ UNCHANGED <<build, strayed>>
  /\ \E k \in Nat : LogBy(k)

LEMMA SlotsType == Slots = 0..(Length - 1) /\ Length \in Nat /\ Length >= 2
BY LengthAssumption DEF Slots

LEMMA InFlightType ==
  ASSUME TraceTypes
  PROVE  /\ DOMAIN tr = DOMAIN th
         /\ InFlight = {t \in DOMAIN th : tr[t].at # "test"}
         /\ \A t \in InFlight : /\ t \in DOMAIN th /\ tr[t] \in TraceRec
                                /\ tr[t].call \in Calls /\ tr[t].at # "test"
                                /\ tr[t].id \in 1..accepted
                                /\ th[t].at = "spin"
<1>1. DOMAIN tr = DOMAIN th
  BY DEF TraceTypes
<1>2. \A t \in DOMAIN th : tr[t].at # "test" => tr[t].call \in Calls
  BY DEF TraceTypes
<1>3. InFlight = {t \in DOMAIN th : tr[t].at # "test"}
  BY <1>1, <1>2 DEF InFlight
<1>4. \A t \in DOMAIN th : tr[t].call \in Calls => th[t].at = "spin"
  BY DEF TraceTypes, Calls
<1> QED
  BY <1>1, <1>2, <1>3, <1>4 DEF TraceTypes

(* The scheduler makes as many calls as there is room for.                 *)
LEMMA LogCalls ==
  ASSUME TraceTypes, NEW n \in Nat, Log(n)
  PROVE  \E k \in Nat : LogBy(k)
<1>1. PICK k \in {IF log_entry + n <= Length THEN n
                  ELSE IF log_entry < Length THEN Length - log_entry ELSE 0} :
        LET new(i, old) ==
              IF i \in log_entry..(log_entry + k - 1) THEN accepted + 1 + i - log_entry
              ELSE old
        IN  /\ log_event' = [i \in Slots |-> new(i, log_event[i])]
            /\ log_time'  = [i \in Slots |-> new(i, log_time[i])]
            /\ log_entry' = log_entry + k
            /\ accepted' = accepted + k
            /\ Interrupt(IF k > 0 THEN InFlight ELSE {})
  BY DEF Log
<1>2. k \in Nat /\ (k > 0 => log_entry + k <= Length)
  BY <1>1, SlotsType DEF TraceTypes
<1>3. cut' = cut \cup {tr[t].id : t \in (IF k > 0 THEN InFlight ELSE {})}
  BY <1>1 DEF Interrupt
<1>4. LogBy(k)
  BY <1>1, <1>2, <1>3 DEF LogBy
<1> QED
  BY <1>2, <1>4

LEMMA NoCalls ==
  ASSUME TraceTypes, UNCHANGED <<log_event, log_time, log_entry, accepted, cut>>
  PROVE  \E k \in Nat : LogBy(k)
<1>1. /\ log_event = [i \in Slots |-> log_event[i]]
      /\ log_time = [i \in Slots |-> log_time[i]]
      /\ log_entry \in Nat /\ accepted \in Nat
  BY DEF TraceTypes
<1>2. \A i \in Slots : i \notin log_entry..(log_entry + 0 - 1)
  BY <1>1, SlotsType
<1>3. LogBy(0)
  BY <1>1, <1>2 DEF LogBy
<1> QED
  BY <1>3

(* The calls of the threads of a test are over when they are all joined.   *)
LEMMA SchedulerOutside ==
  ASSUME StructInv, TraceTypes, StoppedAreGone, TracedScheduler
  PROVE  Next /\ Outside
<1>1. Next /\ UNCHANGED <<build, strayed>>
  BY DEF TracedScheduler, Next
<1>2. CallsOf \in Nat
  BY DEF CallsOf
<1>3. \E k \in Nat : LogBy(k)
  BY <1>2, LogCalls DEF TracedScheduler
<1>4. CASE DOMAIN th' = DOMAIN th
  <2>1. tr' = tr
    BY <1>4 DEF TracedScheduler
  <2> QED
    BY <1>1, <1>3, <2>1 DEF Outside, InFlight
<1>5. CASE DOMAIN th' # DOMAIN th
  <2>1. InFlight' = {}
    BY <1>5 DEF TracedScheduler, InFlight, NotTracing
  <2>2. th \in [IF pc \in {"prime", "term"} THEN {} ELSE Ids -> ThreadRec]
    BY DEF StructInv, TypeOK
  <2>3. InFlight = {}
    <3>1. CASE pc = "prime"
      BY <2>2, <3>1, InFlightType
    <3>2. CASE StopJoin
      <4>1. /\ th[al_tasks[1]].at = "exited" /\ al_tasks' = Tail(al_tasks)
            /\ al_tasks' = <<>> /\ pc = "join"
        BY <1>5, <3>2 DEF StopJoin
      <4>2. al_tasks \in Seq(Ids) /\ al_tasks # <<>>
        BY <4>1 DEF StructInv, TypeOK, ListsFollow
      <4>3. \A i \in DOMAIN al_tasks : i = 1
        <5>1. Len(al_tasks) \in Nat /\ DOMAIN al_tasks = 1..Len(al_tasks)
          BY <4>2
        <5>2. Tail(al_tasks) = <<>> /\ Len(Tail(al_tasks)) = Len(al_tasks) - 1
          BY <4>1, <4>2
        <5>3. Len(al_tasks) = 1
          BY <5>1, <5>2
        <5> QED
          BY <5>1, <5>3
      <4>4. \A t \in Ids : th[t].at = "exited"
        BY <4>1, <4>3 DEF StoppedAreGone
      <4> QED
        BY <2>2, <4>1, <4>4, InFlightType
    <3>3. CASE pc # "prime" /\ ~StopJoin
      <4>1. PICK u : \/ u \in DOMAIN th /\ Start(u)
                     \/ Schedule \/ Dispatch \/ Block \/ Recalc
                     \/ StopWrite \/ StopPost
        BY <3>3 DEF TracedScheduler, Scheduler, Prime
      <4>2. DOMAIN th' = DOMAIN th
        <5>1. CASE u \in DOMAIN th /\ Start(u)
          BY <5>1 DEF Start, Starting
        <5>2. CASE Schedule \/ Recalc \/ StopWrite \/ StopPost
          BY <5>2 DEF Schedule, Recalc, StopWrite, StopPost
        <5>3. CASE Dispatch
          BY <2>2, <5>3 DEF Dispatch, Released
        <5>4. CASE Block
          BY <5>4 DEF Block, TakeDone, NotDone
        <5> QED
          BY <4>1, <5>1, <5>2, <5>3, <5>4
      <4> QED
        BY <1>5, <4>2
    <3> QED
      BY <3>1, <3>2, <3>3
  <2> QED
    BY <1>1, <1>3, <2>1, <2>3 DEF Outside
<1> QED
  BY <1>4, <1>5

LEMMA TaskOutside ==
  ASSUME StructInv, TraceTypes, NEW t \in DOMAIN tr, TracedTask(t)
  PROVE  [Next]_vars /\ Outside
<1>1. t \in DOMAIN th /\ t \in AllTasks /\ tr \in [DOMAIN th -> TraceRec]
  BY ThreadIds DEF StructInv, TraceTypes
<1>2. [Next]_vars
  BY <1>1 DEF TracedTask, Next
<1>3. tr[t].call \in {"none", "spinning", "over"} /\ tr[t].at = "test"
  BY <1>1 DEF TracedTask, TraceTypes, Calls
<1>4. /\ DOMAIN tr' = DOMAIN tr /\ tr'[t].at = "test"
      /\ \A u \in DOMAIN tr : u # t => tr'[u] = tr[u]
  BY <1>1, <1>3 DEF TracedTask, TraceRec, NotTracing
<1>5. InFlight' = InFlight /\ \A u \in InFlight : tr'[u] = tr[u]
  BY <1>3, <1>4 DEF InFlight
<1>6. UNCHANGED <<build, strayed, log_event, log_time, log_entry, accepted, cut>>
  BY DEF TracedTask
<1> QED
  BY <1>2, <1>5, <1>6, NoCalls DEF Outside

LEMMA RestOutside ==
  ASSUME StructInv, TraceTypes,
         (Terminated /\ UNCHANGED trace) \/ UNCHANGED tracedVars
  PROVE  UNCHANGED vars /\ UNCHANGED trace /\ Outside
<1>1. UNCHANGED vars /\ UNCHANGED trace
  BY DEF Terminated, tracedVars
<1>2. InFlight' = InFlight /\ \A u \in InFlight : tr'[u] = tr[u]
  BY <1>1 DEF InFlight, trace
<1> QED
  BY <1>1, <1>2, NoCalls DEF Outside, trace

(* Every step of the traced program is one of FixtThreads, or none.        *)
LEMMA TracedSteps ==
  ASSUME StructInv, TraceTypes, StoppedAreGone, [TracedNext]_tracedVars
  PROVE  /\ [Next]_vars
         /\ \/ Outside
            \/ \E t \in DOMAIN tr : TraceStep(t)
<1>1. CASE TracedScheduler
  BY <1>1, SchedulerOutside
<1>2. ASSUME NEW t \in DOMAIN tr, TracedTask(t)
      PROVE  [Next]_vars /\ Outside
  BY <1>2, TaskOutside
<1>3. ASSUME NEW t \in DOMAIN tr, TraceStep(t) PROVE UNCHANGED vars
  BY <1>3 DEF TraceStep
<1>4. CASE (Terminated /\ UNCHANGED trace) \/ UNCHANGED tracedVars
  BY <1>4, RestOutside
<1> QED
  BY <1>1, <1>2, <1>3, <1>4 DEF TracedNext
-----------------------------------------------------------------------------
(* An access of a call under way.                                          *)

LEMMA ReturnType ==
  ASSUME TraceTypes, NEW t \in DOMAIN tr, Return(t)
  PROVE  /\ tr'[t] \in TraceRec /\ tr'[t].at = "test"
         /\ tr'[t].call \in {"spinning", "over"}
         /\ \A u \in DOMAIN tr : u # t => tr'[u] = tr[u]
         /\ DOMAIN tr' = DOMAIN tr
<1> DEFINE c == IF tr[t].call = "start" THEN "spinning" ELSE "over"
<1>1. tr' = [tr EXCEPT ![t] = [NotTracing EXCEPT !.call = c]]
  BY DEF Return
<1>2. c \in {"spinning", "over"}
  OBVIOUS
<1> HIDE DEF c
<1>3. /\ [NotTracing EXCEPT !.call = c] \in TraceRec
      /\ [NotTracing EXCEPT !.call = c].at = "test"
      /\ [NotTracing EXCEPT !.call = c].call = c
  BY <1>2 DEF NotTracing, TraceRec, Accesses
<1>4. tr \in [DOMAIN tr -> TraceRec]
  BY DEF TraceTypes
<1> QED
  BY <1>1, <1>2, <1>3, <1>4

LEMMA AccessEffect ==
  ASSUME TraceTypes, NEW t \in DOMAIN tr, TraceStep(t)
  PROVE  /\ UNCHANGED <<vars, build>>
         /\ cut' = cut \cup {tr[u].id : u \in InFlight \ {t}}
         /\ DOMAIN tr' = DOMAIN tr /\ \A u \in DOMAIN tr : u # t => tr'[u] = tr[u]
         /\ tr[t] \in TraceRec /\ tr'[t] \in TraceRec
         /\ tr[t].call \in Calls /\ th[t].at = "spin"
         /\ Test(t) =>
              /\ t \notin InFlight
              /\ log_entry < Length =>
                   /\ InFlight' = InFlight \cup {t}
                   /\ tr'[t].call = tr[t].call /\ tr'[t].at = "event"
                   /\ tr'[t].index = log_entry /\ tr'[t].id = accepted + 1
              /\ ~(log_entry < Length) =>
                   /\ InFlight' = InFlight
                   /\ tr'[t].call \notin Calls /\ tr'[t].at = "test"
         /\ StoreEvent(t) \/ StoreTime(t) \/ CountLoad(t) =>
              /\ t \in InFlight /\ InFlight' = InFlight
              /\ tr'[t].call = tr[t].call
              /\ tr'[t].index = tr[t].index /\ tr'[t].id = tr[t].id
              /\ StoreEvent(t) => tr'[t].at = "time"
              /\ StoreTime(t) => tr'[t].at = "count"
              /\ CountLoad(t) => tr'[t].at = "put" /\ tr'[t].value = log_entry
         /\ Count(t) \/ CountStore(t) =>
              /\ t \in InFlight /\ InFlight' = InFlight \ {t}
              /\ tr'[t].call \notin Calls /\ tr'[t].at = "test"
<1>1. /\ UNCHANGED <<vars, build>> /\ tr[t].call \in Calls
      /\ cut' = cut \cup {tr[u].id : u \in InFlight \ {t}}
      /\ \/ Test(t) \/ StoreEvent(t) \/ StoreTime(t)
         \/ Count(t) \/ CountLoad(t) \/ CountStore(t)
  BY DEF TraceStep, Interrupt
<1>2. /\ tr \in [DOMAIN tr -> TraceRec] /\ tr[t] \in TraceRec
      /\ log_entry \in Nat /\ accepted \in Nat /\ th[t].at = "spin"
      /\ InFlight = {u \in DOMAIN tr : tr[u].at # "test"}
  BY <1>1, InFlightType DEF TraceTypes, Calls
<1>3. InFlight' = {u \in DOMAIN tr' : tr'[u].call \in Calls /\ tr'[u].at # "test"}
  BY DEF InFlight
<1>4. \A u \in DOMAIN tr : tr[u].at # "test" => tr[u].call \in Calls
  BY DEF TraceTypes
<1> DEFINE Same == DOMAIN tr' = DOMAIN tr /\ \A u \in DOMAIN tr : u # t => tr'[u] = tr[u]
<1>5. CASE Test(t) /\ log_entry < Length
  <2>1. tr' = [tr EXCEPT ![t].at = "event", ![t].index = log_entry,
                         ![t].id = accepted + 1]
    BY <1>5 DEF Test
  <2>2. [tr[t] EXCEPT !.at = "event", !.index = log_entry, !.id = accepted + 1]
          \in TraceRec
    <3> DEFINE n == accepted + 1
    <3>1. n \in Nat /\ log_entry \in Nat /\ "event" \in Accesses
      BY <1>2 DEF Accesses
    <3> HIDE DEF n
    <3>2. \A rec \in TraceRec : \A e \in Accesses : \A i \in Nat :
            [rec EXCEPT !.at = e, !.index = i, !.id = n] \in TraceRec
      BY <3>1 DEF TraceRec
    <3> QED
      BY <1>2, <3>1, <3>2 DEF n
  <2>3. /\ tr'[t] \in TraceRec /\ tr'[t].call = tr[t].call /\ tr'[t].at = "event"
        /\ tr'[t].index = log_entry /\ tr'[t].id = accepted + 1 /\ Same
    BY <1>2, <2>1, <2>2 DEF TraceRec
  <2>4. t \notin InFlight /\ InFlight' = InFlight \cup {t}
    BY <1>1, <1>2, <1>3, <1>4, <1>5, <2>3 DEF Test
  <2> QED
    BY <1>1, <1>2, <1>5, <2>3, <2>4
    DEF Test, StoreEvent, StoreTime, CountLoad, Count, CountStore
<1>6. CASE Test(t) /\ ~(log_entry < Length)
  <2>1. Return(t) /\ tr[t].at = "test"
    BY <1>6 DEF Test
  <2>2. /\ tr'[t] \in TraceRec /\ tr'[t].call \notin Calls /\ tr'[t].at = "test"
        /\ Same
    BY <2>1, ReturnType DEF Calls
  <2>3. t \notin InFlight /\ InFlight' = InFlight
    BY <1>2, <1>3, <1>4, <2>1, <2>2
  <2> QED
    BY <1>1, <1>2, <1>6, <2>1, <2>2, <2>3
    DEF StoreEvent, StoreTime, CountLoad, Count, CountStore
<1>7. CASE StoreEvent(t) \/ StoreTime(t) \/ CountLoad(t)
  <2> DEFINE new == CASE StoreEvent(t) -> [tr[t] EXCEPT !.at = "time"]
                      [] StoreTime(t)  -> [tr[t] EXCEPT !.at = "count"]
                      [] OTHER -> [tr[t] EXCEPT !.at = "put", !.value = log_entry]
  <2>1. tr' = [tr EXCEPT ![t] = new] /\ tr[t].at # "test"
    BY <1>2, <1>7 DEF StoreEvent, StoreTime, CountLoad
  <2>2. /\ new \in TraceRec /\ new.call = tr[t].call /\ new.at # "test"
        /\ new.index = tr[t].index /\ new.id = tr[t].id
        /\ StoreEvent(t) => new.at = "time"
        /\ StoreTime(t) => new.at = "count"
        /\ CountLoad(t) => new.at = "put" /\ new.value = log_entry
    BY <1>2, <1>7 DEF StoreEvent, StoreTime, CountLoad, TraceRec, Accesses
  <2> HIDE DEF new
  <2>3. tr'[t] = new /\ Same
    BY <1>2, <2>1
  <2>4. t \in InFlight /\ InFlight' = InFlight
    BY <1>1, <1>2, <1>3, <1>4, <2>1, <2>2, <2>3
  <2>5. ~Test(t) /\ ~Count(t) /\ ~CountStore(t)
    BY <1>7 DEF Test, Count, CountStore, StoreEvent, StoreTime, CountLoad
  <2> QED
    BY <1>1, <1>2, <2>2, <2>3, <2>4, <2>5
<1>8. CASE Count(t) \/ CountStore(t)
  <2>1. Return(t) /\ tr[t].at # "test"
    BY <1>8 DEF Count, CountStore
  <2>2. /\ tr'[t] \in TraceRec /\ tr'[t].call \notin Calls /\ tr'[t].at = "test"
        /\ Same
    BY <2>1, ReturnType DEF Calls
  <2>3. t \in InFlight /\ InFlight' = InFlight \ {t}
    BY <1>2, <1>3, <1>4, <2>1, <2>2
  <2>4. ~Test(t) /\ ~StoreEvent(t) /\ ~StoreTime(t) /\ ~CountLoad(t)
    BY <1>8 DEF Test, StoreEvent, StoreTime, CountLoad, Count, CountStore
  <2> QED
    BY <1>1, <1>2, <2>2, <2>3, <2>4
<1> QED
  BY <1>1, <1>5, <1>6, <1>7, <1>8
-----------------------------------------------------------------------------
(* The types.                                                              *)

LEMMA InitTypes == TracedInit => StructInv /\ TraceTypes /\ StoppedAreGone
<1> SUFFICES ASSUME TracedInit PROVE StructInv /\ TraceTypes /\ StoppedAreGone
  OBVIOUS
<1>1. StructInv /\ pc = "prime" /\ th = <<>>
  BY InitStruct DEF TracedInit, Init
<1>2. log_event \in [Slots -> 0..accepted] /\ log_time \in [Slots -> 0..accepted]
  <2>1. \A i \in Slots : (IF i < 2 THEN i + 1 ELSE 0) \in 0..2
    BY SlotsType
  <2> QED
    BY <2>1 DEF TracedInit
<1>3. tr \in [DOMAIN th -> TraceRec] /\ DOMAIN th = {}
  BY <1>1 DEF TracedInit
<1>4. TraceTypes
  BY <1>2, <1>3 DEF TracedInit, TraceTypes
<1> QED
  BY <1>1, <1>4 DEF StoppedAreGone

(* A step of FixtThreads that stops somebody has joined him.               *)
LEMMA NextStopped ==
  ASSUME StructInv, StoppedAreGone, [Next]_vars
  PROVE  StoppedAreGone'
<1>1. TypeOK /\ ListsFollow
  BY DEF StructInv
<1>2. CASE Schedule \/ Recalc
  <2>1. /\ al_tasks = [t \in Ids |-> t] /\ al_tasks' = al_tasks
        /\ set_list' = set_list /\ si' = si
    BY <1>1, <1>2 DEF ListsFollow, Testing, Schedule, Recalc
  <2>2. Ids' = Ids
    BY <2>1 DEF Ids, set
  <2>3. \A t \in Ids : t \in DOMAIN al_tasks' /\ al_tasks'[t] = t
    BY <2>1
  <2> QED
    BY <2>2, <2>3 DEF StoppedAreGone
<1>3. CASE StopWrite \/ StopPost
  <2>1. pc \in {"halt", "post"} /\ Ids' = Ids /\ al_tasks' = al_tasks
    BY <1>3 DEF StopWrite, StopPost, Ids, set
  <2>2. th \in [Ids -> ThreadRec]
    BY <1>1, <2>1 DEF TypeOK
  <2>3. \A t \in Ids : th'[t].at = th[t].at
    BY <1>3, <2>2 DEF StopWrite, StopPost, ThreadRec
  <2> QED
    BY <2>1, <2>3 DEF StoppedAreGone
<1>4. CASE StopJoin
  <2>1. CASE al_tasks' = <<>>
    BY <1>4, <2>1 DEF StopJoin, StoppedAreGone
  <2>2. CASE al_tasks' # <<>>
    <3>1. /\ pc = "join" /\ Ids' = Ids /\ th' = th
          /\ th[al_tasks[1]].at = "exited" /\ al_tasks' = Tail(al_tasks)
      BY <1>4, <2>2 DEF StopJoin, Ids, set
    <3>2. al_tasks \in Seq(Ids) /\ al_tasks # <<>>
      BY <1>1, <3>1 DEF TypeOK, ListsFollow
    <3>3. ASSUME NEW i \in DOMAIN al_tasks
          PROVE  i = 1 \/ \E j \in DOMAIN al_tasks' : al_tasks'[j] = al_tasks[i]
      <4>1. Len(al_tasks) \in Nat /\ DOMAIN al_tasks = 1..Len(al_tasks)
        BY <3>2
      <4>2. CASE i # 1
        <5>1. i - 1 \in 1..(Len(al_tasks) - 1)
          BY <4>1, <4>2
        <5>2. i - 1 \in DOMAIN Tail(al_tasks)
          BY <3>2, <5>1
        <5>3. Tail(al_tasks)[i - 1] = al_tasks[i]
          BY <3>2, <5>1, <4>1
        <5> QED
          BY <3>1, <5>2, <5>3
      <4> QED
        BY <4>2
    <3> QED
      BY <3>1, <3>3 DEF StoppedAreGone
  <2> QED
    BY <2>1, <2>2
<1>5. ASSUME NEW t \in AllTasks, Task(t) PROVE StoppedAreGone'
  <2>1. pc' = pc /\ al_tasks' = al_tasks /\ Ids' = Ids
    BY <1>5 DEF Task, Wake, ReadPill, FinishJob, sched, Ids, set
  <2>2. pc \in {"halt", "post", "join"} =>
          \A u \in Ids : th[u].at = "exited" => th'[u].at = "exited"
    <3> SUFFICES ASSUME pc \in {"halt", "post", "join"}, NEW u \in Ids,
                        th[u].at = "exited"
                 PROVE  th'[u].at = "exited"
      OBVIOUS
    <3>1. th \in [Ids -> ThreadRec]
      BY <1>1 DEF TypeOK
    <3>2. u # t /\ th'[u] = th[u]
      BY <1>5, <3>1 DEF Task, Wake, ReadPill, FinishJob
    <3> QED
      BY <3>2
  <2> QED
    BY <2>1, <2>2 DEF StoppedAreGone
<1>6. CASE Terminated \/ UNCHANGED vars
  BY <1>6 DEF Terminated, vars, sched, StoppedAreGone, Ids, set
<1>7. CASE \/ Prime \/ Dispatch \/ Block
           \/ \E t \in DOMAIN th : Start(t)
  BY <1>7 DEF Prime, Dispatch, Block, Start, Starting, StoppedAreGone
<1> QED
  BY <1>2, <1>3, <1>4, <1>5, <1>6, <1>7 DEF Next, Scheduler

LEMMA LogTypes ==
  ASSUME TraceTypes, NEW k \in Nat, LogBy(k)
  PROVE  /\ log_event' \in [Slots -> 0..accepted']
         /\ log_time' \in [Slots -> 0..accepted']
         /\ log_entry' \in Nat /\ accepted' \in Nat /\ accepted <= accepted'
         /\ cut' \subseteq 1..accepted'
<1>1. /\ log_entry \in Nat /\ accepted \in Nat /\ accepted' = accepted + k
      /\ log_entry' = log_entry + k /\ cut \subseteq 1..accepted
  BY DEF TraceTypes, LogBy
<1>2. ASSUME NEW i \in Slots, NEW old \in 0..accepted
      PROVE  (IF i \in log_entry..(log_entry + k - 1)
              THEN accepted + 1 + i - log_entry ELSE old) \in 0..accepted'
    BY <1>1, SlotsType
<1>3. log_event \in [Slots -> 0..accepted] /\ log_time \in [Slots -> 0..accepted]
  BY DEF TraceTypes
<1>4. log_event' \in [Slots -> 0..accepted'] /\ log_time' \in [Slots -> 0..accepted']
  BY <1>2, <1>3 DEF LogBy
<1>5. \A t \in InFlight : tr[t].id \in 1..accepted
  BY InFlightType
<1>6. cut' \subseteq 1..accepted'
  <2>1. \A x \in 1..accepted : x \in 1..accepted'
    BY <1>1
  <2> QED
    BY <1>1, <1>5, <2>1 DEF LogBy
<1> QED
  BY <1>1, <1>4, <1>6

(* A thread that spins is left alone by the scheduler.                     *)
LEMMA SpinningOn ==
  ASSUME StructInv, Scheduler, DOMAIN th' = DOMAIN th,
         NEW t \in DOMAIN th, th[t].at = "spin"
  PROVE  th'[t].at = "spin"
<1>1. th \in [IF pc \in {"prime", "term"} THEN {} ELSE Ids -> ThreadRec]
      /\ th \in [DOMAIN th -> ThreadRec]
  BY DEF StructInv, TypeOK
<1>2. pc \notin {"prime", "term"} /\ t \in Ids
  BY <1>1
<1>3. CASE Schedule \/ Recalc \/ StopJoin
  <2>1. th' = th \/ th' = <<>>
    BY <1>3 DEF Schedule, Recalc, StopJoin
  <2> QED
    BY <2>1
<1>4. CASE StopWrite \/ StopPost
  BY <1>1, <1>4 DEF StopWrite, StopPost, ThreadRec
<1>5. CASE Dispatch
  BY <1>1, <1>2, <1>5 DEF Dispatch, Released, ThreadRec
<1>6. CASE Block
  BY <1>1, <1>6 DEF Block, TakeDone, NotDone, ThreadRec
<1>7. ASSUME NEW u \in DOMAIN th, Start(u) PROVE th'[t].at = "spin"
  BY <1>1, <1>7 DEF Start, Starting, NewThread
<1> QED
  BY <1>2, <1>3, <1>4, <1>5, <1>6, <1>7 DEF Scheduler, Prime

LEMMA SchedulerTypes ==
  ASSUME StructInv, TraceTypes, StoppedAreGone, TracedScheduler
  PROVE  TraceTypes'
<1>1. PICK k \in Nat : LogBy(k)
  BY SchedulerOutside DEF Outside
<1>2. /\ log_event' \in [Slots -> 0..accepted'] /\ log_time' \in [Slots -> 0..accepted']
      /\ log_entry' \in Nat /\ accepted' \in Nat /\ accepted <= accepted'
      /\ cut' \subseteq 1..accepted' /\ accepted \in Nat
  BY <1>1, LogTypes DEF TraceTypes
<1>3. /\ tr' \in [DOMAIN th' -> TraceRec]
      /\ \A t \in DOMAIN th' :
           /\ tr'[t].call # "none" => th'[t].at = "spin"
           /\ tr'[t].call \notin Calls => tr'[t].at = "test"
           /\ tr'[t].at # "test" => tr'[t].id \in 1..accepted'
  <2>1. CASE DOMAIN th' = DOMAIN th
    <3>1. tr' = tr
      BY <2>1 DEF TracedScheduler
    <3>2. \A t \in DOMAIN th : th[t].at = "spin" => th'[t].at = "spin"
      BY <2>1, SpinningOn DEF TracedScheduler
    <3> QED
      BY <1>2, <2>1, <3>1, <3>2 DEF TraceTypes
  <2>2. CASE DOMAIN th' # DOMAIN th
    <3>1. tr' = [t \in DOMAIN th' |-> NotTracing]
      BY <2>2 DEF TracedScheduler
    <3>2. /\ NotTracing \in TraceRec /\ NotTracing.call = "none"
          /\ NotTracing.at = "test"
      BY DEF NotTracing, TraceRec, Accesses
    <3> QED
      BY <3>1, <3>2
  <2> QED
    BY <2>1, <2>2
<1>4. build' \in {"o", "o-g"} /\ strayed' \in BOOLEAN
  BY DEF TracedScheduler, TraceTypes
<1> QED
  BY <1>2, <1>3, <1>4 DEF TraceTypes

LEMMA TaskTypes ==
  ASSUME StructInv, TraceTypes, NEW t \in DOMAIN tr, TracedTask(t)
  PROVE  TraceTypes'
<1>1. /\ t \in DOMAIN th /\ tr \in [DOMAIN th -> TraceRec] /\ tr[t] \in TraceRec
      /\ th \in [DOMAIN th -> ThreadRec]
  BY ThreadIds DEF StructInv, TraceTypes
<1>2. /\ UNCHANGED <<build, log_event, log_time, log_entry, accepted, cut, strayed>>
      /\ tr[t].call \in {"none", "spinning", "over"} /\ tr[t].at = "test"
  BY <1>1 DEF TracedTask, TraceTypes, Calls
<1>3. DOMAIN th' = DOMAIN th /\ \A u \in DOMAIN th : u # t => th'[u] = th[u]
  BY <1>1 DEF TracedTask, Task, Wake, ReadPill, FinishJob, vars
<1>4. /\ \A u \in DOMAIN tr : u # t => tr'[u] = tr[u]
      /\ tr' \in [DOMAIN th -> TraceRec] /\ tr'[t].at = "test"
      /\ tr'[t].call # "none" => th'[t].at = "spin"
  <2>1. CASE tr[t].call = "none"
    <3> DEFINE c == IF th'[t].at = "spin" THEN "start" ELSE "none"
    <3>1. tr' = [tr EXCEPT ![t].call = c]
      BY <1>1, <1>2, <2>1 DEF TracedTask
    <3>2. c \in {"start", "none"} /\ (c # "none" => th'[t].at = "spin")
      OBVIOUS
    <3> HIDE DEF c
    <3>3. [tr[t] EXCEPT !.call = c] \in TraceRec
      BY <1>1, <3>2 DEF TraceRec, Calls
    <3> QED
      BY <1>1, <1>2, <3>1, <3>2, <3>3 DEF TraceRec
  <2>2. CASE tr[t].call = "spinning"
    <3>1. tr' = [tr EXCEPT ![t].call = "end"] /\ th' = th
      BY <2>2 DEF TracedTask, vars
    <3>2. [tr[t] EXCEPT !.call = "end"] \in TraceRec /\ th[t].at = "spin"
      BY <1>1, <2>2 DEF TraceRec, Calls, TraceTypes
    <3> QED
      BY <1>1, <1>2, <3>1, <3>2 DEF TraceRec
  <2>3. CASE tr[t].call = "over"
    <3>1. tr' = [tr EXCEPT ![t] = NotTracing]
      BY <2>3 DEF TracedTask
    <3>2. /\ NotTracing \in TraceRec /\ NotTracing.call = "none"
          /\ NotTracing.at = "test"
      BY DEF NotTracing, TraceRec, Accesses
    <3> QED
      BY <1>1, <3>1, <3>2
  <2> QED
    BY <1>2, <2>1, <2>2, <2>3
<1> QED
  BY <1>1, <1>2, <1>3, <1>4 DEF TraceTypes

LEMMA AccessTypes ==
  ASSUME TraceTypes, NEW t \in DOMAIN tr, TraceStep(t)
  PROVE  TraceTypes' /\ accepted <= accepted'
<1>1. /\ UNCHANGED <<vars, build>>
      /\ cut' = cut \cup {tr[u].id : u \in InFlight \ {t}}
      /\ DOMAIN tr' = DOMAIN tr /\ \A u \in DOMAIN tr : u # t => tr'[u] = tr[u]
      /\ tr[t] \in TraceRec /\ tr'[t] \in TraceRec
      /\ tr[t].call \in Calls /\ th[t].at = "spin"
  BY AccessEffect
<1>2. /\ tr \in [DOMAIN th -> TraceRec] /\ log_entry \in Nat /\ accepted \in Nat
      /\ th' = th /\ cut \subseteq 1..accepted
      /\ \A u \in InFlight : tr[u].id \in 1..accepted
  BY <1>1, InFlightType DEF TraceTypes, vars
<1>3. \/ Test(t) \/ StoreEvent(t) \/ StoreTime(t)
      \/ Count(t) \/ CountLoad(t) \/ CountStore(t)
  BY DEF TraceStep
<1>4. /\ accepted' \in Nat /\ accepted <= accepted'
      /\ log_entry' \in Nat /\ strayed' \in BOOLEAN
  <2>1. tr[t].value \in Nat
    BY <1>1 DEF TraceRec
  <2>2. accepted' \in Nat /\ accepted <= accepted' /\ log_entry' \in Nat
    BY <1>2, <1>3, <2>1
    DEF Test, StoreEvent, StoreTime, Count, CountLoad, CountStore
  <2>3. \/ strayed' = strayed
        \/ strayed' = (strayed \/ IndexOf(t) \notin Slots)
    BY <1>3 DEF Test, StoreEvent, StoreTime, Count, CountLoad, CountStore
  <2>4. strayed' \in BOOLEAN
    BY <2>3, Zenon DEF TraceTypes
  <2> QED
    BY <2>2, <2>4
<1>5. /\ tr'[t].call \notin Calls => tr'[t].at = "test"
      /\ tr'[t].at # "test" => tr'[t].id \in 1..accepted'
  <2>1. CASE Test(t)
    <3>1. CASE log_entry < Length
      <4>1. /\ tr'[t].call = tr[t].call /\ tr'[t].at = "event"
            /\ tr'[t].id = accepted + 1
        BY <2>1, <3>1, AccessEffect
      <4>2. accepted' = accepted + 1
        BY <2>1, <3>1 DEF Test
      <4> QED
        BY <1>1, <1>2, <4>1, <4>2
    <3>2. CASE ~(log_entry < Length)
      <4>1. tr'[t].call \notin Calls /\ tr'[t].at = "test"
        BY <2>1, <3>2, AccessEffect
      <4> QED
        BY <4>1
    <3> QED
      BY <3>1, <3>2
  <2>2. CASE StoreEvent(t) \/ StoreTime(t) \/ CountLoad(t)
    <3>1. /\ t \in InFlight /\ tr'[t].call = tr[t].call /\ tr'[t].id = tr[t].id
      BY <2>2, AccessEffect
    <3>2. \A x \in 1..accepted : x \in 1..accepted'
      BY <1>2, <1>4
    <3> QED
      BY <1>1, <1>2, <3>1, <3>2
  <2>3. CASE Count(t) \/ CountStore(t)
    <3>1. tr'[t].call \notin Calls /\ tr'[t].at = "test"
      BY <2>3, AccessEffect
    <3> QED
      BY <3>1
  <2> QED
    BY <1>3, <2>1, <2>2, <2>3
<1>6. log_event' \in [Slots -> 0..accepted'] /\ log_time' \in [Slots -> 0..accepted']
  <2>1. log_event \in [Slots -> 0..accepted] /\ log_time \in [Slots -> 0..accepted]
    BY DEF TraceTypes
  <2>2. CASE StoreEvent(t)
    <3>1. tr[t].id \in 0..accepted
      BY <1>2, <2>2, AccessEffect
    <3>2. /\ log_event' = [i \in Slots |-> IF i = IndexOf(t) THEN tr[t].id
                                          ELSE log_event[i]]
          /\ log_time' = log_time /\ accepted' = accepted
      BY <2>2 DEF StoreEvent
    <3> QED
      BY <2>1, <3>1, <3>2
  <2>3. CASE StoreTime(t)
    <3>1. tr[t].id \in 0..accepted
      BY <1>2, <2>3, AccessEffect
    <3>2. /\ log_time' = [i \in Slots |-> IF i = IndexOf(t) THEN tr[t].id
                                         ELSE log_time[i]]
          /\ log_event' = log_event /\ accepted' = accepted
      BY <2>3 DEF StoreTime
    <3> QED
      BY <2>1, <3>1, <3>2
  <2>4. CASE Test(t) \/ Count(t) \/ CountLoad(t) \/ CountStore(t)
    <3>1. log_event' = log_event /\ log_time' = log_time
      BY <2>4 DEF Test, Count, CountLoad, CountStore
    <3>2. \A x \in 0..accepted : x \in 0..accepted'
      BY <1>2, <1>4
    <3> QED
      BY <2>1, <3>1, <3>2
  <2> QED
    BY <1>3, <2>2, <2>3, <2>4
<1>7. cut' \subseteq 1..accepted'
  <2>1. \A x \in 1..accepted : x \in 1..accepted'
    BY <1>2, <1>4
  <2> QED
    BY <1>1, <1>2, <2>1
<1>8. /\ tr' \in [DOMAIN th -> TraceRec]
      /\ \A u \in DOMAIN th :
           /\ tr'[u].call # "none" => th[u].at = "spin"
           /\ tr'[u].call \notin Calls => tr'[u].at = "test"
           /\ tr'[u].at # "test" => tr'[u].id \in 1..accepted'
  <2>1. tr' \in [DOMAIN th -> TraceRec]
    <3>1. tr' = [u \in DOMAIN tr |-> tr'[u]]
      BY <1>3
      DEF Test, StoreEvent, StoreTime, Count, CountLoad, CountStore, Return
    <3> QED
      BY <1>1, <1>2, <3>1
  <2>2. ASSUME NEW u \in DOMAIN th
        PROVE  /\ tr'[u].call # "none" => th[u].at = "spin"
               /\ tr'[u].call \notin Calls => tr'[u].at = "test"
               /\ tr'[u].at # "test" => tr'[u].id \in 1..accepted'
    <3>1. CASE u = t
      BY <1>1, <1>5, <3>1
    <3>2. CASE u # t
      <4>1. tr'[u] = tr[u]
        BY <1>1, <1>2, <3>2
      <4>2. /\ tr[u].call # "none" => th[u].at = "spin"
            /\ tr[u].call \notin Calls => tr[u].at = "test"
            /\ tr[u].at # "test" => tr[u].id \in 1..accepted
        BY DEF TraceTypes
      <4> QED
        BY <1>2, <1>4, <4>1, <4>2
    <3> QED
      BY <3>1, <3>2
  <2> QED
    BY <2>1, <2>2
<1>9. build' \in {"o", "o-g"}
  BY <1>1 DEF TraceTypes
<1> QED
  BY <1>2, <1>4, <1>6, <1>7, <1>8, <1>9 DEF TraceTypes

LEMMA NextTypes ==
  ASSUME StructInv, TraceTypes, StoppedAreGone, [TracedNext]_tracedVars
  PROVE  StructInv' /\ TraceTypes' /\ StoppedAreGone'
<1>1. StructInv' /\ StoppedAreGone'
  BY TracedSteps, NextStruct, NextStopped
<1>2. TraceTypes'
  <2>1. CASE TracedScheduler
    BY <2>1, SchedulerTypes
  <2>2. ASSUME NEW t \in DOMAIN tr, TracedTask(t) PROVE TraceTypes'
    BY <2>2, TaskTypes
  <2>3. ASSUME NEW t \in DOMAIN tr, TraceStep(t) PROVE TraceTypes'
    BY <2>3, AccessTypes
  <2>4. CASE (Terminated /\ UNCHANGED trace) \/ UNCHANGED tracedVars
    <3>1. UNCHANGED vars /\ UNCHANGED trace
      BY <2>4, RestOutside
    <3> QED
      BY <3>1 DEF TraceTypes, trace, vars, Slots
  <2> QED
    BY <2>1, <2>2, <2>3, <2>4 DEF TracedNext
<1> QED
  BY <1>1, <1>2
-----------------------------------------------------------------------------
(* ExactInv: the trace before the first interruption.                      *)

LEMMA InitExact == TracedInit => ExactInv
<1> SUFFICES ASSUME TracedInit PROVE ExactInv
  OBVIOUS
<1>1. InFlight = {}
  BY DEF TracedInit, InFlight
<1>2. \A i \in Written : log_event[i] = i + 1 /\ log_time[i] = i + 1
  BY SlotsType DEF TracedInit, Written
<1> QED
  BY <1>1, <1>2 DEF TracedInit, ExactInv

LEMMA ExactOutside ==
  ASSUME TraceTypes, ExactInv, Outside
  PROVE  ExactInv'
<1> SUFFICES ASSUME cut' = {}
             PROVE  /\ ~strayed'
                    /\ \A i \in Written' : log_event'[i] = i + 1 /\ log_time'[i] = i + 1
                    /\ InFlight' = {} => log_entry' = accepted'
                    /\ \A t \in InFlight' :
                         /\ InFlight' = {t}
                         /\ accepted' = log_entry' + 1 /\ log_entry' < Length
                         /\ tr'[t].id = accepted' /\ tr'[t].index = log_entry'
                         /\ tr'[t].at # "event" => log_event'[log_entry'] = tr'[t].id
                         /\ tr'[t].at \in {"count", "put"} =>
                              log_time'[log_entry'] = tr'[t].id
                         /\ tr'[t].at = "put" => tr'[t].value = log_entry'
  BY DEF ExactInv
<1>1. PICK k \in Nat : LogBy(k)
  BY DEF Outside
<1>2. cut = {} /\ (k > 0 => InFlight = {})
  BY <1>1 DEF LogBy
<1>3. /\ log_entry \in Nat /\ accepted \in Nat
      /\ log_entry' = log_entry + k /\ accepted' = accepted + k
      /\ InFlight' = InFlight /\ \A t \in InFlight : tr'[t] = tr[t]
  BY <1>1 DEF Outside, LogBy, TraceTypes
<1>4. /\ \A i \in Written : log_event[i] = i + 1 /\ log_time[i] = i + 1
      /\ InFlight = {} => log_entry = accepted
  BY <1>2 DEF ExactInv
<1>5. ASSUME NEW i \in Slots, ~(i \in log_entry..(log_entry + k - 1))
      PROVE  log_event'[i] = log_event[i] /\ log_time'[i] = log_time[i]
  BY <1>1, <1>5 DEF LogBy
<1>6. ASSUME NEW i \in Slots, i \in log_entry..(log_entry + k - 1)
      PROVE  /\ log_event'[i] = accepted + 1 + i - log_entry
             /\ log_time'[i] = accepted + 1 + i - log_entry
  BY <1>1, <1>6 DEF LogBy
<1>7. ASSUME NEW i \in Written'
      PROVE  log_event'[i] = i + 1 /\ log_time'[i] = i + 1
  <2>1. i \in Slots /\ i \in Nat /\ i < log_entry + k
    BY <1>3, SlotsType DEF Written
  <2>2. CASE i \in log_entry..(log_entry + k - 1)
    <3>1. k > 0 /\ log_entry = accepted
      BY <1>2, <1>3, <1>4, <2>1, <2>2
    <3> QED
      BY <1>3, <1>6, <2>1, <2>2, <3>1
  <2>3. CASE ~(i \in log_entry..(log_entry + k - 1))
    <3>1. i \in Written
      BY <1>3, <2>1, <2>3 DEF Written
    <3> QED
      BY <1>4, <1>5, <2>1, <2>3, <3>1
  <2> QED
    BY <2>2, <2>3
<1>8. ASSUME NEW t \in InFlight
      PROVE  /\ k = 0 /\ log_entry \in Slots
             /\ log_event'[log_entry] = log_event[log_entry]
             /\ log_time'[log_entry] = log_time[log_entry]
  <2>1. k = 0
    BY <1>2
  <2>2. log_entry \in Slots
    BY <1>2, <1>3, SlotsType DEF ExactInv
  <2>3. ~(log_entry \in log_entry..(log_entry + k - 1))
    BY <1>3, <2>1
  <2> QED
    BY <1>5, <2>1, <2>2, <2>3
<1>9. ~strayed'
  BY <1>2 DEF ExactInv, Outside
<1> QED
  BY <1>2, <1>3, <1>4, <1>7, <1>8, <1>9 DEF ExactInv

LEMMA ExactAccess ==
  ASSUME TraceTypes, ExactInv, NEW t \in DOMAIN tr, TraceStep(t)
  PROVE  ExactInv'
<1> SUFFICES ASSUME cut' = {} PROVE ExactInv'
  BY DEF ExactInv
<1>1. /\ cut = {} /\ InFlight \subseteq {t}
      /\ build' = build /\ build \in {"o", "o-g"}
  <2>1. cut' = cut \cup {tr[u].id : u \in InFlight \ {t}} /\ build' = build
    BY AccessEffect
  <2>2. \A u \in InFlight \ {t} : tr[u].id \in cut'
    BY <2>1
  <2> QED
    BY <2>1, <2>2 DEF TraceTypes
<1>2. /\ log_entry \in Nat /\ accepted \in Nat
      /\ ~strayed
      /\ \A i \in Written : log_event[i] = i + 1 /\ log_time[i] = i + 1
      /\ InFlight = {} => log_entry = accepted
      /\ \A u \in InFlight :
           /\ accepted = log_entry + 1 /\ log_entry < Length
           /\ tr[u].id = accepted /\ tr[u].index = log_entry
           /\ tr[u].at # "event" => log_event[log_entry] = tr[u].id
           /\ tr[u].at \in {"count", "put"} => log_time[log_entry] = tr[u].id
           /\ tr[u].at = "put" => tr[u].value = log_entry
  BY <1>1 DEF ExactInv, TraceTypes
<1>3. t \in InFlight => log_entry \in Slots /\ IndexOf(t) = log_entry
  BY <1>1, <1>2, SlotsType DEF IndexOf
<1>4. Slots' = Slots
  BY DEF Slots
<1>5. CASE Test(t) /\ log_entry < Length
  <2>1. /\ t \notin InFlight /\ InFlight' = InFlight \cup {t}
        /\ tr'[t].at = "event" /\ tr'[t].index = log_entry
        /\ tr'[t].id = accepted + 1
    BY <1>5, AccessEffect
  <2>2. /\ accepted' = accepted + 1
        /\ UNCHANGED <<log_event, log_time, log_entry, strayed>>
    BY <1>5 DEF Test
  <2>3. InFlight = {} /\ InFlight' = {t} /\ log_entry = accepted
    BY <1>1, <1>2, <2>1
  <2>4. Written' = Written
    BY <2>2 DEF Written, Slots
  <2> QED
    BY <1>2, <1>5, <2>1, <2>2, <2>3, <2>4 DEF ExactInv
<1>6. CASE Test(t) /\ ~(log_entry < Length)
  <2>1. t \notin InFlight /\ InFlight' = InFlight
    BY <1>6, AccessEffect
  <2>2. UNCHANGED <<log_event, log_time, log_entry, strayed, accepted>>
    BY <1>6 DEF Test
  <2>3. InFlight = {}
    BY <1>1, <2>1
  <2>4. Written' = Written
    BY <2>2 DEF Written, Slots
  <2> QED
    BY <1>2, <2>1, <2>2, <2>3, <2>4 DEF ExactInv
<1>7. CASE StoreEvent(t)
  <2>1. /\ t \in InFlight /\ InFlight' = InFlight /\ tr'[t].at = "time"
        /\ tr'[t].index = tr[t].index /\ tr'[t].id = tr[t].id
    BY <1>7, AccessEffect
  <2>2. /\ log_event' = [i \in Slots |-> IF i = log_entry THEN tr[t].id
                                        ELSE log_event[i]]
        /\ strayed' = (strayed \/ log_entry \notin Slots)
        /\ UNCHANGED <<log_time, log_entry, accepted>>
    BY <1>3, <1>7, <2>1 DEF StoreEvent
  <2>3. Written' = Written /\ log_entry \notin Written /\ Written \subseteq Slots
    BY <1>2, <2>2 DEF Written, Slots
  <2>4. /\ log_event'[log_entry] = tr[t].id
        /\ \A i \in Written : log_event'[i] = log_event[i]
    BY <1>3, <2>1, <2>2, <2>3
  <2>5. ~strayed' /\ InFlight' = {t}
    BY <1>1, <1>2, <1>3, <2>1, <2>2
  <2> QED
    BY <1>2, <2>1, <2>2, <2>3, <2>4, <2>5 DEF ExactInv
<1>8. CASE StoreTime(t)
  <2>1. /\ t \in InFlight /\ InFlight' = InFlight /\ tr'[t].at = "count"
        /\ tr'[t].index = tr[t].index /\ tr'[t].id = tr[t].id
        /\ tr[t].at = "time"
    BY <1>8, AccessEffect DEF StoreTime
  <2>2. /\ log_time' = [i \in Slots |-> IF i = log_entry THEN tr[t].id
                                       ELSE log_time[i]]
        /\ strayed' = (strayed \/ log_entry \notin Slots)
        /\ UNCHANGED <<log_event, log_entry, accepted>>
    BY <1>3, <1>8, <2>1 DEF StoreTime
  <2>3. Written' = Written /\ log_entry \notin Written /\ Written \subseteq Slots
    BY <1>2, <2>2 DEF Written, Slots
  <2>4. /\ log_time'[log_entry] = tr[t].id
        /\ \A i \in Written : log_time'[i] = log_time[i]
    BY <1>3, <2>1, <2>2, <2>3
  <2>5. ~strayed' /\ InFlight' = {t}
    BY <1>1, <1>2, <1>3, <2>1, <2>2
  <2> QED
    BY <1>2, <2>1, <2>2, <2>3, <2>4, <2>5 DEF ExactInv
<1>9. CASE CountLoad(t)
  <2>1. /\ t \in InFlight /\ InFlight' = InFlight /\ tr'[t].at = "put"
        /\ tr'[t].index = tr[t].index /\ tr'[t].id = tr[t].id
        /\ tr'[t].value = log_entry /\ tr[t].at = "count"
    BY <1>9, AccessEffect DEF CountLoad
  <2>2. UNCHANGED <<log_event, log_time, log_entry, accepted, strayed>>
    BY <1>9 DEF CountLoad
  <2>3. Written' = Written /\ InFlight' = {t}
    BY <1>1, <2>1, <2>2 DEF Written, Slots
  <2> QED
    BY <1>2, <2>1, <2>2, <2>3 DEF ExactInv
<1>10. CASE Count(t) \/ CountStore(t)
  <2>1. /\ t \in InFlight /\ InFlight' = InFlight \ {t}
        /\ tr[t].at \in {"count", "put"}
        /\ UNCHANGED <<log_event, log_time, accepted, strayed>>
    BY <1>10, AccessEffect DEF Count, CountStore
  <2>2. log_entry' = log_entry + 1
    BY <1>2, <1>10, <2>1 DEF Count, CountStore
  <2>3. InFlight' = {}
    BY <1>1, <2>1
  <2>4. /\ log_event[log_entry] = log_entry + 1 /\ log_time[log_entry] = log_entry + 1
        /\ accepted = log_entry + 1
    BY <1>2, <2>1
  <2>5. \A i \in Written' : i \in Written \/ i = log_entry
    BY <1>2, <2>2, SlotsType DEF Written
  <2> QED
    BY <1>2, <2>1, <2>2, <2>3, <2>4, <2>5 DEF ExactInv
<1> QED
  BY <1>5, <1>6, <1>7, <1>8, <1>9, <1>10 DEF TraceStep
-----------------------------------------------------------------------------
(* InsideInv: no call leaves the arrays.                                   *)

LEMMA FewInFlight ==
  ASSUME StructInv, TraceTypes
  PROVE  /\ IsFiniteSet(InFlight) /\ Cardinality(InFlight) \in Nat
         /\ Cardinality(AllTasks) \in Nat
         /\ Cardinality(InFlight) <= Cardinality(AllTasks)
<1>1. InFlight \subseteq AllTasks
  BY ThreadIds, InFlightType DEF StructInv
<1> QED
  BY <1>1, TasksAssumption, FS_Subset, FS_CardinalityType

LEMMA InitInside == TracedInit => InsideInv
<1> SUFFICES ASSUME TracedInit PROVE InsideInv
  OBVIOUS
<1>1. InFlight = {} /\ Cardinality(InFlight) = 0
  BY FS_EmptySet DEF TracedInit, InFlight
<1>2. Cardinality(AllTasks) \in Nat
  BY TasksAssumption, FS_CardinalityType
<1> QED
  BY <1>1, <1>2, SlotsType DEF TracedInit, InsideInv

LEMMA InsideOutside ==
  ASSUME StructInv, TraceTypes, InsideInv, Outside
  PROVE  InsideInv'
<1> SUFFICES ASSUME build' = "o" PROVE InsideInv'
  BY DEF InsideInv
<1>1. PICK k \in Nat : LogBy(k)
  BY DEF Outside
<1>2. /\ build = "o" /\ ~strayed' /\ log_entry' = log_entry + k /\ log_entry \in Nat
      /\ k > 0 => log_entry + k <= Length
      /\ InFlight' = InFlight /\ \A t \in InFlight : tr'[t] = tr[t]
      /\ log_entry + Cardinality(InFlight) <= Length + Cardinality(AllTasks)
      /\ \A t \in InFlight :
           tr[t].at # "put" /\ tr[t].index \in Slots /\ tr[t].index <= log_entry
  BY <1>1 DEF Outside, LogBy, TraceTypes, InsideInv
<1>3. /\ Cardinality(InFlight) \in Nat /\ Cardinality(AllTasks) \in Nat
      /\ Cardinality(InFlight) <= Cardinality(AllTasks) /\ Length \in Nat
  BY FewInFlight, SlotsType
<1>4. log_entry' + Cardinality(InFlight') <= Length + Cardinality(AllTasks)
  BY <1>2, <1>3
<1>5. \A t \in InFlight' :
        tr'[t].at # "put" /\ tr'[t].index \in Slots /\ tr'[t].index <= log_entry'
  BY <1>2, SlotsType
<1> QED
  BY <1>2, <1>4, <1>5 DEF InsideInv, Slots

LEMMA InsideAccess ==
  ASSUME StructInv, TraceTypes, InsideInv, NEW t \in DOMAIN tr, TraceStep(t)
  PROVE  InsideInv'
<1> SUFFICES ASSUME build' = "o" PROVE InsideInv'
  BY DEF InsideInv
<1> DEFINE n == Cardinality(InFlight)
           m == Cardinality(AllTasks)
<1>1. /\ build = "o" /\ ~strayed /\ log_entry \in Nat
      /\ log_entry + n <= Length + m
      /\ \A u \in InFlight :
           tr[u].at # "put" /\ tr[u].index \in Slots /\ tr[u].index <= log_entry
      /\ \A u \in InFlight : u \in DOMAIN tr
  BY AccessEffect, InFlightType DEF TraceTypes, InsideInv
<1>2. /\ IsFiniteSet(InFlight) /\ n \in Nat /\ m \in Nat /\ n <= m /\ Length \in Nat
      /\ n' \in Nat /\ n' <= m
  <2>1. InFlight' \subseteq AllTasks
    BY ThreadIds, InFlightType, AccessEffect DEF StructInv, InFlight
  <2>2. n' \in Nat /\ n' <= m
    BY <2>1, TasksAssumption, FS_Subset, FS_CardinalityType
  <2> QED
    BY <2>2, FewInFlight, SlotsType
<1>3. \A u \in InFlight : u # t => tr'[u] = tr[u]
  BY <1>1, AccessEffect
<1>4. CASE Test(t) /\ log_entry < Length
  <2>1. /\ InFlight' = InFlight \cup {t}
        /\ tr'[t].at = "event" /\ tr'[t].index = log_entry
    BY <1>4, AccessEffect
  <2>2. UNCHANGED <<log_entry, strayed>> /\ log_entry \in Slots
    BY <1>1, <1>4, SlotsType DEF Test
  <2>3. log_entry' + n' <= Length + m
    BY <1>1, <1>2, <1>4, <2>2
  <2> HIDE DEF n, m
  <2>4. \A u \in InFlight' :
          tr'[u].at # "put" /\ tr'[u].index \in Slots /\ tr'[u].index <= log_entry'
    BY <1>1, <1>3, <2>1, <2>2
  <2> QED
    BY <1>1, <2>2, <2>3, <2>4 DEF InsideInv, Slots, n, m
<1>5. CASE Test(t) /\ ~(log_entry < Length)
  <2>1. t \notin InFlight /\ InFlight' = InFlight
    BY <1>5, AccessEffect
  <2>2. UNCHANGED <<log_entry, strayed>>
    BY <1>5 DEF Test
  <2> QED
    BY <1>1, <1>3, <2>1, <2>2 DEF InsideInv, Slots
<1>6. CASE StoreEvent(t) \/ StoreTime(t)
  <2>1. /\ t \in InFlight /\ InFlight' = InFlight
        /\ tr'[t].at \in {"time", "count"} /\ tr'[t].index = tr[t].index
    BY <1>6, AccessEffect
  <2>2. log_entry' = log_entry /\ strayed' = (strayed \/ tr[t].index \notin Slots)
    BY <1>1, <1>6 DEF StoreEvent, StoreTime, IndexOf
  <2>3. ~strayed'
    BY <1>1, <2>1, <2>2
  <2> QED
    BY <1>1, <1>3, <2>1, <2>2, <2>3 DEF InsideInv, Slots
<1>7. CASE Count(t)
  <2>1. t \in InFlight /\ InFlight' = InFlight \ {t}
    BY <1>7, AccessEffect
  <2>2. log_entry' = log_entry + 1 /\ strayed' = strayed
    BY <1>7 DEF Count
  <2>3. Cardinality(InFlight \ {t}) = n - 1
    BY <1>2, <2>1, FS_RemoveElement
  <2>4. log_entry' + Cardinality(InFlight') <= Length + Cardinality(AllTasks)
    BY <1>1, <1>2, <2>1, <2>2, <2>3
  <2>5. \A u \in InFlight' :
          tr'[u].at # "put" /\ tr'[u].index \in Slots /\ tr'[u].index <= log_entry'
    BY <1>1, <1>3, <2>1, <2>2, SlotsType
  <2> QED
    BY <1>1, <2>2, <2>4, <2>5 DEF InsideInv, Slots
<1>8. ~CountLoad(t) /\ ~CountStore(t)
  <2>1. CountStore(t) => t \in InFlight /\ tr[t].at = "put"
    BY AccessEffect DEF CountStore
  <2> QED
    BY <1>1, <2>1 DEF CountLoad
<1> QED
  BY <1>4, <1>5, <1>6, <1>7, <1>8 DEF TraceStep
-----------------------------------------------------------------------------
(* UncutAtEnd: a call that nobody interrupts writes one whole record.      *)

LEMMA InitUncut == TracedInit => UncutAtEnd /\ Charged
<1> SUFFICES ASSUME TracedInit PROVE UncutAtEnd /\ Charged
  OBVIOUS
<1>1. InFlight = {}
  BY DEF TracedInit, InFlight
<1>2. Damaged = {} /\ cut = {}
  BY SlotsType DEF TracedInit, Damaged, Written
<1>3. UncutAtEnd
  BY <1>1 DEF UncutAtEnd
<1> DEFINE none == [c \in {} |-> 0]
<1>4. none \in [cut -> Nat]
  BY <1>2
<1>5. Charges(none, none)
  BY <1>1, <1>2 DEF Charges
<1> QED
  BY <1>3, <1>4, <1>5 DEF Charged

LEMMA UncutOutside ==
  ASSUME TraceTypes, UncutAtEnd, Outside
  PROVE  UncutAtEnd'
<1>1. PICK k \in Nat : LogBy(k)
  BY DEF Outside
<1>2. InFlight' = InFlight /\ build' = build /\ \A t \in InFlight : tr'[t] = tr[t]
  BY DEF Outside
<1>3. \A t, u \in InFlight' : tr'[t].id = tr'[u].id => t = u
  BY <1>2 DEF UncutAtEnd
<1>4. ASSUME build' = "o", NEW t \in InFlight', tr'[t].id \notin cut'
      PROVE  /\ tr'[t].index = log_entry'
             /\ tr'[t].at # "event" => log_event'[log_entry'] = tr'[t].id
             /\ tr'[t].at = "count" => log_time'[log_entry'] = tr'[t].id
  <2>1. k = 0 /\ tr[t].id \notin cut
    BY <1>1, <1>2, <1>4 DEF LogBy
  <2>2. /\ log_event = [i \in Slots |-> log_event[i]]
        /\ log_time = [i \in Slots |-> log_time[i]] /\ log_entry \in Nat
    BY DEF TraceTypes
  <2>3. \A i \in Slots : i \notin log_entry..(log_entry + k - 1)
    BY <2>1, <2>2, SlotsType
  <2>4. log_event' = log_event /\ log_time' = log_time /\ log_entry' = log_entry
    BY <1>1, <2>1, <2>2, <2>3 DEF LogBy
  <2> QED
    BY <1>2, <1>4, <2>1, <2>4 DEF UncutAtEnd
<1> QED
  BY <1>3, <1>4 DEF UncutAtEnd

LEMMA UncutAccess ==
  ASSUME TraceTypes, InsideInv, UncutAtEnd, NEW t \in DOMAIN tr, TraceStep(t)
  PROVE  UncutAtEnd'
<1>1. /\ cut' = cut \cup {tr[u].id : u \in InFlight \ {t}} /\ build' = build
      /\ \A u \in DOMAIN tr : u # t => tr'[u] = tr[u]
      /\ \A u \in InFlight : u \in DOMAIN tr /\ tr[u].id \in 1..accepted
      /\ accepted \in Nat
  BY AccessEffect, InFlightType DEF TraceTypes
<1>2. \A u, v \in InFlight : tr[u].id = tr[v].id => u = v
  BY DEF UncutAtEnd
<1>3. /\ InFlight' \subseteq InFlight \cup {t}
      /\ t \in InFlight => (t \in InFlight' => tr'[t].id = tr[t].id)
      /\ t \notin InFlight => (t \in InFlight' => tr'[t].id = accepted + 1)
  <2>1. CASE Test(t)
    BY <2>1, AccessEffect
  <2>2. CASE StoreEvent(t) \/ StoreTime(t) \/ CountLoad(t)
    BY <2>2, AccessEffect
  <2>3. CASE Count(t) \/ CountStore(t)
    BY <2>3, AccessEffect
  <2> QED
    BY <2>1, <2>2, <2>3 DEF TraceStep
<1>4. \A u, v \in InFlight' : tr'[u].id = tr'[v].id => u = v
  <2> SUFFICES ASSUME NEW u \in InFlight', NEW v \in InFlight',
                      tr'[u].id = tr'[v].id, u # v
               PROVE  FALSE
    OBVIOUS
  <2>1. /\ u # t => u \in InFlight /\ tr'[u].id = tr[u].id
        /\ v # t => v \in InFlight /\ tr'[v].id = tr[v].id
    BY <1>1, <1>3
  <2>2. CASE t \in InFlight
    BY <1>2, <1>3, <2>1, <2>2
  <2>3. CASE t \notin InFlight
    <3>1. \A w \in InFlight : tr[w].id # accepted + 1
      BY <1>1
    <3> QED
      BY <1>2, <1>3, <2>1, <2>3, <3>1
  <2> QED
    BY <2>2, <2>3
<1>5. ASSUME build' = "o", NEW u \in InFlight', tr'[u].id \notin cut'
      PROVE  /\ tr'[u].index = log_entry'
             /\ tr'[u].at # "event" => log_event'[log_entry'] = tr'[u].id
             /\ tr'[u].at = "count" => log_time'[log_entry'] = tr'[u].id
  <2>1. u = t
    BY <1>1, <1>3, <1>5
  <2>2. CASE Test(t)
    <3>1. /\ tr'[t].at = "event" /\ tr'[t].index = log_entry
          /\ UNCHANGED <<log_event, log_time, log_entry>>
      <4>1. t \notin InFlight /\ (~(log_entry < Length) => InFlight' = InFlight)
        BY <2>2, AccessEffect
      <4>2. log_entry < Length
        BY <2>1, <4>1
      <4>3. tr'[t].at = "event" /\ tr'[t].index = log_entry
        BY <2>2, <4>2, AccessEffect
      <4> QED
        BY <2>2, <4>3 DEF Test
    <3> QED
      BY <2>1, <3>1
  <2>3. CASE StoreEvent(t) \/ StoreTime(t)
    <3>1. /\ t \in InFlight /\ tr'[t].id = tr[t].id
          /\ tr'[t].index = tr[t].index
          /\ StoreEvent(t) => tr'[t].at = "time"
          /\ StoreTime(t) => tr'[t].at = "count"
      BY <2>3, AccessEffect
    <3>2. tr[t].id \notin cut /\ build = "o"
      BY <1>1, <1>5, <2>1, <3>1
    <3>3. /\ tr[t].index = log_entry /\ tr[t].index \in Slots
          /\ tr[t].at # "event" => log_event[log_entry] = tr[t].id
      BY <3>1, <3>2 DEF UncutAtEnd, InsideInv
    <3>4. log_entry' = log_entry /\ IndexOf(t) = log_entry
      BY <2>3, <3>2, <3>3 DEF StoreEvent, StoreTime, IndexOf
    <3>5. CASE StoreEvent(t)
      <4>1. log_event'[log_entry] = tr[t].id
        BY <3>3, <3>4, <3>5 DEF StoreEvent
      <4> QED
        BY <2>1, <3>1, <3>3, <3>4, <3>5, <4>1
    <3>6. CASE StoreTime(t)
      <4>1. /\ log_time'[log_entry] = tr[t].id /\ log_event' = log_event
            /\ tr[t].at = "time"
        BY <3>3, <3>4, <3>6 DEF StoreTime
      <4> QED
        BY <2>1, <3>1, <3>3, <3>4, <4>1
    <3> QED
      BY <2>3, <3>5, <3>6
  <2>4. ~CountLoad(t) /\ ~Count(t) /\ ~CountStore(t)
    <3>1. Count(t) \/ CountStore(t) => t \notin InFlight'
      BY AccessEffect
    <3> QED
      BY <1>1, <1>5, <2>1, <3>1 DEF CountLoad
  <2> QED
    BY <2>2, <2>3, <2>4 DEF TraceStep
<1> QED
  BY <1>4, <1>5 DEF UncutAtEnd
-----------------------------------------------------------------------------
(* Charged: two slots for each interrupted call.                           *)

(* l and n charge the calls of now_cut as late and counted do those of cut. *)
ChargesToo(l, n, late, counted, now_cut) ==
  /\ l \in [now_cut -> Nat] /\ n \in [now_cut -> Nat]
  /\ \A c \in cut : l[c] = late[c] /\ n[c] = counted[c]
  /\ \A u \in InFlight : tr[u].id \in now_cut => l[tr[u].id] = tr[u].index

(* The charges are extended to the calls of X, which are interrupted now.  *)
LEMMA ExtendCharges ==
  ASSUME TraceTypes, UncutAtEnd,
         NEW late, late \in [cut -> Nat], NEW counted, counted \in [cut -> Nat],
         Charges(late, counted),
         NEW X, X \in SUBSET InFlight,
         NEW now_cut, now_cut = cut \cup {tr[u].id : u \in X}
  PROVE  \E l, n : ChargesToo(l, n, late, counted, now_cut)
<1> DEFINE index(c) == tr[CHOOSE u \in InFlight : tr[u].id = c].index
           l == [c \in now_cut |-> IF c \in cut THEN late[c] ELSE index(c)]
           n == [c \in now_cut |-> IF c \in cut THEN counted[c] ELSE 0]
<1>1. \A u \in InFlight : tr[u].index \in Nat
  BY InFlightType DEF TraceRec
<1>2. ASSUME NEW u \in InFlight PROVE index(tr[u].id) = tr[u].index
  <2>1. PICK v \in InFlight : v = CHOOSE w \in InFlight : tr[w].id = tr[u].id
    OBVIOUS
  <2>2. tr[v].id = tr[u].id
    BY <2>1
  <2>3. v = u
    BY <2>2 DEF UncutAtEnd
  <2> QED
    BY <2>1, <2>3
<1> HIDE DEF index
<1>3. l \in [now_cut -> Nat]
  <2>1. ASSUME NEW c \in now_cut, c \notin cut PROVE index(c) \in Nat
    <3>1. PICK u \in X : c = tr[u].id
      BY <2>1
    <3> QED
      BY <1>1, <1>2, <3>1
  <2> QED
    BY <2>1
<1>4. n \in [now_cut -> Nat]
  OBVIOUS
<1>5. \A c \in cut : l[c] = late[c] /\ n[c] = counted[c]
  OBVIOUS
<1>6. ASSUME NEW u \in InFlight, tr[u].id \in now_cut
      PROVE  l[tr[u].id] = tr[u].index
  <2>1. CASE tr[u].id \in cut
    BY <1>5, <2>1 DEF Charges
  <2>2. CASE tr[u].id \notin cut
    BY <1>2, <1>6, <2>2
  <2> QED
    BY <2>1, <2>2
<1> HIDE DEF l, n
<1>7. ChargesToo(l, n, late, counted, now_cut)
  BY <1>3, <1>4, <1>5, <1>6 DEF ChargesToo
<1> QED
  BY <1>7

LEMMA ChargedOutside ==
  ASSUME TraceTypes, UncutAtEnd, Charged, Outside
  PROVE  Charged'
<1> SUFFICES ASSUME build' = "o"
             PROVE  \E late, counted \in [cut' -> Nat] : Charges(late, counted)'
  BY DEF Charged
<1>1. PICK k \in Nat : LogBy(k)
  BY DEF Outside
<1>2. build = "o" /\ InFlight' = InFlight /\ \A t \in InFlight : tr'[t] = tr[t]
  BY DEF Outside
<1>3. PICK late \in [cut -> Nat], counted \in [cut -> Nat] : Charges(late, counted)
  BY <1>2 DEF Charged
<1> DEFINE X == IF k > 0 THEN InFlight ELSE {}
<1>4. X \in SUBSET InFlight /\ cut' = cut \cup {tr[t].id : t \in X}
  BY <1>1 DEF LogBy
<1> HIDE DEF X
<1>5. PICK l, n : ChargesToo(l, n, late, counted, cut')
  BY <1>3, <1>4, ExtendCharges
<1>6. Damaged' \subseteq Damaged
  <2> SUFFICES ASSUME NEW i \in Damaged' PROVE i \in Damaged
    OBVIOUS
  <2>1. /\ i \in Slots /\ i < log_entry' /\ i \in Nat
        /\ log_event'[i] # log_time'[i] \/ log_event'[i] = 0
    BY SlotsType DEF Damaged, Written, Slots
  <2>2. log_entry' = log_entry + k /\ log_entry \in Nat /\ accepted \in Nat
    BY <1>1 DEF LogBy, TraceTypes
  <2>3. CASE i \in log_entry..(log_entry + k - 1)
    <3>1. /\ log_event'[i] = accepted + 1 + i - log_entry
          /\ log_time'[i] = accepted + 1 + i - log_entry
      BY <1>1, <2>1, <2>3 DEF LogBy
    <3> QED
      BY <2>1, <2>2, <2>3, <3>1
  <2>4. CASE ~(i \in log_entry..(log_entry + k - 1))
    <3>1. log_event'[i] = log_event[i] /\ log_time'[i] = log_time[i]
      BY <1>1, <2>1, <2>4 DEF LogBy
    <3>2. i < log_entry
      BY <2>1, <2>2, <2>4
    <3> QED
      BY <2>1, <3>1, <3>2 DEF Damaged, Written
  <2> QED
    BY <2>3, <2>4
<1>7. ASSUME NEW i \in Damaged'
      PROVE  \E c \in cut' : \/ i = l[c]
                             \/ i = n[c] /\ \A t \in InFlight' : tr'[t].id # c
  <2>1. PICK c \in cut : \/ i = late[c]
                         \/ i = counted[c] /\ \A t \in InFlight : tr[t].id # c
    BY <1>3, <1>6 DEF Charges
  <2>2. c \in cut' /\ l[c] = late[c] /\ n[c] = counted[c]
    BY <1>4, <1>5 DEF ChargesToo
  <2> QED
    BY <1>2, <2>1, <2>2
<1>8. Charges(l, n)'
  BY <1>2, <1>5, <1>7 DEF Charges, ChargesToo
<1> QED
  BY <1>5, <1>8 DEF ChargesToo

LEMMA ChargedAccess ==
  ASSUME TraceTypes, InsideInv, UncutAtEnd, Charged,
         NEW t \in DOMAIN tr, TraceStep(t)
  PROVE  Charged'
<1> SUFFICES ASSUME build' = "o"
             PROVE  \E late, counted \in [cut' -> Nat] : Charges(late, counted)'
  BY DEF Charged
<1>1. /\ build = "o" /\ cut' = cut \cup {tr[u].id : u \in InFlight \ {t}}
      /\ \A u \in InFlight : /\ u \in DOMAIN tr /\ tr[u].id \in 1..accepted
                             /\ u # t => tr'[u] = tr[u]
      /\ accepted \in Nat /\ log_entry \in Nat /\ cut \subseteq 1..accepted
  BY AccessEffect, InFlightType DEF TraceTypes
<1>2. PICK late \in [cut -> Nat], counted \in [cut -> Nat] : Charges(late, counted)
  BY <1>1 DEF Charged
<1>3. PICK l, n : ChargesToo(l, n, late, counted, cut')
  <2>1. InFlight \ {t} \in SUBSET InFlight
    OBVIOUS
  <2> QED
    BY <1>1, <1>2, <2>1, ExtendCharges
<1>3a. /\ l \in [cut' -> Nat] /\ n \in [cut' -> Nat]
       /\ \A c \in cut : l[c] = late[c] /\ n[c] = counted[c]
       /\ \A u \in InFlight : tr[u].id \in cut' => l[tr[u].id] = tr[u].index
  BY <1>3 DEF ChargesToo
<1>4. ASSUME NEW i \in Damaged
      PROVE  \E c \in cut : \/ i = l[c]
                            \/ i = n[c] /\ \A u \in InFlight : tr[u].id # c
  BY <1>2, <1>3a DEF Charges
<1>5. cut \subseteq cut' /\ \A c \in cut' : c \in 1..accepted
  BY <1>1
<1>6. CASE Test(t)
  <2>1. Damaged' = Damaged
    BY <1>6 DEF Test, Damaged, Written, Slots
  <2>2. /\ t \notin InFlight
        /\ \/ InFlight' = InFlight
           \/ InFlight' = InFlight \cup {t} /\ tr'[t].id = accepted + 1
    BY <1>6, AccessEffect
  <2>3. \A c \in cut' : c # accepted + 1
    BY <1>1, <1>5
  <2>4. ASSUME NEW i \in Damaged'
        PROVE  \E c \in cut' : \/ i = l[c]
                               \/ i = n[c] /\ \A u \in InFlight' : tr'[u].id # c
    <3>1. PICK c \in cut : \/ i = l[c]
                           \/ i = n[c] /\ \A u \in InFlight : tr[u].id # c
      BY <1>4, <2>1
    <3>2. c \in cut' /\ c # accepted + 1
      BY <1>5, <2>3
    <3> QED
      BY <1>1, <2>2, <3>1, <3>2
  <2>5. \A u \in InFlight' : tr'[u].id \in cut' => l[tr'[u].id] = tr'[u].index
    BY <1>1, <1>3a, <2>2, <2>3
  <2>6. Charges(l, n)'
    BY <2>4, <2>5 DEF Charges
  <2> QED
    BY <1>3a, <2>6
<1>7. CASE StoreEvent(t) \/ StoreTime(t)
  <2>1. /\ t \in InFlight /\ InFlight' = InFlight
        /\ tr'[t].index = tr[t].index /\ tr'[t].id = tr[t].id
    BY <1>7, AccessEffect
  <2>2. IndexOf(t) = tr[t].index
    BY <1>1 DEF IndexOf
  <2>3. ASSUME NEW i \in Damaged', i \notin Damaged
        PROVE  tr[t].id \in cut /\ i = tr[t].index
    <3>1. /\ log_entry' = log_entry /\ i \in Written
          /\ log_event'[i] # log_time'[i] \/ log_event'[i] = 0
      BY <1>7 DEF StoreEvent, StoreTime, Damaged, Written, Slots
    <3>2. i = tr[t].index
      <4> SUFFICES ASSUME i # tr[t].index PROVE FALSE
        OBVIOUS
      <4>1. log_event'[i] = log_event[i] /\ log_time'[i] = log_time[i]
        BY <1>7, <2>2, <3>1 DEF StoreEvent, StoreTime, Written
      <4> QED
        BY <2>3, <3>1, <4>1 DEF Damaged
    <3>3. i < log_entry /\ i \in Nat
      BY <3>1, SlotsType DEF Written
    <3>4. tr[t].index # log_entry
      BY <1>1, <3>2, <3>3
    <3> QED
      BY <1>1, <2>1, <3>2, <3>4 DEF UncutAtEnd
  <2>4. ASSUME NEW i \in Damaged'
        PROVE  \E c \in cut' : \/ i = l[c]
                               \/ i = n[c] /\ \A u \in InFlight' : tr'[u].id # c
    <3>1. CASE i \in Damaged
      <4>1. PICK c \in cut : \/ i = l[c]
                             \/ i = n[c] /\ \A u \in InFlight : tr[u].id # c
        BY <1>4, <3>1
      <4>2. c \in cut' /\ \A u \in InFlight : tr'[u].id = tr[u].id
        BY <1>1, <1>5, <2>1
      <4> QED
        BY <2>1, <4>1, <4>2
    <3>2. CASE i \notin Damaged
      BY <1>3a, <1>5, <2>1, <2>3, <2>4, <3>2
    <3> QED
      BY <3>1, <3>2
  <2>5. \A u \in InFlight' : tr'[u].id \in cut' => l[tr'[u].id] = tr'[u].index
    BY <1>1, <1>3a, <2>1
  <2>6. Charges(l, n)'
    BY <2>4, <2>5 DEF Charges
  <2> QED
    BY <1>3a, <2>6
<1>8. CASE Count(t)
  <2>1. /\ t \in InFlight /\ InFlight' = InFlight \ {t} /\ tr[t].at = "count"
        /\ log_entry' = log_entry + 1 /\ UNCHANGED <<log_event, log_time>>
    BY <1>8, AccessEffect DEF Count
  <2> DEFINE id == tr[t].id
  <2>2. PICK m \in [cut' -> Nat] :
          /\ \A c \in cut : c # id => m[c] = n[c]
          /\ id \in cut => m[id] = log_entry
    <3> DEFINE x == IF id \in cut THEN [n EXCEPT ![id] = log_entry] ELSE n
    <3>1. x \in [cut' -> Nat] /\ \A c \in cut : c # id => x[c] = n[c]
      BY <1>1, <1>3a, <1>5
    <3>2. id \in cut => x[id] = log_entry
      BY <1>3a, <1>5
    <3> HIDE DEF x
    <3> QED
      BY <3>1, <3>2
  <2>4. \A u \in InFlight' : u \in InFlight /\ tr'[u] = tr[u] /\ tr[u].id # id
    BY <1>1, <2>1 DEF UncutAtEnd
  <2>5. ASSUME NEW i \in Damaged'
        PROVE  \E c \in cut' : \/ i = l[c]
                               \/ i = m[c] /\ \A u \in InFlight' : tr'[u].id # c
    <3>1. CASE i \in Damaged
      <4>1. PICK c \in cut : \/ i = l[c]
                             \/ i = n[c] /\ \A u \in InFlight : tr[u].id # c
        BY <1>4, <3>1
      <4>2. CASE i = l[c]
        BY <1>5, <4>2
      <4>3. CASE i = n[c] /\ \A u \in InFlight : tr[u].id # c
        <5>1. c # id
          BY <2>1, <4>3
        <5>2. m[c] = n[c]
          BY <2>2, <5>1
        <5> QED
          BY <1>5, <2>4, <4>3, <5>2
      <4> QED
        BY <4>1, <4>2, <4>3
    <3>2. CASE i \notin Damaged
      <4>1. i = log_entry /\ (log_event[i] # log_time[i] \/ log_event[i] = 0)
        <5>1. i \in Slots /\ i < log_entry + 1 /\ i \in Nat
          BY <2>1, SlotsType DEF Damaged, Written, Slots
        <5>2. log_event[i] # log_time[i] \/ log_event[i] = 0
          BY <2>1, <2>5 DEF Damaged
        <5>3. ~(i < log_entry)
          BY <3>2, <5>1, <5>2 DEF Damaged, Written
        <5> QED
          BY <1>1, <5>1, <5>2, <5>3
      <4>2. id \in cut
        <5> SUFFICES ASSUME id \notin cut PROVE FALSE
          OBVIOUS
        <5>1. log_event[log_entry] = id /\ log_time[log_entry] = id
          BY <1>1, <2>1 DEF UncutAtEnd
        <5>2. id # 0
          BY <1>1, <2>1
        <5> QED
          BY <4>1, <5>1, <5>2
      <4>3. id \in cut' /\ i = m[id]
        BY <1>5, <2>2, <4>1, <4>2
      <4>4. \A u \in InFlight' : tr'[u].id # id
        BY <2>4
      <4> HIDE DEF id
      <4> QED
        BY <4>3, <4>4
    <3> QED
      BY <3>1, <3>2
  <2>6. \A u \in InFlight' : tr'[u].id \in cut' => l[tr'[u].id] = tr'[u].index
    BY <1>3a, <2>4
  <2>7. Charges(l, m)'
    BY <2>5, <2>6 DEF Charges
  <2> QED
    BY <1>3a, <2>2, <2>7
<1>9. ~CountLoad(t) /\ ~CountStore(t)
  <2>1. CountStore(t) => t \in InFlight /\ tr[t].at = "put"
    BY AccessEffect DEF CountStore
  <2> QED
    BY <1>1, <2>1 DEF CountLoad, InsideInv
<1> QED
  BY <1>6, <1>7, <1>8, <1>9 DEF TraceStep
-----------------------------------------------------------------------------
(* The theorems.                                                           *)

(* TraceInv is invariant.                                                  *)
THEOREM TraceInvariance == TracedSpec => []TraceInv
<1>1. TracedInit => TraceInv
  BY InitTypes, InitExact, InitInside, InitUncut DEF TraceInv
<1>2. TraceInv /\ [TracedNext]_tracedVars => TraceInv'
  <2> SUFFICES ASSUME TraceInv, [TracedNext]_tracedVars PROVE TraceInv'
    OBVIOUS
  <2>1. /\ StructInv /\ TraceTypes /\ StoppedAreGone
        /\ ExactInv /\ InsideInv /\ UncutAtEnd /\ Charged
    BY DEF TraceInv
  <2>2. StructInv' /\ TraceTypes' /\ StoppedAreGone'
    BY <2>1, NextTypes
  <2>3. ExactInv' /\ InsideInv' /\ UncutAtEnd' /\ Charged'
    <3>1. CASE Outside
      BY <2>1, <3>1, ExactOutside, InsideOutside, UncutOutside, ChargedOutside
    <3>2. ASSUME NEW t \in DOMAIN tr, TraceStep(t)
          PROVE  ExactInv' /\ InsideInv' /\ UncutAtEnd' /\ Charged'
      BY <2>1, <3>2, ExactAccess, InsideAccess, UncutAccess, ChargedAccess
    <3> QED
      BY <2>1, <3>1, <3>2, TracedSteps
  <2> QED
    BY <2>2, <2>3 DEF TraceInv
<1> QED
  BY <1>1, <1>2, PTL DEF TracedSpec

(* The trace has its types, whatever the tasks do while calls are under    *)
(* way: every event and every time was written by a call that found room   *)
(* (k_log_csv_start, k_log_csv_end).                                       *)
THEOREM TraceTyped == TracedSpec => []TracedTypeOK
<1>1. TraceInv => TracedTypeOK
  BY DEF TraceInv, TraceTypes, TracedTypeOK, TraceRec
<1> QED
  BY <1>1, TraceInvariance, PTL

(* A trace no call of which was interrupted is the sequence of all calls   *)
(* in order, for every length of the arrays: both builds lose something    *)
(* only to an interleaving (k_log_csv_start, k_log_csv_end).               *)
THEOREM NothingLostUnlessCut == TracedSpec => []ExactUnlessCut
<1>1. TraceInv => ExactUnlessCut
  <2> SUFFICES ASSUME TraceInv, cut = {}
               PROVE  /\ \A i \in Written : log_event[i] = i + 1 /\ log_time[i] = i + 1
                      /\ log_entry + Cardinality(InFlight) = accepted
                      /\ ~strayed
    BY DEF ExactUnlessCut
  <2>1. /\ ~strayed
        /\ \A i \in Written : log_event[i] = i + 1 /\ log_time[i] = i + 1
        /\ InFlight = {} => log_entry = accepted
        /\ \A t \in InFlight : InFlight = {t} /\ accepted = log_entry + 1
        /\ log_entry \in Nat /\ accepted \in Nat
    BY DEF TraceInv, TraceTypes, ExactInv
  <2>2. CASE InFlight = {}
    <3>1. Cardinality(InFlight) = 0
      BY <2>2, FS_EmptySet
    <3> QED
      BY <2>1, <2>2, <3>1
  <2>3. ASSUME NEW t \in InFlight PROVE log_entry + Cardinality(InFlight) = accepted
    <3>1. InFlight = {t}
      BY <2>1
    <3>2. Cardinality(InFlight) = 1
      BY <3>1, FS_Singleton
    <3> QED
      BY <2>1, <3>2
  <2> QED
    BY <2>1, <2>2, <2>3
<1> QED
  BY <1>1, TraceInvariance, PTL

(* In the optimised build no element past the end is written, however many *)
(* tasks there are, although the index may pass the end by one for each.   *)
THEOREM NothingPastTheEnd == TracedSpec => []StaysInside
<1>1. TraceInv => StaysInside
  BY DEF TraceInv, InsideInv, StaysInside
<1> QED
  BY <1>1, TraceInvariance, PTL

(* The values of a function on a finite set.                               *)
LEMMA FiniteImage ==
  ASSUME NEW S, IsFiniteSet(S), NEW f, f \in [S -> Nat]
  PROVE  /\ IsFiniteSet({f[x] : x \in S})
         /\ Cardinality({f[x] : x \in S}) \in Nat
         /\ Cardinality({f[x] : x \in S}) <= Cardinality(S)
<1> DEFINE T == {f[x] : x \in S}
<1>1. f \in [S -> T] /\ \A y \in T : \E x \in S : f[x] = y
  OBVIOUS
<1> HIDE DEF T
<1>2. f \in Surjection(S, T)
  BY <1>1 DEF Surjection
<1>3. IsFiniteSet(T) /\ Cardinality(T) <= Cardinality(S)
  BY <1>2, FS_Surjection
<1>4. Cardinality(T) \in Nat
  BY <1>3, FS_CardinalityType
<1> QED
  BY <1>3, <1>4 DEF T

(* In the optimised build a call that is interrupted spoils two slots at   *)
(* most, for every number of tasks and every nesting of interruptions.     *)
THEOREM DamageBounded == TracedSpec => []DamageIsLocal
<1>1. TraceInv => DamageIsLocal
  <2> SUFFICES ASSUME TraceInv, build = "o"
               PROVE  Cardinality(Damaged) <= 2 * Cardinality(cut)
    BY DEF DamageIsLocal
  <2>1. PICK late \in [cut -> Nat], counted \in [cut -> Nat] : Charges(late, counted)
    BY DEF TraceInv, Charged
  <2>2. IsFiniteSet(cut) /\ Cardinality(cut) \in Nat
    <3>1. cut \subseteq 1..accepted /\ accepted \in Int /\ 1 \in Int
      BY DEF TraceInv, TraceTypes
    <3>2. IsFiniteSet(1..accepted)
      BY <3>1, FS_Interval
    <3> QED
      BY <3>1, <3>2, FS_Subset, FS_CardinalityType
  <2> DEFINE L == {late[c] : c \in cut}
             N == {counted[c] : c \in cut}
  <2>3. /\ IsFiniteSet(L) /\ Cardinality(L) \in Nat
        /\ Cardinality(L) <= Cardinality(cut)
        /\ IsFiniteSet(N) /\ Cardinality(N) \in Nat
        /\ Cardinality(N) <= Cardinality(cut)
    BY <2>2, FiniteImage
  <2>4. Damaged \subseteq L \cup N
    BY <2>1 DEF Charges
  <2> HIDE DEF L, N
  <2>5. /\ IsFiniteSet(L \cup N)
        /\ Cardinality(L \cup N) = Cardinality(L) + Cardinality(N) - Cardinality(L \cap N)
    BY <2>3, FS_Union
  <2>6. Cardinality(L \cap N) \in Nat
    <3>1. IsFiniteSet(L \cap N)
      BY <2>3, FS_Subset
    <3> QED
      BY <3>1, FS_CardinalityType
  <2>7. Cardinality(Damaged) \in Nat /\ Cardinality(Damaged) <= Cardinality(L \cup N)
    BY <2>4, <2>5, FS_Subset, FS_CardinalityType
  <2> QED
    BY <2>2, <2>3, <2>5, <2>6, <2>7
<1> QED
  BY <1>1, TraceInvariance, PTL
-----------------------------------------------------------------------------
(* Under RMA nothing is interrupted.                                       *)

(* No thread spins while the scheduler of RMA runs, and when it waits for  *)
(* a token only the thread of the head may.                                *)
LEMMA RmaNobodySpins ==
  ASSUME IInv, Testing, algo = "rma", NEW t \in DOMAIN th, th[t].at = "spin"
  PROVE  pc = "block" /\ t = head
<1>1. t \in Ids /\ th[t].cont \in Nat /\ th[t].done \in Nat
  BY Counts, ThreadIds DEF IInv, StructInv, TypeOK, Testing
<1>2. Outstanding(t) = IF pc = "block" /\ t = head THEN 1 ELSE 0
  BY <1>1, Lockstep DEF RmaLockstep
<1>3. Outstanding(t) > 0
  BY <1>1 DEF Outstanding, Busy
<1> QED
  BY <1>2, <1>3

(* The halt finds nobody with a job, and what it posts is a pill.          *)
LEMMA NextQuiet ==
  ASSUME IInv, RmaQuiet, [Next]_vars
  PROVE  RmaQuiet'
<1> SUFFICES ASSUME algo' = "rma", pc' \in {"halt", "post", "join"} PROVE RmaQuiet'
  BY DEF RmaQuiet
<1>1. TypeOK /\ ListsFollow /\ TypeOK'
  BY NextStruct DEF IInv, StructInv
<1> DEFINE Quiet(x) == /\ x.at # "spin"
                       /\ x.at = "poison" => x.pipe
                       /\ x.at = "wait" /\ x.cont > 0 => x.pipe
<1>2. ASSUME pc \in {"schedule", "recalc"}, algo = "rma", NEW t \in Ids
      PROVE  Quiet(th[t])
  <2>1. Outstanding(t) = 0
    BY <1>2, Lockstep DEF RmaLockstep, Testing
  <2>2. th[t].cont \in Nat /\ th[t].done \in Nat
    BY <1>2, Counts DEF IInv, StructInv, Testing
  <2>3. ~Busy(t)
    BY <2>1, <2>2 DEF Outstanding
  <2>4. th[t].cont = 0
    BY <2>1, <2>2, <2>3 DEF Outstanding
  <2> QED
    BY <2>3, <2>4 DEF Busy
<1>3. CASE Schedule \/ Recalc
  <2>1. /\ pc \in {"schedule", "recalc"} /\ pc' = "halt" /\ algo = "rma"
        /\ th' = th /\ Ids' = Ids
    BY <1>3 DEF Schedule, Recalc, Ids, set, algo
  <2> QED
    BY <1>2, <2>1 DEF RmaQuiet
<1>4. ASSUME pc \in {"halt", "post", "join"}
      PROVE  th \in [Ids -> ThreadRec] /\ al_tasks[1] \in Ids
  BY <1>1, <1>4 DEF TypeOK, ListsFollow
<1>5. ASSUME StopWrite \/ StopPost, NEW t \in Ids PROVE Quiet(th'[t])
  <2>1. algo = "rma" /\ pc \in {"halt", "post"}
    BY <1>5 DEF StopWrite, StopPost, algo
  <2>2. th[t] \in ThreadRec /\ Quiet(th[t])
    BY <1>4, <2>1 DEF RmaQuiet
  <2>3. CASE StopWrite
    <3>1. th'[t] = IF t = al_tasks[1] THEN [th[t] EXCEPT !.pipe = TRUE] ELSE th[t]
      BY <1>4, <2>1, <2>3 DEF StopWrite
    <3> QED
      BY <2>2, <3>1 DEF ThreadRec
  <2>4. CASE StopPost
    <3>1. th'[t] = IF t = al_tasks[1] THEN [th[t] EXCEPT !.cont = @ + 1] ELSE th[t]
      BY <1>4, <2>1, <2>4 DEF StopPost
    <3>2. t = al_tasks[1] => th[t].at = "exited" \/ th[t].pipe
      BY <2>1, <2>4 DEF RmaQuiet, StopPost
    <3> QED
      BY <2>2, <3>1, <3>2 DEF ThreadRec
  <2> QED
    BY <1>5, <2>3, <2>4
<1>6. CASE StopWrite
  <2>1. /\ pc' = "post" /\ al_tasks' = al_tasks /\ Ids' = Ids
        /\ th'[al_tasks[1]] = [th[al_tasks[1]] EXCEPT !.pipe = TRUE]
    BY <1>4, <1>6 DEF StopWrite, Ids, set
  <2>2. th'[al_tasks[1]].pipe
    BY <1>4, <1>6, <2>1 DEF StopWrite, ThreadRec
  <2> QED
    BY <1>5, <1>6, <2>1, <2>2 DEF RmaQuiet
<1>7. CASE StopPost
  <2>1. pc' = "join" /\ Ids' = Ids
    BY <1>7 DEF StopPost, Ids, set
  <2> QED
    BY <1>5, <1>7, <2>1 DEF RmaQuiet
<1>8. CASE StopJoin
  <2>1. pc = "join" /\ pc' = "halt" /\ UNCHANGED <<ai, si, set_list, th>>
    BY <1>8 DEF StopJoin
  <2> QED
    BY <2>1 DEF RmaQuiet, algo, Ids, set
<1>9. ASSUME NEW u \in AllTasks, Task(u) PROVE RmaQuiet'
  <2>1. /\ pc \in {"halt", "post", "join"} /\ algo = "rma" /\ Ids' = Ids
        /\ pc' = pc /\ al_tasks' = al_tasks
        /\ u \in Ids /\ th[u] \in ThreadRec
        /\ \A t \in Ids : t # u => th'[t] = th[t]
    <3>1. UNCHANGED <<set_list, sched>>
      BY <1>9 DEF Task, Wake, ReadPill, FinishJob
    <3>2. pc \in {"halt", "post", "join"} /\ algo = "rma" /\ Ids' = Ids
          /\ pc' = pc /\ al_tasks' = al_tasks
      BY <3>1 DEF sched, algo, Ids, set
    <3>3. u \in DOMAIN th /\ DOMAIN th = Ids
      BY <1>4, <1>9, <3>2 DEF Task
    <3>4. \A t \in Ids : t # u => th'[t] = th[t]
      BY <1>4, <1>9, <3>2 DEF Task, Wake, ReadPill, FinishJob
    <3> QED
      BY <1>4, <3>2, <3>3, <3>4
  <2>2. Quiet(th[u])
    BY <2>1 DEF RmaQuiet
  <2>3. \/ /\ th[u].at = "wait" /\ th[u].pipe
           /\ th'[u].at = "poison" /\ th'[u].pipe
        \/ /\ th[u].at = "poison" /\ th'[u].at = "exited"
    <3>1. CASE Wake(u)
      BY <1>4, <2>1, <2>2, <3>1 DEF Wake, ThreadRec
    <3>2. CASE ReadPill(u)
      BY <1>4, <2>1, <2>2, <3>2 DEF ReadPill, ThreadRec
    <3> QED
      BY <1>9, <2>2, <3>1, <3>2 DEF Task, FinishJob
  <2>4. \A t \in Ids : Quiet(th'[t])
    BY <2>1, <2>3 DEF RmaQuiet
  <2>5. pc = "post" => th'[al_tasks[1]].at = "exited" \/ th'[al_tasks[1]].pipe
    BY <1>4, <2>1, <2>3 DEF RmaQuiet
  <2> QED
    BY <2>1, <2>4, <2>5 DEF RmaQuiet
<1>10. CASE Terminated \/ UNCHANGED vars
  BY <1>10 DEF Terminated, vars, sched, RmaQuiet, algo, Ids, set
<1>11. ~Prime /\ ~Dispatch /\ ~Block /\ \A t \in DOMAIN th : ~Start(t)
  BY DEF Prime, Dispatch, Block, Start, Starting
<1> QED
  BY <1>3, <1>6, <1>7, <1>8, <1>9, <1>10, <1>11 DEF Next, Scheduler

(* The traces of RMA are exact, for every number of tasks: no two calls    *)
(* ever overlap (rma_block, fixt_task_routine), if no thread can mistake   *)
(* an uninitialised variable for the pill.                                 *)
THEOREM RmaTracesExact ==
  ASSUME PoisonPill \notin Garbage
  PROVE  TracedSpec => []RmaIsExact
<1> DEFINE I == IInv /\ TraceTypes /\ StoppedAreGone /\ RmaQuiet /\ RmaIsExact
<1>1. TracedInit => I
  <2>1. TracedInit => IInv /\ RmaQuiet
    BY InitStruct
    DEF TracedInit, Init, IInv, NobodyTold, ReleaseConservation, RmaTokens,
        Testing, RmaQuiet
  <2>2. TracedInit => RmaIsExact
    BY DEF TracedInit, RmaIsExact
  <2> QED
    BY <2>1, <2>2, InitTypes
<1>2. I /\ [TracedNext]_tracedVars => I'
  <2> SUFFICES ASSUME IInv, TraceTypes, StoppedAreGone, RmaQuiet, RmaIsExact,
                      [TracedNext]_tracedVars
               PROVE  I'
    OBVIOUS
  <2>1. StructInv /\ [Next]_vars
    BY TracedSteps DEF IInv
  <2>2. IInv' /\ RmaQuiet' /\ TraceTypes' /\ StoppedAreGone'
    BY <2>1, NextIInv, NextQuiet, NextTypes
  <2>3. RmaIsExact'
    <3> SUFFICES ASSUME \A i \in 1..ai' : AlgoList[i] = "rma" PROVE cut' = {}
      <4>1. AlgoList' = AlgoList
        OBVIOUS
      <4> QED
        BY DEF RmaIsExact
    <3>1. ai \in Nat /\ ai >= 1 /\ ai' \in Nat /\ ai <= ai'
      <4>1. ai \in Nat /\ ai >= 1
        BY <2>1, AlgoListAssumption DEF StructInv, TypeOK
      <4>2. ai' = ai \/ ai' = ai + 1
        <5>1. CASE StopJoin
          BY <5>1 DEF StopJoin
        <5>2. CASE ~StopJoin
          BY <2>1, <5>2
          DEF Next, Scheduler, Prime, Start, Starting, Schedule, Dispatch, Block,
              Recalc, StopWrite, StopPost, Task, Wake, ReadPill, FinishJob,
              Terminated, vars, sched
        <5> QED
          BY <5>1, <5>2
      <4> QED
        BY <4>1, <4>2
    <3>2. cut = {} /\ algo = "rma"
      <4>1. \A i \in 1..ai : i \in 1..ai'
        BY <3>1
      <4> QED
        BY <3>1, <4>1 DEF RmaIsExact, algo
    <3>3. CASE TracedScheduler
      <4>1. CASE InFlight = {}
        <5>1. PICK k \in Nat : LogBy(k)
          BY <2>1, <3>3, SchedulerOutside DEF Outside
        <5> QED
          BY <3>2, <4>1, <5>1 DEF LogBy
      <4>2. CASE InFlight # {}
        <5>1. PICK t \in DOMAIN th : th[t].at = "spin"
          BY <4>2, InFlightType
        <5>2. pc \notin {"schedule", "dispatch", "recalc"}
          BY <3>2, <5>1, RmaNobodySpins DEF Testing
        <5>3. CallsOf = 0
          BY <5>2 DEF CallsOf
        <5>4. log_entry \in Nat /\ Length \in Nat
          BY SlotsType DEF TraceTypes
        <5>5. PICK k \in {IF log_entry + 0 <= Length THEN 0
                          ELSE IF log_entry < Length THEN Length - log_entry ELSE 0} :
                Interrupt(IF k > 0 THEN InFlight ELSE {})
          BY <3>3, <5>3 DEF TracedScheduler, Log
        <5>6. k = 0
          BY <5>4, <5>5
        <5> QED
          BY <3>2, <5>5, <5>6 DEF Interrupt
      <4> QED
        BY <4>1, <4>2
    <3>4. ASSUME NEW t \in DOMAIN tr, TraceStep(t) PROVE cut' = {}
      <4>1. Blocked /\ t \in DOMAIN th /\ th[t].at = "spin"
        <5>1. tr[t].call \in Calls /\ Blocked /\ DOMAIN tr = DOMAIN th
          BY <3>4, InFlightType DEF TraceStep
        <5> QED
          BY <5>1 DEF TraceTypes, Calls
      <4>2. pc = "block"
        <5>1. t \in Ids
          BY <2>1, <4>1, ThreadIds DEF StructInv
        <5>2. pc # "join"
          BY <3>2, <4>1, <5>1 DEF RmaQuiet
        <5> QED
          BY <4>1, <5>2 DEF Blocked
      <4>3. \A u \in InFlight : u = t
        BY <3>2, <4>1, <4>2, InFlightType, RmaNobodySpins DEF Testing
      <4>4. InFlight \ {t} = {}
        BY <4>3
      <4> QED
        BY <3>2, <3>4, <4>4 DEF TraceStep, Interrupt
    <3>5. ASSUME NEW t \in DOMAIN tr, TracedTask(t) PROVE cut' = {}
      BY <3>2, <3>5 DEF TracedTask
    <3>6. CASE UNCHANGED trace
      BY <3>2, <3>6 DEF trace
    <3> QED
      BY <3>3, <3>4, <3>5, <3>6 DEF TracedNext, tracedVars
  <2> QED
    BY <2>2, <2>3
<1>3. I => RmaIsExact
  OBVIOUS
<1> HIDE DEF I
<1> QED
  BY <1>1, <1>2, <1>3, PTL DEF TracedSpec
=============================================================================
