------------------------- MODULE FixtThreads_proofs -------------------------
(***************************************************************************)
(* Theorems about the fixture with its threads, for every list of          *)
(* algorithms, every choice of task sets, every test length and every      *)
(* interleaving of the threads.                                            *)
(*                                                                         *)
(* StructInv is inductive by itself; it is all that the implementation of  *)
(* FixtSched needs.  The conservation of releases holds on top of it, if   *)
(* no thread can mistake an uninitialised variable for the pill.           *)
(***************************************************************************)
EXTENDS FixtThreads, NatLemmas, FiniteSetTheorems, TLAPS

(* Every set in set_list is a list of one task or more, none of which is   *)
(* number 0, the head of an empty queue.                                   *)
LEMMA SetType ==
  ASSUME set_list \in SetLists, NEW s \in DOMAIN set_list
  PROVE  /\ set_list[s] \in Seq(TaskRec) /\ set_list[s] \in AllSets
         /\ Len(set_list[s]) \in Nat /\ Len(set_list[s]) > 0
         /\ DOMAIN set_list[s] = 1..Len(set_list[s])
         /\ \A t \in DOMAIN set_list[s] :
              set_list[s][t].c \in Nat \ {0} /\ set_list[s][t].p \in Nat \ {0}
<1>1. set_list \in Seq(Seq(TaskRec) \ {<<>>})
  BY SetListsAssumption
<1>2. set_list[s] \in Seq(TaskRec) /\ set_list[s] # <<>>
  BY <1>1
<1>3. Len(set_list[s]) \in Nat /\ DOMAIN set_list[s] = 1..Len(set_list[s])
  BY <1>2
<1>4. Len(set_list[s]) > 0
  BY <1>2, <1>3
<1>5. \A t \in DOMAIN set_list[s] : set_list[s][t] \in TaskRec
  BY <1>2
<1>6. \A t \in DOMAIN set_list[s] :
        set_list[s][t].c \in Nat \ {0} /\ set_list[s][t].p \in Nat \ {0}
  BY <1>5 DEF TaskRec
<1>7. set_list[s] \in AllSets
  BY DEF AllSets
<1> QED
  BY <1>2, <1>3, <1>4, <1>6, <1>7

LEMMA SetUnderTest ==
  ASSUME TypeOK
  PROVE  /\ set \in Seq(TaskRec) /\ set \in AllSets
         /\ Len(set) \in Nat /\ Len(set) > 0 /\ Ids = 1..Len(set)
         /\ \A t \in Ids : set[t].c \in Nat \ {0} /\ set[t].p \in Nat \ {0}
         /\ algo \in {"rma", "edf", "sct"}
<1>1. set_list \in SetLists /\ si \in DOMAIN set_list /\ ai \in DOMAIN AlgoList
  BY DEF TypeOK
<1>2. algo \in {"rma", "edf", "sct"}
  BY <1>1, AlgoListAssumption DEF algo
<1> QED
  BY <1>1, <1>2, SetType DEF set, Ids

(* During a test FixtSched sees the set, the counters and the queue head   *)
(* of that test.                                                           *)
LEMMA SchedView ==
  ASSUME TypeOK, pc \in {"schedule", "dispatch", "block", "recalc"}
  PROVE  /\ Sched!Ids = Ids
         /\ Sched!Ready = {t \in Ids : r[si][t] <= 0}
         /\ \A t \in Ids : r[si][t] \in Int /\ a[si][t] \in Nat
<1>1. Sched!Ids = Ids
  BY DEF Sched!Ids, Ids, Between
<1>2. Sched!Ready = {t \in Ids : r[si][t] <= 0}
  BY <1>1 DEF Sched!Ready, Between
<1>3. r[si] \in [Ids -> Int] /\ a[si] \in [Ids -> Nat]
  BY DEF TypeOK, Ids, set
<1> QED
  BY <1>1, <1>2, <1>3

(* An empty queue has no head, and the head of any other is a task.        *)
LEMMA HeadType ==
  ASSUME TypeOK
  PROVE  /\ queue = <<>> => head = 0 /\ head \notin Ids
         /\ queue # <<>> => head \in Ids
<1>1. Ids = 1..Len(set) /\ Len(set) \in Nat
  BY SetUnderTest
<1>2. queue \in Seq(Ids)
  BY DEF TypeOK
<1>3. queue # <<>> => queue[1] \in Ids
  BY <1>2
<1> QED
  BY <1>1, <1>3 DEF head

(* The sorted queue of the ready tasks is a list of tasks, empty only if   *)
(* nothing is ready (fixt_algo_schedule).                                  *)
LEMMA QueueType ==
  ASSUME TypeOK, pc = "schedule",
         NEW q \in [1..Cardinality(Sched!Ready) -> Sched!Ready]
  PROVE  /\ q \in Seq(Ids) /\ IsFiniteSet(Sched!Ready)
         /\ Cardinality(Sched!Ready) \in Nat
         /\ q = <<>> <=> Sched!Ready = {}
<1>1. Ids = 1..Len(set) /\ Len(set) \in Nat
  BY SetUnderTest
<1>2. IsFiniteSet(Ids)
  BY <1>1, FS_Interval
<1>3. Sched!Ready \subseteq Ids
  BY SchedView
<1>4. IsFiniteSet(Sched!Ready)
  BY <1>2, <1>3, FS_Subset
<1>5. Cardinality(Sched!Ready) \in Nat
  BY <1>4, FS_CardinalityType
<1>6. Cardinality(Sched!Ready) = 0 <=> Sched!Ready = {}
  BY <1>4, FS_EmptySet
<1> DEFINE n == Cardinality(Sched!Ready)
<1>7. q \in Seq(Ids) /\ Len(q) = n
  <2> HIDE DEF n
  <2>1. n \in Nat /\ q \in [1..n -> Ids]
    BY <1>3, <1>5 DEF n
  <2> QED
    BY <2>1
<1>8. q = <<>> <=> n = 0
  BY <1>7
<1> QED
  BY <1>4, <1>5, <1>6, <1>7, <1>8

(* With an empty queue every task has a release to come.                   *)
LEMMA MinRType ==
  ASSUME TypeOK, ListsFollow, pc \in {"dispatch", "block", "recalc"}, queue = <<>>
  PROVE  Sched!MinR \in Nat
<1>1. \A t \in Ids : r[si][t] \in Nat
  BY SchedView DEF ListsFollow
<1>2. Sched!Ids = Ids /\ Ids # {}
  BY SchedView, SetUnderTest
<1> DEFINE S == {r[si][t] : t \in Ids}
<1>3. S \in SUBSET Nat /\ S # {}
  BY <1>1, <1>2
<1>4. \E m \in S : \A x \in S : m <= x
  BY <1>3, NatMin
<1>5. \E m \in S : \A t \in Ids : m <= r[si][t]
  BY <1>4
<1>6. Sched!MinR \in S
  BY <1>2, <1>5 DEF Sched!MinR, Between
<1> QED
  BY <1>3, <1>6

(* The threads are those of tasks.                                         *)
LEMMA ThreadIds ==
  ASSUME TypeOK
  PROVE  /\ DOMAIN th \subseteq Ids /\ DOMAIN th \subseteq AllTasks
         /\ th \in [DOMAIN th -> ThreadRec]
<1>1. th \in [IF pc \in {"prime", "term"} THEN {} ELSE Ids -> ThreadRec]
  BY DEF TypeOK
<1>2. Ids \subseteq AllTasks
  BY SetUnderTest DEF AllTasks, Ids
<1> QED
  BY <1>1, <1>2

(* What the recalc hook computes, in terms of the fixture's own counters.  *)
LEMMA RecalcType ==
  ASSUME TypeOK, ListsFollow, pc = "recalc"
  PROVE  /\ Sched!Delta \in Nat
         /\ \A t \in Ids : Sched!NewR(t) \in Int /\ Sched!NewA(t) \in Nat
         /\ \A t \in Ids : t # head => Sched!NewA(t) = a[si][t]
         /\ algo = "rma" => \A t \in Ids : Sched!NewA(t) = a[si][t]
         /\ algo = "rma" /\ head # 0 => Sched!Completes
         /\ algo # "rma" /\ head # 0 =>
              IF Sched!Completes THEN Sched!NewA(head) = 0
                                 ELSE Sched!NewA(head) > 0
<1>1. /\ Ids = 1..Len(set) /\ Len(set) \in Nat /\ Len(set) > 0
      /\ \A t \in Ids : set[t].c \in Nat \ {0} /\ set[t].p \in Nat \ {0}
      /\ algo \in {"rma", "edf", "sct"}
  BY SetUnderTest
<1>2. /\ Sched!Ids = Ids
      /\ \A t \in Ids : r[si][t] \in Int /\ a[si][t] \in Nat
  BY SchedView
<1>3. head = 0 \/ head \in Ids
  BY HeadType
<1>4. Sched!Delta \in Nat /\ (head # 0 /\ algo # "rma" => Sched!Delta = 1)
  <2>1. CASE head = 0
    <3>1. queue = <<>>
      BY <1>1, <2>1, HeadType
    <3> QED
      BY <2>1, <3>1, MinRType DEF Sched!Delta, Sched!NoTask
  <2>2. CASE head # 0
    BY <1>1, <1>3, <2>2
    DEF Sched!Delta, Sched!NoTask, Sched!Period, Between
  <2> QED
    BY <2>1, <2>2
<1>5. \A t \in Ids : Sched!NewR(t) \in Int
  BY <1>1, <1>2, <1>4 DEF Sched!NewR, Between
<1>6. \A t \in Ids : t # head => Sched!NewA(t) = a[si][t]
  BY DEF Sched!NewA, Between
<1>7. algo = "rma" => \A t \in Ids : Sched!NewA(t) = a[si][t]
  BY DEF Sched!NewA, Between
<1>8. algo = "rma" /\ head # 0 => Sched!Completes
  BY DEF Sched!Completes, Sched!NoTask
<1>9. algo # "rma" /\ head # 0 =>
        IF Sched!Completes THEN Sched!NewA(head) = 0
                           ELSE Sched!NewA(head) = a[si][head] + 1
  BY <1>4 DEF Sched!NewA, Between
<1>10. \A t \in Ids : Sched!NewA(t) \in Nat
  BY <1>1, <1>2, <1>3, <1>6, <1>7, <1>9
<1> QED
  BY <1>2, <1>3, <1>4, <1>5, <1>6, <1>7, <1>8, <1>9, <1>10
-----------------------------------------------------------------------------
(* StructInv: the types, the lists, and threads that start afresh.         *)

LEMMA InitStruct == Init => StructInv
<1> SUFFICES ASSUME Init PROVE StructInv
  OBVIOUS
<1> USE DEF Init
<1>1. 1 \in DOMAIN set_list /\ 1 \in DOMAIN AlgoList
  <2>1. set_list \in Seq(Seq(TaskRec) \ {<<>>}) /\ set_list # <<>>
    BY SetListsAssumption
  <2>2. 1 \in DOMAIN set_list
    BY <2>1
  <2>3. AlgoList \in Seq({"rma", "edf", "sct"}) /\ AlgoList # <<>>
    BY AlgoListAssumption
  <2> QED
    BY <2>2, <2>3
<1>2. th \in [{} -> ThreadRec] /\ jobs \in [{} -> Nat] /\ acked \in [{} -> Nat]
  OBVIOUS
<1>3. TypeOK
  BY <1>1, <1>2 DEF TypeOK, Between
<1>4. ListsFollow /\ FreshThreads
  BY DEF ListsFollow, FreshThreads, Testing, Between
<1> QED
  BY <1>3, <1>4 DEF StructInv

(* prime_algo.                                                             *)
LEMMA PrimeStruct == StructInv /\ Prime => StructInv'
<1> SUFFICES ASSUME StructInv, Prime PROVE StructInv'
  OBVIOUS
<1> USE DEF Prime
<1>1. TypeOK
  BY DEF StructInv
<1>2. Ids' = Ids /\ set' = set
  BY DEF Ids, set
<1>3. Ids = 1..Len(set) /\ Len(set) \in Nat
  BY <1>1, SetUnderTest
<1>4. al_tasks' \in Seq(Ids)
  BY <1>3
<1>5. th' \in [Ids -> ThreadRec]
  BY DEF NoThread, ThreadRec, MinPrio, BasePrio
<1>6. jobs' \in [Ids -> Nat] /\ acked' \in [Ids -> Nat]
  OBVIOUS
<1>7. TypeOK'
  BY <1>1, <1>2, <1>4, <1>5, <1>6 DEF TypeOK, Between
<1>8. ListsFollow'
  BY <1>1, <1>2 DEF StructInv, ListsFollow, Testing, Between
<1>9. FreshThreads'
  BY <1>2 DEF FreshThreads, NoThread
<1> QED
  BY <1>7, <1>8, <1>9 DEF StructInv

(* fixt_task_run for the task at t: its counters, and nobody else's, are   *)
(* reset.                                                                  *)
LEMMA StartStruct ==
  ASSUME StructInv, NEW t \in DOMAIN th, Start(t)
  PROVE  StructInv'
<1> USE DEF Start, Starting
<1>1. TypeOK /\ ListsFollow /\ FreshThreads /\ pc = "start"
  BY DEF StructInv
<1>2. Ids' = Ids /\ set' = set
  BY DEF Ids, set
<1>3. th \in [Ids -> ThreadRec] /\ t \in Ids
  BY <1>1 DEF TypeOK
<1>4. PICK g \in Garbage : th' = [th EXCEPT ![t] = NewThread(g)]
  OBVIOUS
<1>5. NewThread(g) \in ThreadRec
  BY DEF NewThread, ThreadRec, MinPrio, BasePrio
<1>6. th' \in [Ids -> ThreadRec]
  BY <1>3, <1>4, <1>5
<1>7. pc' \in {"start", "schedule"}
  OBVIOUS
<1>8. /\ DOMAIN r' = DOMAIN set_list /\ DOMAIN a' = DOMAIN set_list
      /\ \A s \in DOMAIN set_list : /\ r'[s] \in [DOMAIN set_list[s] -> Int]
                                    /\ a'[s] \in [DOMAIN set_list[s] -> Nat]
  BY <1>1, <1>3 DEF TypeOK, Ids, set
<1>9. TypeOK'
  BY <1>1, <1>2, <1>6, <1>7, <1>8 DEF TypeOK, Between, history
<1>10. ListsFollow'
  BY <1>1, <1>2, <1>7 DEF ListsFollow, Testing, Between
<1>11. \A u \in Ids :
         IF u = t THEN th'[u] = NewThread(g) /\ r'[si][u] = 0 /\ a'[si][u] = 0
         ELSE th'[u] = th[u] /\ r'[si][u] = r[si][u] /\ a'[si][u] = a[si][u]
  BY <1>1, <1>3, <1>4 DEF TypeOK, Ids, set
<1>12. FreshThreads'
  BY <1>1, <1>2, <1>11 DEF FreshThreads, NewThread, history
<1> QED
  BY <1>9, <1>10, <1>12 DEF StructInv

(* fixt_algo_schedule.                                                     *)
LEMMA ScheduleStruct == StructInv /\ Schedule => StructInv'
<1> SUFFICES ASSUME StructInv, Schedule PROVE StructInv'
  OBVIOUS
<1> USE DEF Schedule
<1>1. TypeOK /\ ListsFollow /\ pc = "schedule"
  BY DEF StructInv
<1>2. Ids' = Ids /\ set' = set
  BY DEF Ids, set
<1>3. PICK q \in [1..Cardinality(Sched!Ready) -> Sched!Ready] :
        queue' = q /\ al_schedulable' \in BOOLEAN
  OBVIOUS
<1>4. q \in Seq(Ids) /\ (q = <<>> <=> Sched!Ready = {})
  BY <1>1, QueueType
<1>5. pc' \in {"dispatch", "halt"}
  OBVIOUS
<1>6. TypeOK'
  BY <1>1, <1>2, <1>3, <1>4, <1>5 DEF TypeOK, Between, history
<1>7. queue' = <<>> => \A t \in Ids : r[si][t] > 0
  BY <1>1, <1>3, <1>4, SchedView
<1>8. al_tasks # <<>>
  <2>1. Len(set) > 0 /\ Ids = 1..Len(set) /\ Len(set) \in Nat
    BY <1>1, SetUnderTest
  <2>2. al_tasks = [t \in Ids |-> t]
    BY <1>1 DEF ListsFollow, Testing
  <2>3. 1 \in DOMAIN al_tasks
    BY <2>1, <2>2
  <2> QED
    BY <2>3
<1>9. ListsFollow'
  BY <1>1, <1>2, <1>5, <1>7, <1>8 DEF ListsFollow, Testing, Between
<1>10. FreshThreads'
  BY <1>5 DEF FreshThreads
<1> QED
  BY <1>6, <1>9, <1>10 DEF StructInv

(* The part of fixt_algo_run before al_block.                              *)
LEMMA DispatchStruct == StructInv /\ Dispatch => StructInv'
<1> SUFFICES ASSUME StructInv, Dispatch PROVE StructInv'
  OBVIOUS
<1> USE DEF Dispatch
<1>1. TypeOK /\ ListsFollow /\ pc = "dispatch"
  BY DEF StructInv
<1>2. Ids' = Ids /\ set' = set
  BY DEF Ids, set
<1>3. th \in [Ids -> ThreadRec] /\ queue \in Seq(Ids)
  BY <1>1 DEF TypeOK, Between
<1> DEFINE post == queue # <<>> /\ a[si][head] = 0
           prio(t) == IF \E i \in DOMAIN queue : queue[i] = t
                      THEN LET i == CHOOSE i \in DOMAIN queue : queue[i] = t
                           IN  IF BasePrio - i < MinPrio THEN MinPrio
                                                         ELSE BasePrio - i
                      ELSE th[t].prio
<1>4. th' = [t \in Ids |-> [th[t] EXCEPT
                             !.prio = prio(t),
                             !.cont = IF t = head /\ post THEN @ + 1 ELSE @]]
  BY DEF Released
<1>5. \A t \in Ids : prio(t) \in {0} \cup MinPrio..BasePrio
  <2> TAKE t \in Ids
  <2>1. CASE \E i \in DOMAIN queue : queue[i] = t
    <3>1. PICK i \in DOMAIN queue :
            i = CHOOSE j \in DOMAIN queue : queue[j] = t
      BY <2>1
    <3>2. prio(t) = IF BasePrio - i < MinPrio THEN MinPrio ELSE BasePrio - i
      BY <2>1, <3>1
    <3>3. i \in Nat /\ i >= 1
      BY <1>3
    <3> HIDE DEF prio
    <3> QED
      BY <3>2, <3>3 DEF BasePrio, MinPrio
  <2>2. CASE ~\E i \in DOMAIN queue : queue[i] = t
    <3>1. prio(t) = th[t].prio
      BY <2>2
    <3> QED
      BY <1>3, <3>1 DEF ThreadRec
  <2> QED
    BY <2>1, <2>2
<1>6. th' \in [Ids -> ThreadRec]
  <2> DEFINE cont(t) == IF t = head /\ post THEN th[t].cont + 1 ELSE th[t].cont
  <2> HIDE DEF prio, post
  <2>1. ASSUME NEW t \in Ids PROVE th[t] \in ThreadRec /\ cont(t) \in Nat
    BY <1>3, <2>1 DEF ThreadRec
  <2>2. th' = [t \in Ids |-> [th[t] EXCEPT !.prio = prio(t), !.cont = cont(t)]]
    BY <1>4
  <2> HIDE DEF cont
  <2>3. ASSUME NEW t \in Ids
        PROVE  [th[t] EXCEPT !.prio = prio(t), !.cont = cont(t)] \in ThreadRec
    BY <1>5, <2>1, <2>3 DEF ThreadRec
  <2> QED
    BY <2>2, <2>3
<1>7. pc' \in {"recalc", "block"} /\ (pc' = "block" => queue # <<>>)
  OBVIOUS
<1> HIDE DEF prio, post
<1>8. TypeOK'
  BY <1>1, <1>2, <1>6, <1>7 DEF TypeOK, Between, history
<1>9. ListsFollow'
  BY <1>1, <1>2, <1>7 DEF ListsFollow, Testing, Between
<1>10. FreshThreads'
  BY <1>7 DEF FreshThreads
<1> QED
  BY <1>8, <1>9, <1>10 DEF StructInv

(* al_block: whatever the wait returns, only a token changes hands.        *)
LEMMA BlockStruct == StructInv /\ Block => StructInv'
<1> SUFFICES ASSUME StructInv, Block PROVE StructInv'
  OBVIOUS
<1> USE DEF Block
<1>1. TypeOK /\ ListsFollow /\ pc = "block"
  BY DEF StructInv
<1>2. Ids' = Ids /\ set' = set
  BY DEF Ids, set
<1>3. /\ th \in [Ids -> ThreadRec] /\ acked \in [Ids -> Nat]
      /\ head \in Ids
  BY <1>1, HeadType DEF TypeOK, ListsFollow, Between
<1>4. th' \in [Ids -> ThreadRec] /\ acked' \in [Ids -> Nat]
  <2>1. CASE TakeDone(head)
    <3> DEFINE tk == [th[head] EXCEPT !.done = @ - 1]
    <3>1. th[head] \in ThreadRec /\ th[head].done - 1 \in Nat
      BY <1>3, <2>1 DEF TakeDone, ThreadRec
    <3>2. tk \in ThreadRec
      BY <3>1 DEF ThreadRec
    <3> HIDE DEF tk
    <3>3. th' = [th EXCEPT ![head] = tk] /\ acked' = [acked EXCEPT ![head] = @ + 1]
      BY <2>1 DEF TakeDone, tk
    <3> QED
      BY <1>3, <3>2, <3>3
  <2>2. CASE NotDone(head)
    BY <1>3, <2>2 DEF NotDone
  <2> QED
    BY <2>1, <2>2
<1>5. TypeOK'
  BY <1>1, <1>2, <1>4 DEF TypeOK, Between
<1>6. ListsFollow'
  BY <1>1, <1>2 DEF ListsFollow, Testing, Between
<1>7. FreshThreads'
  BY DEF FreshThreads
<1> QED
  BY <1>5, <1>6, <1>7 DEF StructInv

(* al_recalc.                                                              *)
LEMMA RecalcStruct == StructInv /\ Recalc => StructInv'
<1> SUFFICES ASSUME StructInv, Recalc PROVE StructInv'
  OBVIOUS
<1> USE DEF Recalc
<1>1. TypeOK /\ ListsFollow /\ pc = "recalc"
  BY DEF StructInv
<1>2. Ids' = Ids /\ set' = set
  BY DEF Ids, set
<1>3. /\ Sched!Delta \in Nat
      /\ \A t \in Ids : Sched!NewR(t) \in Int /\ Sched!NewA(t) \in Nat
  BY <1>1, RecalcType
<1>4. now' \in Nat
  BY <1>1, <1>3 DEF TypeOK
<1>5. jobs' \in [Ids -> Nat]
  <2>1. jobs \in [Ids -> Nat]
    BY <1>1 DEF TypeOK
  <2> QED
    BY <2>1
<1>6. /\ DOMAIN r' = DOMAIN set_list /\ DOMAIN a' = DOMAIN set_list
      /\ \A s \in DOMAIN set_list : /\ r'[s] \in [DOMAIN set_list[s] -> Int]
                                    /\ a'[s] \in [DOMAIN set_list[s] -> Nat]
  BY <1>1, <1>3 DEF TypeOK, Ids, set
<1>7. pc' \in {"schedule", "halt"}
  OBVIOUS
<1>8. TypeOK'
  BY <1>1, <1>2, <1>4, <1>5, <1>6, <1>7 DEF TypeOK, Between
<1>9. al_tasks # <<>>
  BY <1>1, SetUnderTest DEF ListsFollow, Testing
<1>10. ListsFollow'
  BY <1>1, <1>2, <1>7, <1>9 DEF ListsFollow, Testing, Between
<1>11. FreshThreads'
  BY <1>7 DEF FreshThreads
<1> QED
  BY <1>8, <1>10, <1>11 DEF StructInv

(* The updates of a thread's record.                                       *)
LEMMA RecordUpdates ==
  ASSUME NEW rec \in ThreadRec, NEW n \in Nat
  PROVE  /\ rec.cont + 1 \in Nat /\ rec.done + 1 \in Nat
         /\ rec.cont > 0 => rec.cont - 1 \in Nat
         /\ [rec EXCEPT !.pipe = TRUE] \in ThreadRec
         /\ [rec EXCEPT !.cont = n] \in ThreadRec
         /\ [rec EXCEPT !.at = "poison", !.cont = n] \in ThreadRec
         /\ [rec EXCEPT !.at = "wait", !.done = n] \in ThreadRec
<1>1. rec.cont \in Nat /\ rec.done \in Nat
  BY DEF ThreadRec
<1>2. /\ [rec EXCEPT !.pipe = TRUE] \in ThreadRec
      /\ [rec EXCEPT !.cont = n] \in ThreadRec
  BY DEF ThreadRec
<1>3. /\ [rec EXCEPT !.at = "poison", !.cont = n] \in ThreadRec
      /\ [rec EXCEPT !.at = "wait", !.done = n] \in ThreadRec
  BY DEF ThreadRec
<1> QED
  BY <1>1, <1>2, <1>3

(* fixt_task_stop writes the pill and posts; it changes no list.           *)
LEMMA StopTellStruct == StructInv /\ (StopWrite \/ StopPost) => StructInv'
<1> SUFFICES ASSUME StructInv, StopWrite \/ StopPost PROVE StructInv'
  OBVIOUS
<1> USE DEF StopWrite, StopPost
<1>1. TypeOK /\ ListsFollow /\ pc \in {"halt", "post"}
  BY DEF StructInv
<1>2. Ids' = Ids /\ set' = set
  BY DEF Ids, set
<1>3. th \in [Ids -> ThreadRec] /\ al_tasks[1] \in Ids
  BY <1>1 DEF TypeOK, ListsFollow, Between
<1>4. th' \in [Ids -> ThreadRec]
  <2>1. th[al_tasks[1]] \in ThreadRec
    BY <1>3
  <2>2. /\ [th[al_tasks[1]] EXCEPT !.pipe = TRUE] \in ThreadRec
        /\ [th[al_tasks[1]] EXCEPT !.cont = @ + 1] \in ThreadRec
    BY <2>1, RecordUpdates
  <2> QED
    BY <1>3, <2>2
<1>5. pc' \in {"post", "join"}
  OBVIOUS
<1>6. TypeOK'
  BY <1>1, <1>2, <1>4, <1>5 DEF TypeOK, Between, history
<1>7. ListsFollow' /\ FreshThreads'
  BY <1>1, <1>2, <1>5 DEF ListsFollow, FreshThreads, Testing, Between
<1> QED
  BY <1>6, <1>7 DEF StructInv

(* The join: the next task, the next test, or the end of fixt_test.        *)
LEMMA StopJoinStruct == StructInv /\ StopJoin => StructInv'
<1> SUFFICES ASSUME StructInv, StopJoin PROVE StructInv'
  OBVIOUS
<1> USE DEF StopJoin
<1>1. TypeOK /\ ListsFollow /\ pc = "join"
  BY DEF StructInv
<1>2. CASE al_tasks' # <<>>
  <2>1. pc' = "halt" /\ UNCHANGED <<ai, si, queue, al_schedulable, r, a, th, history>>
    BY <1>2
  <2>2. Ids' = Ids /\ set' = set
    BY <2>1 DEF Ids, set
  <2>3. al_tasks' \in Seq(Ids)
    BY <1>1 DEF TypeOK, ListsFollow
  <2>4. TypeOK'
    BY <1>1, <2>1, <2>2, <2>3 DEF TypeOK, Between, history
  <2>5. ListsFollow' /\ FreshThreads'
    BY <1>2, <2>1 DEF ListsFollow, FreshThreads, Testing, Between
  <2> QED
    BY <2>4, <2>5 DEF StructInv
<1>3. CASE al_tasks' = <<>>
  <2>1. /\ pc' \in {"prime", "term"}
        /\ queue' = <<>> /\ th' = <<>> /\ jobs' = <<>> /\ acked' = <<>>
        /\ now' = 0 /\ UNCHANGED <<set_list, r, a>>
    BY <1>3
  <2>2. /\ set_list \in SetLists /\ si \in DOMAIN set_list
        /\ ai \in DOMAIN AlgoList /\ al_schedulable \in BOOLEAN
    BY <1>1 DEF TypeOK
  <2>3. /\ Len(set_list) \in Nat /\ DOMAIN set_list = 1..Len(set_list)
        /\ Len(AlgoList) \in Nat /\ DOMAIN AlgoList = 1..Len(AlgoList)
    <3>1. set_list \in Seq(Seq(TaskRec) \ {<<>>})
      BY <2>2, SetListsAssumption
    <3> QED
      BY <3>1, AlgoListAssumption
  <2>4. /\ si' \in DOMAIN set_list /\ ai' \in DOMAIN AlgoList
        /\ al_schedulable' \in BOOLEAN
    BY <1>3, <2>2, <2>3
  <2>5. /\ th' \in [{} -> ThreadRec] /\ jobs' \in [{} -> Nat]
        /\ acked' \in [{} -> Nat]
    BY <2>1
  <2>6. al_tasks' \in Seq(Ids') /\ queue' \in Seq(Ids')
    <3>1. \A S : <<>> \in Seq(S)
      OBVIOUS
    <3> HIDE DEF StopJoin
    <3> QED
      BY <1>3, <2>1, <3>1
  <2>7. TypeOK'
    BY <1>1, <2>1, <2>4, <2>5, <2>6 DEF TypeOK, Between
  <2>8. ListsFollow' /\ FreshThreads'
    BY <2>1 DEF ListsFollow, FreshThreads, Testing, Between
  <2> QED
    BY <2>7, <2>8 DEF StructInv
<1> QED
  BY <1>2, <1>3

(* The steps of a task thread keep to its record; none is possible before  *)
(* something is posted.                                                    *)
LEMMA TaskStruct ==
  ASSUME StructInv, NEW t \in AllTasks, Task(t)
  PROVE  StructInv'
<1>1. TypeOK /\ ListsFollow /\ FreshThreads /\ t \in DOMAIN th
  BY DEF StructInv, Task
<1>2. UNCHANGED <<set_list, sched, history>>
  BY DEF Task, Wake, ReadPill, FinishJob
<1>3. Ids' = Ids /\ set' = set
  BY <1>2 DEF Ids, set, sched
<1>4. th \in [Ids -> ThreadRec] /\ t \in Ids /\ pc \notin {"prime", "term"}
  BY <1>1 DEF TypeOK
<1>5. th' \in [Ids -> ThreadRec] /\ pc # "start"
  <2>1. th[t] \in ThreadRec
    BY <1>4
  <2>2. CASE Wake(t)
    <3>1. [th[t] EXCEPT !.at = "poison", !.cont = @ - 1] \in ThreadRec
      BY <2>1, <2>2, RecordUpdates DEF Wake
    <3> QED
      BY <1>1, <1>4, <2>2, <3>1 DEF Wake, FreshThreads
  <2>3. CASE ReadPill(t)
    <3> DEFINE pill == IF th[t].pipe THEN PoisonPill ELSE th[t].pill
               at   == IF pill = PoisonPill THEN "exited" ELSE "spin"
    <3>1. pill \in Garbage \cup {0, PoisonPill} /\ at \in {"exited", "spin"}
      BY <2>1 DEF ThreadRec
    <3>2. th' = [th EXCEPT ![t].pill = pill, ![t].pipe = FALSE, ![t].at = at]
      BY <2>3 DEF ReadPill
    <3> HIDE DEF pill, at
    <3>3. [th[t] EXCEPT !.pill = pill, !.pipe = FALSE, !.at = at] \in ThreadRec
      BY <2>1, <3>1 DEF ThreadRec
    <3> QED
      BY <1>1, <1>4, <2>3, <3>2, <3>3 DEF ReadPill, FreshThreads
  <2>4. CASE FinishJob(t)
    <3>1. [th[t] EXCEPT !.at = "wait", !.done = @ + 1] \in ThreadRec
      BY <2>1, RecordUpdates
    <3> QED
      BY <1>1, <1>4, <2>4, <3>1 DEF FinishJob, FreshThreads
  <2> QED
    BY <2>2, <2>3, <2>4 DEF Task
<1>6. TypeOK'
  BY <1>1, <1>2, <1>3, <1>4, <1>5 DEF TypeOK, sched, history
<1>7. ListsFollow' /\ FreshThreads'
  BY <1>1, <1>2, <1>3, <1>5
  DEF ListsFollow, FreshThreads, Testing, Between, sched
<1> QED
  BY <1>6, <1>7 DEF StructInv

LEMMA NextStruct == StructInv /\ [Next]_vars => StructInv'
<1> SUFFICES ASSUME StructInv, [Next]_vars PROVE StructInv'
  OBVIOUS
<1>1. CASE Prime
  BY <1>1, PrimeStruct
<1>2. ASSUME NEW t \in DOMAIN th, Start(t) PROVE StructInv'
  BY <1>2, StartStruct
<1>3. CASE Schedule
  BY <1>3, ScheduleStruct
<1>4. CASE Dispatch
  BY <1>4, DispatchStruct
<1>5. CASE Block
  BY <1>5, BlockStruct
<1>6. CASE Recalc
  BY <1>6, RecalcStruct
<1>7. CASE StopWrite \/ StopPost
  BY <1>7, StopTellStruct
<1>8. CASE StopJoin
  BY <1>8, StopJoinStruct
<1>9. ASSUME NEW t \in AllTasks, Task(t) PROVE StructInv'
  BY <1>9, TaskStruct
<1>10. CASE Terminated \/ UNCHANGED vars
  <2>1. UNCHANGED vars
    BY <1>10 DEF Terminated
  <2>2. TypeOK'
    BY <2>1 DEF vars, sched, history, StructInv, TypeOK, Ids, set
  <2>3. ListsFollow'
    BY <2>1 DEF vars, sched, history, StructInv, ListsFollow, Testing, Ids, set
  <2>4. FreshThreads'
    BY <2>1 DEF vars, sched, history, StructInv, FreshThreads, Ids, set
  <2> QED
    BY <2>2, <2>3, <2>4 DEF StructInv
<1> QED
  BY <1>1, <1>2, <1>3, <1>4, <1>5, <1>6, <1>7, <1>8, <1>9, <1>10
  DEF Next, Scheduler

(* The types, and with them the agreement of the lists with the scheduler's*)
(* place, hold in every reachable state, whatever Garbage is.              *)
THEOREM Structure == Spec => []StructInv
<1>1. Init => StructInv
  BY InitStruct
<1>2. StructInv /\ [Next]_vars => StructInv'
  BY NextStruct
<1> QED
  BY <1>1, <1>2, PTL DEF Spec
-----------------------------------------------------------------------------
(* Conservation of releases, for a pill that garbage cannot be taken for.  *)

TokenInv == NobodyTold /\ ReleaseConservation /\ RmaTokens

(* The numbers that Outstanding adds up.                                   *)
LEMMA Counts ==
  ASSUME TypeOK, pc = "start" \/ Testing, NEW t \in Ids
  PROVE  /\ th \in [Ids -> ThreadRec] /\ th[t].cont \in Nat /\ th[t].done \in Nat
         /\ jobs \in [Ids -> Nat] /\ acked \in [Ids -> Nat]
         /\ a[si][t] \in Nat /\ DOMAIN th = Ids
<1>1. th \in [Ids -> ThreadRec] /\ jobs \in [Ids -> Nat] /\ acked \in [Ids -> Nat]
  BY DEF TypeOK, Testing
<1>2. th[t] \in ThreadRec
  BY <1>1
<1>3. th[t].cont \in Nat /\ th[t].done \in Nat
  BY <1>2 DEF ThreadRec
<1>4. a[si] \in [Ids -> Nat]
  BY DEF TypeOK, Ids, set
<1> QED
  BY <1>1, <1>3, <1>4

(* Outside of a test there is nothing to show.                             *)
LEMMA BetweenTokens ==
  ASSUME pc' \in {"prime", "term", "halt", "post", "join"}
  PROVE  TokenInv'
  BY DEF TokenInv, NobodyTold, ReleaseConservation, RmaTokens, Testing

LEMMA PrimeTokens == IInv /\ Prime => TokenInv'
<1> SUFFICES ASSUME Prime PROVE TokenInv'
  OBVIOUS
<1>1. pc' = "start" /\ Ids' = Ids /\ th' = [t \in Ids |-> NoThread]
  BY DEF Prime, Ids, set
<1> QED
  BY <1>1
  DEF TokenInv, NobodyTold, ReleaseConservation, RmaTokens, Testing, NoThread,
      PoisonPill

(* With the last thread started every counter of the test is zero.         *)
LEMMA StartTokens ==
  ASSUME PoisonPill \notin Garbage, IInv, NEW t \in DOMAIN th, Start(t)
  PROVE  TokenInv'
<1>1. /\ TypeOK /\ ListsFollow /\ FreshThreads /\ NobodyTold /\ pc = "start"
      /\ StructInv'
  BY StartStruct DEF IInv, StructInv, Start, Starting
<1>2. /\ Ids' = Ids /\ UNCHANGED history /\ UNCHANGED queue
      /\ pc' \in {"start", "schedule"}
  BY DEF Start, Starting, Ids, set
<1>3. th \in [Ids -> ThreadRec] /\ t \in Ids
  BY <1>1 DEF TypeOK
<1>4. PICK g \in Garbage : th' = [th EXCEPT ![t] = NewThread(g)]
  BY DEF Start, Starting
<1>5. NobodyTold'
  BY <1>1, <1>2, <1>3, <1>4 DEF NobodyTold, Testing, NewThread
<1>6. /\ \A u \in Ids : u # t => r'[si'][u] = r[si][u] /\ a'[si'][u] = a[si][u]
      /\ r'[si'][t] = 0 /\ a'[si'][t] = 0
  BY <1>1, <1>3 DEF Start, Starting, TypeOK, Ids, set
<1>7. ASSUME pc' = "schedule", NEW u \in Ids
      PROVE  /\ th'[u].at = "wait" /\ th'[u].cont = 0 /\ th'[u].done = 0
             /\ a'[si'][u] = 0 /\ jobs'[u] = 0 /\ acked'[u] = 0
  <2>1. CASE u = t
    BY <1>1, <1>2, <1>3, <1>4, <1>6, <2>1 DEF FreshThreads, NewThread, history
  <2>2. CASE u # t
    <3>1. Len(set) \in Nat /\ Ids = 1..Len(set) /\ al_tasks = [v \in Ids |-> v]
      BY <1>1, SetUnderTest DEF ListsFollow
    <3>2. t = Len(set)
      BY <1>7, <3>1 DEF Start, Starting
    <3>3. u \in 1..(t - 1)
      BY <2>2, <3>1, <3>2
    <3>4. th[u].at = "wait" /\ th'[u] = th[u]
      BY <1>1, <1>3, <1>4, <2>2, <3>3 DEF Start, Starting, FreshThreads
    <3> QED
      BY <1>1, <1>2, <1>6, <2>2, <3>4 DEF FreshThreads, history
  <2> QED
    BY <2>1, <2>2
<1>8. ReleaseConservation' /\ RmaTokens'
  BY <1>2, <1>7
  DEF ReleaseConservation, RmaTokens, Testing, Outstanding, Busy, InProgress
<1> QED
  BY <1>5, <1>8 DEF TokenInv

LEMMA ScheduleTokens == IInv /\ Schedule => TokenInv'
<1> SUFFICES ASSUME IInv, Schedule PROVE TokenInv'
  OBVIOUS
<1>1. CASE pc' = "halt"
  BY <1>1, BetweenTokens
<1>2. CASE pc' = "dispatch"
  <2>1. /\ Ids' = Ids /\ pc = "schedule"
        /\ UNCHANGED <<set_list, ai, si, al_tasks, r, a, th, history>>
    BY DEF Schedule, Ids, set
  <2> QED
    BY <1>2, <2>1
    DEF IInv, TokenInv, NobodyTold, ReleaseConservation, RmaTokens, Testing,
        Outstanding, Busy, InProgress, history, algo
<1> QED
  BY <1>1, <1>2 DEF Schedule

(* fixt_algo_run posts a head that is not in progress, and nobody else.    *)
LEMMA DispatchEffect ==
  ASSUME TypeOK, Dispatch
  PROVE  /\ pc = "dispatch" /\ pc' = IF queue = <<>> THEN "recalc" ELSE "block"
         /\ Ids' = Ids /\ set' = set /\ head' = head /\ algo' = algo
         /\ UNCHANGED <<queue, r, a, si, jobs, acked>>
         /\ DOMAIN th' = DOMAIN th
         /\ \A t \in Ids :
              /\ th'[t].at = th[t].at /\ th'[t].done = th[t].done
              /\ th'[t].pipe = th[t].pipe /\ th'[t].pill = th[t].pill
              /\ th'[t].cont = IF t = head /\ queue # <<>> /\ a[si][head] = 0
                               THEN th[t].cont + 1 ELSE th[t].cont
<1>1. /\ pc = "dispatch" /\ Testing
      /\ Ids' = Ids /\ set' = set /\ head' = head /\ algo' = algo
      /\ UNCHANGED <<queue, r, a, si, jobs, acked>>
      /\ pc' = IF queue = <<>> THEN "recalc" ELSE "block"
      /\ DOMAIN th' = Ids
  BY DEF Dispatch, Released, Ids, set, head, history, algo, Testing
<1>2. th \in [Ids -> ThreadRec]
  BY <1>1 DEF TypeOK
<1>3. ASSUME NEW t \in Ids
      PROVE  /\ th'[t].at = th[t].at /\ th'[t].done = th[t].done
             /\ th'[t].pipe = th[t].pipe /\ th'[t].pill = th[t].pill
             /\ th'[t].cont = IF t = head /\ queue # <<>> /\ a[si][head] = 0
                              THEN th[t].cont + 1 ELSE th[t].cont
  <2>1. th[t] \in ThreadRec
    BY <1>2
  <2> DEFINE cont == IF t = head /\ queue # <<>> /\ a[si][head] = 0
                     THEN th[t].cont + 1 ELSE th[t].cont
  <2>2. PICK prio : th'[t] = [th[t] EXCEPT !.prio = prio, !.cont = cont]
    BY DEF Dispatch, Released
  <2> HIDE DEF cont
  <2>3. /\ th'[t].at = th[t].at /\ th'[t].done = th[t].done
        /\ th'[t].pipe = th[t].pipe /\ th'[t].pill = th[t].pill
        /\ th'[t].cont = cont
    BY <2>1, <2>2 DEF ThreadRec
  <2> QED
    BY <2>3 DEF cont
<1> QED
  BY <1>1, <1>2, <1>3

LEMMA DispatchTokens == IInv /\ Dispatch => TokenInv'
<1> SUFFICES ASSUME IInv, Dispatch PROVE TokenInv'
  OBVIOUS
<1>1. /\ TypeOK /\ ListsFollow /\ TokenInv /\ pc = "dispatch" /\ Testing
  BY DEF Dispatch, IInv, StructInv, TokenInv, Testing
<1> DEFINE post(t) == t = head /\ queue # <<>> /\ a[si][head] = 0
<1>2. /\ Ids' = Ids /\ head' = head /\ algo' = algo
      /\ UNCHANGED <<queue, a, si, jobs, acked>>
      /\ pc' = IF queue = <<>> THEN "recalc" ELSE "block"
  BY <1>1, DispatchEffect
<1>3. queue = <<>> => head \notin Ids
  BY <1>1, HeadType
<1>4. \A t \in Ids :
        /\ th'[t].at = th[t].at /\ th'[t].done = th[t].done
        /\ th'[t].pipe = th[t].pipe /\ th'[t].pill = th[t].pill
        /\ th'[t].cont = IF post(t) THEN th[t].cont + 1 ELSE th[t].cont
  BY <1>1, DispatchEffect
<1> HIDE DEF post
<1>5. NobodyTold'
  BY <1>1, <1>2, <1>4 DEF TokenInv, NobodyTold, Testing
<1>6. ReleaseConservation'
  <2> SUFFICES ASSUME NEW t \in Ids
               PROVE  Outstanding(t)' + acked[t]
                        = jobs[t] + (IF InProgress(t)' THEN 1 ELSE 0)
    BY <1>2 DEF ReleaseConservation
  <2>1. /\ Outstanding(t) + acked[t] = jobs[t] + (IF a[si][t] > 0 THEN 1 ELSE 0)
        /\ th[t].cont \in Nat /\ th[t].done \in Nat /\ a[si][t] \in Nat
        /\ acked[t] \in Nat /\ jobs[t] \in Nat
    BY <1>1, Counts DEF TokenInv, ReleaseConservation, InProgress
  <2>2. Outstanding(t)' = IF post(t) THEN Outstanding(t) + 1 ELSE Outstanding(t)
    BY <1>4, <2>1 DEF Outstanding, Busy
  <2>3. InProgress(t)' <=> a[si][t] > 0 \/ post(t)
    BY <1>2, <1>3, <2>1 DEF InProgress, post
  <2>4. post(t) => a[si][t] = 0
    BY DEF post
  <2>5. Outstanding(t) \in Nat
    BY <2>1 DEF Outstanding
  <2> QED
    BY <2>1, <2>2, <2>3, <2>4, <2>5
<1>7. RmaTokens'
  BY <1>1, <1>2, <1>3 DEF TokenInv, RmaTokens, Testing
<1> QED
  BY <1>5, <1>6, <1>7 DEF TokenInv

(* A block hook takes a token of the head, or leaves it alone.             *)
LEMMA BlockEffect ==
  ASSUME TypeOK, ListsFollow, Block
  PROVE  /\ pc = "block" /\ pc' = "recalc"
         /\ Ids' = Ids /\ set' = set /\ head' = head /\ algo' = algo
         /\ UNCHANGED <<queue, r, a, si, jobs>>
         /\ head \in Ids /\ DOMAIN th' = DOMAIN th
         /\ \A t \in Ids :
              /\ th'[t].at = th[t].at /\ th'[t].cont = th[t].cont
              /\ th'[t].pipe = th[t].pipe /\ th'[t].pill = th[t].pill
              /\ IF t = head /\ TakeDone(head)
                 THEN th'[t].done = th[t].done - 1 /\ acked'[t] = acked[t] + 1
                 ELSE th'[t].done = th[t].done     /\ acked'[t] = acked[t]
<1>1. /\ pc = "block" /\ pc' = "recalc" /\ Testing
      /\ Ids' = Ids /\ set' = set /\ head' = head /\ algo' = algo
      /\ UNCHANGED <<queue, r, a, si, jobs>>
      /\ DOMAIN th' = DOMAIN th
  BY DEF Block, TakeDone, NotDone, Ids, set, head, history, algo, Testing
<1>2. head \in Ids
  BY <1>1, HeadType DEF ListsFollow
<1>3. ASSUME NEW t \in Ids
      PROVE  /\ th'[t].at = th[t].at /\ th'[t].cont = th[t].cont
             /\ th'[t].pipe = th[t].pipe /\ th'[t].pill = th[t].pill
             /\ IF t = head /\ TakeDone(head)
                THEN th'[t].done = th[t].done - 1 /\ acked'[t] = acked[t] + 1
                ELSE th'[t].done = th[t].done     /\ acked'[t] = acked[t]
  <2>1. th \in [Ids -> ThreadRec] /\ acked \in [Ids -> Nat] /\ th[t] \in ThreadRec
    BY <1>1, Counts
  <2>2. CASE TakeDone(head)
    BY <1>2, <2>1, <2>2 DEF TakeDone, ThreadRec
  <2>3. CASE ~TakeDone(head)
    BY <2>3 DEF Block, NotDone
  <2> QED
    BY <2>2, <2>3
<1> QED
  BY <1>1, <1>2, <1>3

(* A token that is taken is counted; RMA does not go on without it.        *)
LEMMA BlockTokens == IInv /\ Block => TokenInv'
<1> SUFFICES ASSUME IInv, Block PROVE TokenInv'
  OBVIOUS
<1>1. /\ TypeOK /\ ListsFollow /\ TokenInv /\ pc = "block" /\ Testing
      /\ pc' = "recalc"
  BY DEF Block, IInv, StructInv, TokenInv, Testing
<1> DEFINE taken(t) == t = head /\ TakeDone(head)
<1>2. /\ Ids' = Ids /\ head' = head /\ algo' = algo
      /\ UNCHANGED <<queue, a, si, jobs>>
  BY <1>1, BlockEffect
<1>4. \A t \in Ids :
        /\ th'[t].at = th[t].at /\ th'[t].cont = th[t].cont
        /\ th'[t].pipe = th[t].pipe /\ th'[t].pill = th[t].pill
        /\ th'[t].done = IF taken(t) THEN th[t].done - 1 ELSE th[t].done
        /\ acked'[t] = IF taken(t) THEN acked[t] + 1 ELSE acked[t]
  BY <1>1, BlockEffect
<1>5. algo = "rma" => taken(head)
  BY DEF Block, Preemptive
<1> HIDE DEF taken
<1>6. NobodyTold'
  BY <1>1, <1>2, <1>4 DEF TokenInv, NobodyTold, Testing
<1>7. ReleaseConservation'
  <2> SUFFICES ASSUME NEW t \in Ids
               PROVE  Outstanding(t)' + acked'[t]
                        = jobs[t] + (IF InProgress(t)' THEN 1 ELSE 0)
    BY <1>2 DEF ReleaseConservation
  <2>1. /\ Outstanding(t) + acked[t] = jobs[t] + (IF InProgress(t) THEN 1 ELSE 0)
        /\ th[t].cont \in Nat /\ th[t].done \in Nat /\ acked[t] \in Nat
    BY <1>1, Counts DEF TokenInv, ReleaseConservation
  <2>2. InProgress(t)' <=> InProgress(t)
    BY <1>1, <1>2 DEF InProgress
  <2>3. Outstanding(t)' + acked'[t] = Outstanding(t) + acked[t]
    BY <1>4, <2>1 DEF Outstanding, Busy
  <2> QED
    BY <2>1, <2>2, <2>3
<1>8. RmaTokens'
  <2> SUFFICES ASSUME algo = "rma", NEW t \in Ids
               PROVE  /\ a[si][t] = 0
                      /\ acked'[t] = jobs[t] + (IF t = head THEN 1 ELSE 0)
    BY <1>1, <1>2 DEF RmaTokens
  <2>1. a[si][t] = 0 /\ acked[t] = jobs[t]
    BY <1>1, Counts DEF TokenInv, RmaTokens
  <2>2. taken(t) <=> t = head
    BY <1>5 DEF taken
  <2>3. jobs[t] \in Nat /\ acked[t] \in Nat
    BY <1>1, Counts
  <2> QED
    BY <1>4, <2>1, <2>2, <2>3
<1> QED
  BY <1>6, <1>7, <1>8 DEF TokenInv

(* The recalc hook touches the counters only.                              *)
LEMMA RecalcEffect ==
  ASSUME TypeOK, Recalc
  PROVE  /\ pc = "recalc" /\ pc' \in {"schedule", "halt"}
         /\ Ids' = Ids /\ set' = set /\ head' = head /\ algo' = algo
         /\ UNCHANGED <<queue, si, th, acked>>
         /\ \A t \in Ids :
              /\ r'[si][t] = Sched!NewR(t) /\ a'[si][t] = Sched!NewA(t)
              /\ jobs'[t] = IF t = head /\ Sched!Completes THEN jobs[t] + 1
                                                            ELSE jobs[t]
BY DEF Recalc, TypeOK, Ids, set, algo, head

(* The job the hook completes, or leaves in progress, is the head's.       *)
LEMMA RecalcTokens == IInv /\ Recalc => TokenInv'
<1> SUFFICES ASSUME IInv, Recalc PROVE TokenInv'
  OBVIOUS
<1>1. /\ TypeOK /\ ListsFollow /\ TokenInv /\ pc = "recalc" /\ Testing
      /\ pc' \in {"schedule", "halt"}
  BY DEF Recalc, IInv, StructInv, TokenInv, Testing
<1>2. CASE pc' = "halt"
  BY <1>2, BetweenTokens
<1>3. CASE pc' = "schedule"
  <2>1. /\ Ids' = Ids /\ algo' = algo /\ UNCHANGED <<si, th, acked>>
    BY <1>1, RecalcEffect
  <2>2. \A t \in Ids :
          /\ a'[si][t] = Sched!NewA(t)
          /\ jobs'[t] = IF t = head /\ Sched!Completes THEN jobs[t] + 1
                                                        ELSE jobs[t]
    BY <1>1, RecalcEffect
  <2>3. 0 \notin Ids /\ algo \in {"rma", "edf", "sct"}
    BY <1>1, SetUnderTest
  <2>4. NobodyTold'
    BY <1>1, <2>1 DEF TokenInv, NobodyTold, Testing
  <2>5. ReleaseConservation'
    <3> SUFFICES ASSUME NEW t \in Ids
                 PROVE  Outstanding(t) + acked[t]
                          = jobs'[t] + (IF Sched!NewA(t) > 0 THEN 1 ELSE 0)
      BY <1>3, <2>1, <2>2
      DEF ReleaseConservation, Outstanding, Busy, InProgress
    <3>1. /\ Outstanding(t) + acked[t] = jobs[t] + (IF InProgress(t) THEN 1 ELSE 0)
          /\ jobs[t] \in Nat /\ a[si][t] \in Nat
      BY <1>1, Counts DEF TokenInv, ReleaseConservation
    <3>2. CASE t # head
      <4>1. Sched!NewA(t) = a[si][t] /\ jobs'[t] = jobs[t]
        BY <1>1, <2>2, <3>2, RecalcType
      <4>2. InProgress(t) <=> a[si][t] > 0
        BY <3>2 DEF InProgress
      <4> QED
        BY <3>1, <4>1, <4>2
    <3>3. CASE t = head
      <4>1. InProgress(t) /\ head # 0
        BY <1>1, <2>3, <3>3 DEF InProgress
      <4>2. CASE algo = "rma"
        <5>1. Sched!NewA(t) = a[si][t] /\ Sched!Completes
          BY <1>1, <4>1, <4>2, RecalcType
        <5>2. a[si][t] = 0
          BY <1>1, <4>2 DEF TokenInv, RmaTokens
        <5> QED
          BY <2>2, <3>1, <3>3, <4>1, <5>1, <5>2
      <4>3. CASE algo # "rma"
        <5>1. IF Sched!Completes THEN Sched!NewA(t) = 0 ELSE Sched!NewA(t) > 0
          BY <1>1, <3>3, <4>1, <4>3, RecalcType
        <5> QED
          BY <2>2, <3>1, <3>3, <4>1, <5>1
      <4> QED
        BY <4>2, <4>3
    <3> QED
      BY <3>2, <3>3
  <2>6. RmaTokens'
    <3> SUFFICES ASSUME algo = "rma", NEW t \in Ids
                 PROVE  Sched!NewA(t) = 0 /\ acked[t] = jobs'[t]
      <4>1. \A t \in Ids : acked'[t] = acked[t]
        BY <2>1
      <4>2. \A t \in Ids : jobs'[t] \in Nat
        BY <1>1, <2>2, Counts
      <4> QED
        BY <1>3, <2>1, <2>2, <4>1, <4>2 DEF RmaTokens
    <3>1. /\ a[si][t] = 0
          /\ acked[t] = jobs[t] + (IF t = head THEN 1 ELSE 0)
      BY <1>1 DEF TokenInv, RmaTokens
    <3>2. Sched!NewA(t) = 0 /\ (t = head => Sched!Completes)
      BY <1>1, <2>3, <3>1, RecalcType
    <3>3. jobs[t] \in Nat
      BY <1>1, Counts
    <3> QED
      BY <2>2, <3>1, <3>2, <3>3
  <2> QED
    BY <2>4, <2>5, <2>6 DEF TokenInv
<1> QED
  BY <1>1, <1>2, <1>3

(* A thread moves its job from tk_sem_cont to the spin and on to           *)
(* tk_sem_done.                                                            *)
LEMMA TaskTokens ==
  ASSUME IInv, NEW t \in AllTasks, Task(t)
  PROVE  TokenInv'
<1>1. /\ TypeOK /\ ListsFollow /\ FreshThreads /\ TokenInv /\ t \in DOMAIN th
  BY DEF IInv, StructInv, TokenInv, Task
<1>2. UNCHANGED <<set_list, sched, history>>
  BY DEF Task, Wake, ReadPill, FinishJob
<1>3. Ids' = Ids /\ head' = head /\ algo' = algo
  BY <1>2 DEF Ids, set, head, algo, sched
<1>4. CASE ~(pc = "start" \/ Testing)
  BY <1>2, <1>4
  DEF TokenInv, NobodyTold, ReleaseConservation, RmaTokens, Testing, sched
<1>5. CASE pc = "start" \/ Testing
  <2>1. th \in [Ids -> ThreadRec] /\ t \in Ids /\ th[t] \in ThreadRec
    BY <1>1, <1>5 DEF TypeOK, Testing
  <2>2. ~th[t].pipe /\ th[t].pill # PoisonPill
    BY <1>1, <1>5, <2>1 DEF TokenInv, NobodyTold
  <2>3. /\ th[t].cont \in Nat /\ th[t].done \in Nat
        /\ \A u \in Ids : u # t => th'[u] = th[u]
    BY <2>1 DEF ThreadRec, Task, Wake, ReadPill, FinishJob
  <2>4. /\ ~th'[t].pipe /\ th'[t].pill # PoisonPill
        /\ Outstanding(t)' = Outstanding(t)
    <3>1. CASE Wake(t)
      BY <2>1, <2>2, <2>3, <3>1 DEF Wake, Outstanding, Busy, ThreadRec
    <3>2. CASE ReadPill(t)
      BY <2>1, <2>2, <2>3, <3>2 DEF ReadPill, Outstanding, Busy, ThreadRec
    <3>3. CASE FinishJob(t)
      BY <2>1, <2>2, <2>3, <3>3 DEF FinishJob, Outstanding, Busy, ThreadRec
    <3> QED
      BY <3>1, <3>2, <3>3 DEF Task
  <2>5. \A u \in Ids : Outstanding(u)' = Outstanding(u)
    BY <2>3, <2>4 DEF Outstanding, Busy
  <2>6. NobodyTold'
    BY <1>1, <1>2, <1>3, <2>3, <2>4 DEF TokenInv, NobodyTold, Testing, sched
  <2>7. ReleaseConservation'
    BY <1>1, <1>2, <1>3, <2>5
    DEF TokenInv, ReleaseConservation, Testing, InProgress, sched, history
  <2>8. RmaTokens'
    BY <1>1, <1>2, <1>3 DEF TokenInv, RmaTokens, Testing, sched, history
  <2> QED
    BY <2>6, <2>7, <2>8 DEF TokenInv
<1> QED
  BY <1>4, <1>5

LEMMA NextIInv ==
  ASSUME PoisonPill \notin Garbage, IInv, [Next]_vars
  PROVE  IInv'
<1>1. StructInv'
  BY NextStruct DEF IInv
<1>2. TokenInv'
  <2>1. CASE Prime
    BY <2>1, PrimeTokens
  <2>2. ASSUME NEW t \in DOMAIN th, Start(t) PROVE TokenInv'
    BY <2>2, StartTokens
  <2>3. CASE Schedule
    BY <2>3, ScheduleTokens
  <2>4. CASE Dispatch
    BY <2>4, DispatchTokens
  <2>5. CASE Block
    BY <2>5, BlockTokens
  <2>6. CASE Recalc
    BY <2>6, RecalcTokens
  <2>7. CASE StopWrite \/ StopPost \/ StopJoin
    BY <2>7, BetweenTokens DEF StopWrite, StopPost, StopJoin
  <2>8. ASSUME NEW t \in AllTasks, Task(t) PROVE TokenInv'
    BY <2>8, TaskTokens
  <2>9. CASE Terminated \/ UNCHANGED vars
    BY <2>9
    DEF Terminated, vars, sched, history, IInv, TokenInv, NobodyTold,
        ReleaseConservation, RmaTokens, Testing, Outstanding, Busy, InProgress,
        Ids, set, head, algo
  <2> QED
    BY <2>1, <2>2, <2>3, <2>4, <2>5, <2>6, <2>7, <2>8, <2>9 DEF Next, Scheduler
<1> QED
  BY <1>1, <1>2 DEF IInv, TokenInv

(* IInv is invariant, if an uninitialised pill never looks like the pill.  *)
THEOREM Invariance ==
  ASSUME PoisonPill \notin Garbage
  PROVE  Spec => []IInv
<1>1. Init => IInv
  BY InitStruct
  DEF Init, IInv, NobodyTold, ReleaseConservation, RmaTokens, Testing
<1>2. IInv /\ [Next]_vars => IInv'
  BY NextIInv
<1> QED
  BY <1>1, <1>2, PTL DEF Spec

(* Every job is released exactly once: the tokens in the semaphores and    *)
(* the jobs in the threads account for all that the counters say was       *)
(* started (fixt_algo_run with fixt_task_routine).                         *)
THEOREM ReleasesConserved ==
  ASSUME PoisonPill \notin Garbage
  PROVE  Spec => []ReleaseConservation
<1>1. IInv => ReleaseConservation
  BY DEF IInv
<1> QED
  BY <1>1, Invariance, PTL

(* Under RMA the counters do know what the threads do.                     *)
LEMMA Lockstep == IInv => RmaLockstep
<1> SUFFICES ASSUME IInv, Testing, algo = "rma", NEW t \in Ids
             PROVE  Outstanding(t) = IF pc = "block" /\ t = head THEN 1 ELSE 0
  BY DEF RmaLockstep
<1>1. /\ Outstanding(t) + acked[t] = jobs[t] + (IF InProgress(t) THEN 1 ELSE 0)
      /\ a[si][t] = 0
      /\ acked[t] = jobs[t] + (IF pc = "recalc" /\ t = head THEN 1 ELSE 0)
  BY DEF IInv, ReleaseConservation, RmaTokens
<1>2. /\ th[t].cont \in Nat /\ th[t].done \in Nat
      /\ jobs[t] \in Nat /\ acked[t] \in Nat
  BY Counts DEF IInv, StructInv
<1>3. Outstanding(t) \in Nat
  BY <1>2 DEF Outstanding
<1>4. InProgress(t) <=> pc \in {"block", "recalc"} /\ t = head
  BY <1>1 DEF InProgress
<1> QED
  BY <1>1, <1>2, <1>3, <1>4

(* Between two rounds of RMA nothing is outstanding (rma_block,            *)
(* fixt_task_routine).                                                     *)
THEOREM RmaInLockstep ==
  ASSUME PoisonPill \notin Garbage
  PROVE  Spec => []RmaLockstep
BY Lockstep, Invariance, PTL

(* A thread whose pill is in the pipe starts no further job, whatever      *)
(* Garbage is (fixt_task_stop, fixt_task_routine).                         *)
THEOREM NothingStartsAfterPill == Spec => NoStartAfterPill
<1> DEFINE A == \A t \in DOMAIN th :
                  t \in DOMAIN th' /\ th[t].pipe /\ th[t].at # "spin"
                    => th'[t].at # "spin"
<1>1. StructInv /\ [Next]_vars => [A]_vars
  <2> SUFFICES ASSUME StructInv, Next,
                      NEW t \in DOMAIN th, t \in DOMAIN th',
                      th[t].pipe, th[t].at # "spin"
               PROVE  th'[t].at # "spin"
    OBVIOUS
  <2>1. th \in [Ids -> ThreadRec] /\ t \in Ids /\ th[t] \in ThreadRec
        /\ pc \notin {"prime", "term"}
    BY DEF StructInv, TypeOK
  <2>2. ASSUME NEW u \in DOMAIN th, Start(u) PROVE th'[t].at # "spin"
    BY <2>1, <2>2 DEF Start, Starting, NewThread
  <2>3. CASE Dispatch
    BY <2>1, <2>3 DEF Dispatch, Released, ThreadRec
  <2>4. CASE Block
    BY <2>1, <2>4 DEF Block, TakeDone, NotDone, ThreadRec
  <2>5. CASE StopWrite \/ StopPost
    BY <2>1, <2>5 DEF StopWrite, StopPost, ThreadRec
  <2>6. CASE StopJoin
    BY <2>1, <2>6 DEF StopJoin
  <2>7. ASSUME NEW u \in AllTasks, Task(u) PROVE th'[t].at # "spin"
    BY <2>1, <2>7 DEF Task, Wake, ReadPill, FinishJob, ThreadRec
  <2>8. CASE Prime \/ Schedule \/ Recalc \/ Terminated
    BY <2>1, <2>8 DEF Prime, Schedule, Recalc, Terminated, vars
  <2> QED
    BY <2>2, <2>3, <2>4, <2>5, <2>6, <2>7, <2>8 DEF Next, Scheduler
<1> QED
  BY <1>1, Structure, PTL DEF Spec, NoStartAfterPill
-----------------------------------------------------------------------------
(* FixtThreads implements FixtSched.                                       *)

(* The comparators compare integers.                                       *)
LEMMA KeyType ==
  ASSUME TypeOK, pc = "schedule", NEW t \in Ids
  PROVE  Sched!Key(t) \in Int
<1>1. set[t].p \in Int /\ set[t].d \in Int /\ set[t].c \in Int
  <2>1. set \in Seq(TaskRec)
    BY SetUnderTest
  <2>2. set[t] \in TaskRec
    BY <2>1 DEF Ids
  <2> QED
    BY <2>2 DEF TaskRec
<1>2. r[si][t] \in Int /\ a[si][t] \in Int /\ algo \in {"rma", "edf", "sct"}
  BY SchedView, SetUnderTest
<1>3. /\ Sched!RmaKey(t) = set[t].p
      /\ Sched!EdfKey(t) = set[t].d + r[si][t]
      /\ Sched!SctKey(t) = set[t].c - a[si][t]
  BY DEF Sched!RmaKey, Sched!EdfKey, Sched!SctKey, Sched!RemainingTime,
         Sched!CompletionTime, Between
<1>4. /\ algo = "rma" => Sched!Key(t) = Sched!RmaKey(t)
      /\ algo = "edf" => Sched!Key(t) = Sched!EdfKey(t)
      /\ algo = "sct" => Sched!Key(t) = Sched!SctKey(t)
  BY Zenon DEF Sched!Key
<1> QED
  BY <1>1, <1>2, <1>3, <1>4

(* A sorted list of as many ready tasks as there are holds each of them    *)
(* once (fixt_algo_schedule).                                              *)
LEMMA SortedQueue ==
  ASSUME TypeOK, pc = "schedule",
         NEW q \in [1..Cardinality(Sched!Ready) -> Sched!Ready],
         \A i, j \in DOMAIN q : i < j => Sched!Before(q[i], q[j])
  PROVE  /\ \A i, j \in DOMAIN q : i # j => q[i] # q[j]
         /\ \A u \in Sched!Ready : \E i \in DOMAIN q : q[i] = u
<1> DEFINE n == Cardinality(Sched!Ready)
<1>1. n \in Nat /\ IsFiniteSet(Sched!Ready)
  BY QueueType
<1>2. Sched!Ready \subseteq Ids /\ Ids = 1..Len(set) /\ Len(set) \in Nat
  BY SchedView, SetUnderTest
<1>3. ASSUME NEW t \in Ids PROVE ~Sched!Before(t, t)
  <2>1. Sched!Key(t) \in Int /\ t \in Int
    BY <1>2, KeyType
  <2> QED
    BY <2>1 DEF Sched!Before
<1>4. q \in [1..n -> Sched!Ready]
  OBVIOUS
<1> HIDE DEF n
<1>5. \A i, j \in 1..n : i # j => q[i] # q[j]
  <2> SUFFICES ASSUME NEW i \in 1..n, NEW j \in 1..n, i < j
               PROVE  q[i] # q[j]
    BY <1>1
  <2>1. Sched!Before(q[i], q[j]) /\ q[i] \in Ids
    BY <1>2, <1>4
  <2> QED
    BY <1>3, <2>1
<1>6. q \in Injection(1..n, Sched!Ready)
  BY <1>4, <1>5 DEF Injection, IsInjective
<1>7. Cardinality(1..n) = n
  BY <1>1, FS_Interval
<1>8. q \in Surjection(1..n, Sched!Ready)
  BY <1>1, <1>6, <1>7, FS_Injection DEF n
<1>9. \A u \in Sched!Ready : \E i \in 1..n : q[i] = u
  BY <1>8 DEF Surjection
<1> QED
  BY <1>4, <1>5, <1>9

(* Its first element is the head FixtSched picks.                          *)
LEMMA SortedHead ==
  ASSUME TypeOK, pc = "schedule",
         NEW q \in [1..Cardinality(Sched!Ready) -> Sched!Ready],
         \A i, j \in DOMAIN q : i < j => Sched!Before(q[i], q[j])
  PROVE  Sched!IsHead(IF q = <<>> THEN 0 ELSE q[1])
<1> DEFINE n == Cardinality(Sched!Ready)
<1>1. n \in Nat /\ (q = <<>> <=> Sched!Ready = {})
  BY QueueType
<1>2. \A u \in Sched!Ready : \E i \in 1..n : q[i] = u
  BY SortedQueue
<1>3. CASE q = <<>>
  BY <1>1, <1>3 DEF Sched!IsHead, Sched!NoTask
<1>4. CASE q # <<>>
  <2>1. q \in [1..n -> Sched!Ready]
    OBVIOUS
  <2> HIDE DEF n
  <2>2. 1 \in 1..n /\ q[1] \in Sched!Ready
    <3>1. PICK u \in Sched!Ready : TRUE
      BY <1>1, <1>4
    <3>2. PICK i \in 1..n : q[i] = u
      BY <1>2
    <3>3. 1 \in 1..n
      BY <1>1, <3>2
    <3> QED
      BY <2>1, <3>3
  <2>3. ASSUME NEW u \in Sched!Ready \ {q[1]} PROVE Sched!Before(q[1], u)
    <3>1. PICK i \in 1..n : q[i] = u
      BY <1>2
    <3>2. 1 < i
      BY <1>1, <2>3, <3>1
    <3> QED
      BY <2>1, <2>2, <3>1, <3>2
  <2> QED
    BY <1>1, <1>4, <2>2, <2>3 DEF Sched!IsHead
<1> QED
  BY <1>3, <1>4

(* The last thread started, the test is primed.                            *)
LEMMA StartImplements ==
  ASSUME StructInv, NEW t \in DOMAIN th, Start(t)
  PROVE  [Sched!Next]_(Sched!vars)
<1>1. /\ TypeOK /\ ListsFollow /\ FreshThreads /\ pc = "start" /\ queue = <<>>
      /\ TypeOK'
  BY StartStruct DEF StructInv, Start, Starting, ListsFollow, Between
<1>2. /\ UNCHANGED <<set_list, ai, si, queue, al_schedulable, history>>
      /\ algo' = algo /\ head' = head /\ set' = set /\ Ids' = Ids
      /\ pc' \in {"start", "schedule"}
  BY DEF Start, Starting, algo, head, set, Ids
<1>3. CASE pc' = "start"
  BY <1>1, <1>2, <1>3 DEF Sched!vars, Between
<1>4. CASE pc' = "schedule"
  <2>1. th \in [Ids -> ThreadRec] /\ t \in Ids /\ set \in AllSets
    BY <1>1, SetUnderTest DEF TypeOK
  <2>2. \A u \in Ids : u # t => th[u].at = "wait"
    <3>1. Len(set) \in Nat /\ Ids = 1..Len(set) /\ al_tasks = [v \in Ids |-> v]
      BY <1>1, SetUnderTest DEF ListsFollow
    <3>2. t = Len(set)
      BY <1>4, <3>1 DEF Start, Starting
    <3>3. \A u \in Ids : u # t => u \in 1..(t - 1)
      BY <3>1, <3>2
    <3> QED
      BY <1>1, <3>3 DEF Start, Starting, FreshThreads
  <2>3. \A u \in Ids : r'[si][u] = 0 /\ a'[si][u] = 0
    BY <1>1, <2>1, <2>2 DEF Start, FreshThreads, TypeOK, Ids, set
  <2>4. r'[si] \in [Ids -> Int] /\ a'[si] \in [Ids -> Nat]
    BY <1>1, <1>2 DEF TypeOK, Ids, set
  <2>5. r'[si] = [u \in Ids |-> 0] /\ a'[si] = [u \in Ids |-> 0]
    BY <2>3, <2>4
  <2>6. jobs' = [u \in Ids |-> 0] /\ now' = 0
    <3>1. jobs \in [Ids -> Nat]
      BY <1>1 DEF TypeOK
    <3> QED
      BY <1>1, <1>2, <3>1 DEF FreshThreads, history
  <2>7. Sched!Prime
    BY <1>1, <1>2, <1>4, <2>1, <2>5, <2>6 DEF Sched!Prime, Between, Ids
  <2> QED
    BY <2>7 DEF Sched!Next
<1> QED
  BY <1>2, <1>3, <1>4

LEMMA ScheduleImplements ==
  ASSUME StructInv, Schedule
  PROVE  Sched!Schedule
<1>1. TypeOK /\ pc = "schedule"
  BY DEF StructInv, Schedule
<1>2. PICK q \in [1..Cardinality(Sched!Ready) -> Sched!Ready] :
        /\ \A i, j \in DOMAIN q : i < j => Sched!Before(q[i], q[j])
        /\ queue' = q
        /\ al_schedulable' =
             \A t \in Sched!Ready : Sched!Fits(t, IF q = <<>> THEN 0 ELSE q[1])
  BY DEF Schedule
<1> DEFINE h == IF q = <<>> THEN 0 ELSE q[1]
<1>3. Sched!IsHead(h) /\ head' = h
  BY <1>1, <1>2, SortedHead DEF head
<1>4. q \in Seq(Ids) /\ Sched!Ids = Ids
  BY <1>1, QueueType, SchedView
<1>5. h \in Sched!Ids \cup {Sched!NoTask}
  <2>1. \A S : \A f \in Seq(S) : f # <<>> => f[1] \in S
    OBVIOUS
  <2>2. q # <<>> => q[1] \in Ids
    BY <1>4, <2>1, Zenon
  <2> QED
    BY <1>4, <2>2 DEF Sched!NoTask
<1>6. /\ UNCHANGED <<set_list, ai, si, r, a, history>>
      /\ algo' = algo /\ set' = set
      /\ pc' = IF al_schedulable' THEN "dispatch" ELSE "halt"
  BY DEF Schedule, algo, set
<1>7. al_schedulable' = \A t \in Sched!Ready : Sched!Fits(t, h)
  BY <1>2
<1> HIDE DEF h
<1>8. /\ \/ /\ \A t \in Sched!Ready : Sched!Fits(t, h)
            /\ al_schedulable' = TRUE /\ pc' = "dispatch"
         \/ /\ \E t \in Sched!Ready : ~Sched!Fits(t, h)
            /\ al_schedulable' = FALSE /\ pc' = "halt"
  BY <1>6, <1>7
<1> QED
  BY <1>1, <1>3, <1>5, <1>6, <1>8 DEF Sched!Schedule, Between, history

LEMMA RecalcImplements ==
  ASSUME StructInv, Recalc
  PROVE  Sched!Run
<1>1. TypeOK /\ pc = "recalc" /\ Sched!Ids = Ids
  BY SchedView DEF StructInv, Recalc
<1>2. /\ UNCHANGED <<set_list, ai, si, queue, al_schedulable>>
      /\ algo' = algo /\ set' = set /\ head' = head
      /\ pc' \in {"schedule", "halt"}
      /\ pc' = "schedule" => now' < Horizon
      /\ now' = now + Sched!Delta
  BY DEF Recalc, algo, set, head
<1>3. /\ r'[si] = [t \in Ids |-> Sched!NewR(t)]
      /\ a'[si] = [t \in Ids |-> Sched!NewA(t)]
      /\ jobs' = [t \in Ids |-> IF t = head /\ Sched!Completes THEN jobs[t] + 1
                                                              ELSE jobs[t]]
  BY <1>1 DEF Recalc, TypeOK
<1>4. Sched!Recalc
  BY <1>1, <1>2, <1>3 DEF Sched!Recalc, Between
<1> QED
  BY <1>1, <1>2, <1>4 DEF Sched!Run, Between

(* Joining the last thread ends the test; joining another is a part of the *)
(* halt that FixtSched does not distinguish.                               *)
LEMMA StopJoinImplements ==
  ASSUME StructInv, StopJoin
  PROVE  [Sched!Next]_(Sched!vars)
<1>1. TypeOK /\ TypeOK' /\ pc = "join"
  BY StopJoinStruct DEF StructInv, StopJoin
<1>2. CASE al_tasks' # <<>>
  <2>1. /\ pc' = "halt"
        /\ UNCHANGED <<set_list, ai, si, queue, al_schedulable, r, a, history>>
    BY <1>2 DEF StopJoin
  <2>2. algo' = algo /\ set' = set /\ head' = head
    BY <2>1 DEF algo, set, head
  <2> QED
    BY <1>1, <2>1, <2>2 DEF Sched!vars, Between, history
<1>3. CASE al_tasks' = <<>>
  <2>1. pc' \in {"prime", "term"} /\ queue' = <<>> /\ now' = 0
    BY <1>3 DEF StopJoin
  <2>2. algo' \in {AlgoList[i] : i \in DOMAIN AlgoList} /\ al_schedulable' \in BOOLEAN
    BY <1>1 DEF algo, TypeOK
  <2>3. head' = 0
    BY <2>1 DEF head
  <2>4. Sched!Halt
    BY <1>1, <2>1, <2>2, <2>3 DEF Sched!Halt, Sched!NoTask, Between
  <2> QED
    BY <2>4 DEF Sched!Next
<1> QED
  BY <1>2, <1>3

(* Everything else is invisible to FixtSched.                              *)
LEMMA OthersStutter ==
  ASSUME StructInv,
         \/ Prime \/ Dispatch \/ Block \/ StopWrite \/ StopPost
         \/ (\E t \in AllTasks : Task(t)) \/ Terminated \/ UNCHANGED vars
  PROVE  UNCHANGED Sched!vars
<1>1. CASE Prime
  <2>1. queue' = queue /\ algo' = algo /\ head' = head
    BY <1>1 DEF Prime, algo, head
  <2> QED
    BY <1>1, <2>1 DEF Prime, Sched!vars, Between
<1>2. CASE Dispatch \/ Block \/ StopWrite \/ StopPost
  <2>1. UNCHANGED <<set_list, ai, si, queue, al_schedulable, r, a, now, jobs>>
    BY <1>2 DEF Dispatch, Block, StopWrite, StopPost, history
  <2>2. algo' = algo /\ set' = set /\ head' = head
    BY <2>1 DEF algo, set, head
  <2>3. \/ pc = "dispatch" /\ pc' \in {"block", "recalc"}
        \/ pc = "block" /\ pc' = "recalc"
        \/ pc \in {"halt", "post"} /\ pc' \in {"post", "join"}
    BY <1>2 DEF Dispatch, Block, StopWrite, StopPost
  <2> QED
    BY <2>1, <2>2, <2>3 DEF Sched!vars, Between
<1>3. CASE (\E t \in AllTasks : Task(t)) \/ Terminated \/ UNCHANGED vars
  <2>1. UNCHANGED <<set_list, sched, history>>
    BY <1>3 DEF Task, Wake, ReadPill, FinishJob, Terminated, vars
  <2>2. algo' = algo /\ set' = set /\ head' = head
    BY <2>1 DEF algo, set, head, sched
  <2> QED
    BY <2>1, <2>2 DEF Sched!vars, Between, sched, history
<1> QED
  BY <1>1, <1>2, <1>3

(* Whatever the threads and the timed waits do, and whatever Garbage is,   *)
(* each test of the fixture is a test of FixtSched: the counters, the      *)
(* verdicts and the order of the rounds are those of the bookkeeping.      *)
THEOREM Refinement == Spec => ImplementsSched
<1>1. Init => Sched!Init
  <2> SUFFICES ASSUME Init PROVE Sched!Init
    OBVIOUS
  <2>1. StructInv /\ pc = "prime" /\ queue = <<>>
    BY InitStruct DEF Init
  <2>2. algo \in {AlgoList[i] : i \in DOMAIN AlgoList} /\ head = 0
    BY <2>1 DEF algo, head, StructInv, TypeOK
  <2> QED
    BY <2>1, <2>2 DEF Sched!Init, Sched!NoTask, Between, StructInv, TypeOK
<1>2. StructInv /\ [Next]_vars => [Sched!Next]_(Sched!vars)
  <2> SUFFICES ASSUME StructInv, [Next]_vars
               PROVE  [Sched!Next]_(Sched!vars)
    OBVIOUS
  <2>1. ASSUME NEW t \in DOMAIN th, Start(t) PROVE [Sched!Next]_(Sched!vars)
    BY <2>1, StartImplements
  <2>2. CASE Schedule
    BY <2>2, ScheduleImplements DEF Sched!Next
  <2>3. CASE Recalc
    BY <2>3, RecalcImplements DEF Sched!Next
  <2>4. CASE StopJoin
    BY <2>4, StopJoinImplements
  <2>5. CASE \/ Prime \/ Dispatch \/ Block \/ StopWrite \/ StopPost
             \/ (\E t \in AllTasks : Task(t)) \/ Terminated \/ UNCHANGED vars
    BY <2>5, OthersStutter
  <2> QED
    BY <2>1, <2>2, <2>3, <2>4, <2>5 DEF Next, Scheduler
<1> QED
  BY <1>1, <1>2, Structure, PTL DEF Spec, ImplementsSched, Sched!Spec
=============================================================================
