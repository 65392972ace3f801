------------------------------ MODULE FixtHeap ------------------------------
(***************************************************************************)
(* The objects of the test fixture and the lists they are in, from         *)
(* fixt_init to fixt_term: task sets with their tasks, algorithms with     *)
(* their tasks and their queue, semaphores.  One thread does all of this.  *)
(*                                                                         *)
(* A task has links for three lists: its set's, an algorithm's task list   *)
(* and an algorithm's queue.  All algorithms use the same links.           *)
(*                                                                         *)
(* Which tasks are ready in a round, how an algorithm orders them and when *)
(* a test ends is left open; FixtSched says it.  Freed memory keeps what   *)
(* it held, the most benign outcome of reading it: nothing is allocated    *)
(* while it is read.                                                       *)
(***************************************************************************)
EXTENDS DoublyLinked, FiniteSets

CONSTANTS
  TaskSets,   \* the registered sets, each a sequence of tasks
  Algos,      \* the algorithms are 1..Algos
  MaxRounds   \* bound: rounds in a test

Tasks   == UNION {ToSet(TaskSets[s]) : s \in DOMAIN TaskSets}
SetIds  == DOMAIN TaskSets
AlgoIds == 1..Algos

ASSUME TaskSetsAssumption ==
  /\ TaskSets \in Seq(Seq(Tasks)) \ {<<>>}
  /\ NULL \notin Tasks \cup SetIds \cup AlgoIds
  /\ \A s \in SetIds : TaskSets[s] # <<>> /\ IsInjective(TaskSets[s])
  /\ \A s, s2 \in SetIds :
       s # s2 => ToSet(TaskSets[s]) \cap ToSet(TaskSets[s2]) = {}
ASSUME AlgosAssumption == Algos \in Nat \ {0} /\ MaxRounds \in Nat \ {0}

VARIABLES
  pc,             \* what is called next
  set_list,       \* set_list, with prev and next of the sets
  algo_list,      \* algo_list, with prev and next of the algorithms
  ts_set_head, ts,      \* ts_set_head of each set, _ts_prev and _ts_next
  al_tasks_head, at,    \* al_tasks_head of each algorithm, _at_prev, _at_next
  al_queue_head, aq,    \* al_queue_head of each algorithm, _aq_prev, _aq_next
  live,           \* the objects allocated and not freed
  sems,           \* pairs of semaphores allocated for a task and not freed
  algo, set, elt, \* the loop variables
  ready,          \* the tasks with tk_r <= 0
  rounds          \* rounds of this test so far

lists == <<set_list, algo_list, ts_set_head, ts, al_tasks_head, at,
           al_queue_head, aq>>
vars  == <<pc, lists, live, sems, algo, set, elt, ready, rounds>>

SetTasks(s)  == ListAt(ts_set_head[s], ts)
AlgoTasks(a) == ListAt(al_tasks_head[a], at)
Queue(a)     == ListAt(al_queue_head[a], aq)

(* DL_APPEND2 for the elements of s that are in R, or for all of them, one *)
(* after the other; DL_DELETE2 for all of them.                            *)
AppendThose(l, s, R) ==
  LET upto[i \in 0..Len(s)] ==
        IF i = 0 THEN l
        ELSE IF s[i] \in R THEN DLAppend(upto[i - 1], s[i]) ELSE upto[i - 1]
  IN  upto[Len(s)]
AppendAll(l, s) == AppendThose(l, s, ToSet(s))
DeleteAll(l, s) ==
  LET upto[i \in 0..Len(s)] == IF i = 0 THEN l ELSE DLDelete(upto[i - 1], s[i])
  IN  upto[Len(s)]
-----------------------------------------------------------------------------
(* Objects are what malloc returns: links are not read before they are set.*)
Init ==
  /\ pc = "register"
  /\ set_list = ListAt(NULL, NoLinks(SetIds))
  /\ algo_list = ListAt(NULL, NoLinks(AlgoIds))
  /\ ts_set_head = [s \in SetIds |-> NULL] /\ ts = NoLinks(Tasks)
  /\ al_tasks_head = [a \in AlgoIds |-> NULL] /\ at = NoLinks(Tasks)
  /\ al_queue_head = [a \in AlgoIds |-> NULL] /\ aq = NoLinks(Tasks)
  /\ live = [tasks |-> {}, sets |-> {}, algos |-> {}]
  /\ sems = [t \in Tasks |-> 0]
  /\ algo = NULL /\ set = NULL /\ elt = NULL
  /\ ready = {} /\ rounds = 0

(* register_tasks, for the next set: fixt_set_new and DL_APPEND.           *)
NewSet ==
  LET s == Cardinality(live.sets) + 1
      l == AppendAll(ListAt(NULL, ts), TaskSets[s])
  IN  /\ pc = "register" /\ s \in SetIds
      /\ live' = [live EXCEPT !.sets = @ \cup {s},
                              !.tasks = @ \cup ToSet(TaskSets[s])]
      /\ ts_set_head' = [ts_set_head EXCEPT ![s] = l.head]
      /\ ts' = LinksOf(l)
      /\ set_list' = DLAppend(set_list, s)
      /\ UNCHANGED <<pc, algo_list, al_tasks_head, at, al_queue_head, aq, sems,
                     algo, set, elt, ready, rounds>>

(* register_algos, for the next algorithm; then fixt_test begins.          *)
NewAlgo ==
  LET a == Cardinality(live.algos) + 1
  IN  /\ pc = "register" /\ live.sets = SetIds
      /\ live' = [live EXCEPT !.algos = @ \cup {a}]
      /\ algo_list' = DLAppend(algo_list, a)
      /\ al_tasks_head' = [al_tasks_head EXCEPT ![a] = NULL]
      /\ al_queue_head' = [al_queue_head EXCEPT ![a] = NULL]
      /\ pc' = IF a = Algos THEN "prime" ELSE pc
      /\ algo' = algo_list'.head /\ set' = set_list.head
      /\ UNCHANGED <<set_list, ts_set_head, ts, at, aq, sems, elt, ready, rounds>>
-----------------------------------------------------------------------------
(* Faulty: only the first task of the list is started.                     *)
PrimeHeadOnly ==
  /\ pc = "prime"
  /\ \E tasks \in {Elements(SetTasks(set))} :
     \E l \in {AppendAll(AlgoTasks(algo), tasks)} :
       /\ al_tasks_head' = [al_tasks_head EXCEPT ![algo] = l.head]
       /\ at' = LinksOf(l)
       /\ sems' = [sems EXCEPT ![l.head] = @ + 1]
       /\ ready' = ToSet(tasks)
  /\ rounds' = 0
  /\ pc' = "schedule"
  /\ UNCHANGED <<set_list, algo_list, ts_set_head, ts, al_queue_head, aq, live,
                 algo, set, elt>>

(* prime_algo: the set's tasks are appended to the algorithm's list and    *)
(* fixt_task_run is called for each.                                       *)
Prime ==
  /\ pc = "prime"
  /\ \E tasks \in {Elements(SetTasks(set))} :
     \E l \in {AppendAll(AlgoTasks(algo), tasks)} :
       /\ al_tasks_head' = [al_tasks_head EXCEPT ![algo] = l.head]
       /\ at' = LinksOf(l)
       /\ sems' = [t \in Tasks |-> IF t \in ToSet(tasks) THEN sems[t] + 1 ELSE sems[t]]
       /\ ready' = ToSet(tasks)
  /\ rounds' = 0
  /\ pc' = "schedule"
  /\ UNCHANGED <<set_list, algo_list, ts_set_head, ts, al_queue_head, aq, live,
                 algo, set, elt>>

(* Faulty: the queue of the round before is not dropped first.             *)
QueuedOnTop(a) ==
  AppendThose(Queue(a), Elements(AlgoTasks(a)), ready)

(* The queue as the al_schedule hooks build it, before it is sorted.       *)
Queued(a) ==
  AppendThose(ListAt(NULL, aq), Elements(AlgoTasks(a)), ready)

(* fixt_algo_schedule; if the set cannot be scheduled the test is over.    *)
Schedule ==
  /\ pc = "schedule"
  /\ \E queued \in {Queued(algo)} :
     \E order \in SetToSeqs(ToSet(Elements(queued))) :
     \E l \in {DLRelink(queued, order)} :
       /\ al_queue_head' = [al_queue_head EXCEPT ![algo] = l.head]
       /\ aq' = LinksOf(l)
  /\ pc' \in {"run", "halt"}
  /\ elt' = al_tasks_head[algo]
  /\ rounds' = rounds + 1
  /\ UNCHANGED <<set_list, algo_list, ts_set_head, ts, al_tasks_head, at, live,
                 sems, algo, set, ready>>

(* fixt_algo_run, which leaves some tasks ready, and the clock.            *)
Run ==
  /\ pc = "run"
  /\ ready' \in SUBSET ToSet(Elements(AlgoTasks(algo)))
  /\ pc' \in {"halt"} \cup (IF rounds < MaxRounds THEN {"schedule"} ELSE {})
  /\ UNCHANGED <<lists, live, sems, algo, set, elt, rounds>>

(* Faulty: the iteration goes on with the head it has read before.         *)
HaltAgain ==
  LET l == DLDelete(AlgoTasks(algo), elt)
  IN  /\ pc = "halt" /\ elt # NULL
      /\ al_tasks_head' = [al_tasks_head EXCEPT ![algo] = l.head]
      /\ at' = LinksOf(l)
      /\ elt' = al_tasks_head[algo]
      /\ UNCHANGED <<pc, set_list, algo_list, ts_set_head, ts, al_queue_head, aq,
                     live, sems, algo, set, ready, rounds>>

(* Faulty: the loop runs until the list is empty, but nothing is taken off.*)
HaltKeeps ==
  /\ pc = "halt" /\ elt # NULL
  /\ elt' = al_tasks_head[algo]
  /\ UNCHANGED <<pc, lists, live, sems, algo, set, ready, rounds>>

(* fixt_algo_halt, for one task: it is stopped and taken off the list.     *)
Halt ==
  LET l == DLDelete(AlgoTasks(algo), elt)
  IN  /\ pc = "halt" /\ elt # NULL
      /\ al_tasks_head' = [al_tasks_head EXCEPT ![algo] = l.head]
      /\ at' = LinksOf(l)
      /\ elt' = at.next[elt]
      /\ UNCHANGED <<pc, set_list, algo_list, ts_set_head, ts, al_queue_head, aq,
                     live, sems, algo, set, ready, rounds>>

(* fixt_test goes on to the next set, or to the next algorithm with the    *)
(* first set, or is done.                                                  *)
NextTest ==
  LET last == set_list.next[set] = NULL
      next == IF last THEN algo_list.next[algo] ELSE algo
  IN  /\ pc = "halt" /\ elt = NULL
      /\ algo' = next
      /\ set' = IF last THEN set_list.head ELSE set_list.next[set]
      /\ pc' = IF next = NULL THEN "clean_tasks" ELSE "prime"
      /\ UNCHANGED <<lists, live, sems, elt, ready, rounds>>
-----------------------------------------------------------------------------
(* Faulty: the tasks are left to somebody else.                            *)
CleanSetOnly ==
  /\ pc = "clean_tasks" /\ set # NULL
  /\ set_list' = DLDelete(set_list, set)
  /\ ts_set_head' = [ts_set_head EXCEPT ![set] = NULL]
  /\ live' = [live EXCEPT !.sets = @ \ {set}]
  /\ set' = set_list.next[set]
  /\ UNCHANGED <<pc, algo_list, ts, al_tasks_head, at, al_queue_head, aq, sems,
                 algo, elt, ready, rounds>>

(* clean_tasks, for one set: fixt_set_del with fixt_task_del.              *)
CleanSet ==
  /\ pc = "clean_tasks" /\ set # NULL
  /\ set_list' = DLDelete(set_list, set)
  /\ \E tasks \in {Elements(SetTasks(set))} :
     \E l \in {DeleteAll(SetTasks(set), tasks)} :
       /\ ts_set_head' = [ts_set_head EXCEPT ![set] = l.head]
       /\ ts' = LinksOf(l)
       /\ sems' = [t \in Tasks |-> IF t \in ToSet(tasks) THEN sems[t] - 1 ELSE sems[t]]
       /\ live' = [live EXCEPT !.sets = @ \ {set}, !.tasks = @ \ ToSet(tasks)]
  /\ set' = set_list.next[set]
  /\ UNCHANGED <<pc, algo_list, al_tasks_head, at, al_queue_head, aq, algo, elt,
                 ready, rounds>>

(* clean_algos takes the first algorithm off algo_list.  fixt_algo_del has *)
(* nothing to take off its task list (TestsLeaveNothing) and begins with   *)
(* its queue.                                                              *)
CleanAlgos ==
  /\ pc = "clean_tasks" /\ set = NULL
  /\ pc' = "clean_algos"
  /\ algo' = algo_list.head
  /\ algo_list' = DLDelete(algo_list, algo_list.head)
  /\ elt' = al_queue_head[algo_list.head]
  /\ UNCHANGED <<set_list, ts_set_head, ts, al_tasks_head, at, al_queue_head, aq,
                 live, sems, set, ready, rounds>>

(* fixt_algo_del, for one element of the queue.                            *)
Dequeue ==
  LET l == DLDelete(Queue(algo), elt)
  IN  /\ pc = "clean_algos" /\ algo # NULL /\ elt # NULL
      /\ ~DLDeleteCrashes(Queue(algo), elt)
      /\ al_queue_head' = [al_queue_head EXCEPT ![algo] = l.head]
      /\ aq' = LinksOf(l)
      /\ elt' = aq.next[elt]
      /\ UNCHANGED <<pc, set_list, algo_list, ts_set_head, ts, al_tasks_head, at,
                     live, sems, algo, set, ready, rounds>>

Crash ==
  /\ pc = "clean_algos" /\ algo # NULL /\ elt # NULL
  /\ DLDeleteCrashes(Queue(algo), elt)
  /\ pc' = "crashed"
  /\ UNCHANGED <<lists, live, sems, algo, set, elt, ready, rounds>>

(* The algorithm is freed, and clean_algos takes the next one, which it    *)
(* has remembered in tmp, off the list.                                    *)
CleanAlgo ==
  LET next == algo_list.next[algo]
  IN  /\ pc = "clean_algos" /\ algo # NULL /\ elt = NULL
      /\ live' = [live EXCEPT !.algos = @ \ {algo}]
      /\ algo_list' = IF next = NULL THEN algo_list ELSE DLDelete(algo_list, next)
      /\ algo' = next
      /\ elt' = IF next = NULL THEN NULL ELSE al_queue_head[next]
      /\ pc' = IF next = NULL THEN "done" ELSE pc
      /\ UNCHANGED <<set_list, ts_set_head, ts, al_tasks_head, at, al_queue_head,
                     aq, sems, set, ready, rounds>>

Exit == pc \in {"done", "crashed"} /\ UNCHANGED vars

Next ==
  \/ NewSet \/ NewAlgo
  \/ Prime \/ Schedule \/ Run \/ Halt \/ NextTest
  \/ CleanSet \/ CleanAlgos \/ Dequeue \/ Crash \/ CleanAlgo
  \/ Exit

(* The main thread alone; every call returns (FixtThreads!Terminates).     *)
Spec == Init /\ [][Next]_vars /\ WF_vars(Next)
-----------------------------------------------------------------------------
Links(Nodes) ==
  [prev : [Nodes -> Nodes \cup {NULL}], next : [Nodes -> Nodes \cup {NULL}]]

(* Types; in particular no semaphore is freed that was not allocated, as   *)
(* it would be for a task that is deleted without having been run.         *)
HeapTypeOK ==
  /\ pc \in {"register", "prime", "schedule", "run", "halt", "clean_tasks",
             "clean_algos", "done", "crashed"}
  /\ LinksOf(set_list) \in Links(SetIds) /\ LinksOf(algo_list) \in Links(AlgoIds)
  /\ ts \in Links(Tasks) /\ at \in Links(Tasks) /\ aq \in Links(Tasks)
  /\ ts_set_head \in [SetIds -> Tasks \cup {NULL}]
  /\ al_tasks_head \in [AlgoIds -> Tasks \cup {NULL}]
  /\ al_queue_head \in [AlgoIds -> Tasks \cup {NULL}]
  /\ live.tasks \subseteq Tasks /\ live.sets \subseteq SetIds
  /\ live.algos \subseteq AlgoIds
  /\ sems \in [Tasks -> Nat]
  /\ algo \in AlgoIds \cup {NULL} /\ set \in SetIds \cup {NULL}
  /\ elt \in Tasks \cup {NULL}
  /\ ready \subseteq Tasks /\ rounds \in 0..MaxRounds

(* The algorithm that clean_algos has taken off the list and not freed.    *)
Deleting == IF pc \in {"clean_algos", "crashed"} THEN {algo} ELSE {}

(* Although they share their links, the lists that are in use are intact   *)
(* at all times: those of the fixture, the tasks of every set, in order,   *)
(* the task list of every algorithm and the queue of the running one.      *)
ListsIntact ==
  /\ WellFormed(set_list) /\ ToSet(Elements(set_list)) = live.sets
  /\ WellFormed(algo_list) /\ ToSet(Elements(algo_list)) = live.algos \ Deleting
  /\ \A s \in live.sets : Represents(SetTasks(s), TaskSets[s])
  /\ \A a \in live.algos : WellFormed(AlgoTasks(a))
  /\ pc \in {"run", "halt"} => WellFormed(Queue(algo))

(* The queue holds the ready tasks and nothing that an earlier round, or   *)
(* another algorithm, has queued.                                          *)
QueueIsReady == pc = "run" => ToSet(Elements(Queue(algo))) = ready

(* While an algorithm is halted its list is what the loop has not stopped  *)
(* yet; no other algorithm has tasks then, and none has after a test, so   *)
(* that prime_algo and fixt_algo_del meet empty task lists.                *)
TestsLeaveNothing ==
  /\ \A a \in AlgoIds :
       al_tasks_head[a] # NULL => pc \in {"schedule", "run", "halt"} /\ a = algo
  /\ pc = "halt" => elt = al_tasks_head[algo]

(* clean_tasks frees every set and every task, and with a task the         *)
(* semaphores of its last test; clean_algos frees every algorithm.  No     *)
(* more is lost than FreesResources of heap_leak reports: at most one pair *)
(* of semaphores for each earlier test of a task.                          *)
TeardownFrees ==
  /\ pc \in {"clean_algos", "crashed", "done"} =>
       /\ live.sets = {} /\ live.tasks = {}
       /\ \A t \in Tasks : sems[t] < Algos
  /\ pc = "done" => live.algos = {}

(* No walk along the links goes round in circles.                          *)
WalksEnd == <>(pc \in {"done", "crashed"})

(* "Terminate testing and free up resources created while testing"         *)
(* (fixt_term).  It does not: fixt_task_run allocates two semaphores in    *)
(* every test, and the pointers to those of the test before are gone.      *)
FreesResources ==
  pc = "done" =>
    /\ live = [tasks |-> {}, sets |-> {}, algos |-> {}]
    /\ \A t \in Tasks : sems[t] = 0

(* "Start up the test fixture, run the tests, then tear everything down"   *)
(* (the comment on main).  It does not: fixt_algo_del walks the queue of   *)
(* the last round, whose tasks are freed and may be in other queues since. *)
TearsDown == pc # "crashed"
=============================================================================
