---------------------------- MODULE DoublyLinked ----------------------------
(***************************************************************************)
(* The doubly linked lists of utlist.h.  A list is a head and the links in *)
(* its elements; the head's prev is the tail, the tail's next is NULL.     *)
(* Several lists may share the links: an element can be in one of them.    *)
(***************************************************************************)
EXTENDS Integers, Sequences, SequencesExt

CONSTANT NULL

(* Links that hold nothing, and the list with head h and links x.          *)
NoLinks(Nodes) == [prev |-> [n \in Nodes |-> NULL], next |-> [n \in Nodes |-> NULL]]
ListAt(h, x)   == [head |-> h, prev |-> x.prev, next |-> x.next]
LinksOf(l)     == [prev |-> l.prev, next |-> l.next]
-----------------------------------------------------------------------------
(* DL_APPEND2(head, add, prev, next)                                       *)
DLAppend(l, add) ==
  IF l.head = NULL
  THEN [head |-> add,
        prev |-> [l.prev EXCEPT ![add] = add],
        next |-> [l.next EXCEPT ![add] = NULL]]
  ELSE [head |-> l.head,
        prev |-> [l.prev EXCEPT ![add] = l.prev[l.head], ![l.head] = add],
        next |-> [l.next EXCEPT ![l.prev[l.head]] = add, ![add] = NULL]]

(* Faulty: the new head does not learn the tail.                           *)
DLDeleteTailLost(l, del) ==
  [l EXCEPT !.head = IF l.prev[del] = del THEN NULL ELSE l.next[del]]

(* DL_DELETE2(head, del, prev, next), where it does not crash.             *)
DLDelete(l, del) ==
  CASE l.prev[del] = del -> [l EXCEPT !.head = NULL]
    [] l.prev[del] # del /\ del = l.head ->
         [l EXCEPT !.head = l.next[del], !.prev[l.next[del]] = l.prev[del]]
    [] OTHER ->
         [l EXCEPT !.next[l.prev[del]] = l.next[del],
                   !.prev[IF l.next[del] # NULL THEN l.next[del] ELSE l.head] =
                      l.prev[del]]

(* It fails its assertion, or dereferences NULL.                           *)
DLDeleteCrashes(l, del) ==
  \/ l.prev[del] = NULL
  \/ l.prev[del] # del /\ del = l.head /\ l.next[del] = NULL

(* DL_FOREACH2(head, el, next), given up after as many steps as there are  *)
(* nodes: the elements in the order of the iteration.                      *)
Elements(l) ==
  LET Nodes == Cardinality(DOMAIN l.next)
      el[i \in 0..Nodes] ==
        IF i = 0 THEN l.head ELSE IF el[i - 1] = NULL THEN NULL ELSE l.next[el[i - 1]]
      size == CHOOSE i \in 0..Nodes :
                /\ i = Nodes \/ el[i] = NULL
                /\ \A j \in 0..(i - 1) : el[j] # NULL
  IN  [i \in 1..size |-> el[i - 1]]

(* l consists of the elements of s.                                        *)
Represents(l, s) ==
  IF s = <<>> THEN l.head = NULL
  ELSE /\ l.head = s[1]
       /\ l.prev[s[1]] = s[Len(s)]
       /\ l.next[s[Len(s)]] = NULL
       /\ \A i \in 1..(Len(s) - 1) :
            l.next[s[i]] = s[i + 1] /\ l.prev[s[i + 1]] = s[i]

WellFormed(l) == Represents(l, Elements(l))

(* What DL_SORT2 does to l if s is its elements in the new order.          *)
DLRelink(l, s) ==
  LET At(n) == CHOOSE i \in DOMAIN s : s[i] = n
      In(n) == n \in ToSet(s)
  IN  [head |-> IF s = <<>> THEN l.head ELSE s[1],
       prev |-> [n \in DOMAIN l.prev |->
                   IF ~In(n) THEN l.prev[n]
                   ELSE IF At(n) = 1 THEN s[Len(s)] ELSE s[At(n) - 1]],
       next |-> [n \in DOMAIN l.next |->
                   IF ~In(n) THEN l.next[n]
                   ELSE IF At(n) = Len(s) THEN NULL ELSE s[At(n) + 1]]]
-----------------------------------------------------------------------------
(* DL_SORT2(list, cmp, prev, next), a merge sort from the bottom up, with  *)
(* the comparator cmp(p, q).  A pass takes the elements off the list at q  *)
(* and builds a new one, with its last element at tail.                    *)
NotAfter(p, q, cmp) == cmp[<<p, q>>] <= 0

(* The next two runs begin at p and q: up to size elements are p's.        *)
SplitRuns(m, size) ==
  LET Nodes == Cardinality(DOMAIN m.next)
      at[i \in 0..Nodes] ==
        IF i = 0 THEN m.q
        ELSE IF at[i - 1] = NULL THEN NULL ELSE m.next[at[i - 1]]
      psize == CHOOSE i \in 1..Nodes :
                 /\ i = size \/ at[i] = NULL
                 /\ \A j \in 1..(i - 1) : j # size /\ at[j] # NULL
  IN  [m EXCEPT !.p = m.q, !.q = at[psize], !.psize = psize, !.qsize = size,
                !.merges = @ + 1]

RunsMerged(m) == m.psize = 0 /\ (m.qsize = 0 \/ m.q = NULL)

(* Faulty: of two equal elements the later one is taken.                   *)
FromPUnstable(m, cmp) ==
  m.psize > 0 /\ (m.qsize = 0 \/ m.q = NULL \/ ~NotAfter(m.q, m.p, cmp))

(* The next element is the one at p.                                       *)
FromP(m, cmp) ==
  m.psize > 0 /\ (m.qsize = 0 \/ m.q = NULL \/ NotAfter(m.p, m.q, cmp))

(* One element goes from the runs, which may have to be split off first,   *)
(* to the end of the new list.                                             *)
MergeStep(m0, size, cmp) ==
  LET m   == IF RunsMerged(m0) THEN SplitRuns(m0, size) ELSE m0
      e   == IF FromP(m, cmp) THEN m.p ELSE m.q
      rest == IF FromP(m, cmp)
              THEN [m EXCEPT !.p = m.next[e], !.psize = @ - 1]
              ELSE [m EXCEPT !.q = m.next[e], !.qsize = @ - 1]
  IN  [rest EXCEPT !.head = IF m.tail = NULL THEN e ELSE @,
                   !.next = IF m.tail = NULL THEN @ ELSE [@ EXCEPT ![m.tail] = e],
                   !.prev[e] = m.tail,
                   !.tail = e]

(* One pass; it is the last one if it has merged but once.                 *)
MergePass(l, size, cmp) ==
  LET Nodes == Cardinality(DOMAIN l.next)
      start == [head |-> NULL, prev |-> l.prev, next |-> l.next, p |-> NULL,
                q |-> l.head, psize |-> 0, qsize |-> 0, tail |-> NULL, merges |-> 0]
      step[i \in 0..Nodes] ==
        IF i = 0 THEN start
        ELSE IF RunsMerged(step[i - 1]) /\ step[i - 1].q = NULL THEN step[i - 1]
             ELSE MergeStep(step[i - 1], size, cmp)
      m == step[Nodes]
  IN  [list |-> [head |-> m.head,
                 prev |-> [m.prev EXCEPT ![m.head] = m.tail],
                 next |-> [m.next EXCEPT ![m.tail] = NULL]],
       insize |-> 2 * size,
       looping |-> m.merges > 1]

DLSort(l, cmp) ==
  LET Nodes == Cardinality(DOMAIN l.next)
      pass[k \in 0..Nodes] ==
        IF k = 0 THEN [list |-> l, insize |-> 1, looping |-> l.head # NULL]
        ELSE IF ~pass[k - 1].looping THEN pass[k - 1]
             ELSE MergePass(pass[k - 1].list, pass[k - 1].insize, cmp)
  IN  pass[Nodes].list

(* What it is to do: the elements of l are linked in both directions, in   *)
(* the order of cmp, equal ones in the order they were in, and other links *)
(* are left alone.                                                         *)
SortedStably(sorted, l, cmp) ==
  LET s == Elements(l)
      t == Elements(sorted)
  IN  /\ IsInjective(t) /\ ToSet(t) = ToSet(s)
      /\ \A i, j \in DOMAIN t : i < j =>
            /\ NotAfter(t[i], t[j], cmp)
            /\ \A p, q \in DOMAIN s :
                 s[p] = t[i] /\ s[q] = t[j] /\ NotAfter(t[j], t[i], cmp) => p < q
      /\ sorted = DLRelink(l, t)
=============================================================================
