-------------------------- MODULE FixtHeap_proofs --------------------------
(***************************************************************************)
(* Theorems about the fixture's objects, for every set of task sets, every *)
(* number of algorithms and every test length.                             *)
(*                                                                         *)
(* First what the macros of utlist.h do to a list of any length, and to    *)
(* the other lists with the same links; then an invariant that says which  *)
(* elements every list has, from fixt_init to fixt_term.  At the end the   *)
(* merge sort, for every list and every comparator.                        *)
(*                                                                         *)
(* A loop over a list is a recursive function: that there is one is proved *)
(* by induction (NatLemmas!Induction), and so is what it does.             *)
(***************************************************************************)
EXTENDS MCFixtHeap, NatLemmas

(* Lists whose links stay in N, and the orders elements of N can have.     *)
Lists(N) ==
  [head : N \cup {NULL}, prev : [N -> N \cup {NULL}], next : [N -> N \cup {NULL}]]
Orders(N) == {s \in Seq(N) : IsInjective(s)}

(* What comes of v0 when the functions of F are applied, one after the     *)
(* other.                                                                  *)
Steps(n, V) == [1..n -> [V -> V]]
IsFold(f, n, V, v0, F) ==
  f \in [0..n -> V] /\ f[0] = v0 /\ \A i \in 1..n : f[i] = F[i][f[i - 1]]

LEMMA FoldExists ==
  ASSUME NEW n \in Nat, NEW V, NEW v0 \in V, NEW F \in Steps(n, V)
  PROVE  \E f : IsFold(f, n, V, v0, F)
<1> DEFINE Upto(m) == \E f \in [0..m -> V] :
                        f[0] = v0 /\ \A i \in 1..m : f[i] = F[i][f[i - 1]]
           Good == {m \in Nat : m <= n => Upto(m)}
<1>1. 0 \in Good
  <2>1. /\ [i \in 0..0 |-> v0] \in [0..0 -> V]
        /\ [i \in 0..0 |-> v0][0] = v0
        /\ 1..0 = {}
    OBVIOUS
  <2> QED
    BY <2>1
<1>2. ASSUME NEW m \in Nat, m \in Good, m + 1 <= n PROVE Upto(m + 1)
  <2>1. PICK f \in [0..m -> V] : f[0] = v0 /\ \A i \in 1..m : f[i] = F[i][f[i - 1]]
    BY <1>2
  <2> DEFINE g == [i \in 0..(m + 1) |-> IF i <= m THEN f[i] ELSE F[m + 1][f[m]]]
  <2>2. f[m] \in V /\ F[m + 1] \in [V -> V]
    BY <1>2 DEF Steps
  <2>3. g \in [0..(m + 1) -> V]
    BY <2>2
  <2>4. g[0] = v0 /\ \A i \in 1..(m + 1) : g[i] = F[i][g[i - 1]]
    <3>1. ASSUME NEW i \in 1..m PROVE g[i] = F[i][g[i - 1]]
      BY <2>1
    <3>2. g[m + 1] = F[m + 1][g[m]]
      OBVIOUS
    <3> QED
      BY <2>1, <3>1, <3>2
  <2> QED
    BY <2>3, <2>4
<1>3. \A m \in Nat : m \in Good => m + 1 \in Good
  BY <1>2
<1> HIDE DEF Good
<1>4. n \in Good
  BY <1>1, <1>3, Induction
<1> QED
  BY <1>4 DEF Good, IsFold

(* A list of different elements is no longer than there are elements.      *)
LEMMA Size ==
  ASSUME NEW N, IsFiniteSet(N), NEW s \in Orders(N)
  PROVE  Len(s) <= Cardinality(N)
<1>1. s \in Injection(1..Len(s), N)
  BY DEF Orders, Injection
<1>2. Len(s) \in Nat
  BY DEF Orders
<1>3. Cardinality(1..Len(s)) = Len(s)
  BY <1>2, FS_Interval
<1> QED
  BY <1>1, <1>3, FS_Injection


(* What Represents says, for every position.                               *)
LEMMA RepresentsIs ==
  ASSUME NEW N, NEW s \in Seq(N), NEW l
  PROVE  Represents(l, s) <=>
           IF Len(s) = 0 THEN l.head = NULL
           ELSE /\ l.head = s[1]
                /\ l.prev[s[1]] = s[Len(s)]
                /\ l.next[s[Len(s)]] = NULL
                /\ \A i \in 1..(Len(s) - 1) :
                     l.next[s[i]] = s[i + 1] /\ l.prev[s[i + 1]] = s[i]
<1>1. s = <<>> <=> Len(s) = 0
  OBVIOUS
<1> QED
  BY <1>1 DEF Represents

(* A walk along the links of a list meets its elements in order.           *)
LEMMA ElementsAre ==
  ASSUME NEW N, IsFiniteSet(N), NULL \notin N,
         NEW l \in Lists(N), NEW s \in Orders(N), Represents(l, s)
  PROVE  Elements(l) = s
<1> DEFINE K == Cardinality(DOMAIN l.next)
           Walk(e) == [i \in 0..K |-> IF i = 0 THEN l.head
                                      ELSE IF e[i - 1] = NULL THEN NULL
                                           ELSE l.next[e[i - 1]]]
           el == CHOOSE e : e = Walk(e)
           Ends(i) == /\ i = K \/ el[i] = NULL
                      /\ \A j \in 0..(i - 1) : el[j] # NULL
           size == CHOOSE i \in 0..K : Ends(i)
           f == [i \in 0..K |-> IF i < Len(s) THEN s[i + 1] ELSE NULL]
<1>1. Elements(l) = [i \in 1..size |-> el[i - 1]]
  BY Zenon DEF Elements
<1>2. K \in Nat /\ Len(s) \in Nat /\ Len(s) <= K /\ s \in Seq(N)
  BY Size, FS_CardinalityType DEF Orders, Lists
<1>3. IF Len(s) = 0 THEN l.head = NULL
      ELSE /\ l.head = s[1]
           /\ l.next[s[Len(s)]] = NULL
           /\ \A i \in 1..(Len(s) - 1) : l.next[s[i]] = s[i + 1]
  BY <1>2, RepresentsIs
<1>4. f = Walk(f)
  <2> SUFFICES ASSUME NEW i \in 0..K PROVE f[i] = Walk(f)[i]
    BY Zenon
  <2>1. CASE i = 0
    BY <1>2, <1>3, <2>1
  <2>2. CASE i > 0
    <3>1. f[i - 1] = IF i <= Len(s) THEN s[i] ELSE NULL
      BY <1>2, <2>2
    <3>2. i <= Len(s) => s[i] # NULL
      BY <1>2, <2>2
    <3>3. Walk(f)[i] = IF f[i - 1] = NULL THEN NULL ELSE l.next[f[i - 1]]
      BY <2>2
    <3>4. i < Len(s) => l.next[s[i]] = s[i + 1]
      BY <1>2, <1>3, <2>2
    <3>5. i = Len(s) => l.next[s[i]] = NULL
      BY <1>2, <1>3, <2>2
    <3>6. f[i] = IF i < Len(s) THEN s[i + 1] ELSE NULL
      OBVIOUS
    <3> HIDE DEF f
    <3> QED
      BY <1>2, <2>2, <3>1, <3>2, <3>3, <3>4, <3>5, <3>6
  <2> QED
    BY <1>2, <2>1, <2>2
<1>5. el = Walk(el)
  BY <1>4
<1> HIDE DEF el, f
<1>6. \A i \in 0..K : el[i] = f[i]
  <2> DEFINE Same == {i \in Nat : i <= K => el[i] = f[i]}
  <2>1. \A i \in 0..K : Walk(el)[i] = el[i] /\ Walk(f)[i] = f[i]
    BY <1>4, <1>5
  <2>2. \A i \in 0..K : /\ i = 0 => el[i] = l.head /\ f[i] = l.head
                        /\ i > 0 => /\ el[i] = IF el[i - 1] = NULL THEN NULL ELSE l.next[el[i - 1]]
                                    /\ f[i] = IF f[i - 1] = NULL THEN NULL ELSE l.next[f[i - 1]]
    BY <1>2, <2>1
  <2>3. 0 \in Same
    BY <1>2, <2>2
  <2>4. \A i \in Nat : i \in Same => i + 1 \in Same
    BY <1>2, <2>2
  <2> HIDE DEF Same
  <2>5. Nat \subseteq Same
    BY <2>3, <2>4, Induction
  <2> QED
    BY <1>2, <2>5 DEF Same
<1>7. \A i \in 0..K : el[i] = IF i < Len(s) THEN s[i + 1] ELSE NULL
  BY <1>6 DEF f
<1>8. \A i \in 0..(Len(s) - 1) : el[i] # NULL
  BY <1>2, <1>7
<1>9. size = Len(s)
  <2>1. Ends(Len(s))
    BY <1>2, <1>7, <1>8
  <2>2. size \in 0..K /\ Ends(size)
    <3>1. \E i \in 0..K : Ends(i)
      BY <1>2, <2>1
    <3> HIDE DEF Ends
    <3> QED
      BY <3>1
  <2> HIDE DEF size
  <2>3. ~(size < Len(s))
    BY <1>2, <1>8, <2>2
  <2>4. ~(size > Len(s))
    BY <1>2, <1>7, <2>2
  <2> QED
    BY <1>2, <2>2, <2>3, <2>4
<1> HIDE DEF size
<1>10. Elements(l) = [i \in 1..Len(s) |-> s[i]]
  BY <1>1, <1>2, <1>7, <1>9
<1>11. s = [i \in 1..Len(s) |-> s[i]]
  BY <1>2
<1> QED
  BY <1>10, <1>11

(* Two lists have the same links in the elements of S.                     *)
Same(l, m, S) == \A n \in S : l.prev[n] = m.prev[n] /\ l.next[n] = m.next[n]

(* DLAppend adds an element at the end and touches no other list.          *)
LEMMA Appended ==
  ASSUME NEW N, NULL \notin N, NEW l \in Lists(N), NEW s \in Orders(N),
         Represents(l, s), NEW x \in N \ ToSet(s)
  PROVE  /\ DLAppend(l, x) \in Lists(N)
         /\ Append(s, x) \in Orders(N) /\ ToSet(Append(s, x)) = ToSet(s) \cup {x}
         /\ Represents(DLAppend(l, x), Append(s, x))
         /\ Same(DLAppend(l, x), l, N \ ToSet(Append(s, x)))
<1> DEFINE m == DLAppend(l, x)
           t == Append(s, x)
<1>1. /\ s \in Seq(N) /\ Len(s) \in Nat /\ \A i \in 1..Len(s) : s[i] \in N
      /\ \A i, j \in 1..Len(s) : s[i] = s[j] => i = j
  BY DEF Orders, IsInjective
<1>2. \A i \in 1..Len(s) : s[i] # x /\ s[i] \in ToSet(s)
  BY <1>1 DEF ToSet
<1>3. /\ t \in Seq(N) /\ Len(t) = Len(s) + 1 /\ t[Len(s) + 1] = x
      /\ \A i \in 1..Len(s) : t[i] = s[i]
  BY <1>1
<1> HIDE DEF t
<1>4. t \in Orders(N)
  BY <1>1, <1>2, <1>3 DEF Orders, IsInjective
<1>5. ToSet(t) = ToSet(s) \cup {x}
  BY <1>1, <1>3 DEF ToSet
<1>6. /\ l.head \in N \cup {NULL}
      /\ l.prev \in [N -> N \cup {NULL}] /\ l.next \in [N -> N \cup {NULL}]
  BY DEF Lists
<1>7. IF Len(s) = 0 THEN l.head = NULL
      ELSE /\ l.head = s[1]
           /\ l.prev[s[1]] = s[Len(s)]
           /\ l.next[s[Len(s)]] = NULL
           /\ \A i \in 1..(Len(s) - 1) :
                l.next[s[i]] = s[i + 1] /\ l.prev[s[i + 1]] = s[i]
  BY <1>1, RepresentsIs
<1>8. CASE Len(s) = 0
  <2>1. /\ m.head = x
        /\ m.prev = [l.prev EXCEPT ![x] = x]
        /\ m.next = [l.next EXCEPT ![x] = NULL]
        /\ m = [head |-> x, prev |-> [l.prev EXCEPT ![x] = x],
                next |-> [l.next EXCEPT ![x] = NULL]]
    BY <1>7, <1>8 DEF DLAppend
  <2> HIDE DEF m
  <2>2. m \in Lists(N)
    BY <1>6, <2>1 DEF Lists
  <2>3. Represents(m, t)
    <3>1. Len(t) = 1 /\ t[1] = x /\ 1..(Len(t) - 1) = {}
      BY <1>3, <1>8
    <3>2. m.head = x /\ m.prev[x] = x /\ m.next[x] = NULL
      BY <1>6, <2>1
    <3> QED
      BY <1>3, <3>1, <3>2, RepresentsIs
  <2>4. Same(m, l, N \ ToSet(t))
    BY <1>5, <1>6, <2>1 DEF Same
  <2> QED
    BY <1>4, <1>5, <2>2, <2>3, <2>4 DEF m, t
<1>9. CASE Len(s) > 0
  <2> DEFINE h == s[1]
             e == s[Len(s)]
  <2>1. l.head = h /\ h # NULL /\ h \in N /\ e \in N /\ h # x /\ e # x
        /\ l.prev[h] = e
    BY <1>1, <1>2, <1>7, <1>9
  <2>2. /\ m.head = h
        /\ m.prev = [l.prev EXCEPT ![x] = e, ![h] = x]
        /\ m.next = [l.next EXCEPT ![e] = x, ![x] = NULL]
        /\ m = [head |-> h, prev |-> [l.prev EXCEPT ![x] = e, ![h] = x],
                next |-> [l.next EXCEPT ![e] = x, ![x] = NULL]]
    BY <2>1 DEF DLAppend
  <2> HIDE DEF m
  <2>3. m \in Lists(N)
    BY <1>6, <2>1, <2>2 DEF Lists
  <2>4. \A n \in N : /\ m.prev[n] = IF n = h THEN x ELSE IF n = x THEN e ELSE l.prev[n]
                     /\ m.next[n] = IF n = x THEN NULL ELSE IF n = e THEN x ELSE l.next[n]
    BY <1>6, <2>1, <2>2
  <2>5. Represents(m, t)
    <3>1. m.head = t[1] /\ m.prev[t[1]] = t[Len(t)] /\ m.next[t[Len(t)]] = NULL
      BY <1>1, <1>3, <1>9, <2>1, <2>2, <2>4
    <3>2. ASSUME NEW i \in 1..(Len(t) - 1)
          PROVE  m.next[t[i]] = t[i + 1] /\ m.prev[t[i + 1]] = t[i]
      <4>1. CASE i = Len(s)
        BY <1>1, <1>3, <1>9, <2>1, <2>4, <4>1
      <4>2. CASE i < Len(s)
        <5>1. i \in 1..Len(s) /\ i + 1 \in 1..Len(s) /\ i \in 1..(Len(s) - 1)
          BY <1>1, <1>3, <4>2
        <5>2. s[i] # e /\ s[i + 1] # h /\ s[i] # x /\ s[i + 1] # x
          BY <1>1, <1>2, <1>9, <4>2, <5>1
        <5> HIDE DEF e, h
        <5> QED
          BY <1>1, <1>3, <1>7, <1>9, <2>4, <5>1, <5>2
      <4> QED
        BY <1>1, <1>3, <4>1, <4>2
    <3>3. Len(t) # 0
      BY <1>1, <1>3
    <3> QED
      BY <1>3, <3>1, <3>2, <3>3, RepresentsIs
  <2>6. Same(m, l, N \ ToSet(t))
    <3>1. h \in ToSet(s) /\ e \in ToSet(s)
      BY <1>1, <1>2, <1>9
    <3> QED
      BY <1>5, <2>4, <3>1 DEF Same
  <2> QED
    BY <1>4, <1>5, <2>3, <2>5, <2>6 DEF m, t
<1> QED
  BY <1>1, <1>8, <1>9
(* DLAppend writes no link that leads out of the elements.                 *)
LEMMA AppendTyped ==
  ASSUME NEW N, NEW l \in Lists(N), NEW x \in N
  PROVE  DLAppend(l, x) \in Lists(N)
BY DEF DLAppend, Lists

(* A list of the elements of S, in some order.                             *)
ListOf(l, S, N) == \E q \in Orders(N) : ToSet(q) = S /\ Represents(l, q)

(* Appending those elements of a sequence that are in R to an empty list.  *)
LEMMA ThoseAppended ==
  ASSUME NEW N, NULL \notin N, NEW l \in Lists(N), l.head = NULL,
         NEW s \in Orders(N), NEW R
  PROVE  /\ AppendThose(l, s, R) \in Lists(N)
         /\ Same(AppendThose(l, s, R), l, N \ ToSet(s))
         /\ ListOf(AppendThose(l, s, R), ToSet(s) \cap R, N)
         /\ ToSet(s) \subseteq R => Represents(AppendThose(l, s, R), s)
<1> DEFINE Upto(u) == [i \in 0..Len(s) |->
                         IF i = 0 THEN l
                         ELSE IF s[i] \in R THEN DLAppend(u[i - 1], s[i]) ELSE u[i - 1]]
           upto == CHOOSE u : u = Upto(u)
           F == [i \in 1..Len(s) |-> [m \in Lists(N) |->
                   IF s[i] \in R THEN DLAppend(m, s[i]) ELSE m]]
           To(i) == {s[j] : j \in 1..i}
           Is(i, q) == /\ ToSet(q) = To(i) \cap R
                       /\ Represents(upto[i], q)
                       /\ ToSet(s) \subseteq R =>
                            Len(q) = i /\ \A j \in 1..i : q[j] = s[j]
           Done(i) == /\ upto[i] \in Lists(N)
                      /\ Same(upto[i], l, N \ ToSet(s))
                      /\ \E q \in Orders(N) : Is(i, q)
           Good == {i \in Nat : i <= Len(s) => Done(i)}
<1>1. AppendThose(l, s, R) = upto[Len(s)]
  BY Zenon DEF AppendThose
<1>2. /\ s \in Seq(N) /\ Len(s) \in Nat /\ \A i \in 1..Len(s) : s[i] \in N
      /\ \A i, j \in 1..Len(s) : s[i] = s[j] => i = j
      /\ ToSet(s) = To(Len(s)) /\ DOMAIN s = 1..Len(s)
  BY DEF Orders, IsInjective, ToSet
<1>3. upto = Upto(upto)
  <2>1. F \in Steps(Len(s), Lists(N))
    BY <1>2, AppendTyped DEF Steps
  <2> HIDE DEF F
  <2>2. PICK f : IsFold(f, Len(s), Lists(N), l, F)
    BY <1>2, <2>1, FoldExists
  <2>3. ASSUME NEW i \in 1..Len(s)
        PROVE  f[i] = IF s[i] \in R THEN DLAppend(f[i - 1], s[i]) ELSE f[i - 1]
    <3>1. f[i - 1] \in Lists(N)
      BY <1>2, <2>2 DEF IsFold
    <3> QED
      BY <2>2, <3>1 DEF F, IsFold
  <2>4. f = Upto(f)
    BY <1>2, <2>2, <2>3 DEF IsFold
  <2> QED
    BY <2>4
<1> HIDE DEF upto
<1>4. /\ upto[0] = l
      /\ \A i \in 1..Len(s) :
           upto[i] = IF s[i] \in R THEN DLAppend(upto[i - 1], s[i]) ELSE upto[i - 1]
  BY <1>2, <1>3
<1>5. 0 \in Good
  <2>1. <<>> \in Orders(N) /\ ToSet(<<>>) = {} /\ Len(<<>>) = 0
    BY DEF Orders, IsInjective, ToSet
  <2>2. Is(0, <<>>)
    BY <1>4, <2>1 DEF Represents
  <2> QED
    BY <1>4, <2>1, <2>2 DEF Same
<1>6. ASSUME NEW i \in Nat, i \in Good, i + 1 <= Len(s) PROVE Done(i + 1)
  <2>1. PICK q \in Orders(N) : Is(i, q)
    BY <1>2, <1>6
  <2>2. /\ upto[i] \in Lists(N) /\ Same(upto[i], l, N \ ToSet(s))
        /\ upto[i + 1] = IF s[i + 1] \in R THEN DLAppend(upto[i], s[i + 1]) ELSE upto[i]
    BY <1>2, <1>4, <1>6
  <2>3. s[i + 1] \in N /\ s[i + 1] \in ToSet(s) /\ s[i + 1] \notin To(i)
        /\ To(i + 1) = To(i) \cup {s[i + 1]} /\ To(i) \subseteq ToSet(s)
    BY <1>2, <1>6
  <2>4. CASE s[i + 1] \notin R
    <3>1. Is(i + 1, q)
      BY <2>1, <2>2, <2>3, <2>4
    <3> QED
      BY <2>2, <2>4, <3>1
  <2>5. CASE s[i + 1] \in R
    <3> DEFINE x == s[i + 1]
               m == upto[i]
               p == Append(q, x)
    <3>1. x \in N \ ToSet(q) /\ Represents(m, q) /\ m \in Lists(N)
      BY <2>1, <2>2, <2>3
    <3> HIDE DEF m, x
    <3>2. /\ DLAppend(m, x) \in Lists(N)
          /\ p \in Orders(N) /\ ToSet(p) = ToSet(q) \cup {x}
          /\ Represents(DLAppend(m, x), p)
          /\ Same(DLAppend(m, x), m, N \ ToSet(p))
      BY <3>1, Appended
    <3>3. upto[i + 1] = DLAppend(m, x)
      BY <2>2, <2>5 DEF m, x
    <3>4. ToSet(p) = To(i + 1) \cap R
      BY <2>1, <2>3, <2>5, <3>2 DEF x
    <3>5. ToSet(s) \subseteq R => Len(p) = i + 1 /\ \A j \in 1..(i + 1) : p[j] = s[j]
      <4>1. q \in Seq(N)
        BY DEF Orders
      <4>2. /\ Len(p) = Len(q) + 1 /\ p[Len(q) + 1] = x
            /\ \A j \in 1..Len(q) : p[j] = q[j]
        BY <3>1, <4>1
      <4> HIDE DEF p
      <4> QED
        BY <2>1, <4>1, <4>2 DEF x
    <3>6. Same(upto[i + 1], l, N \ ToSet(s))
      <4>1. N \ ToSet(s) \subseteq N \ ToSet(p)
        BY <1>2, <2>3, <3>4
      <4> QED
        BY <2>2, <3>2, <3>3, <4>1 DEF Same, m
    <3> HIDE DEF p
    <3> QED
      BY <3>2, <3>3, <3>4, <3>5, <3>6
  <2> QED
    BY <2>4, <2>5
<1>7. \A i \in Nat : i \in Good => i + 1 \in Good
  <2> HIDE DEF Done
  <2> QED
    BY <1>6
<1> HIDE DEF Good
<1>8. Len(s) \in Good
  BY <1>2, <1>5, <1>7, Induction
<1>9. Done(Len(s))
  BY <1>2, <1>8 DEF Good
<1>10. PICK q \in Orders(N) : Is(Len(s), q)
  BY <1>9
<1>11. ToSet(s) \subseteq R => q = s
  <2>1. q \in Seq(N) /\ s \in Seq(N)
    BY DEF Orders
  <2> QED
    BY <1>10, <2>1
<1> QED
  BY <1>1, <1>2, <1>9, <1>10, <1>11 DEF ListOf

(* All of a sequence appended to an empty list, in order.                  *)
LEMMA AllAppended ==
  ASSUME NEW N, NULL \notin N, NEW l \in Lists(N), l.head = NULL, NEW s \in Orders(N)
  PROVE  /\ AppendAll(l, s) \in Lists(N) /\ Represents(AppendAll(l, s), s)
         /\ Same(AppendAll(l, s), l, N \ ToSet(s))
BY ThoseAppended DEF AppendAll

(* DLDelete writes no link that leads out of the elements, whatever it     *)
(* finds.                                                                  *)
LEMMA DeleteTyped ==
  ASSUME NEW N, NEW l \in Lists(N), NEW x \in N
  PROVE  DLDelete(l, x) \in Lists(N)
<1> DEFINE y == l.next[x]
           z == l.prev[x]
<1>1. /\ l.head \in N \cup {NULL} /\ y \in N \cup {NULL} /\ z \in N \cup {NULL}
      /\ l.prev \in [N -> N \cup {NULL}] /\ l.next \in [N -> N \cup {NULL}]
      /\ l = [head |-> l.head, prev |-> l.prev, next |-> l.next]
  BY DEF Lists
<1> DEFINE c == IF y # NULL THEN y ELSE l.head
<1>2. \/ DLDelete(l, x) = [head |-> NULL, prev |-> l.prev, next |-> l.next]
      \/ DLDelete(l, x) = [head |-> y, prev |-> [l.prev EXCEPT ![y] = z],
                           next |-> l.next]
      \/ DLDelete(l, x) = [head |-> l.head, prev |-> [l.prev EXCEPT ![c] = z],
                           next |-> [l.next EXCEPT ![z] = y]]
  BY <1>1 DEF DLDelete
<1> HIDE DEF y, z, c
<1> QED
  BY <1>1, <1>2 DEF Lists

(* Deleting the head leaves the rest, and touches no other list.           *)
LEMMA HeadDeleted ==
  ASSUME NEW N, NULL \notin N, NEW l \in Lists(N), NEW s \in Orders(N),
         Represents(l, s), Len(s) > 0
  PROVE  /\ DLDelete(l, s[1]) \in Lists(N)
         /\ Tail(s) \in Orders(N) /\ ToSet(Tail(s)) \subseteq ToSet(s)
         /\ Represents(DLDelete(l, s[1]), Tail(s))
         /\ Same(DLDelete(l, s[1]), l, N \ ToSet(s))
         /\ DLDelete(l, s[1]).head = l.next[s[1]]
         /\ l.next[s[1]] = IF Len(s) = 1 THEN NULL ELSE s[2]
<1> DEFINE m == DLDelete(l, s[1])
           t == Tail(s)
           n == Len(s)
<1>1. /\ s \in Seq(N) /\ n \in Nat \ {0} /\ \A i \in 1..n : s[i] \in N /\ s[i] \in ToSet(s)
      /\ \A i, j \in 1..n : s[i] = s[j] => i = j
  BY DEF Orders, IsInjective, ToSet
<1>2. t \in Seq(N) /\ Len(t) = n - 1 /\ \A i \in 1..(n - 1) : t[i] = s[i + 1]
  BY <1>1
<1> HIDE DEF t
<1>3. t \in Orders(N) /\ ToSet(t) \subseteq ToSet(s)
  <2>1. \A i \in 1..(n - 1) : i + 1 \in 1..n
    BY <1>1
  <2>2. \A i, j \in 1..(n - 1) : t[i] = t[j] => i = j
    <3> TAKE i, j \in 1..(n - 1)
    <3>1. i + 1 = j + 1 => i = j
      BY <1>1
    <3> QED
      BY <1>1, <1>2, <2>1, <3>1
  <2>3. DOMAIN t = 1..(n - 1)
    BY <1>1, <1>2
  <2>4. \A x \in ToSet(t) : x \in ToSet(s)
    BY <1>1, <1>2, <2>1, <2>3 DEF ToSet
  <2> HIDE DEF n
  <2> QED
    BY <1>2, <2>2, <2>3, <2>4 DEF Orders, IsInjective
<1>4. /\ l.head = s[1] /\ l.prev[s[1]] = s[n] /\ l.next[s[n]] = NULL
      /\ \A i \in 1..(n - 1) : l.next[s[i]] = s[i + 1] /\ l.prev[s[i + 1]] = s[i]
  BY <1>1, RepresentsIs
<1>5. /\ l.prev \in [N -> N \cup {NULL}] /\ l.next \in [N -> N \cup {NULL}]
      /\ l = [head |-> l.head, prev |-> l.prev, next |-> l.next]
  BY DEF Lists
<1>6. m \in Lists(N)
  BY <1>1, DeleteTyped
<1>7. CASE n = 1
  <2>1. m = [head |-> NULL, prev |-> l.prev, next |-> l.next]
    BY <1>4, <1>5, <1>7 DEF DLDelete
  <2> HIDE DEF m
  <2>2. Represents(m, t)
    <3>1. Len(t) = 0 /\ m.head = NULL
      BY <1>2, <1>7, <2>1
    <3> QED
      BY <1>2, <3>1, RepresentsIs
  <2>3. l.next[s[1]] = NULL /\ m.head = NULL
    BY <1>4, <1>7, <2>1
  <2>4. Same(m, l, N \ ToSet(s))
    BY <2>1 DEF Same
  <2> QED
    BY <1>3, <1>6, <1>7, <2>2, <2>3, <2>4 DEF m, t
<1>8. CASE n > 1
  <2>1. /\ l.prev[s[1]] # s[1] /\ l.next[s[1]] = s[2] /\ 2 \in 1..n
        /\ s[1] \in N /\ s[2] \in N /\ s[n] \in N /\ s[1] # s[2] /\ l.head = s[1]
    BY <1>1, <1>4, <1>8
  <2>2. m = [head |-> s[2], prev |-> [l.prev EXCEPT ![s[2]] = s[n]], next |-> l.next]
    BY <1>4, <1>5, <2>1 DEF DLDelete
  <2> HIDE DEF m
  <2>3. \A x \in N : /\ m.next[x] = l.next[x]
                     /\ m.prev[x] = IF x = s[2] THEN s[n] ELSE l.prev[x]
    BY <1>5, <2>1, <2>2
  <2>4. Represents(m, t)
    <3>1. t[1] = s[2] /\ t[n - 1] = s[n] /\ Len(t) # 0
      BY <1>1, <1>2, <1>8
    <3>2. m.head = t[1] /\ m.prev[t[1]] = t[Len(t)] /\ m.next[t[Len(t)]] = NULL
      BY <1>2, <1>4, <2>1, <2>2, <2>3, <3>1
    <3>3. ASSUME NEW i \in 1..(Len(t) - 1)
          PROVE  m.next[t[i]] = t[i + 1] /\ m.prev[t[i + 1]] = t[i]
      <4>1. /\ i + 1 \in 1..(n - 1) /\ i \in 1..(n - 1) /\ i + 2 = (i + 1) + 1
            /\ i + 1 \in 1..n /\ i + 2 \in 1..n
        BY <1>1, <1>2
      <4>2. t[i] = s[i + 1] /\ t[i + 1] = s[i + 2]
        BY <1>2, <4>1
      <4>3. s[i + 2] # s[2]
        BY <1>1, <2>1, <4>1
      <4>4. l.next[s[i + 1]] = s[i + 2] /\ l.prev[s[i + 2]] = s[i + 1]
        BY <1>4, <4>1
      <4>5. s[i + 1] \in N /\ s[i + 2] \in N
        BY <1>1, <4>1
      <4> QED
        BY <2>3, <4>2, <4>3, <4>4, <4>5
    <3> QED
      BY <1>2, <3>1, <3>2, <3>3, RepresentsIs
  <2>5. Same(m, l, N \ ToSet(s))
    BY <1>1, <2>1, <2>3 DEF Same
  <2> QED
    BY <1>3, <1>6, <1>8, <2>1, <2>2, <2>4, <2>5 DEF m, t
<1>9. n = 1 \/ n > 1
  <2>1. n \in Nat \ {0}
    BY <1>1
  <2> HIDE DEF n
  <2> QED
    BY <2>1
<1> QED
  BY <1>7, <1>8, <1>9, Zenon

(* All elements of a list are deleted, from the front.                     *)
LEMMA AllDeleted ==
  ASSUME NEW N, NULL \notin N, NEW l \in Lists(N), NEW s \in Orders(N),
         Represents(l, s)
  PROVE  /\ DeleteAll(l, s) \in Lists(N) /\ DeleteAll(l, s).head = NULL
         /\ Same(DeleteAll(l, s), l, N \ ToSet(s))
<1> DEFINE Upto(u) == [i \in 0..Len(s) |->
                         IF i = 0 THEN l ELSE DLDelete(u[i - 1], s[i])]
           upto == CHOOSE u : u = Upto(u)
           F == [i \in 1..Len(s) |-> [m \in Lists(N) |-> DLDelete(m, s[i])]]
           Is(i, q) == /\ Represents(upto[i], q) /\ ToSet(q) \subseteq ToSet(s)
                       /\ Len(q) = Len(s) - i /\ \A j \in 1..Len(q) : q[j] = s[j + i]
           Done(i) == /\ upto[i] \in Lists(N)
                      /\ Same(upto[i], l, N \ ToSet(s))
                      /\ \E q \in Orders(N) : Is(i, q)
           Good == {i \in Nat : i <= Len(s) => Done(i)}
<1>1. DeleteAll(l, s) = upto[Len(s)]
  BY Zenon DEF DeleteAll
<1>2. s \in Seq(N) /\ Len(s) \in Nat /\ \A i \in 1..Len(s) : s[i] \in N
  BY DEF Orders
<1>3. upto = Upto(upto)
  <2>1. F \in Steps(Len(s), Lists(N))
    BY <1>2, DeleteTyped DEF Steps
  <2> HIDE DEF F
  <2>2. PICK f : IsFold(f, Len(s), Lists(N), l, F)
    BY <1>2, <2>1, FoldExists
  <2>3. ASSUME NEW i \in 1..Len(s)
        PROVE  f[i] = DLDelete(f[i - 1], s[i])
    <3>1. f[i - 1] \in Lists(N)
      BY <1>2, <2>2 DEF IsFold
    <3> QED
      BY <2>2, <3>1 DEF F, IsFold
  <2>4. f = Upto(f)
    BY <1>2, <2>2, <2>3 DEF IsFold
  <2> QED
    BY <2>4
<1> HIDE DEF upto
<1>4. upto[0] = l /\ \A i \in 1..Len(s) : upto[i] = DLDelete(upto[i - 1], s[i])
  BY <1>2, <1>3
<1>5. 0 \in Good
  <2>1. Is(0, s)
    BY <1>2, <1>4
  <2> QED
    BY <1>4, <2>1 DEF Same
<1>6. ASSUME NEW i \in Nat, i \in Good, i + 1 <= Len(s) PROVE Done(i + 1)
  <2>1. PICK q \in Orders(N) : Is(i, q)
    BY <1>2, <1>6
  <2> DEFINE m == upto[i]
             p == Tail(q)
  <2>2. /\ m \in Lists(N) /\ Same(m, l, N \ ToSet(s)) /\ Represents(m, q)
        /\ upto[i + 1] = DLDelete(m, s[i + 1])
    BY <1>2, <1>4, <1>6, <2>1
  <2>3. q \in Seq(N) /\ Len(q) > 0 /\ q[1] = s[i + 1]
    <3>1. q \in Seq(N) /\ Len(q) = Len(s) - i /\ \A j \in 1..Len(q) : q[j] = s[j + i]
      BY <2>1 DEF Orders
    <3>2. Len(q) > 0 /\ Len(q) \in Nat
      BY <1>2, <1>6, <3>1
    <3>3. 1 \in 1..Len(q) /\ 1 + i = i + 1
      BY <1>6, <3>2
    <3> QED
      BY <3>1, <3>2, <3>3
  <2>4. Len(p) = Len(q) - 1 /\ \A j \in 1..(Len(q) - 1) : p[j] = q[j + 1]
    <3>1. Len(q) \in Nat /\ q # <<>>
      BY <2>3
    <3> QED
      BY <2>3, <3>1
  <2> HIDE DEF m, p
  <2>5. /\ DLDelete(m, q[1]) \in Lists(N)
        /\ p \in Orders(N) /\ ToSet(p) \subseteq ToSet(q)
        /\ Represents(DLDelete(m, q[1]), p)
        /\ Same(DLDelete(m, q[1]), m, N \ ToSet(q))
    BY <2>2, <2>3, HeadDeleted DEF p
  <2>6. Is(i + 1, p)
    <3>1. \A j \in 1..Len(p) : p[j] = s[j + (i + 1)]
      <4> TAKE j \in 1..Len(p)
      <4>1. j \in 1..(Len(q) - 1) /\ j + 1 \in 1..Len(q) /\ (j + 1) + i = j + (i + 1)
        BY <2>3, <2>4
      <4> QED
        BY <2>1, <2>4, <4>1
    <3>2. Len(p) = Len(s) - (i + 1)
      BY <1>2, <2>1, <2>4
    <3> QED
      BY <2>1, <2>2, <2>3, <2>5, <3>1, <3>2
  <2>7. Same(upto[i + 1], l, N \ ToSet(s))
    <3>1. N \ ToSet(s) \subseteq N \ ToSet(q)
      BY <2>1
    <3> QED
      BY <2>2, <2>3, <2>5, <3>1 DEF Same
  <2> QED
    BY <2>2, <2>3, <2>5, <2>6, <2>7
<1>7. \A i \in Nat : i \in Good => i + 1 \in Good
  <2> HIDE DEF Done
  <2> QED
    BY <1>6
<1> HIDE DEF Good
<1>8. Len(s) \in Good
  BY <1>2, <1>5, <1>7, Induction
<1>9. Done(Len(s))
  BY <1>2, <1>8 DEF Good
<1>10. PICK q \in Orders(N) : Is(Len(s), q)
  BY <1>9
<1>11. upto[Len(s)].head = NULL
  <2>1. q \in Seq(N) /\ Len(q) = 0
    BY <1>2, <1>10 DEF Orders
  <2> QED
    BY <1>10, <2>1, RepresentsIs
<1> QED
  BY <1>1, <1>9, <1>11
(* A function on 1..n is a sequence.                                       *)
LEMMA FunctionIsSeq ==
  ASSUME NEW n \in Nat, NEW S, NEW f \in [1..n -> S]
  PROVE  f \in Seq(S) /\ Len(f) = n /\ DOMAIN f = 1..n
<1>1. f = [i \in 1..n |-> f[i]]
  OBVIOUS
<1>2. \A i \in 1..n : f[i] \in S
  OBVIOUS
<1>3. [i \in 1..n |-> f[i]] \in Seq(S)
  BY <1>2
<1>4. Len(f) = n /\ DOMAIN f = 1..n
  OBVIOUS
<1> QED
  BY <1>1, <1>3, <1>4

(* SetToSeqs are the orders of a set.                                      *)
LEMMA OrdersOfSet ==
  ASSUME NEW N, NEW S \in SUBSET N, IsFiniteSet(S), NEW s \in SetToSeqs(S)
  PROVE  s \in Orders(N) /\ ToSet(s) = S
<1> DEFINE n == Cardinality(S)
<1>1. n \in Nat
  BY FS_CardinalityType
<1>2. s \in [1..n -> S] /\ \A i, j \in 1..n : i # j => s[i] # s[j]
  BY DEF SetToSeqs
<1> HIDE DEF n
<1>3. s \in Seq(N) /\ Len(s) = n /\ DOMAIN s = 1..n
  <2>1. s \in [1..n -> N]
    BY <1>2
  <2> QED
    BY <1>1, <2>1, FunctionIsSeq
<1>4. s \in Orders(N)
  BY <1>2, <1>3 DEF Orders, IsInjective
<1>5. s \in Surjection(1..n, S)
  <2>1. s \in Injection(1..n, S)
    BY <1>2 DEF Injection, IsInjective
  <2>2. Cardinality(1..n) = Cardinality(S)
    BY <1>1, FS_Interval DEF n
  <2> QED
    BY <2>1, <2>2, FS_Injection
<1>6. ToSet(s) = S
  BY <1>2, <1>3, <1>5 DEF Surjection, ToSet
<1> QED
  BY <1>4, <1>6

(* DLRelink puts the elements of a list into another order.                *)
LEMMA Relinked ==
  ASSUME NEW N, NULL \notin N, NEW l \in Lists(N), NEW s \in Orders(N),
         Len(s) = 0 => l.head = NULL
  PROVE  /\ DLRelink(l, s) \in Lists(N)
         /\ Represents(DLRelink(l, s), s)
         /\ Same(DLRelink(l, s), l, N \ ToSet(s))
<1> DEFINE m == DLRelink(l, s)
           At(x) == CHOOSE i \in DOMAIN s : s[i] = x
           n == Len(s)
<1>1. /\ s \in Seq(N) /\ n \in Nat /\ DOMAIN s = 1..n
      /\ \A i \in 1..n : s[i] \in N
      /\ \A i, j \in 1..n : s[i] = s[j] => i = j
      /\ ToSet(s) = {s[i] : i \in 1..n}
  BY DEF Orders, IsInjective, ToSet
<1>2. s = <<>> <=> n = 0
  BY <1>1
<1>3. \A i \in 1..n : At(s[i]) = i
  BY <1>1
<1>4. \A x \in ToSet(s) : At(x) \in 1..n
  BY <1>1, <1>3
<1>5. /\ l.head \in N \cup {NULL}
      /\ l.prev \in [N -> N \cup {NULL}] /\ l.next \in [N -> N \cup {NULL}]
  BY DEF Lists
<1>6. m = [head |-> IF s = <<>> THEN l.head ELSE s[1],
           prev |-> [x \in N |-> IF x \notin ToSet(s) THEN l.prev[x]
                                 ELSE IF At(x) = 1 THEN s[n] ELSE s[At(x) - 1]],
           next |-> [x \in N |-> IF x \notin ToSet(s) THEN l.next[x]
                                 ELSE IF At(x) = n THEN NULL ELSE s[At(x) + 1]]]
  BY <1>5 DEF DLRelink
<1> HIDE DEF At, m, n
<1>7. \A x \in N \ ToSet(s) : m.prev[x] = l.prev[x] /\ m.next[x] = l.next[x]
  BY <1>6
<1>8. \A i \in 1..n : /\ m.prev[s[i]] = IF i = 1 THEN s[n] ELSE s[i - 1]
                      /\ m.next[s[i]] = IF i = n THEN NULL ELSE s[i + 1]
  BY <1>1, <1>3, <1>6
<1>9. m \in Lists(N)
  <2>1. m.head \in N \cup {NULL}
    BY <1>1, <1>2, <1>5, <1>6
  <2>2. ASSUME NEW x \in N
        PROVE  m.prev[x] \in N \cup {NULL} /\ m.next[x] \in N \cup {NULL}
    <3>1. CASE x \notin ToSet(s)
      BY <1>5, <1>7, <3>1
    <3>2. CASE x \in ToSet(s)
      <4>1. PICK i \in 1..n : x = s[i]
        BY <1>1, <3>2
      <4> QED
        BY <1>1, <1>8, <4>1
    <3> QED
      BY <3>1, <3>2
  <2>3. /\ m = [head |-> m.head, prev |-> m.prev, next |-> m.next]
        /\ m.prev = [x \in N |-> m.prev[x]] /\ m.next = [x \in N |-> m.next[x]]
    BY <1>6
  <2> QED
    BY <2>1, <2>2, <2>3 DEF Lists
<1>10. Represents(m, s)
  <2>1. CASE n = 0
    <3>1. m.head = NULL
      BY <1>2, <1>6, <2>1 DEF n
    <3> QED
      BY <1>1, <2>1, <3>1, RepresentsIs DEF n
  <2>2. CASE n > 0
    <3>1. m.head = s[1] /\ m.prev[s[1]] = s[n] /\ m.next[s[n]] = NULL
      BY <1>1, <1>2, <1>6, <1>8, <2>2
    <3>2. ASSUME NEW i \in 1..(n - 1)
          PROVE  m.next[s[i]] = s[i + 1] /\ m.prev[s[i + 1]] = s[i]
      BY <1>1, <1>8
    <3>3. n # 0
      BY <2>2
    <3> QED
      BY <1>1, <3>1, <3>2, <3>3, RepresentsIs DEF n
  <2> QED
    BY <1>1, <2>1, <2>2
<1>11. Same(m, l, N \ ToSet(s))
  BY <1>7 DEF Same
<1> QED
  BY <1>9, <1>10, <1>11 DEF m
(* A list is left alone with its links.                                    *)
LEMMA Untouched ==
  ASSUME NEW N, NEW s \in Seq(N), NEW l, NEW m, Represents(l, s),
         m.head = l.head, Same(m, l, ToSet(s))
  PROVE  Represents(m, s)
<1>1. \A i \in 1..Len(s) : s[i] \in ToSet(s)
  BY DEF ToSet
<1>2. \A i \in 1..Len(s) : m.prev[s[i]] = l.prev[s[i]] /\ m.next[s[i]] = l.next[s[i]]
  BY <1>1 DEF Same
<1>3. Len(s) \in Nat
  OBVIOUS
<1>4. CASE Len(s) = 0
  BY <1>4, RepresentsIs
<1>5. CASE Len(s) # 0
  <2>1. /\ l.head = s[1] /\ l.prev[s[1]] = s[Len(s)] /\ l.next[s[Len(s)]] = NULL
        /\ \A i \in 1..(Len(s) - 1) :
             l.next[s[i]] = s[i + 1] /\ l.prev[s[i + 1]] = s[i]
    BY <1>5, RepresentsIs
  <2>2. /\ m.head = s[1] /\ m.prev[s[1]] = s[Len(s)] /\ m.next[s[Len(s)]] = NULL
        /\ \A i \in 1..(Len(s) - 1) :
             m.next[s[i]] = s[i + 1] /\ m.prev[s[i + 1]] = s[i]
    BY <1>2, <1>3, <1>5, <2>1
  <2> QED
    BY <1>5, <2>2, RepresentsIs
<1> QED
  BY <1>4, <1>5

(* The numbers from i to j, in order.                                      *)
FromTo(i, j) == [k \in 1..(j - i + 1) |-> i + k - 1]

LEMMA Numbers ==
  ASSUME NEW i \in Int, NEW j \in Int, i <= j + 1, NEW N, i..j \subseteq N
  PROVE  /\ FromTo(i, j) \in Orders(N) /\ ToSet(FromTo(i, j)) = i..j
         /\ Len(FromTo(i, j)) = j - i + 1
         /\ \A k \in 1..(j - i + 1) : FromTo(i, j)[k] = i + k - 1
<1> DEFINE n == j - i + 1
           s == FromTo(i, j)
<1>1. n \in Nat /\ \A k \in 1..n : i + k - 1 \in i..j
  OBVIOUS
<1>2. \A k \in 1..n : s[k] = i + k - 1
  BY DEF FromTo
<1>3. s \in [1..n -> N]
  BY <1>1 DEF FromTo
<1> HIDE DEF s
<1>4. s \in Seq(N) /\ Len(s) = n /\ DOMAIN s = 1..n
  <2> HIDE DEF n
  <2> QED
    BY <1>1, <1>3, FunctionIsSeq
<1>5. s \in Orders(N)
  BY <1>2, <1>4 DEF Orders, IsInjective
<1>6. ToSet(s) = i..j
  <2>1. \A x \in i..j : x - i + 1 \in 1..n /\ x = s[x - i + 1]
    BY <1>2
  <2> QED
    BY <1>1, <1>2, <1>4, <2>1 DEF ToSet
<1> QED
  BY <1>2, <1>4, <1>5, <1>6 DEF s

(* The numbers as a sequence of integers; one more at the end, one less at *)
(* the front.                                                              *)
LEMMA IntNumbers ==
  ASSUME NEW i \in Int, NEW j \in Int, i <= j + 1
  PROVE  /\ FromTo(i, j) \in Seq(Int) /\ Len(FromTo(i, j)) = j - i + 1
         /\ \A k \in 1..(j - i + 1) : FromTo(i, j)[k] = i + k - 1
<1>1. i..j \subseteq Int
  OBVIOUS
<1>2. FromTo(i, j) \in Orders(Int)
  BY <1>1, Numbers
<1> QED
  BY <1>1, <1>2, Numbers DEF Orders

LEMMA NumberAppended ==
  ASSUME NEW i \in Int, NEW j \in Int, i <= j + 1
  PROVE  Append(FromTo(i, j), j + 1) = FromTo(i, j + 1)
<1> DEFINE s == FromTo(i, j)
           t == FromTo(i, j + 1)
           p == Append(s, j + 1)
<1>1. /\ s \in Seq(Int) /\ Len(s) = j - i + 1
      /\ \A k \in 1..(j - i + 1) : s[k] = i + k - 1
  BY IntNumbers
<1>2. /\ t \in Seq(Int) /\ Len(t) = j - i + 2
      /\ \A k \in 1..(j - i + 2) : t[k] = i + k - 1
  <2>1. i <= (j + 1) + 1 /\ i..(j + 1) \subseteq Int /\ j + 1 \in Int
        /\ (j + 1) - i + 1 = j - i + 2
    OBVIOUS
  <2> QED
    BY <2>1, IntNumbers
<1> HIDE DEF s, t
<1>3. /\ p \in Seq(Int) /\ Len(p) = j - i + 2 /\ p[j - i + 2] = j + 1
      /\ \A k \in 1..(j - i + 1) : p[k] = s[k]
  BY <1>1
<1> HIDE DEF p
<1>4. ASSUME NEW k \in 1..(j - i + 2) PROVE p[k] = t[k]
  <2>1. CASE k = j - i + 2
    BY <1>2, <1>3, <2>1
  <2>2. CASE k # j - i + 2
    <3>1. k \in 1..(j - i + 1)
      BY <2>2
    <3> QED
      BY <1>1, <1>2, <1>3, <3>1
  <2> QED
    BY <2>1, <2>2
<1>5. p = t
  BY <1>2, <1>3, <1>4
<1> QED
  BY <1>5 DEF s, t, p

LEMMA NumberDeleted ==
  ASSUME NEW i \in Int, NEW j \in Int, i <= j
  PROVE  Tail(FromTo(i, j)) = FromTo(i + 1, j)
<1> DEFINE s == FromTo(i, j)
           t == FromTo(i + 1, j)
           p == Tail(s)
<1>1. /\ s \in Seq(Int) /\ Len(s) = j - i + 1
      /\ \A k \in 1..(j - i + 1) : s[k] = i + k - 1
  BY IntNumbers
<1>2. /\ t \in Seq(Int) /\ Len(t) = j - i
      /\ \A k \in 1..(j - i) : t[k] = i + k
  <2>1. i + 1 <= j + 1 /\ (i + 1)..j \subseteq Int /\ i + 1 \in Int
        /\ j - (i + 1) + 1 = j - i
    OBVIOUS
  <2>2. /\ t \in Seq(Int) /\ Len(t) = j - (i + 1) + 1
        /\ \A k \in 1..(j - (i + 1) + 1) : t[k] = (i + 1) + k - 1
    BY <2>1, IntNumbers
  <2> HIDE DEF t
  <2> QED
    BY <2>1, <2>2
<1> HIDE DEF s, t
<1>3. s # <<>>
  BY <1>1
<1>4. /\ p \in Seq(Int) /\ Len(p) = j - i
      /\ \A k \in 1..(j - i) : p[k] = s[k + 1]
  BY <1>1, <1>3
<1> HIDE DEF p
<1>5. \A k \in 1..(j - i) : p[k] = t[k]
  BY <1>1, <1>2, <1>4
<1>6. p = t
  BY <1>2, <1>4, <1>5
<1> QED
  BY <1>6 DEF s, t, p

(* What the links of such a list are.                                      *)
LEMMA NumberLinks ==
  ASSUME NEW i \in Int, NEW j \in Int, i <= j, NEW l, Represents(l, FromTo(i, j))
  PROVE  /\ l.head = i /\ l.next[j] = NULL
         /\ \A k \in i..(j - 1) : l.next[k] = k + 1
<1> DEFINE s == FromTo(i, j)
           n == j - i + 1
<1>1. s \in Seq(Int) /\ Len(s) = n /\ \A k \in 1..n : s[k] = i + k - 1
  BY IntNumbers
<1> HIDE DEF s
<1>2. Len(s) # 0 /\ Represents(l, s)
  BY <1>1 DEF s
<1>3. /\ l.head = s[1] /\ l.next[s[Len(s)]] = NULL
      /\ \A k \in 1..(Len(s) - 1) : l.next[s[k]] = s[k + 1]
  BY <1>1, <1>2, RepresentsIs
<1>4. ASSUME NEW k \in i..(j - 1) PROVE l.next[k] = k + 1
  <2> DEFINE m == k - i + 1
  <2>1. m \in 1..(n - 1) /\ m \in 1..n /\ m + 1 \in 1..n
    OBVIOUS
  <2>2. s[m] = k /\ s[m + 1] = k + 1
    BY <1>1, <2>1
  <2> HIDE DEF m
  <2> QED
    BY <1>1, <1>3, <2>1, <2>2
<1>5. s[1] = i /\ s[n] = j
  BY <1>1
<1> QED
  BY <1>1, <1>3, <1>4, <1>5
(* Lists of numbers from i to j grow at the end and shrink at the front.   *)
LEMMA NumbersGrow ==
  ASSUME NEW N, NULL \notin N, NEW l \in Lists(N), NEW i \in Int, NEW j \in Int,
         i <= j + 1, i..j \subseteq N, j + 1 \in N, Represents(l, FromTo(i, j))
  PROVE  /\ DLAppend(l, j + 1) \in Lists(N)
         /\ Represents(DLAppend(l, j + 1), FromTo(i, j + 1))
<1> DEFINE s == FromTo(i, j)
           x == j + 1
<1>1. s \in Orders(N) /\ ToSet(s) = i..j
  BY Numbers
<1>2. x \in N \ ToSet(s)
  BY <1>1
<1>3. Append(s, x) = FromTo(i, x)
  BY NumberAppended
<1>4. Represents(l, s)
  OBVIOUS
<1> HIDE DEF s, x
<1>5. DLAppend(l, x) \in Lists(N) /\ Represents(DLAppend(l, x), Append(s, x))
  BY <1>1, <1>2, <1>4, Appended
<1> QED
  BY <1>3, <1>5 DEF x

LEMMA NumbersShrink ==
  ASSUME NEW N, NULL \notin N, NEW l \in Lists(N), NEW i \in Int, NEW j \in Int,
         i <= j, i..j \subseteq N, Represents(l, FromTo(i, j))
  PROVE  /\ DLDelete(l, i) \in Lists(N)
         /\ Represents(DLDelete(l, i), FromTo(i + 1, j))
<1> DEFINE s == FromTo(i, j)
<1>1. s \in Orders(N)
  BY Numbers
<1>2. Len(s) = j - i + 1 /\ \A k \in 1..(j - i + 1) : s[k] = i + k - 1
  BY IntNumbers
<1>3. Len(s) > 0 /\ s[1] = i
  BY <1>2
<1>4. Tail(s) = FromTo(i + 1, j)
  BY NumberDeleted
<1>5. Represents(l, s)
  OBVIOUS
<1> HIDE DEF s
<1>6. DLDelete(l, s[1]) \in Lists(N) /\ Represents(DLDelete(l, s[1]), Tail(s))
  BY <1>1, <1>3, <1>5, HeadDeleted
<1> QED
  BY <1>3, <1>4, <1>6

(* The head of such a list is taken off but keeps its link to the next one. *)
LEMMA HeadOff ==
  ASSUME NEW N, NULL \notin N, NEW l \in Lists(N), NEW i \in Int, NEW j \in Int,
         i <= j, i..j \subseteq N, Represents(l, FromTo(i, j))
  PROVE  /\ DLDelete(l, i) \in Lists(N)
         /\ Represents(DLDelete(l, i), FromTo(i + 1, j))
         /\ DLDelete(l, i).next[i] = IF i = j THEN NULL ELSE i + 1
<1>1. DLDelete(l, i) \in Lists(N) /\ Represents(DLDelete(l, i), FromTo(i + 1, j))
  BY NumbersShrink
<1>2. l.head = i /\ l.next[i] = IF i = j THEN NULL ELSE i + 1
  <2>1. l.head = i /\ l.next[j] = NULL /\ \A k \in i..(j - 1) : l.next[k] = k + 1
    BY NumberLinks
  <2>2. i # j => i \in i..(j - 1)
    OBVIOUS
  <2> QED
    BY <2>1, <2>2
<1>3. l = [head |-> l.head, prev |-> l.prev, next |-> l.next]
  BY DEF Lists
<1>4. DLDelete(l, i).next = l.next
  BY <1>2, <1>3 DEF DLDelete
<1> QED
  BY <1>1, <1>2, <1>4

-----------------------------------------------------------------------------
(* The fixture is testing, and it has freed all sets.                      *)
Testing == pc \in {"prime", "schedule", "run", "halt"}
Cleaned == pc \in {"clean_algos", "crashed", "done"}

(* The lists are lists, before anything is said of what is in them.        *)
Typed ==
  /\ HeapTypeOK
  /\ set_list \in Lists(SetIds)
  /\ algo_list \in Lists(AlgoIds)

(* The first of the sets and of the algorithms that are allocated is the   *)
(* head of the list of the fixture, which has the others in their order.   *)
(* An algorithm that is being deleted is not in it any more, but still has *)
(* its link to the next one.                                               *)
SetsListed ==
  \E i \in 1..(Len(TaskSets) + 1) : \E j \in 0..Len(TaskSets) :
    /\ i <= j + 1
    /\ live.sets = i..j /\ Represents(set_list, FromTo(i, j))
    /\ pc = "register" => i = 1
    /\ Testing => i = 1 /\ j = Len(TaskSets)
    /\ pc = "clean_tasks" =>
         /\ j = Len(TaskSets)
         /\ IF i <= j THEN set = i ELSE set = NULL
    /\ Cleaned => live.sets = {}

AlgosListed ==
  \E i \in 1..(Algos + 1) : \E j \in 0..Algos :
    /\ i <= j + 1
    /\ live.algos = i..j
    /\ Represents(algo_list, FromTo(IF Deleting = {} THEN i ELSE i + 1, j))
    /\ pc = "register" => i = 1 /\ j < Algos
    /\ Testing \/ pc = "clean_tasks" => i = 1 /\ j = Algos
    /\ Deleting # {} => /\ i <= j /\ j = Algos /\ algo = i
                        /\ algo_list.next[i] = IF i = Algos THEN NULL ELSE i + 1
    /\ pc = "done" => i > j

(* A set keeps its tasks until it is freed with them.                      *)
SetsKept ==
  /\ \A s \in live.sets : Represents(SetTasks(s), TaskSets[s])
  /\ live.tasks = UNION {ToSet(TaskSets[s]) : s \in live.sets}

(* The algorithm under test has the tasks of the set, and halting takes    *)
(* them off from the front.                                                *)
TestsTasks ==
  /\ Testing => algo \in AlgoIds /\ set \in SetIds
  /\ pc \in {"schedule", "run"} => /\ Represents(AlgoTasks(algo), TaskSets[set])
                                   /\ ready \subseteq ToSet(TaskSets[set])
  /\ pc = "halt" => \E S \in SUBSET Tasks : ListOf(AlgoTasks(algo), S, Tasks)
  /\ pc \in {"run", "halt"} => elt = al_tasks_head[algo]
  /\ \A a \in AlgoIds :
       al_tasks_head[a] # NULL => pc \in {"schedule", "run", "halt"} /\ a = algo
  /\ pc = "schedule" => rounds < MaxRounds

QueueKept ==
  pc \in {"run", "halt"} =>
    \E S \in SUBSET Tasks : /\ ListOf(Queue(algo), S, Tasks)
                            /\ pc = "run" => S = ready

(* How often fixt_task_run has been called for the tasks of a set, and     *)
(* fixt_task_del.                                                          *)
Begun(s) ==
  IF pc = "register" THEN 0
  ELSE IF Testing
       THEN (algo - 1) + (IF s < set \/ (s = set /\ pc # "prime") THEN 1 ELSE 0)
       ELSE Algos
Deleted(s) == IF (pc = "clean_tasks" /\ s \notin live.sets) \/ Cleaned THEN 1 ELSE 0
SemsCounted ==
  \A s \in SetIds : \A t \in ToSet(TaskSets[s]) : sems[t] = Begun(s) - Deleted(s)

(* The inductive invariant.                                                *)
HeapInv ==
  /\ Typed
  /\ SetsListed
  /\ AlgosListed
  /\ SetsKept
  /\ TestsTasks
  /\ QueueKept
  /\ SemsCounted
-----------------------------------------------------------------------------
(* What is assumed of the task sets, and that the tasks are finitely many. *)
LEMMA SetsAre ==
  /\ Len(TaskSets) \in Nat \ {0} /\ SetIds = 1..Len(TaskSets)
  /\ \A s \in SetIds : /\ TaskSets[s] \in Orders(Tasks)
                       /\ Len(TaskSets[s]) > 0
                       /\ ToSet(TaskSets[s]) \subseteq Tasks
  /\ \A s, s2 \in SetIds :
       s # s2 => ToSet(TaskSets[s]) \cap ToSet(TaskSets[s2]) = {}
  /\ \A t \in Tasks : \E s \in SetIds : t \in ToSet(TaskSets[s])
  /\ NULL \notin Tasks /\ NULL \notin SetIds /\ NULL \notin AlgoIds
  /\ AlgoIds = 1..Algos /\ Algos \in Nat \ {0} /\ MaxRounds \in Nat \ {0}
  /\ IsFiniteSet(Tasks) /\ IsFiniteSet(SetIds) /\ IsFiniteSet(AlgoIds)
<1> DEFINE n == Len(TaskSets)
<1>1. TaskSets \in Seq(Seq(Tasks)) /\ TaskSets # <<>>
  BY TaskSetsAssumption
<1>2. n \in Nat \ {0} /\ SetIds = 1..n
  BY <1>1 DEF SetIds
<1>3. \A s \in SetIds : TaskSets[s] \in Seq(Tasks)
  BY <1>1, <1>2
<1>4. ASSUME NEW s \in SetIds
      PROVE  /\ TaskSets[s] \in Orders(Tasks) /\ Len(TaskSets[s]) > 0
             /\ ToSet(TaskSets[s]) \subseteq Tasks
  <2>1. TaskSets[s] \in Seq(Tasks) /\ TaskSets[s] # <<>> /\ IsInjective(TaskSets[s])
    BY <1>3, TaskSetsAssumption
  <2>2. ToSet(TaskSets[s]) \subseteq Tasks
    BY <2>1 DEF ToSet
  <2> QED
    BY <2>1, <2>2 DEF Orders
<1>5. IsFiniteSet(Tasks)
  <2> DEFINE T == {ToSet(TaskSets[s]) : s \in 1..n}
             f == [s \in 1..n |-> ToSet(TaskSets[s])]
  <2>1. f \in Surjection(1..n, T)
    BY DEF Surjection
  <2>2. IsFiniteSet(1..n)
    BY <1>2, FS_Interval
  <2>3. IsFiniteSet(T)
    <3> HIDE DEF f, T, n
    <3> QED
      BY <2>1, <2>2, FS_Surjection
  <2>4. ASSUME NEW U \in T PROVE IsFiniteSet(U)
    <3>1. PICK s \in 1..n : U = ToSet(TaskSets[s])
      OBVIOUS
    <3> DEFINE q == TaskSets[s]
    <3>2. q \in Seq(Tasks)
      BY <1>2, <1>3
    <3> HIDE DEF q
    <3>3. Len(q) \in Nat /\ DOMAIN q = 1..Len(q)
      BY <3>2
    <3>4. [i \in 1..Len(q) |-> q[i]] \in Surjection(1..Len(q), ToSet(q))
      BY <3>3 DEF Surjection, ToSet
    <3>5. IsFiniteSet(1..Len(q))
      BY <3>3, FS_Interval
    <3>6. IsFiniteSet(ToSet(q))
      BY <3>4, <3>5, FS_Surjection
    <3> QED
      BY <3>1, <3>6 DEF q
  <2>5. IsFiniteSet(UNION T)
    <3> HIDE DEF T
    <3> QED
      BY <2>3, <2>4, FS_UNION
  <2>6. Tasks = UNION T
    BY <1>2 DEF Tasks, SetIds
  <2> QED
    BY <2>5, <2>6
<1>6. IsFiniteSet(SetIds) /\ IsFiniteSet(AlgoIds)
  BY <1>2, FS_Interval, AlgosAssumption DEF AlgoIds
<1>7. \A t \in Tasks : \E s \in SetIds : t \in ToSet(TaskSets[s])
  BY DEF Tasks, SetIds
<1> QED
  BY <1>2, <1>4, <1>5, <1>6, <1>7, TaskSetsAssumption, AlgosAssumption DEF AlgoIds

(* Heads and links that are of the right types make a list.                *)
LEMMA ListsMade ==
  ASSUME NEW N
  PROVE  /\ \A h \in N \cup {NULL} : \A x \in Links(N) :
              /\ ListAt(h, x) \in Lists(N) /\ ListAt(h, x).head = h
              /\ ListAt(h, x).prev = x.prev /\ ListAt(h, x).next = x.next
         /\ \A l \in Lists(N) : /\ l.head \in N \cup {NULL} /\ LinksOf(l) \in Links(N)
                                /\ ListAt(l.head, LinksOf(l)) = l
                                /\ LinksOf(l).prev = l.prev /\ LinksOf(l).next = l.next
BY DEF ListAt, LinksOf, Links, Lists

(* A list without a head has no elements.                                  *)
LEMMA EmptyList ==
  ASSUME NEW N, NEW l, l.head = NULL
  PROVE  <<>> \in Orders(N) /\ ToSet(<<>>) = {} /\ Represents(l, <<>>)
BY DEF Orders, IsInjective, ToSet, Represents

(* The invariant holds when the program starts, and each step keeps it.    *)
LEMMA HeapInit == Init => HeapInv
<1> SUFFICES ASSUME Init PROVE HeapInv
  OBVIOUS
<1> USE DEF Init
<1> DEFINE None(N) == ListAt(NULL, NoLinks(N))
<1>1. ASSUME NEW N
      PROVE  /\ NoLinks(N) \in Links(N) /\ None(N) \in Lists(N)
             /\ LinksOf(None(N)) \in Links(N) /\ None(N).head = NULL
  BY DEF NoLinks, Links, Lists, ListAt, LinksOf
<1>2. Typed
  BY <1>1, SetsAre DEF Typed, HeapTypeOK
<1>3. FromTo(1, 0) = <<>> /\ 1..0 = {}
  BY DEF FromTo
<1>4. Represents(set_list, FromTo(1, 0)) /\ Represents(algo_list, FromTo(1, 0))
  BY <1>1, <1>3, EmptyList
<1>5. SetsListed
  BY <1>3, <1>4, SetsAre DEF SetsListed, Testing, Cleaned
<1>6. AlgosListed
  BY <1>3, <1>4, SetsAre DEF AlgosListed, Deleting, Testing
<1>7. SetsKept
  BY DEF SetsKept
<1>8. TestsTasks /\ QueueKept
  BY SetsAre DEF TestsTasks, QueueKept, Testing
<1>9. SemsCounted
  <2>1. \A s \in SetIds : Begun(s) = 0 /\ Deleted(s) = 0
    BY DEF Begun, Deleted, Testing, Cleaned
  <2>2. \A s \in SetIds : \A t \in ToSet(TaskSets[s]) : sems[t] = 0
    BY SetsAre
  <2> QED
    BY <2>1, <2>2 DEF SemsCounted
<1> QED
  BY <1>2, <1>5, <1>6, <1>7, <1>8, <1>9 DEF HeapInv
LEMMA NewSetStep == ASSUME HeapInv, NewSet PROVE HeapInv'
<1> DEFINE s == Cardinality(live.sets) + 1
           l == AppendAll(ListAt(NULL, ts), TaskSets[s])
           n == Len(TaskSets)
<1> USE DEF HeapInv
<1>1. /\ pc = "register" /\ s \in SetIds
      /\ live' = [live EXCEPT !.sets = @ \cup {s},
                              !.tasks = @ \cup ToSet(TaskSets[s])]
      /\ ts_set_head' = [ts_set_head EXCEPT ![s] = l.head]
      /\ ts' = LinksOf(l)
      /\ set_list' = DLAppend(set_list, s)
      /\ UNCHANGED <<pc, algo_list, al_tasks_head, at, al_queue_head, aq, sems,
                     algo, set, elt, ready, rounds>>
  BY DEF NewSet
<1>2. PICK j \in 0..n : live.sets = 1..j /\ Represents(set_list, FromTo(1, j))
  BY <1>1 DEF SetsListed
<1>3. s = j + 1 /\ s \notin live.sets /\ j \in Nat
  <2>1. j \in Nat /\ Cardinality(1..j) = j
    BY FS_Interval, SetsAre
  <2> QED
    BY <1>2, <2>1
<1>4. /\ s \in SetIds /\ TaskSets[s] \in Orders(Tasks)
      /\ ListAt(NULL, ts) \in Lists(Tasks) /\ ListAt(NULL, ts).head = NULL
  BY <1>1, SetsAre, ListsMade DEF Typed, HeapTypeOK
<1>5. /\ l \in Lists(Tasks) /\ Represents(l, TaskSets[s])
      /\ Same(l, ListAt(NULL, ts), Tasks \ ToSet(TaskSets[s]))
  BY <1>4, SetsAre, AllAppended
<1> HIDE DEF s, l
<1>6. /\ ts' \in Links(Tasks) /\ ListAt(l.head, ts') = l
      /\ l.head \in Tasks \cup {NULL}
      /\ ts_set_head' \in [SetIds -> Tasks \cup {NULL}]
      /\ ts_set_head'[s] = l.head
      /\ \A r \in SetIds : r # s => ts_set_head'[r] = ts_set_head[r]
  BY <1>1, <1>5, ListsMade DEF Typed, HeapTypeOK
<1>7. /\ live'.sets = 1..s /\ live'.algos = live.algos
      /\ live'.tasks = live.tasks \cup ToSet(TaskSets[s])
  BY <1>1, <1>2, <1>3
<1>8. set_list' \in Lists(SetIds) /\ Represents(set_list', FromTo(1, s))
  <2>1. 1..j \subseteq SetIds /\ 1 <= j + 1
    BY <1>2, <1>3, SetsAre DEF Typed, HeapTypeOK
  <2>2. set_list \in Lists(SetIds) /\ NULL \notin SetIds
    BY SetsAre DEF Typed
  <2>3. j + 1 \in SetIds /\ j \in Int /\ 1 \in Int
    BY <1>1, <1>3
  <2> QED
    BY <1>1, <1>2, <1>3, <2>1, <2>2, <2>3, NumbersGrow
<1>9. Typed'
  <2>1. LinksOf(set_list)' \in Links(SetIds)
    BY <1>8, ListsMade
  <2>2. live'.tasks \subseteq Tasks /\ live'.sets \subseteq SetIds
    BY <1>1, <1>4, <1>7, SetsAre DEF Typed, HeapTypeOK
  <2> QED
    BY <1>1, <1>6, <1>7, <1>8, <2>1, <2>2 DEF Typed, HeapTypeOK
<1>10. SetsListed'
  <2>1. s \in 0..n /\ 1 <= s + 1 /\ 1 \in 1..(n + 1)
    BY <1>1, SetsAre
  <2> QED
    BY <1>1, <1>7, <1>8, <2>1 DEF SetsListed, Testing, Cleaned
<1>11. AlgosListed'
  BY <1>1, <1>7 DEF AlgosListed, Deleting, Testing
<1>12. SetsKept'
  <2>1. ASSUME NEW r \in live'.sets PROVE Represents(SetTasks(r)', TaskSets[r])
    <3>1. CASE r = s
      BY <1>5, <1>6, <3>1 DEF SetTasks
    <3>2. CASE r # s
      <4>1. r \in live.sets /\ r \in SetIds
        BY <1>1, <1>3, <1>2, <1>7, <3>2, SetsAre DEF Typed, HeapTypeOK
      <4>2. Represents(SetTasks(r), TaskSets[r]) /\ TaskSets[r] \in Seq(Tasks)
        BY <4>1, SetsAre DEF SetsKept, Orders
      <4>3. ToSet(TaskSets[r]) \subseteq Tasks \ ToSet(TaskSets[s])
        BY <1>4, <3>2, <4>1, SetsAre
      <4>4. SetTasks(r)'.head = SetTasks(r).head
        BY <1>6, <3>2, <4>1 DEF SetTasks, ListAt
      <4>5. Same(SetTasks(r)', SetTasks(r), ToSet(TaskSets[r]))
        BY <1>1, <1>5, <4>3 DEF Same, SetTasks, ListAt, LinksOf
      <4> QED
        BY <4>2, <4>4, <4>5, Untouched
    <3> QED
      BY <3>1, <3>2
  <2>2. live'.tasks = UNION {ToSet(TaskSets[r]) : r \in live'.sets}
    <3>1. live'.sets = live.sets \cup {s}
      BY <1>2, <1>3, <1>7
    <3> QED
      BY <1>7, <3>1 DEF SetsKept
  <2> QED
    BY <2>1, <2>2 DEF SetsKept
<1>13. TestsTasks'
  BY <1>1 DEF TestsTasks, Testing, AlgoTasks
<1>14. QueueKept'
  BY <1>1 DEF QueueKept
<1>15. SemsCounted'
  BY <1>1 DEF SemsCounted, Begun, Deleted, Testing, Cleaned
<1> QED
  BY <1>9, <1>10, <1>11, <1>12, <1>13, <1>14, <1>15
LEMMA NewAlgoStep == ASSUME HeapInv, NewAlgo PROVE HeapInv'
<1> DEFINE a == Cardinality(live.algos) + 1
           n == Len(TaskSets)
<1> USE DEF HeapInv
<1>1. /\ pc = "register" /\ live.sets = SetIds
      /\ live' = [live EXCEPT !.algos = @ \cup {a}]
      /\ algo_list' = DLAppend(algo_list, a)
      /\ al_tasks_head' = [al_tasks_head EXCEPT ![a] = NULL]
      /\ al_queue_head' = [al_queue_head EXCEPT ![a] = NULL]
      /\ pc' = IF a = Algos THEN "prime" ELSE pc
      /\ algo' = algo_list'.head /\ set' = set_list.head
      /\ UNCHANGED <<set_list, ts_set_head, ts, at, aq, sems, elt, ready, rounds>>
  BY DEF NewAlgo
<1>2. PICK j \in 0..Algos : /\ live.algos = 1..j /\ j < Algos
                            /\ Represents(algo_list, FromTo(1, j))
  BY <1>1 DEF AlgosListed, Deleting
<1>3. a = j + 1 /\ j \in Nat /\ a \in AlgoIds /\ a \in 1..Algos
  <2>1. j \in Nat /\ Cardinality(1..j) = j
    BY FS_Interval, SetsAre
  <2> QED
    BY <1>2, <2>1, SetsAre
<1> HIDE DEF a
<1>4. algo_list' \in Lists(AlgoIds) /\ Represents(algo_list', FromTo(1, a))
  <2>1. 1..j \subseteq AlgoIds /\ 1 <= j + 1 /\ j + 1 \in AlgoIds /\ j \in Int /\ 1 \in Int
    BY <1>2, <1>3, SetsAre DEF Typed, HeapTypeOK
  <2>2. algo_list \in Lists(AlgoIds) /\ NULL \notin AlgoIds
    BY SetsAre DEF Typed
  <2> QED
    BY <1>1, <1>2, <1>3, <2>1, <2>2, NumbersGrow
<1>5. algo' = 1
  <2>1. 1 <= a /\ a \in Int /\ 1 \in Int
    BY <1>3
  <2> QED
    BY <1>1, <1>4, <2>1, NumberLinks
<1>6. /\ live.sets = 1..n /\ set' = 1 /\ 1 \in SetIds
      /\ Represents(set_list, FromTo(1, n))
  <2>1. n \in Nat \ {0} /\ SetIds = 1..n
    BY SetsAre
  <2>2. PICK i \in 1..(n + 1), j2 \in 0..n :
          i = 1 /\ live.sets = i..j2 /\ Represents(set_list, FromTo(i, j2))
    BY <1>1 DEF SetsListed
  <2>3. j2 = n
    BY <1>1, <2>1, <2>2
  <2>4. Represents(set_list, FromTo(1, n)) /\ 1 \in Int /\ n \in Int /\ 1 <= n
    BY <2>1, <2>2, <2>3
  <2>5. set_list.head = 1
    BY <2>4, NumberLinks
  <2> QED
    BY <1>1, <2>1, <2>4, <2>5
<1>7. /\ live'.algos = 1..a /\ live'.sets = live.sets /\ live'.tasks = live.tasks
  BY <1>1, <1>2, <1>3
<1>8. pc' \in {"register", "prime"} /\ (pc' = "register" => a < Algos)
      /\ (pc' = "prime" => a = Algos)
  BY <1>1, <1>3, SetsAre
<1>9. \A b \in AlgoIds : al_tasks_head'[b] = NULL
  BY <1>1, <1>3 DEF TestsTasks, Typed, HeapTypeOK
<1>10. Typed'
  <2>1. LinksOf(algo_list)' \in Links(AlgoIds)
    BY <1>4, ListsMade
  <2>2. live'.algos \subseteq AlgoIds /\ algo' \in AlgoIds /\ set' \in SetIds
    BY <1>3, <1>5, <1>6, <1>7, SetsAre
  <2> QED
    BY <1>1, <1>3, <1>4, <1>7, <1>8, <2>1, <2>2 DEF Typed, HeapTypeOK
<1>11. SetsListed'
  <2>1. 1 \in 1..(n + 1) /\ n \in 0..n /\ 1 <= n + 1
    BY SetsAre
  <2> QED
    BY <1>1, <1>6, <1>7, <1>8, <2>1 DEF SetsListed, Testing, Cleaned
<1>12. AlgosListed'
  <2>1. 1 \in 1..(Algos + 1) /\ a \in 0..Algos /\ 1 <= a + 1
    BY <1>3, SetsAre
  <2> QED
    BY <1>4, <1>7, <1>8, <2>1 DEF AlgosListed, Deleting, Testing
<1>13. SetsKept'
  BY <1>1, <1>7 DEF SetsKept, SetTasks
<1>14. TestsTasks'
  BY <1>5, <1>6, <1>8, <1>9, <1>3, SetsAre DEF TestsTasks, Testing
<1>15. QueueKept'
  BY <1>8 DEF QueueKept
<1>16. SemsCounted'
  <2>1. \A s \in SetIds : Begun(s) = 0 /\ Deleted(s) = 0
    BY <1>1 DEF Begun, Deleted, Testing, Cleaned
  <2>2. \A s \in SetIds : Begun(s)' = 0 /\ Deleted(s)' = 0
    <3> TAKE s \in SetIds
    <3>1. ~(s < 1) /\ pc' # "clean_tasks" /\ ~Cleaned'
      BY <1>8, SetsAre DEF Cleaned
    <3> QED
      BY <1>5, <1>6, <1>8, <3>1 DEF Begun, Deleted, Testing
  <2> QED
    BY <1>1, <2>1, <2>2 DEF SemsCounted
<1> QED
  BY <1>10, <1>11, <1>12, <1>13, <1>14, <1>15, <1>16

(* In a test all sets and all algorithms are listed.                       *)
LEMMA AllListed ==
  ASSUME HeapInv, Testing
  PROVE  /\ live.sets = SetIds /\ live.algos = AlgoIds
         /\ Represents(set_list, FromTo(1, Len(TaskSets)))
         /\ Represents(algo_list, FromTo(1, Algos))
         /\ algo \in AlgoIds /\ set \in SetIds
         /\ TaskSets[set] \in Orders(Tasks)
         /\ Represents(SetTasks(set), TaskSets[set])
         /\ SetTasks(set) \in Lists(Tasks) /\ AlgoTasks(algo) \in Lists(Tasks)
         /\ Elements(SetTasks(set)) = TaskSets[set]
<1>1. live.sets = SetIds /\ Represents(set_list, FromTo(1, Len(TaskSets)))
  BY SetsAre DEF HeapInv, SetsListed
<1>2. live.algos = AlgoIds /\ Represents(algo_list, FromTo(1, Algos))
  BY SetsAre DEF HeapInv, AlgosListed, Deleting, Testing
<1>3. algo \in AlgoIds /\ set \in SetIds
  BY DEF HeapInv, TestsTasks
<1>4. TaskSets[set] \in Orders(Tasks) /\ Represents(SetTasks(set), TaskSets[set])
  BY <1>1, <1>3, SetsAre DEF HeapInv, SetsKept
<1>5. SetTasks(set) \in Lists(Tasks) /\ AlgoTasks(algo) \in Lists(Tasks)
  BY <1>3, ListsMade DEF HeapInv, Typed, HeapTypeOK, SetTasks, AlgoTasks
<1>6. Elements(SetTasks(set)) = TaskSets[set]
  BY <1>4, <1>5, SetsAre, ElementsAre
<1> QED
  BY <1>1, <1>2, <1>3, <1>4, <1>5, <1>6

LEMMA PrimeStep == ASSUME HeapInv, Prime PROVE HeapInv'
<1> USE DEF HeapInv
<1> DEFINE tasks == TaskSets[set]
           l == AppendAll(AlgoTasks(algo), tasks)
<1>1. Testing /\ pc = "prime"
  BY DEF Prime, Testing
<1>2. Elements(SetTasks(set)) = tasks
  BY <1>1, AllListed
<1>3. /\ al_tasks_head' = [al_tasks_head EXCEPT ![algo] = l.head]
      /\ at' = LinksOf(l)
      /\ sems' = [t \in Tasks |-> IF t \in ToSet(tasks) THEN sems[t] + 1 ELSE sems[t]]
      /\ ready' = ToSet(tasks)
  BY <1>2 DEF Prime
<1>4. /\ rounds' = 0 /\ pc' = "schedule"
      /\ UNCHANGED <<set_list, algo_list, ts_set_head, ts, al_queue_head, aq, live,
                     algo, set, elt>>
  BY DEF Prime
<1>5. /\ algo \in AlgoIds /\ set \in SetIds /\ tasks \in Orders(Tasks)
      /\ AlgoTasks(algo) \in Lists(Tasks) /\ AlgoTasks(algo).head = NULL
  <2>1. al_tasks_head[algo] = NULL
    BY <1>1, AllListed DEF TestsTasks
  <2> QED
    BY <1>1, <2>1, AllListed DEF AlgoTasks, ListAt
<1>6. l \in Lists(Tasks) /\ Represents(l, tasks)
  BY <1>5, SetsAre, AllAppended
<1> HIDE DEF l
<1>7. /\ at' \in Links(Tasks) /\ AlgoTasks(algo)' = l
      /\ al_tasks_head' \in [AlgoIds -> Tasks \cup {NULL}]
      /\ \A b \in AlgoIds : b # algo => al_tasks_head'[b] = NULL
  <2>1. /\ l.head \in Tasks \cup {NULL} /\ LinksOf(l) \in Links(Tasks)
        /\ ListAt(l.head, LinksOf(l)) = l
    BY <1>6, ListsMade
  <2>2. al_tasks_head \in [AlgoIds -> Tasks \cup {NULL}]
    BY DEF Typed, HeapTypeOK
  <2>3. \A b \in AlgoIds : al_tasks_head[b] = NULL
    BY <1>1 DEF TestsTasks
  <2> QED
    BY <1>3, <1>4, <1>5, <2>1, <2>2, <2>3 DEF AlgoTasks
<1>8. ToSet(tasks) \subseteq Tasks
  BY <1>5, SetsAre
<1>9. Typed'
  BY <1>3, <1>4, <1>7, <1>8, SetsAre DEF Typed, HeapTypeOK
<1>10. SetsListed' /\ AlgosListed'
  BY <1>1, <1>4 DEF SetsListed, AlgosListed, Deleting, Testing, Cleaned
<1>11. SetsKept'
  BY <1>4 DEF SetsKept, SetTasks
<1>12. TestsTasks'
  BY <1>3, <1>4, <1>5, <1>6, <1>7, SetsAre DEF TestsTasks, Testing
<1>13. QueueKept'
  BY <1>4 DEF QueueKept
<1>14. SemsCounted'
  <2> SUFFICES ASSUME NEW s \in SetIds, NEW t \in ToSet(TaskSets[s])
               PROVE  sems'[t] = Begun(s)' - Deleted(s)'
    BY DEF SemsCounted
  <2>1. t \in Tasks /\ (t \in ToSet(tasks) <=> s = set)
    BY <1>5, SetsAre
  <2>2. sems[t] = Begun(s) - Deleted(s)
    BY DEF SemsCounted
  <2>3. /\ Deleted(s) = 0 /\ Deleted(s)' = 0
        /\ Begun(s) = (algo - 1) + (IF s < set THEN 1 ELSE 0)
        /\ Begun(s)' = (algo - 1) + (IF s < set \/ s = set THEN 1 ELSE 0)
    BY <1>1, <1>4 DEF Begun, Deleted, Testing, Cleaned
  <2>4. s \in Int /\ set \in Int /\ algo \in Int
    BY <1>5, SetsAre
  <2> QED
    BY <1>3, <2>1, <2>2, <2>3, <2>4
<1> QED
  BY <1>9, <1>10, <1>11, <1>12, <1>13, <1>14
LEMMA ScheduleStep == ASSUME HeapInv, Schedule PROVE HeapInv'
<1> USE DEF HeapInv
<1> DEFINE tasks == TaskSets[set]
           queued == Queued(algo)
<1>1. Testing /\ pc = "schedule"
  BY DEF Schedule, Testing
<1>2. PICK order \in SetToSeqs(ToSet(Elements(queued))) :
      LET l == DLRelink(queued, order)
      IN  /\ al_queue_head' = [al_queue_head EXCEPT ![algo] = l.head]
          /\ aq' = LinksOf(l)
  BY DEF Schedule
<1> DEFINE l == DLRelink(queued, order)
<1>3. /\ pc' \in {"run", "halt"} /\ elt' = al_tasks_head[algo] /\ rounds' = rounds + 1
      /\ UNCHANGED <<set_list, algo_list, ts_set_head, ts, al_tasks_head, at, live,
                     sems, algo, set, ready>>
  BY DEF Schedule
<1>4. /\ algo \in AlgoIds /\ set \in SetIds /\ tasks \in Orders(Tasks)
      /\ AlgoTasks(algo) \in Lists(Tasks)
      /\ Represents(AlgoTasks(algo), tasks) /\ ready \subseteq ToSet(tasks)
      /\ ToSet(tasks) \subseteq Tasks
  BY <1>1, AllListed, SetsAre DEF TestsTasks
<1>5. Elements(AlgoTasks(algo)) = tasks
  BY <1>4, SetsAre, ElementsAre
<1>6. queued \in Lists(Tasks) /\ ListOf(queued, ready, Tasks)
  <2> DEFINE none == ListAt(NULL, aq)
  <2>1. none \in Lists(Tasks) /\ none.head = NULL
    <3>1. NULL \in Tasks \cup {NULL} /\ aq \in Links(Tasks)
      BY DEF Typed, HeapTypeOK
    <3> QED
      BY <3>1, ListsMade
  <2>2. queued = AppendThose(none, tasks, ready)
    BY <1>5 DEF Queued
  <2>3. ToSet(tasks) \cap ready = ready
    BY <1>4
  <2>4. NULL \notin Tasks
    BY SetsAre
  <2> HIDE DEF none, tasks, queued
  <2> QED
    BY <1>4, <2>1, <2>2, <2>3, <2>4, ThoseAppended
<1> HIDE DEF queued
<1>7. PICK q \in Orders(Tasks) : ToSet(q) = ready /\ Represents(queued, q)
  BY <1>6 DEF ListOf
<1>8. Elements(queued) = q
  BY <1>6, <1>7, SetsAre, ElementsAre
<1>9. order \in Orders(Tasks) /\ ToSet(order) = ready
  <2>1. IsFiniteSet(ready) /\ ready \in SUBSET Tasks
    BY <1>4, SetsAre, FS_Subset
  <2> QED
    BY <1>7, <1>8, <2>1, OrdersOfSet
<1>10. Len(order) = 0 => queued.head = NULL
  <2> SUFFICES ASSUME Len(order) = 0 PROVE queued.head = NULL
    OBVIOUS
  <2>1. ToSet(order) = {}
    BY <1>9 DEF Orders, ToSet
  <2>2. q \in Seq(Tasks) /\ ToSet(q) = {}
    BY <1>7, <1>9, <2>1 DEF Orders
  <2>3. Len(q) = 0
    <3>1. Len(q) \in Nat /\ DOMAIN q = 1..Len(q)
      BY <2>2
    <3>2. 1 \notin DOMAIN q
      BY <2>2 DEF ToSet
    <3> QED
      BY <3>1, <3>2
  <2> QED
    BY <1>7, <2>2, <2>3, RepresentsIs
<1>11. l \in Lists(Tasks) /\ Represents(l, order)
  BY <1>6, <1>9, <1>10, SetsAre, Relinked
<1>12. /\ al_queue_head' = [al_queue_head EXCEPT ![algo] = l.head] /\ aq' = LinksOf(l)
  BY <1>2
<1> HIDE DEF l
<1>13. /\ aq' \in Links(Tasks) /\ Queue(algo)' = l
       /\ al_queue_head' \in [AlgoIds -> Tasks \cup {NULL}]
  <2>1. /\ l.head \in Tasks \cup {NULL} /\ LinksOf(l) \in Links(Tasks)
        /\ ListAt(l.head, LinksOf(l)) = l
    BY <1>11, ListsMade
  <2>2. al_queue_head \in [AlgoIds -> Tasks \cup {NULL}]
    BY DEF Typed, HeapTypeOK
  <2> QED
    BY <1>3, <1>4, <1>12, <2>1, <2>2 DEF Queue
<1>14. Typed'
  <2>1. elt' \in Tasks \cup {NULL}
    BY <1>3, <1>4 DEF Typed, HeapTypeOK
  <2>2. rounds' \in 0..MaxRounds
    BY <1>1, <1>3, SetsAre DEF Typed, HeapTypeOK, TestsTasks
  <2> QED
    BY <1>3, <1>13, <2>1, <2>2 DEF Typed, HeapTypeOK
<1>15. SetsListed' /\ AlgosListed'
  BY <1>1, <1>3 DEF SetsListed, AlgosListed, Deleting, Testing, Cleaned
<1>16. SetsKept'
  BY <1>3 DEF SetsKept, SetTasks
<1>17. TestsTasks'
  <2>1. AlgoTasks(algo)' = AlgoTasks(algo)
    BY <1>3 DEF AlgoTasks
  <2>2. ListOf(AlgoTasks(algo), ToSet(tasks), Tasks)
    BY <1>4 DEF ListOf
  <2>3. \A b \in AlgoIds : al_tasks_head'[b] # NULL => b = algo'
    BY <1>3 DEF TestsTasks
  <2> QED
    BY <1>3, <1>4, <2>1, <2>2, <2>3 DEF TestsTasks, Testing
<1>18. QueueKept'
  <2>1. ListOf(Queue(algo)', ready, Tasks) /\ ready \in SUBSET Tasks
    BY <1>4, <1>9, <1>11, <1>13 DEF ListOf
  <2> QED
    BY <1>3, <2>1 DEF QueueKept
<1>19. SemsCounted'
  <2>1. \A s \in SetIds : Begun(s)' = Begun(s) /\ Deleted(s)' = Deleted(s)
    BY <1>1, <1>3 DEF Begun, Deleted, Testing, Cleaned
  <2> QED
    BY <1>3, <2>1 DEF SemsCounted
<1> QED
  BY <1>14, <1>15, <1>16, <1>17, <1>18, <1>19

LEMMA RunStep == ASSUME HeapInv, Run PROVE HeapInv'
<1> USE DEF HeapInv
<1> DEFINE tasks == TaskSets[set]
<1>1. Testing /\ pc = "run"
  BY DEF Run, Testing
<1>2. /\ ready' \in SUBSET ToSet(Elements(AlgoTasks(algo)))
      /\ pc' \in {"halt"} \cup (IF rounds < MaxRounds THEN {"schedule"} ELSE {})
      /\ UNCHANGED <<lists, live, sems, algo, set, elt, rounds>>
  BY DEF Run
<1>3. /\ algo \in AlgoIds /\ set \in SetIds /\ tasks \in Orders(Tasks)
      /\ AlgoTasks(algo) \in Lists(Tasks)
      /\ Represents(AlgoTasks(algo), tasks) /\ ToSet(tasks) \subseteq Tasks
  BY <1>1, AllListed, SetsAre DEF TestsTasks
<1>4. Elements(AlgoTasks(algo)) = tasks
  BY <1>3, SetsAre, ElementsAre
<1>5. ready' \subseteq ToSet(tasks)
  BY <1>2, <1>4
<1>6. pc' \in {"halt", "schedule"} /\ (pc' = "schedule" => rounds < MaxRounds)
  BY <1>2
<1>7. Typed'
  BY <1>2, <1>3, <1>5, <1>6 DEF Typed, HeapTypeOK, lists
<1>8. SetsListed' /\ AlgosListed'
  BY <1>1, <1>2, <1>6 DEF SetsListed, AlgosListed, Deleting, Testing, Cleaned, lists
<1>9. SetsKept'
  BY <1>2 DEF SetsKept, SetTasks, lists
<1>10. TestsTasks'
  <2>1. AlgoTasks(algo)' = AlgoTasks(algo)
    BY <1>2 DEF AlgoTasks, lists
  <2>2. ListOf(AlgoTasks(algo), ToSet(tasks), Tasks)
    BY <1>3 DEF ListOf
  <2>3. \A b \in AlgoIds : al_tasks_head'[b] # NULL => b = algo'
    BY <1>2 DEF TestsTasks, lists
  <2>4. elt' = al_tasks_head'[algo'] /\ algo' = algo /\ set' = set /\ rounds' = rounds
    BY <1>1, <1>2 DEF TestsTasks, lists
  <2> QED
    BY <1>3, <1>5, <1>6, <2>1, <2>2, <2>3, <2>4 DEF TestsTasks, Testing
<1>11. QueueKept'
  <2>1. Queue(algo)' = Queue(algo)
    BY <1>2 DEF Queue, lists
  <2>2. \E S \in SUBSET Tasks : ListOf(Queue(algo), S, Tasks)
    BY <1>1 DEF QueueKept
  <2> QED
    BY <1>6, <2>1, <2>2 DEF QueueKept
<1>12. SemsCounted'
  <2>1. \A s \in SetIds : Begun(s)' = Begun(s) /\ Deleted(s)' = Deleted(s)
    BY <1>1, <1>2, <1>6 DEF Begun, Deleted, Testing, Cleaned
  <2> QED
    BY <1>2, <2>1 DEF SemsCounted
<1> QED
  BY <1>7, <1>8, <1>9, <1>10, <1>11, <1>12

LEMMA HaltStep == ASSUME HeapInv, Halt PROVE HeapInv'
<1> USE DEF HeapInv
<1> DEFINE l == DLDelete(AlgoTasks(algo), elt)
<1>1. Testing /\ pc = "halt" /\ elt # NULL
  BY DEF Halt, Testing
<1>2. /\ al_tasks_head' = [al_tasks_head EXCEPT ![algo] = l.head]
      /\ at' = LinksOf(l)
      /\ elt' = at.next[elt]
      /\ UNCHANGED <<pc, set_list, algo_list, ts_set_head, ts, al_queue_head, aq,
                     live, sems, algo, set, ready, rounds>>
  BY DEF Halt
<1>3. /\ algo \in AlgoIds /\ AlgoTasks(algo) \in Lists(Tasks)
      /\ AlgoTasks(algo).head = elt /\ AlgoTasks(algo).next = at.next
  BY <1>1, AllListed DEF TestsTasks, AlgoTasks, ListAt
<1>4. PICK q \in Orders(Tasks) : Represents(AlgoTasks(algo), q)
  BY <1>1 DEF TestsTasks, ListOf
<1>5. Len(q) > 0 /\ q[1] = elt
  <2>1. q \in Seq(Tasks) /\ Len(q) \in Nat
    BY DEF Orders
  <2>2. Len(q) # 0
    BY <1>1, <1>3, <1>4, <2>1, RepresentsIs
  <2>3. q[1] = elt
    BY <1>3, <1>4, <2>1, <2>2, RepresentsIs
  <2> QED
    BY <2>1, <2>2, <2>3
<1>6. /\ l \in Lists(Tasks) /\ Tail(q) \in Orders(Tasks)
      /\ Represents(l, Tail(q)) /\ l.head = at.next[elt]
  <2> DEFINE m == AlgoTasks(algo)
  <2>1. m \in Lists(Tasks) /\ Represents(m, q) /\ NULL \notin Tasks
    BY <1>3, <1>4, SetsAre
  <2> HIDE DEF m
  <2>2. /\ DLDelete(m, q[1]) \in Lists(Tasks) /\ Tail(q) \in Orders(Tasks)
        /\ Represents(DLDelete(m, q[1]), Tail(q)) /\ DLDelete(m, q[1]).head = m.next[q[1]]
    BY <1>5, <2>1, HeadDeleted
  <2> QED
    BY <1>3, <1>5, <2>2 DEF m
<1> HIDE DEF l
<1>7. /\ at' \in Links(Tasks) /\ AlgoTasks(algo)' = l
      /\ al_tasks_head' \in [AlgoIds -> Tasks \cup {NULL}]
      /\ elt' = al_tasks_head'[algo] /\ elt' \in Tasks \cup {NULL}
      /\ \A b \in AlgoIds : b # algo => al_tasks_head'[b] = NULL
  <2>1. /\ l.head \in Tasks \cup {NULL} /\ LinksOf(l) \in Links(Tasks)
        /\ ListAt(l.head, LinksOf(l)) = l
    BY <1>6, ListsMade
  <2>2. al_tasks_head \in [AlgoIds -> Tasks \cup {NULL}]
    BY DEF Typed, HeapTypeOK
  <2>3. \A b \in AlgoIds : b # algo => al_tasks_head[b] = NULL
    BY <1>1 DEF TestsTasks
  <2> QED
    BY <1>2, <1>3, <1>6, <2>1, <2>2, <2>3 DEF AlgoTasks
<1>8. Typed'
  BY <1>2, <1>7 DEF Typed, HeapTypeOK
<1>9. SetsListed' /\ AlgosListed'
  BY <1>2 DEF SetsListed, AlgosListed, Deleting, Testing, Cleaned
<1>10. SetsKept'
  BY <1>2 DEF SetsKept, SetTasks
<1>11. TestsTasks'
  <2>1. ToSet(Tail(q)) \in SUBSET Tasks
    BY <1>6 DEF Orders, ToSet
  <2>2. \E S \in SUBSET Tasks : ListOf(AlgoTasks(algo)', S, Tasks)
    BY <1>6, <1>7, <2>1 DEF ListOf
  <2> QED
    BY <1>1, <1>2, <1>7, <2>2 DEF TestsTasks, Testing
<1>12. QueueKept'
  BY <1>2 DEF QueueKept, Queue
<1>13. SemsCounted'
  BY <1>2 DEF SemsCounted, Begun, Deleted, Testing, Cleaned
<1> QED
  BY <1>8, <1>9, <1>10, <1>11, <1>12, <1>13
LEMMA NextTestStep == ASSUME HeapInv, NextTest PROVE HeapInv'
<1> USE DEF HeapInv
<1> DEFINE n == Len(TaskSets)
           last == set_list.next[set] = NULL
           next == IF last THEN algo_list.next[algo] ELSE algo
<1>1. Testing /\ pc = "halt" /\ elt = NULL
  BY DEF NextTest, Testing
<1>2. /\ algo' = next
      /\ set' = IF last THEN set_list.head ELSE set_list.next[set]
      /\ pc' = IF next = NULL THEN "clean_tasks" ELSE "prime"
      /\ UNCHANGED <<lists, live, sems, elt, ready, rounds>>
  BY DEF NextTest
<1>3. /\ live.sets = 1..n /\ live.algos = 1..Algos
      /\ Represents(set_list, FromTo(1, n)) /\ Represents(algo_list, FromTo(1, Algos))
      /\ algo \in 1..Algos /\ set \in 1..n
      /\ n \in Nat \ {0} /\ Algos \in Nat \ {0}
      /\ AlgoIds = 1..Algos /\ SetIds = 1..n /\ NULL \notin AlgoIds /\ NULL \notin SetIds
  BY <1>1, AllListed, SetsAre
<1>4. set_list.head = 1 /\ set_list.next[set] = IF set = n THEN NULL ELSE set + 1
  <2>1. 1 <= n /\ 1 \in Int /\ n \in Int
    BY <1>3
  <2>2. /\ set_list.head = 1 /\ set_list.next[n] = NULL
        /\ \A k \in 1..(n - 1) : set_list.next[k] = k + 1
    BY <1>3, <2>1, NumberLinks
  <2> QED
    BY <1>3, <2>2
<1>5. algo_list.next[algo] = IF algo = Algos THEN NULL ELSE algo + 1
  <2>1. 1 <= Algos /\ 1 \in Int /\ Algos \in Int
    BY <1>3
  <2>2. /\ algo_list.next[Algos] = NULL
        /\ \A k \in 1..(Algos - 1) : algo_list.next[k] = k + 1
    BY <1>3, <2>1, NumberLinks
  <2> QED
    BY <1>3, <2>2
<1>6. last <=> set = n
  <2>1. set # n => set + 1 \in SetIds
    BY <1>3
  <2> QED
    BY <1>3, <1>4, <2>1
<1>7. algo # Algos => algo + 1 \in AlgoIds
  BY <1>3
<1>8. next = NULL <=> set = n /\ algo = Algos
  BY <1>3, <1>5, <1>6, <1>7
<1>9. set' = (IF set = n THEN 1 ELSE set + 1) /\ set' \in SetIds
  <2>1. set' = IF set = n THEN set_list.head ELSE set_list.next[set]
    BY <1>2, <1>6
  <2>2. set # n => set + 1 \in 1..n
    BY <1>3
  <2>3. 1 \in 1..n
    BY <1>3
  <2> QED
    BY <1>3, <1>4, <2>1, <2>2, <2>3
<1>10. /\ pc' \in {"prime", "clean_tasks"} /\ (pc' = "prime" <=> next # NULL)
       /\ algo' = IF set # n THEN algo ELSE IF algo = Algos THEN NULL ELSE algo + 1
  BY <1>2, <1>5, <1>6
<1> HIDE DEF next, last
<1>11. Typed'
  <2>1. algo' \in AlgoIds \cup {NULL}
    BY <1>3, <1>7, <1>10
  <2> QED
    BY <1>2, <1>9, <1>10, <2>1 DEF Typed, HeapTypeOK, lists
<1>12. SetsListed'
  <2>1. 1 \in 1..(n + 1) /\ n \in 0..n /\ 1 <= n + 1 /\ 1 <= n
    BY <1>3
  <2>2. pc' = "clean_tasks" => set' = 1
    BY <1>8, <1>9, <1>10
  <2> QED
    BY <1>2, <1>3, <1>10, <2>1, <2>2 DEF SetsListed, Testing, Cleaned, lists
<1>13. AlgosListed'
  <2>1. 1 \in 1..(Algos + 1) /\ Algos \in 0..Algos /\ 1 <= Algos + 1
    BY <1>3
  <2> QED
    BY <1>2, <1>3, <1>10, <2>1 DEF AlgosListed, Deleting, Testing, lists
<1>14. SetsKept'
  BY <1>2 DEF SetsKept, SetTasks, lists
<1>15. TestsTasks'
  <2>1. \A b \in AlgoIds : al_tasks_head'[b] = NULL
    <3>1. al_tasks_head[algo] = NULL
      BY <1>1 DEF TestsTasks
    <3> QED
      BY <1>2, <3>1 DEF TestsTasks, lists
  <2>2. pc' = "prime" => algo' \in AlgoIds
    BY <1>3, <1>7, <1>8, <1>10
  <2> QED
    BY <1>9, <1>10, <2>1, <2>2 DEF TestsTasks, Testing
<1>16. QueueKept'
  BY <1>10 DEF QueueKept
<1>17. SemsCounted'
  <2> SUFFICES ASSUME NEW s \in SetIds PROVE Begun(s)' = Begun(s) /\ Deleted(s)' = Deleted(s)
    BY <1>2 DEF SemsCounted
  <2>1. Begun(s) = (algo - 1) + (IF s < set \/ s = set THEN 1 ELSE 0)
    BY <1>1 DEF Begun, Testing
  <2>2. Deleted(s) = 0 /\ Deleted(s)' = 0
    BY <1>1, <1>2, <1>3, <1>10 DEF Deleted, Cleaned
  <2>3. s \in 1..n
    BY <1>3
  <2>4. CASE next = NULL
    <3>1. Begun(s)' = Algos
      BY <1>10, <2>4 DEF Begun, Testing
    <3> QED
      BY <1>3, <1>8, <2>1, <2>2, <2>3, <2>4, <3>1
  <2>5. CASE next # NULL
    <3>1. Begun(s)' = (algo' - 1) + (IF s < set' THEN 1 ELSE 0)
      BY <1>10, <2>5 DEF Begun, Testing
    <3> QED
      BY <1>3, <1>8, <1>9, <1>10, <2>1, <2>2, <2>3, <2>5, <3>1
  <2> QED
    BY <2>4, <2>5
<1> QED
  BY <1>11, <1>12, <1>13, <1>14, <1>15, <1>16, <1>17

LEMMA CleanSetStep == ASSUME HeapInv, CleanSet PROVE HeapInv'
<1> USE DEF HeapInv
<1> DEFINE n == Len(TaskSets)
           tasks == TaskSets[set]
           l == DeleteAll(SetTasks(set), tasks)
<1>1. /\ pc = "clean_tasks" /\ set # NULL
      /\ set_list' = DLDelete(set_list, set) /\ set' = set_list.next[set]
      /\ UNCHANGED <<pc, algo_list, al_tasks_head, at, al_queue_head, aq, algo, elt,
                     ready, rounds>>
  BY DEF CleanSet
<1>2. PICK i \in 1..(n + 1) : /\ i <= n + 1 /\ live.sets = i..n
                              /\ Represents(set_list, FromTo(i, n))
                              /\ IF i <= n THEN set = i ELSE set = NULL
  BY <1>1 DEF SetsListed
<1>3. /\ n \in Nat \ {0} /\ SetIds = 1..n /\ NULL \notin SetIds
      /\ NULL \notin Tasks /\ Algos \in Nat \ {0}
  BY SetsAre
<1>4. /\ i <= n /\ i \in Nat /\ set = i /\ i \in SetIds /\ i \in live.sets
      /\ live.sets \subseteq SetIds /\ live.sets \ {i} = (i + 1)..n
  BY <1>1, <1>2, <1>3
<1>5. /\ tasks \in Orders(Tasks) /\ ToSet(tasks) \subseteq Tasks
      /\ SetTasks(set) \in Lists(Tasks) /\ Represents(SetTasks(set), tasks)
  BY <1>4, SetsAre, ListsMade DEF SetsKept, SetTasks, Typed, HeapTypeOK
<1>6. Elements(SetTasks(set)) = tasks
  BY <1>5, SetsAre, ElementsAre
<1>7. /\ ts_set_head' = [ts_set_head EXCEPT ![set] = l.head]
      /\ ts' = LinksOf(l)
      /\ sems' = [t \in Tasks |-> IF t \in ToSet(tasks) THEN sems[t] - 1 ELSE sems[t]]
      /\ live' = [live EXCEPT !.sets = @ \ {set}, !.tasks = @ \ ToSet(tasks)]
  BY <1>6 DEF CleanSet
<1>8. /\ l \in Lists(Tasks) /\ l.head = NULL
      /\ Same(l, SetTasks(set), Tasks \ ToSet(tasks))
  <2> DEFINE m == SetTasks(set)
  <2>1. m \in Lists(Tasks) /\ Represents(m, tasks)
    BY <1>5
  <2> HIDE DEF m, tasks
  <2>2. /\ DeleteAll(m, tasks) \in Lists(Tasks) /\ DeleteAll(m, tasks).head = NULL
        /\ Same(DeleteAll(m, tasks), m, Tasks \ ToSet(tasks))
    BY <1>3, <1>5, <2>1, AllDeleted
  <2> QED
    BY <2>2 DEF m
<1> HIDE DEF l
<1>9. /\ ts' \in Links(Tasks) /\ ts'.prev = l.prev /\ ts'.next = l.next
      /\ ts_set_head' \in [SetIds -> Tasks \cup {NULL}]
      /\ \A s \in SetIds : s # set => ts_set_head'[s] = ts_set_head[s]
  <2>1. LinksOf(l) \in Links(Tasks) /\ LinksOf(l).prev = l.prev /\ LinksOf(l).next = l.next
    BY <1>8, ListsMade
  <2>2. ts_set_head \in [SetIds -> Tasks \cup {NULL}]
    BY DEF Typed, HeapTypeOK
  <2> QED
    BY <1>4, <1>7, <1>8, <2>1, <2>2
<1>10. set_list' \in Lists(SetIds) /\ Represents(set_list', FromTo(i + 1, n))
  <2>1. i \in Int /\ n \in Int /\ i..n \subseteq SetIds /\ set_list \in Lists(SetIds)
    BY <1>2, <1>3, <1>4 DEF Typed
  <2> QED
    BY <1>1, <1>2, <1>3, <1>4, <2>1, NumbersShrink
<1>11. set' = (IF i = n THEN NULL ELSE i + 1) /\ set' \in SetIds \cup {NULL}
  <2>1. i \in Int /\ n \in Int /\ i <= n
    BY <1>3, <1>4
  <2>2. set_list.next[n] = NULL /\ \A k \in i..(n - 1) : set_list.next[k] = k + 1
    BY <1>2, <2>1, NumberLinks
  <2>3. i # n => i \in i..(n - 1) /\ i + 1 \in SetIds
    BY <1>3, <1>4
  <2> QED
    BY <1>1, <1>4, <2>2, <2>3
<1>12. /\ live'.sets = (i + 1)..n /\ live'.algos = live.algos
       /\ live'.tasks = live.tasks \ ToSet(tasks)
  BY <1>4, <1>7
<1>13. SemsCounted'
  <2> SUFFICES ASSUME NEW s \in SetIds, NEW t \in ToSet(TaskSets[s])
               PROVE  sems'[t] = Begun(s)' - Deleted(s)'
    BY DEF SemsCounted
  <2>1. t \in Tasks /\ (t \in ToSet(tasks) <=> s = i)
    BY <1>4, SetsAre
  <2>2. sems[t] = Begun(s) - Deleted(s)
    BY DEF SemsCounted
  <2>3. /\ Begun(s) = Algos /\ Begun(s)' = Algos
        /\ Deleted(s) = IF s \notin i..n THEN 1 ELSE 0
        /\ Deleted(s)' = IF s \notin (i + 1)..n THEN 1 ELSE 0
    BY <1>1, <1>2, <1>12 DEF Begun, Deleted, Testing, Cleaned
  <2>4. s \in Int /\ s <= n
    BY <1>3
  <2> QED
    BY <1>3, <1>4, <1>7, <2>1, <2>2, <2>3, <2>4
<1>14. sems' \in [Tasks -> Nat]
  <2> SUFFICES ASSUME NEW t \in Tasks PROVE sems'[t] \in Nat
    BY <1>7
  <2>1. PICK s \in SetIds : t \in ToSet(TaskSets[s])
    BY SetsAre
  <2>2. sems'[t] = Begun(s)' - Deleted(s)'
    BY <1>13, <2>1 DEF SemsCounted
  <2>3. Begun(s)' = Algos /\ Deleted(s)' \in {0, 1}
    BY <1>1 DEF Begun, Deleted, Testing, Cleaned
  <2> QED
    BY <1>3, <2>2, <2>3
<1>15. Typed'
  <2>1. LinksOf(set_list)' \in Links(SetIds)
    BY <1>10, ListsMade
  <2>2. live'.tasks \subseteq Tasks /\ live'.sets \subseteq SetIds
    BY <1>3, <1>4, <1>12 DEF Typed, HeapTypeOK
  <2> QED
    BY <1>1, <1>9, <1>10, <1>11, <1>12, <1>14, <2>1, <2>2 DEF Typed, HeapTypeOK
<1>16. SetsListed'
  <2>1. i + 1 \in 1..(n + 1) /\ n \in 0..n /\ i + 1 <= n + 1
    BY <1>3, <1>4
  <2>2. IF i + 1 <= n THEN set' = i + 1 ELSE set' = NULL
    BY <1>3, <1>4, <1>11
  <2> QED
    BY <1>1, <1>10, <1>12, <2>1, <2>2 DEF SetsListed, Testing, Cleaned
<1>17. AlgosListed'
  BY <1>1, <1>12 DEF AlgosListed, Deleting, Testing
<1>18. SetsKept'
  <2>1. ASSUME NEW r \in live'.sets PROVE Represents(SetTasks(r)', TaskSets[r])
    <3>1. r \in live.sets /\ r \in SetIds /\ r # set
      BY <1>4, <1>12
    <3>2. Represents(SetTasks(r), TaskSets[r]) /\ TaskSets[r] \in Seq(Tasks)
      BY <3>1, SetsAre DEF SetsKept, Orders
    <3>3. ToSet(TaskSets[r]) \subseteq Tasks \ ToSet(tasks)
      BY <1>4, <3>1, SetsAre
    <3>4. SetTasks(r)'.head = SetTasks(r).head
      BY <1>9, <3>1 DEF SetTasks, ListAt
    <3>5. Same(SetTasks(r)', SetTasks(r), ToSet(TaskSets[r]))
      BY <1>8, <1>9, <3>3 DEF Same, SetTasks, ListAt
    <3> QED
      BY <3>2, <3>4, <3>5, Untouched
  <2>2. live'.tasks = UNION {ToSet(TaskSets[r]) : r \in live'.sets}
    <3>1. live'.sets = live.sets \ {i}
      BY <1>4, <1>12
    <3>2. \A r \in live.sets : r # i => ToSet(TaskSets[r]) \cap ToSet(tasks) = {}
      BY <1>4, SetsAre
    <3>3. live.tasks = UNION {ToSet(TaskSets[r]) : r \in live.sets}
      BY DEF SetsKept
    <3> QED
      BY <1>4, <1>12, <3>1, <3>2, <3>3
  <2> QED
    BY <2>1, <2>2 DEF SetsKept
<1>19. TestsTasks'
  BY <1>1 DEF TestsTasks, Testing
<1>20. QueueKept'
  BY <1>1 DEF QueueKept
<1> QED
  BY <1>13, <1>15, <1>16, <1>17, <1>18, <1>19, <1>20
LEMMA CleanAlgosStep == ASSUME HeapInv, CleanAlgos PROVE HeapInv'
<1> USE DEF HeapInv
<1> DEFINE n == Len(TaskSets)
<1>1. /\ pc = "clean_tasks" /\ set = NULL /\ pc' = "clean_algos"
      /\ algo' = algo_list.head /\ elt' = al_queue_head[algo_list.head]
      /\ algo_list' = DLDelete(algo_list, algo_list.head)
      /\ UNCHANGED <<set_list, ts_set_head, ts, al_tasks_head, at, al_queue_head,
                     aq, live, sems, set, ready, rounds>>
  BY DEF CleanAlgos
<1>2. PICK i \in 1..(n + 1) : /\ i <= n + 1 /\ live.sets = i..n
                              /\ Represents(set_list, FromTo(i, n))
                              /\ IF i <= n THEN set = i ELSE set = NULL
  BY <1>1 DEF SetsListed
<1>3. n \in Nat \ {0} /\ SetIds = 1..n /\ NULL \notin SetIds /\ Algos \in Nat \ {0}
      /\ AlgoIds = 1..Algos
  BY SetsAre
<1>4. i > n /\ live.sets = {}
  <2>1. i <= n => i \in SetIds
    BY <1>3
  <2>2. i > n
    BY <1>1, <1>2, <1>3, <2>1
  <2> QED
    BY <1>2, <1>3, <2>2
<1>5. live.algos = 1..Algos /\ Represents(algo_list, FromTo(1, Algos))
  BY <1>1 DEF AlgosListed, Deleting
<1>6. algo' = 1 /\ 1 \in AlgoIds
  <2>1. 1 <= Algos /\ 1 \in Int /\ Algos \in Int
    BY <1>3
  <2> QED
    BY <1>1, <1>3, <1>5, <2>1, NumberLinks
<1>14. /\ algo_list' \in Lists(AlgoIds) /\ Represents(algo_list', FromTo(2, Algos))
       /\ algo_list'.next[1] = IF 1 = Algos THEN NULL ELSE 2
  <2>1. algo_list \in Lists(AlgoIds) /\ NULL \notin AlgoIds
    BY SetsAre DEF Typed
  <2>2. 1..Algos \subseteq AlgoIds /\ 1 \in Int /\ Algos \in Int /\ 1 <= Algos
    BY <1>3
  <2>3. algo_list' = DLDelete(algo_list, 1)
    BY <1>1, <1>6
  <2>4. /\ algo_list' \in Lists(AlgoIds)
        /\ Represents(algo_list', FromTo(1 + 1, Algos))
        /\ algo_list'.next[1] = IF 1 = Algos THEN NULL ELSE 1 + 1
    BY <1>3, <1>5, <2>1, <2>2, <2>3, HeadOff
  <2>5. 1 + 1 = 2
    OBVIOUS
  <2> QED
    BY <2>4, <2>5
<1>7. Typed'
  <2>1. elt' \in Tasks \cup {NULL}
    BY <1>1, <1>6 DEF Typed, HeapTypeOK
  <2>2. LinksOf(algo_list)' \in Links(AlgoIds)
    BY <1>14, ListsMade
  <2> QED
    BY <1>1, <1>6, <1>14, <2>1, <2>2 DEF Typed, HeapTypeOK
<1>8. SetsListed'
  BY <1>1, <1>2, <1>3, <1>4 DEF SetsListed, Testing, Cleaned
<1>9. AlgosListed'
  <2>1. 1 \in 1..(Algos + 1) /\ Algos \in 0..Algos /\ 1 <= Algos + 1 /\ 1 <= Algos
    BY <1>3
  <2> QED
    BY <1>1, <1>5, <1>6, <1>14, <2>1 DEF AlgosListed, Testing, Deleting
<1>10. SetsKept'
  BY <1>1 DEF SetsKept, SetTasks
<1>11. TestsTasks'
  BY <1>1 DEF TestsTasks, Testing
<1>12. QueueKept'
  BY <1>1 DEF QueueKept
<1>13. SemsCounted'
  <2>1. \A s \in SetIds : Begun(s)' = Begun(s) /\ Deleted(s)' = Deleted(s)
    BY <1>1, <1>4 DEF Begun, Deleted, Testing, Cleaned
  <2> QED
    BY <1>1, <2>1 DEF SemsCounted
<1> QED
  BY <1>7, <1>8, <1>9, <1>10, <1>11, <1>12, <1>13

(* fixt_algo_del may meet anything in the queue of the last round.         *)
LEMMA DequeueStep == ASSUME HeapInv, Dequeue PROVE HeapInv'
<1> USE DEF HeapInv
<1> DEFINE l == DLDelete(Queue(algo), elt)
<1>1. /\ pc = "clean_algos" /\ algo # NULL /\ elt # NULL
      /\ al_queue_head' = [al_queue_head EXCEPT ![algo] = l.head]
      /\ aq' = LinksOf(l) /\ elt' = aq.next[elt]
      /\ UNCHANGED <<pc, set_list, algo_list, ts_set_head, ts, al_tasks_head, at,
                     live, sems, algo, set, ready, rounds>>
  BY DEF Dequeue
<1>2. algo \in AlgoIds /\ elt \in Tasks /\ elt' \in Tasks \cup {NULL}
  BY <1>1 DEF Typed, HeapTypeOK, Links
<1>3. Queue(algo) \in Lists(Tasks)
  BY <1>2, ListsMade DEF Queue, Typed, HeapTypeOK
<1>4. l \in Lists(Tasks)
  BY <1>2, <1>3, DeleteTyped
<1> HIDE DEF l
<1>5. aq' \in Links(Tasks) /\ al_queue_head' \in [AlgoIds -> Tasks \cup {NULL}]
  <2>1. l.head \in Tasks \cup {NULL} /\ LinksOf(l) \in Links(Tasks)
    BY <1>4, ListsMade
  <2>2. al_queue_head \in [AlgoIds -> Tasks \cup {NULL}]
    BY DEF Typed, HeapTypeOK
  <2> QED
    BY <1>1, <2>1, <2>2
<1>6. Typed'
  BY <1>1, <1>2, <1>5 DEF Typed, HeapTypeOK
<1>7. SetsListed' /\ AlgosListed'
  BY <1>1 DEF SetsListed, AlgosListed, Deleting, Testing, Cleaned
<1>8. SetsKept'
  BY <1>1 DEF SetsKept, SetTasks
<1>9. TestsTasks' /\ QueueKept'
  BY <1>1 DEF TestsTasks, QueueKept, Testing
<1>10. SemsCounted'
  BY <1>1 DEF SemsCounted, Begun, Deleted, Testing, Cleaned
<1> QED
  BY <1>6, <1>7, <1>8, <1>9, <1>10

LEMMA CrashStep == ASSUME HeapInv, Crash PROVE HeapInv'
<1> USE DEF HeapInv
<1>1. /\ pc = "clean_algos" /\ pc' = "crashed"
      /\ UNCHANGED <<lists, live, sems, algo, set, elt, ready, rounds>>
  BY DEF Crash
<1>2. Typed'
  BY <1>1 DEF Typed, HeapTypeOK, lists
<1>3. SetsListed' /\ AlgosListed'
  BY <1>1 DEF SetsListed, AlgosListed, Deleting, Testing, Cleaned, lists
<1>4. SetsKept'
  BY <1>1 DEF SetsKept, SetTasks, lists
<1>5. TestsTasks' /\ QueueKept'
  BY <1>1 DEF TestsTasks, QueueKept, Testing, lists
<1>6. SemsCounted'
  <2>1. \A s \in SetIds : Begun(s)' = Begun(s) /\ Deleted(s)' = Deleted(s)
    BY <1>1 DEF Begun, Deleted, Testing, Cleaned
  <2> QED
    BY <1>1, <2>1 DEF SemsCounted
<1> QED
  BY <1>2, <1>3, <1>4, <1>5, <1>6

LEMMA CleanAlgoStep == ASSUME HeapInv, CleanAlgo PROVE HeapInv'
<1> USE DEF HeapInv
<1> DEFINE next == algo_list.next[algo]
<1>1. /\ pc = "clean_algos"
      /\ algo_list' = (IF next = NULL THEN algo_list ELSE DLDelete(algo_list, next))
      /\ live' = [live EXCEPT !.algos = @ \ {algo}]
      /\ algo' = next
      /\ elt' = (IF next = NULL THEN NULL ELSE al_queue_head[next])
      /\ pc' = (IF next = NULL THEN "done" ELSE pc)
      /\ UNCHANGED <<set_list, ts_set_head, ts, al_tasks_head, at, al_queue_head,
                     aq, sems, set, ready, rounds>>
  BY DEF CleanAlgo
<1>2. PICK i \in 1..(Algos + 1) : /\ i <= Algos /\ live.algos = i..Algos
                                  /\ Represents(algo_list, FromTo(i + 1, Algos))
                                  /\ algo = i
                                  /\ algo_list.next[i] = IF i = Algos THEN NULL ELSE i + 1
  BY <1>1 DEF AlgosListed, Deleting
<1>3. Algos \in Nat \ {0} /\ AlgoIds = 1..Algos /\ NULL \notin AlgoIds
  BY SetsAre
<1>4. /\ i \in Int /\ Algos \in Int /\ i \in AlgoIds /\ i..Algos \subseteq AlgoIds
      /\ (i..Algos) \ {i} = (i + 1)..Algos
  BY <1>2, <1>3
<1>5. next = (IF i = Algos THEN NULL ELSE i + 1) /\ next \in AlgoIds \cup {NULL}
      /\ (next = NULL <=> i = Algos)
  <2>1. i # Algos => i + 1 \in AlgoIds
    BY <1>2, <1>3
  <2> QED
    BY <1>2, <1>3, <2>1
<1> HIDE DEF next
<1>6. /\ algo_list' \in Lists(AlgoIds)
      /\ i = Algos => Represents(algo_list', FromTo(i + 1, Algos))
      /\ i # Algos => /\ Represents(algo_list', FromTo(i + 2, Algos))
                      /\ algo_list'.next[i + 1] = IF i + 1 = Algos THEN NULL ELSE i + 2
  <2>1. algo_list \in Lists(AlgoIds)
    BY DEF Typed
  <2>2. CASE i = Algos
    BY <1>1, <1>2, <1>5, <2>1, <2>2
  <2>3. CASE i # Algos
    <3>1. /\ (i + 1)..Algos \subseteq AlgoIds /\ i + 1 \in Int /\ Algos \in Int
          /\ i + 1 <= Algos /\ (i + 1) + 1 = i + 2
      BY <1>2, <1>3, <2>3
    <3>2. algo_list' = DLDelete(algo_list, i + 1)
      BY <1>1, <1>5, <2>3
    <3> QED
      BY <1>2, <1>3, <2>1, <2>3, <3>1, <3>2, HeadOff
  <2> QED
    BY <2>2, <2>3
<1>7. /\ live'.algos = (i + 1)..Algos /\ live'.sets = live.sets
      /\ live'.tasks = live.tasks
  BY <1>1, <1>2, <1>4
<1>8. pc' \in {"clean_algos", "done"} /\ (pc' = "clean_algos" <=> i # Algos)
  BY <1>1, <1>5
<1>9. Typed'
  <2>1. LinksOf(algo_list)' \in Links(AlgoIds)
    BY <1>6, ListsMade
  <2>2. live'.algos \subseteq AlgoIds /\ algo' \in AlgoIds \cup {NULL}
    BY <1>1, <1>3, <1>4, <1>5, <1>7
  <2>3. elt' \in Tasks \cup {NULL}
    BY <1>1, <1>5 DEF Typed, HeapTypeOK
  <2> QED
    BY <1>1, <1>6, <1>7, <1>8, <2>1, <2>2, <2>3 DEF Typed, HeapTypeOK
<1>10. SetsListed'
  BY <1>1, <1>7, <1>8 DEF SetsListed, Testing, Cleaned
<1>11. AlgosListed'
  <2>1. i + 1 \in 1..(Algos + 1) /\ Algos \in 0..Algos /\ i + 1 <= Algos + 1
    BY <1>2, <1>3
  <2>2. i # Algos => i + 1 <= Algos /\ algo' = i + 1 /\ (i + 1) + 1 = i + 2
    BY <1>1, <1>2, <1>3, <1>5
  <2>3. i = Algos => i + 1 > Algos
    BY <1>2, <1>3
  <2> QED
    BY <1>6, <1>7, <1>8, <2>1, <2>2, <2>3 DEF AlgosListed, Testing, Deleting
<1>12. SetsKept'
  BY <1>1, <1>7 DEF SetsKept, SetTasks
<1>13. TestsTasks' /\ QueueKept'
  BY <1>1, <1>8 DEF TestsTasks, QueueKept, Testing
<1>14. SemsCounted'
  <2>1. \A s \in SetIds : Begun(s)' = Begun(s) /\ Deleted(s)' = Deleted(s)
    BY <1>1, <1>8 DEF Begun, Deleted, Testing, Cleaned
  <2> QED
    BY <1>1, <2>1 DEF SemsCounted
<1> QED
  BY <1>9, <1>10, <1>11, <1>12, <1>13, <1>14

LEMMA StutterStep == ASSUME HeapInv, UNCHANGED vars PROVE HeapInv'
<1>1. UNCHANGED <<pc, lists, live, sems, algo, set, elt, ready, rounds>>
  BY DEF vars
<1> USE DEF HeapInv
<1>2. Typed'
  BY <1>1 DEF Typed, HeapTypeOK, lists
<1>3. SetsListed' /\ AlgosListed'
  BY <1>1 DEF SetsListed, AlgosListed, Deleting, Testing, Cleaned, lists
<1>4. SetsKept'
  BY <1>1 DEF SetsKept, SetTasks, lists
<1>5. TestsTasks' /\ QueueKept'
  BY <1>1 DEF TestsTasks, QueueKept, AlgoTasks, Queue, Testing, lists
<1>6. SemsCounted'
  BY <1>1 DEF SemsCounted, Begun, Deleted, Testing, Cleaned
<1> QED
  BY <1>2, <1>3, <1>4, <1>5, <1>6
-----------------------------------------------------------------------------
(* The lists of the fixture have the elements that fixt_init, fixt_test    *)
(* and fixt_term have put into them, and every semaphore is counted.       *)
THEOREM HeapInvariance == Spec => []HeapInv
<1>1. Init => HeapInv
  BY HeapInit
<1>2. HeapInv /\ [Next]_vars => HeapInv'
  <2> SUFFICES ASSUME HeapInv, [Next]_vars PROVE HeapInv'
    OBVIOUS
  <2>1. CASE NewSet
    BY <2>1, NewSetStep
  <2>2. CASE NewAlgo
    BY <2>2, NewAlgoStep
  <2>3. CASE Prime
    BY <2>3, PrimeStep
  <2>4. CASE Schedule
    BY <2>4, ScheduleStep
  <2>5. CASE Run
    BY <2>5, RunStep
  <2>6. CASE Halt
    BY <2>6, HaltStep
  <2>7. CASE NextTest
    BY <2>7, NextTestStep
  <2>8. CASE CleanSet
    BY <2>8, CleanSetStep
  <2>9. CASE CleanAlgos
    BY <2>9, CleanAlgosStep
  <2>10. CASE Dequeue
    BY <2>10, DequeueStep
  <2>11. CASE Crash
    BY <2>11, CrashStep
  <2>12. CASE CleanAlgo
    BY <2>12, CleanAlgoStep
  <2>13. CASE Exit \/ UNCHANGED vars
    BY <2>13, StutterStep DEF Exit
  <2> QED
    BY <2>1, <2>2, <2>3, <2>4, <2>5, <2>6, <2>7, <2>8, <2>9, <2>10, <2>11, <2>12,
       <2>13 DEF Next
<1> QED
  BY <1>1, <1>2, PTL DEF Spec
(* No semaphore is freed that was not allocated, and no walk leaves the    *)
(* tasks: the types of FixtHeap, for every set of task sets.               *)
THEOREM HeapTyped == Spec => []HeapTypeOK
<1>1. HeapInv => HeapTypeOK
  BY DEF HeapInv, Typed
<1> QED
  BY <1>1, HeapInvariance, PTL

(* A list that has elements is well formed.                                *)
LEMMA Intact ==
  ASSUME NEW N, IsFiniteSet(N), NULL \notin N, NEW l \in Lists(N), NEW s \in Orders(N),
         Represents(l, s)
  PROVE  WellFormed(l) /\ Elements(l) = s
<1>1. Elements(l) = s
  BY ElementsAre
<1> QED
  BY <1>1 DEF WellFormed

(* The lists in use are intact although all algorithms share the links of  *)
(* the tasks (DL_APPEND2, DL_DELETE2 and DL_SORT2 as they are called).     *)
THEOREM ListsStayIntact == Spec => []ListsIntact
<1>1. ASSUME HeapInv PROVE ListsIntact
  <2> USE DEF HeapInv
  <2>1. WellFormed(set_list) /\ ToSet(Elements(set_list)) = live.sets
    <3>1. PICK i \in 1..(Len(TaskSets) + 1), j \in 0..Len(TaskSets) :
            i <= j + 1 /\ live.sets = i..j /\ Represents(set_list, FromTo(i, j))
      BY <1>1 DEF SetsListed
    <3>2. i \in Int /\ j \in Int /\ i..j \subseteq SetIds
      BY <1>1, <3>1, SetsAre
    <3>3. FromTo(i, j) \in Orders(SetIds) /\ ToSet(FromTo(i, j)) = i..j
      BY <3>1, <3>2, Numbers
    <3>4. set_list \in Lists(SetIds)
      BY <1>1 DEF Typed
    <3>5. WellFormed(set_list) /\ Elements(set_list) = FromTo(i, j)
      BY <3>1, <3>3, <3>4, SetsAre, Intact
    <3> QED
      BY <3>1, <3>3, <3>5
  <2>2. WellFormed(algo_list) /\ ToSet(Elements(algo_list)) = live.algos \ Deleting
    <3>1. PICK i \in 1..(Algos + 1), j \in 0..Algos :
            /\ i <= j + 1 /\ live.algos = i..j
            /\ Represents(algo_list, FromTo(IF Deleting = {} THEN i ELSE i + 1, j))
            /\ Deleting # {} => i <= j /\ algo = i
      BY <1>1 DEF AlgosListed, Deleting
    <3> DEFINE k == IF Deleting = {} THEN i ELSE i + 1
    <3>2. k \in Int /\ j \in Int /\ k..j \subseteq AlgoIds /\ k <= j + 1
      BY <1>1, <3>1, SetsAre
    <3>6. k..j = live.algos \ Deleting
      BY <3>1, <3>2 DEF Deleting
    <3>7. Represents(algo_list, FromTo(k, j))
      BY <3>1
    <3> HIDE DEF k
    <3>3. FromTo(k, j) \in Orders(AlgoIds) /\ ToSet(FromTo(k, j)) = k..j
      BY <3>1, <3>2, Numbers
    <3>4. algo_list \in Lists(AlgoIds)
      BY <1>1 DEF Typed
    <3>5. WellFormed(algo_list) /\ Elements(algo_list) = FromTo(k, j)
      BY <3>3, <3>4, <3>7, SetsAre, Intact
    <3> QED
      BY <3>3, <3>5, <3>6
  <2>3. \A s \in live.sets : Represents(SetTasks(s), TaskSets[s])
    BY <1>1 DEF SetsKept
  <2>4. ASSUME NEW a \in live.algos PROVE WellFormed(AlgoTasks(a))
    <3>1. a \in AlgoIds /\ AlgoTasks(a) \in Lists(Tasks)
          /\ AlgoTasks(a).head = al_tasks_head[a]
      BY <1>1, ListsMade DEF AlgoTasks, Typed, HeapTypeOK, ListAt
    <3>2. \E q \in Orders(Tasks) : Represents(AlgoTasks(a), q)
      <4>1. CASE al_tasks_head[a] = NULL
        BY <3>1, <4>1, EmptyList
      <4>2. CASE al_tasks_head[a] # NULL
        <5>1. a = algo /\ set \in SetIds /\ pc \in {"schedule", "run", "halt"}
          BY <1>1, <3>1, <4>2 DEF TestsTasks, Testing
        <5>2. CASE pc \in {"schedule", "run"}
          BY <1>1, <5>1, <5>2, SetsAre DEF TestsTasks
        <5>3. CASE pc = "halt"
          BY <1>1, <5>1, <5>3 DEF TestsTasks, ListOf
        <5> QED
          BY <5>1, <5>2, <5>3
      <4> QED
        BY <4>1, <4>2
    <3> QED
      BY <3>1, <3>2, SetsAre, Intact
  <2>5. ASSUME pc \in {"run", "halt"} PROVE WellFormed(Queue(algo))
    <3>1. Queue(algo) \in Lists(Tasks)
      BY <1>1, <2>5, ListsMade DEF Queue, Typed, HeapTypeOK, TestsTasks, Testing
    <3>2. \E q \in Orders(Tasks) : Represents(Queue(algo), q)
      BY <1>1, <2>5 DEF QueueKept, ListOf
    <3> QED
      BY <3>1, <3>2, SetsAre, Intact
  <2> QED
    BY <2>1, <2>2, <2>3, <2>4, <2>5 DEF ListsIntact
<1> QED
  BY <1>1, HeapInvariance, PTL

(* What fixt_algo_schedule queues is what is ready in this round (the      *)
(* al_schedule hooks start from an empty queue), for every subset of tasks.*)
THEOREM QueueHasTheReady == Spec => []QueueIsReady
<1>1. ASSUME HeapInv, pc = "run" PROVE ToSet(Elements(Queue(algo))) = ready
  <2>1. Queue(algo) \in Lists(Tasks)
    BY <1>1, ListsMade DEF HeapInv, Queue, Typed, HeapTypeOK, TestsTasks, Testing
  <2>2. PICK q \in Orders(Tasks) : ToSet(q) = ready /\ Represents(Queue(algo), q)
    BY <1>1 DEF HeapInv, QueueKept, ListOf
  <2>3. Elements(Queue(algo)) = q
    BY <2>1, <2>2, SetsAre, ElementsAre
  <2> QED
    BY <2>2, <2>3
<1>2. HeapInv => QueueIsReady
  BY <1>1 DEF QueueIsReady
<1> QED
  BY <1>2, HeapInvariance, PTL

(* fixt_algo_halt takes all tasks off: no algorithm has tasks when the     *)
(* next test is primed, nor when it is deleted.                            *)
THEOREM NothingIsLeft == Spec => []TestsLeaveNothing
<1>1. HeapInv => TestsLeaveNothing
  BY DEF HeapInv, TestsTasks, TestsLeaveNothing
<1> QED
  BY <1>1, HeapInvariance, PTL

(* fixt_term frees all sets, tasks and algorithms, and of the semaphores   *)
(* one pair of every task, so that no more than one pair for every other   *)
(* test of it is left (clean_tasks, clean_algos).                          *)
THEOREM TeardownIsComplete == Spec => []TeardownFrees
<1>1. ASSUME HeapInv, Cleaned
      PROVE  live.sets = {} /\ live.tasks = {} /\ \A t \in Tasks : sems[t] < Algos
  <2> USE DEF HeapInv
  <2>1. live.sets = {}
    BY <1>1 DEF SetsListed
  <2>2. live.tasks = {}
    BY <1>1, <2>1 DEF SetsKept
  <2>3. ASSUME NEW t \in Tasks PROVE sems[t] < Algos
    <3>1. PICK s \in SetIds : t \in ToSet(TaskSets[s])
      BY SetsAre
    <3>2. Begun(s) = Algos /\ Deleted(s) = 1
      BY <1>1 DEF Begun, Deleted, Testing, Cleaned
    <3>3. sems[t] = Algos - 1 /\ Algos \in Nat
      BY <1>1, <3>1, <3>2, AlgosAssumption DEF SemsCounted
    <3> QED
      BY <3>3
  <2> QED
    BY <2>1, <2>2, <2>3
<1>2. ASSUME HeapInv, pc = "done" PROVE live.algos = {}
  <2>1. PICK i \in 1..(Algos + 1), j \in 0..Algos : live.algos = i..j /\ i > j
    BY <1>2 DEF HeapInv, AlgosListed, Deleting
  <2> QED
    BY <2>1, AlgosAssumption
<1>3. HeapInv => TeardownFrees
  BY <1>1, <1>2 DEF TeardownFrees, Cleaned
<1> QED
  BY <1>3, HeapInvariance, PTL
-----------------------------------------------------------------------------
(* DL_SORT2.  What its proof says of a pass over a list with the elements  *)
(* of s: pos is where they were before the sort, and cmp is what a         *)
(* comparator can be.                                                      *)
Comparators(N) ==
  {cmp \in [N \X N -> Int] :
     /\ \A x, y \in N : NotAfter(x, y, cmp) \/ NotAfter(y, x, cmp)
     /\ \A x, y, z \in N : NotAfter(x, y, cmp) /\ NotAfter(y, z, cmp) => NotAfter(x, z, cmp)}

(* x comes before y in a stable order.                                     *)
Precedes(x, y, cmp, pos) == NotAfter(x, y, cmp) /\ (NotAfter(y, x, cmp) => pos[x] < pos[y])

(* The runs of a list are of size elements.                                *)
Multiples(size) == {k * size : k \in Nat}
Apart(i, j, size) == \E b \in Multiples(size) : i <= b /\ b < j
InRuns(t, size, cmp, pos) ==
  \A i, j \in 1..Len(t) : i < j =>
    IF Apart(i, j, size) THEN pos[t[i]] < pos[t[j]] ELSE Precedes(t[i], t[j], cmp, pos)

(* t has the elements of s at the places T.  Up to c it is merged; the     *)
(* next two runs of s end at e.                                            *)
Merged(t, s, T, c, e, cmp, pos) ==
  /\ ToSet(t) = {s[r] : r \in T}
  /\ InRuns(t, e - c, cmp, pos)
  /\ \A j \in 1..Len(t), r \in (1..Len(s)) \ T :
       IF j <= c \/ r > e THEN pos[t[j]] < pos[s[r]] ELSE Precedes(t[j], s[r], cmp, pos)

(* There is no other boundary between a multiple and the next.             *)
LEMMA NextMultiple ==
  ASSUME NEW size \in Nat \ {0}, NEW c \in Multiples(size)
  PROVE  /\ c \in Nat /\ c + size \in Multiples(size)
         /\ \A b \in Multiples(size) : b <= c \/ b >= c + size
<1>1. PICK k \in Nat : c = k * size
  BY DEF Multiples
<1>2. c \in Nat
  BY <1>1, ProductNat
<1>3. c + size = (k + 1) * size
  BY <1>1
<1>4. ASSUME NEW n \in Nat PROVE n * size <= c \/ n * size >= c + size
  <2>1. CASE n <= k
    <3>1. c = n * size + (k - n) * size
      BY <1>1
    <3>2. (k - n) * size \in Nat /\ n * size \in Nat
      BY <2>1, ProductNat
    <3> QED
      BY <1>2, <3>1, <3>2
  <2>2. CASE n > k
    <3>1. n * size = c + size + (n - k - 1) * size
      BY <1>1
    <3>2. (n - k - 1) * size \in Nat /\ n * size \in Nat
      BY <2>2, ProductNat
    <3> QED
      BY <1>2, <3>1, <3>2
  <2> QED
    BY <2>1, <2>2
<1>5. c + size \in Multiples(size)
  BY <1>1, <1>3 DEF Multiples
<1>6. \A b \in Multiples(size) : b <= c \/ b >= c + size
  BY <1>4 DEF Multiples
<1> QED
  BY <1>2, <1>5, <1>6

(* The boundaries of the longer runs are boundaries of the shorter ones.   *)
LEMMA HalfMultiple ==
  ASSUME NEW size \in Nat \ {0}, NEW c \in Multiples(2 * size)
  PROVE  c \in Multiples(size) /\ 2 * size \in Nat \ {0}
<1>1. PICK k \in Nat : c = k * (2 * size)
  BY DEF Multiples
<1>2. c = (2 * k) * size /\ 2 * k \in Nat
  BY <1>1
<1> QED
  BY <1>2 DEF Multiples

(* The next element goes to the end of the list.                           *)
LEMMA MergedMore ==
  ASSUME NEW N, NEW s \in Orders(N), NEW t \in Orders(N),
         NEW size \in Nat \ {0}, NEW c \in Multiples(size), NEW cmp, NEW pos,
         NEW z, z = c + size,
         NEW T \in SUBSET (1..Len(s)), NEW r \in (1..Len(s)) \ T,
         c <= Len(t), Len(t) < z, r <= z,
         Merged(t, s, T, c, z, cmp, pos),
         \A x \in (1..Len(s)) \ (T \cup {r}) :
           IF x > z THEN pos[s[r]] < pos[s[x]]
           ELSE Precedes(s[r], s[x], cmp, pos)
  PROVE  /\ Append(t, s[r]) \in Orders(N) /\ Len(Append(t, s[r])) = Len(t) + 1
         /\ s[r] \in N \ ToSet(t)
         /\ Merged(Append(t, s[r]), s, T \cup {r}, c, z, cmp, pos)
<1> DEFINE u == Append(t, s[r])
           n == Len(t)
<1>1. /\ s \in Seq(N) /\ Len(s) \in Nat /\ \A i \in 1..Len(s) : s[i] \in N
      /\ \A i, j \in 1..Len(s) : s[i] = s[j] => i = j
      /\ t \in Seq(N) /\ n \in Nat /\ \A i \in 1..n : t[i] \in N
      /\ \A i, j \in 1..n : t[i] = t[j] => i = j
      /\ ToSet(t) = {t[i] : i \in 1..n}
  BY DEF Orders, IsInjective, ToSet
<1>2. /\ u \in Seq(N) /\ Len(u) = n + 1 /\ u[n + 1] = s[r]
      /\ \A i \in 1..n : u[i] = t[i]
      /\ c \in Nat /\ \A b \in Multiples(size) : b <= c \/ b >= z
  BY <1>1, NextMultiple
<1>3. s[r] \in N \ ToSet(t)
  BY <1>1 DEF Merged
<1> HIDE DEF u, n
<1>4. u \in Orders(N)
  BY <1>1, <1>2, <1>3 DEF Orders, IsInjective
<1>5. ToSet(u) = {s[x] : x \in T \cup {r}}
  <2>1. ToSet(u) = {u[i] : i \in 1..(n + 1)}
    <3>1. u \in Seq(N) /\ Len(u) = n + 1
      BY <1>2
    <3>2. DOMAIN u = 1..(n + 1)
      BY <3>1
    <3> QED
      BY <3>2 DEF ToSet
  <2>2. {u[i] : i \in 1..(n + 1)} = {t[i] : i \in 1..n} \cup {s[r]}
    <3>1. n \in Nat /\ u[n + 1] = s[r] /\ \A i \in 1..n : u[i] = t[i]
      BY <1>1, <1>2
    <3>2. 1..(n + 1) = (1..n) \cup {n + 1}
      BY <3>1
    <3>3. {u[i] : i \in 1..(n + 1)} = {u[i] : i \in 1..n} \cup {u[n + 1]}
      BY <3>2
    <3>4. {u[i] : i \in 1..n} = {t[i] : i \in 1..n}
      BY <3>1
    <3> QED
      BY <3>1, <3>3, <3>4
  <2>3. ToSet(t) = {s[x] : x \in T} /\ ToSet(t) = {t[i] : i \in 1..n}
    BY <1>1 DEF Merged
  <2>4. {s[x] : x \in T \cup {r}} = {s[x] : x \in T} \cup {s[r]}
    OBVIOUS
  <2> QED
    BY <2>1, <2>2, <2>3, <2>4
<1>6. InRuns(u, z - c, cmp, pos)
  <2> SUFFICES ASSUME NEW i \in 1..Len(u), NEW j \in 1..Len(u), i < j
               PROVE  IF Apart(i, j, size) THEN pos[u[i]] < pos[u[j]]
                      ELSE Precedes(u[i], u[j], cmp, pos)
    <3>1. z - c = size
      BY <1>2
    <3> QED
      BY <3>1 DEF InRuns
  <2>1. i \in 1..n /\ j \in 1..(n + 1) /\ z - c = size
    BY <1>1, <1>2
  <2>2. CASE j <= n
    <3>1. InRuns(t, size, cmp, pos)
      BY <2>1 DEF Merged
    <3> QED
      BY <1>1, <1>2, <2>1, <2>2, <3>1 DEF InRuns, n
  <2>3. CASE j = n + 1
    <3>1. Apart(i, j, size) <=> i <= c
      BY <1>1, <1>2, <2>1, <2>3 DEF Apart, n
    <3>2. IF i <= c THEN pos[t[i]] < pos[s[r]] ELSE Precedes(t[i], s[r], cmp, pos)
      BY <1>1, <1>2, <2>1 DEF Merged, n
    <3> QED
      BY <1>2, <2>1, <2>3, <3>1, <3>2
  <2> QED
    BY <1>1, <2>1, <2>2, <2>3
<1>7. ASSUME NEW j \in 1..Len(u), NEW x \in (1..Len(s)) \ (T \cup {r})
      PROVE  IF j <= c \/ x > z THEN pos[u[j]] < pos[s[x]]
             ELSE Precedes(u[j], s[x], cmp, pos)
  <2>1. CASE j <= n
    <3>1. j \in 1..Len(t) /\ x \in (1..Len(s)) \ T /\ u[j] = t[j]
      BY <1>1, <1>2, <2>1 DEF n
    <3> QED
      BY <3>1 DEF Merged
  <2>2. CASE j = n + 1
    <3>1. u[j] = s[r] /\ ~(j <= c)
      BY <1>1, <1>2, <2>2 DEF n
    <3> QED
      BY <3>1
  <2> QED
    BY <1>1, <1>2, <2>1, <2>2
<1>8. Merged(u, s, T \cup {r}, c, z, cmp, pos)
  BY <1>5, <1>6, <1>7 DEF Merged
<1> QED
  BY <1>2, <1>3, <1>4, <1>8 DEF u, n

(* What a pass keeps in its variables, and the links of the list with the  *)
(* elements of t that it has built: the next of tail is still to be set.   *)
MergeStates(N) ==
  [head : N \cup {NULL}, prev : [N -> N \cup {NULL}], next : [N -> N \cup {NULL}],
   p : N \cup {NULL}, q : N \cup {NULL}, psize : Int, qsize : Int,
   tail : N \cup {NULL}, merges : Nat]

Built(m, l, t, N) ==
  /\ m.head = IF Len(t) = 0 THEN NULL ELSE t[1]
  /\ m.tail = IF Len(t) = 0 THEN NULL ELSE t[Len(t)]
  /\ \A i \in 1..(Len(t) - 1) : m.next[t[i]] = t[i + 1] /\ m.prev[t[i + 1]] = t[i]
  /\ Same(m, l, N \ ToSet(t))

LEMMA BuiltMore ==
  ASSUME NEW N, NULL \notin N, NEW l, NEW t \in Orders(N), NEW e \in N \ ToSet(t),
         NEW m \in MergeStates(N), Built(m, l, t, N), NEW k,
         k.head = IF m.tail = NULL THEN e ELSE m.head,
         k.next = IF m.tail = NULL THEN m.next ELSE [m.next EXCEPT ![m.tail] = e],
         k.prev = [m.prev EXCEPT ![e] = m.tail], k.tail = e
  PROVE  Built(k, l, Append(t, e), N)
<1> DEFINE u == Append(t, e)
           n == Len(t)
<1>1. /\ t \in Seq(N) /\ n \in Nat /\ \A i \in 1..n : t[i] \in N /\ t[i] \in ToSet(t)
      /\ \A i, j \in 1..n : t[i] = t[j] => i = j
  BY DEF Orders, IsInjective, ToSet
<1>2. /\ u \in Seq(N) /\ Len(u) = n + 1 /\ u[n + 1] = e
      /\ \A i \in 1..n : u[i] = t[i]
  BY <1>1
<1>3. /\ m.prev \in [N -> N \cup {NULL}] /\ m.next \in [N -> N \cup {NULL}]
  BY DEF MergeStates
<1>4. m.tail = IF n = 0 THEN NULL ELSE t[n]
  BY DEF Built
<1> HIDE DEF u, n
<1>5. /\ \A x \in N : k.prev[x] = IF x = e THEN m.tail ELSE m.prev[x]
      /\ \A x \in N : k.next[x] = IF n > 0 /\ x = t[n] THEN e ELSE m.next[x]
  BY <1>1, <1>3, <1>4
<1>6. k.head = u[1]
  <2>1. CASE n = 0
    BY <1>2, <1>4, <2>1
  <2>2. CASE n > 0
    BY <1>1, <1>2, <1>4, <2>2 DEF Built, n
  <2> QED
    BY <1>1, <2>1, <2>2
<1>7. ASSUME NEW i \in 1..(Len(u) - 1)
      PROVE  k.next[u[i]] = u[i + 1] /\ k.prev[u[i + 1]] = u[i]
  <2>1. CASE i = n
    BY <1>1, <1>2, <1>4, <1>5, <2>1
  <2>2. CASE i < n
    <3>1. i \in 1..(Len(t) - 1) /\ i \in 1..n /\ i + 1 \in 1..n
      BY <1>1, <1>2, <2>2 DEF n
    <3>2. m.next[t[i]] = t[i + 1] /\ m.prev[t[i + 1]] = t[i]
      BY <3>1 DEF Built
    <3>3. t[i] # t[n] /\ t[i + 1] # e
      BY <1>1, <2>2, <3>1
    <3> QED
      BY <1>1, <1>2, <1>5, <3>1, <3>2, <3>3
  <2> QED
    BY <1>1, <1>2, <2>1, <2>2
<1>8. Same(k, l, N \ ToSet(u))
  <2> SUFFICES ASSUME NEW x \in N \ ToSet(u)
               PROVE  k.prev[x] = l.prev[x] /\ k.next[x] = l.next[x]
    BY DEF Same
  <2>1. \A i \in 1..(n + 1) : u[i] \in ToSet(u)
    BY <1>2 DEF ToSet
  <2>2. x # e /\ \A i \in 1..n : t[i] # x
    BY <1>1, <1>2, <2>1
  <2>3. x \notin ToSet(t)
    BY <1>1, <2>2 DEF ToSet, n
  <2>4. m.prev[x] = l.prev[x] /\ m.next[x] = l.next[x]
    BY <2>3 DEF Built, Same
  <2> QED
    BY <1>1, <1>5, <2>2, <2>4
<1>9. k.tail = u[Len(u)] /\ Len(u) # 0
  BY <1>1, <1>2
<1> QED
  BY <1>6, <1>7, <1>8, <1>9 DEF Built, u

(* What SplitRuns splits off at the place b: the next run is p's, and q's  *)
(* begins behind it.                                                       *)
RunEnd(s, b, size) == IF b + size <= Len(s) THEN b + size ELSE Len(s)
ElementAt(s, i) == IF i <= Len(s) THEN s[i] ELSE NULL

LEMMA RunsSplit ==
  ASSUME NEW N, IsFiniteSet(N), NULL \notin N, NEW s \in Orders(N),
         NEW m \in MergeStates(N), NEW size \in Nat \ {0}, NEW b \in Nat, b < Len(s),
         m.q = s[b + 1],
         \A r \in (b + 1)..Len(s) : m.next[s[r]] = ElementAt(s, r + 1),
         NEW d, d = RunEnd(s, b, size), NEW k, k = SplitRuns(m, size)
  PROVE  /\ k \in MergeStates(N) /\ k.head = m.head /\ k.tail = m.tail
         /\ k.prev = m.prev /\ k.next = m.next /\ k.p = m.q
         /\ k.q = ElementAt(s, d + 1) /\ k.psize = d - b /\ k.qsize = size
         /\ k.merges = m.merges + 1
<1> DEFINE K == Cardinality(DOMAIN m.next)
           Walk(e) == [i \in 0..K |-> IF i = 0 THEN m.q
                                      ELSE IF e[i - 1] = NULL THEN NULL
                                           ELSE m.next[e[i - 1]]]
           walk == CHOOSE e : e = Walk(e)
           Ends(i) == /\ i = size \/ walk[i] = NULL
                      /\ \A j \in 1..(i - 1) : j # size /\ walk[j] # NULL
           psize == CHOOSE i \in 1..K : Ends(i)
           f == [i \in 0..K |-> ElementAt(s, b + 1 + i)]
<1>1. SplitRuns(m, size) =
        [m EXCEPT !.p = m.q, !.q = walk[psize], !.psize = psize, !.qsize = size,
                  !.merges = @ + 1]
  BY Zenon DEF SplitRuns
<1>2. /\ K \in Nat /\ Len(s) \in Nat /\ Len(s) <= K /\ DOMAIN m.next = N
      /\ \A i \in 1..Len(s) : s[i] \in N /\ s[i] # NULL
  BY Size, FS_CardinalityType DEF Orders, MergeStates
<1>3. f = Walk(f)
  <2> SUFFICES ASSUME NEW i \in 0..K PROVE f[i] = Walk(f)[i]
    BY Zenon
  <2>1. CASE i = 0
    BY <1>2, <2>1 DEF ElementAt
  <2>2. CASE i > 0
    <3>1. f[i - 1] = ElementAt(s, b + i) /\ f[i] = ElementAt(s, b + 1 + i)
      <4>1. b + 1 + (i - 1) = b + i /\ i - 1 \in 0..K
        BY <1>2, <2>2
      <4>2. f[i - 1] = ElementAt(s, b + 1 + (i - 1)) /\ f[i] = ElementAt(s, b + 1 + i)
        BY <4>1
      <4> QED
        BY <4>1, <4>2
    <3>2. Walk(f)[i] = IF f[i - 1] = NULL THEN NULL ELSE m.next[f[i - 1]]
      BY <2>2
    <3>3. b + i <= Len(s) =>
            m.next[s[b + i]] = ElementAt(s, b + 1 + i) /\ s[b + i] # NULL
      <4> SUFFICES ASSUME b + i <= Len(s)
                   PROVE  m.next[s[b + i]] = ElementAt(s, b + 1 + i) /\ s[b + i] # NULL
        OBVIOUS
      <4>1. b + i \in (b + 1)..Len(s) /\ b + i \in 1..Len(s) /\ (b + i) + 1 = b + 1 + i
        BY <1>2, <2>2
      <4>2. m.next[s[b + i]] = ElementAt(s, (b + i) + 1)
        BY <4>1
      <4> QED
        BY <1>2, <4>1, <4>2
    <3>4. b + i <= Len(s) \/ (b + i > Len(s) /\ b + 1 + i > Len(s))
      BY <1>2
    <3> HIDE DEF f
    <3> QED
      BY <3>1, <3>2, <3>3, <3>4 DEF ElementAt
  <2> QED
    BY <1>2, <2>1, <2>2
<1>4. walk = Walk(walk)
  BY <1>3
<1> HIDE DEF walk, f
<1>5. \A i \in 0..K : walk[i] = f[i]
  <2> DEFINE Alike == {i \in Nat : i <= K => walk[i] = f[i]}
  <2>1. \A i \in 0..K : Walk(walk)[i] = walk[i] /\ Walk(f)[i] = f[i]
    BY <1>3, <1>4
  <2>2. \A i \in 0..K : /\ i = 0 => walk[i] = m.q /\ f[i] = m.q
                        /\ i > 0 => /\ walk[i] = IF walk[i - 1] = NULL THEN NULL ELSE m.next[walk[i - 1]]
                                    /\ f[i] = IF f[i - 1] = NULL THEN NULL ELSE m.next[f[i - 1]]
    BY <1>2, <2>1
  <2>3. 0 \in Alike
    BY <1>2, <2>2
  <2>4. \A i \in Nat : i \in Alike => i + 1 \in Alike
    BY <1>2, <2>2
  <2> HIDE DEF Alike
  <2>5. Nat \subseteq Alike
    BY <2>3, <2>4, Induction
  <2> QED
    BY <1>2, <2>5 DEF Alike
<1>6. \A i \in 0..K : walk[i] = ElementAt(s, b + 1 + i)
  BY <1>5 DEF f
<1>7. ASSUME NEW i \in 1..K PROVE walk[i] = NULL <=> b + i >= Len(s)
  <2>1. walk[i] = IF b + 1 + i <= Len(s) THEN s[b + 1 + i] ELSE NULL
    BY <1>2, <1>6 DEF ElementAt
  <2>2. b + 1 + i <= Len(s) => s[b + 1 + i] # NULL
    BY <1>2
  <2> QED
    BY <1>2, <2>1, <2>2
<1>8. d \in Nat /\ d - b \in 1..K /\ d <= Len(s)
  BY <1>2 DEF RunEnd
<1>9. Ends(d - b) /\ \A i \in 1..K : Ends(i) => i = d - b
  <2>1. \A i \in 1..K : (i = size \/ walk[i] = NULL) <=> (i = size \/ b + i >= Len(s))
    BY <1>7
  <2>2. d - b = size \/ (d - b < size /\ d = Len(s))
    BY <1>2 DEF RunEnd
  <2>3. \A i \in 1..K : Ends(i) <=>
          /\ i = size \/ b + i >= Len(s)
          /\ \A j \in 1..(i - 1) : j # size /\ b + j < Len(s)
    <3> SUFFICES ASSUME NEW i \in 1..K
                 PROVE  Ends(i) <=>
                          /\ i = size \/ b + i >= Len(s)
                          /\ \A j \in 1..(i - 1) : j # size /\ b + j < Len(s)
      OBVIOUS
    <3>1. walk[i] = NULL <=> b + i >= Len(s)
      BY <1>7
    <3>2. ASSUME NEW j \in 1..(i - 1) PROVE walk[j] # NULL <=> b + j < Len(s)
      <4>1. j \in 1..K
        BY <1>2
      <4>2. walk[j] = NULL <=> b + j >= Len(s)
        BY <1>7, <4>1
      <4> QED
        BY <1>2, <4>1, <4>2
    <3>3. Ends(i) <=> /\ i = size \/ walk[i] = NULL
                      /\ \A j \in 1..(i - 1) : j # size /\ walk[j] # NULL
      OBVIOUS
    <3> HIDE DEF Ends
    <3> QED
      BY <3>1, <3>2, <3>3, Zenon
  <2>4. Ends(d - b)
    <3>1. \A j \in 1..(d - b - 1) : j # size /\ b + j < Len(s)
      BY <1>2, <1>8, <2>2
    <3>2. d - b = size \/ b + (d - b) >= Len(s)
      BY <1>2, <1>8, <2>2
    <3> HIDE DEF Ends
    <3> QED
      BY <1>8, <2>3, <3>1, <3>2
  <2>5. ASSUME NEW i \in 1..K, Ends(i) PROVE i = d - b
    <3>1. /\ i = size \/ b + i >= Len(s)
          /\ \A j \in 1..(i - 1) : j # size /\ b + j < Len(s)
      BY <2>3, <2>5
    <3> HIDE DEF Ends
    <3>2. ~(d - b < i)
      <4>1. d - b < i => d - b \in 1..(i - 1)
        BY <1>8
      <4>2. d - b < i => d - b # size /\ b + (d - b) < Len(s)
        BY <3>1, <4>1
      <4> QED
        BY <1>2, <1>8, <2>2, <4>2
    <3>3. ~(i < d - b)
      BY <1>2, <1>8, <2>2, <3>1
    <3> QED
      BY <1>2, <1>8, <3>2, <3>3
  <2> QED
    BY <2>4, <2>5
<1>10. psize = d - b
  <2> HIDE DEF Ends
  <2> QED
    BY <1>8, <1>9
<1>11. walk[psize] = ElementAt(s, d + 1)
  <2> HIDE DEF psize
  <2>1. d - b \in 0..K /\ b + 1 + (d - b) = d + 1
    <3>1. d - b \in 0..K
      BY <1>2, <1>8
    <3>2. b + 1 + (d - b) = d + 1
      BY <1>8
    <3> QED
      BY <3>1, <3>2
  <2>2. walk[d - b] = ElementAt(s, b + 1 + (d - b))
    BY <1>6, <2>1
  <2> QED
    BY <1>10, <2>1, <2>2
<1> HIDE DEF psize
<1>12. k = [m EXCEPT !.p = m.q, !.q = ElementAt(s, d + 1), !.psize = d - b,
                     !.qsize = size, !.merges = @ + 1]
  BY <1>1, <1>10, <1>11
<1>13. ElementAt(s, d + 1) \in N \cup {NULL}
  <2>1. d + 1 <= Len(s) => d + 1 \in 1..Len(s)
    BY <1>2, <1>8
  <2> QED
    BY <1>2, <2>1 DEF ElementAt
<1>14. m.q \in N \cup {NULL} /\ d - b \in Int /\ size \in Int /\ m.merges + 1 \in Nat
  BY <1>8 DEF MergeStates
<1> QED
  BY <1>12, <1>13, <1>14 DEF MergeStates

(* A pass over l, and where it is: t is the new list, c the place from     *)
(* which on it is merging two runs of s, of which it has a and b reached.  *)
Pass(N, l, s, size, cmp, pos) ==
  /\ IsFiniteSet(N) /\ NULL \notin N
  /\ l \in Lists(N) /\ s \in Orders(N) /\ Len(s) > 0 /\ Represents(l, s)
  /\ size \in Nat \ {0} /\ cmp \in Comparators(N) /\ pos \in [N -> Int]
  /\ InRuns(s, size, cmp, pos)

Taken(a, d, b) == (1..a) \cup ((d + 1)..b)

Reached(s, size, c, a, b) ==
  /\ a \in Nat /\ b \in Nat /\ c \in Multiples(2 * size)
  /\ c <= a /\ a <= RunEnd(s, c, size) /\ RunEnd(s, c, size) <= b
  /\ b <= Len(s) /\ b <= c + 2 * size /\ c < Len(s)

Places(m, s, size, c, a, b) ==
  /\ Reached(s, size, c, a, b)
  /\ m.psize = RunEnd(s, c, size) - a
  /\ a < RunEnd(s, c, size) => m.p = s[a + 1]
  /\ m.q = ElementAt(s, b + 1)
  /\ b < Len(s) => m.qsize = c + 2 * size - b
  /\ m.merges # 0 /\ (m.merges = 1 => c = 0)

Merging(m, t, c, a, b, N, l, s, size, cmp, pos) ==
  /\ m \in MergeStates(N) /\ t \in Orders(N)
  /\ Places(m, s, size, c, a, b) /\ Built(m, l, t, N)
  /\ Len(t) = a + b - RunEnd(s, c, size)
  /\ Merged(t, s, Taken(a, RunEnd(s, c, size), b), c, c + 2 * size, cmp, pos)

(* The places in arithmetic.                                               *)
LEMMA ReachedIs ==
  ASSUME NEW N, NEW s \in Orders(N), NEW size \in Nat \ {0}, NEW c, NEW a, NEW b,
         Reached(s, size, c, a, b), NEW d, d = RunEnd(s, c, size)
  PROVE  /\ a \in Nat /\ b \in Nat /\ c \in Nat /\ d \in Nat /\ Len(s) \in Nat
         /\ c <= a /\ a <= d /\ d <= b /\ b <= Len(s) /\ c < d
         /\ b <= c + 2 * size /\ d <= c + size
         /\ d = c + size \/ (d = Len(s) /\ b = Len(s))
         /\ c \in Multiples(size) /\ c + size \in Multiples(size)
         /\ c + 2 * size \in Multiples(2 * size) /\ c + 2 * size \in Multiples(size)
<1>1. /\ a \in Nat /\ b \in Nat /\ c \in Multiples(2 * size)
      /\ c <= a /\ a <= d /\ d <= b
      /\ b <= Len(s) /\ b <= c + 2 * size /\ c < Len(s)
  BY DEF Reached
<1>2. /\ c \in Multiples(size) /\ 2 * size \in Nat \ {0}
  BY <1>1, HalfMultiple
<1>3. c \in Nat /\ c + size \in Multiples(size)
  BY <1>2, NextMultiple
<1>4. c + 2 * size \in Multiples(2 * size)
  BY <1>1, <1>2, NextMultiple
<1>5. c + 2 * size \in Multiples(size)
  BY <1>4, HalfMultiple
<1>6. Len(s) \in Nat
  BY DEF Orders
<1>7. d = IF c + size <= Len(s) THEN c + size ELSE Len(s)
  BY DEF RunEnd
<1>8. d \in Nat /\ c < d /\ d <= c + size /\ (d = c + size \/ (d = Len(s) /\ b = Len(s)))
  BY <1>1, <1>3, <1>6, <1>7
<1> QED
  BY <1>1, <1>2, <1>3, <1>4, <1>5, <1>6, <1>8

(* What the runs of s say of two places.                                   *)
LEMMA RunsSay ==
  ASSUME NEW N, NEW s \in Seq(N), NEW size \in Nat \ {0}, NEW cmp, NEW pos,
         InRuns(s, size, cmp, pos), NEW c \in Multiples(size),
         NEW i \in 1..Len(s), NEW j \in 1..Len(s), i < j
  PROVE  /\ i <= c /\ c < j => pos[s[i]] < pos[s[j]]
         /\ c < i /\ j <= c + size => Precedes(s[i], s[j], cmp, pos)
<1>1. c \in Nat /\ \A b \in Multiples(size) : b <= c \/ b >= c + size
  BY NextMultiple
<1>2. i <= c /\ c < j => Apart(i, j, size)
  BY DEF Apart
<1>3. c < i /\ j <= c + size => ~Apart(i, j, size)
  <2> SUFFICES ASSUME c < i, j <= c + size, NEW b \in Multiples(size), i <= b, b < j
               PROVE  FALSE
    BY DEF Apart
  <2>1. b \in Nat
    BY NextMultiple
  <2> QED
    BY <1>1, <2>1
<1>4. IF Apart(i, j, size) THEN pos[s[i]] < pos[s[j]] ELSE Precedes(s[i], s[j], cmp, pos)
  BY DEF InRuns
<1> QED
  BY <1>2, <1>3, <1>4

(* The element that is taken precedes what is left of the two runs, and    *)
(* was before all that follows them.                                       *)
LEMMA NextPrecedes ==
  ASSUME NEW N, NEW l, NEW s, NEW size, NEW cmp, NEW pos,
         Pass(N, l, s, size, cmp, pos), NEW c, NEW a, NEW b,
         Reached(s, size, c, a, b), NEW d, d = RunEnd(s, c, size), NEW r,
         \/ /\ r = a + 1 /\ a < d
            /\ b < Len(s) /\ b < c + 2 * size => NotAfter(s[a + 1], s[b + 1], cmp)
         \/ /\ r = b + 1 /\ b < Len(s) /\ b < c + 2 * size
            /\ a < d => ~NotAfter(s[a + 1], s[b + 1], cmp),
         NEW x \in (1..Len(s)) \ (Taken(a, d, b) \cup {r})
  PROVE  IF x > c + 2 * size THEN pos[s[r]] < pos[s[x]]
         ELSE Precedes(s[r], s[x], cmp, pos)
<1>1. /\ s \in Orders(N) /\ s \in Seq(N) /\ size \in Nat \ {0}
      /\ cmp \in Comparators(N) /\ pos \in [N -> Int] /\ InRuns(s, size, cmp, pos)
      /\ \A i \in 1..Len(s) : s[i] \in N
  BY DEF Pass, Orders
<1>2. /\ a \in Nat /\ b \in Nat /\ c \in Nat /\ d \in Nat /\ Len(s) \in Nat
      /\ c <= a /\ a <= d /\ d <= b /\ b <= Len(s) /\ c < d
      /\ b <= c + 2 * size /\ d <= c + size
      /\ d = c + size \/ (d = Len(s) /\ b = Len(s))
      /\ c \in Multiples(size) /\ c + size \in Multiples(size)
      /\ c + 2 * size \in Multiples(2 * size) /\ c + 2 * size \in Multiples(size)
  BY <1>1, ReachedIs
<1> DEFINE e == c + 2 * size
<1>0. e \in Nat /\ d <= e /\ b <= e
  BY <1>1, <1>2
<1> HIDE DEF e
<1>3. r \in 1..Len(s) /\ r > c /\ r <= e
  <2>1. \/ r = a + 1 /\ a < d
        \/ r = b + 1 /\ b < Len(s) /\ b < e
    BY DEF e
  <2> QED
    BY <1>0, <1>2, <2>1
<1>4. a < x /\ (x <= d \/ x > b) /\ x # r /\ x \in 1..Len(s)
  BY <1>2 DEF Taken
<1>5. CASE x > e
  <2>1. r < x
    BY <1>0, <1>3, <1>4, <1>5
  <2>2. pos[s[r]] < pos[s[x]]
    BY <1>1, <1>2, <1>3, <1>4, <1>5, <2>1, RunsSay DEF e
  <2> QED
    BY <1>5, <2>2 DEF e
<1>6. CASE x <= e
  <2> SUFFICES Precedes(s[r], s[x], cmp, pos)
    BY <1>0, <1>2, <1>4, <1>6 DEF e
  <2>1. /\ \A y, z \in N : NotAfter(y, z, cmp) \/ NotAfter(z, y, cmp)
        /\ \A y, z, w \in N : NotAfter(y, z, cmp) /\ NotAfter(z, w, cmp) => NotAfter(y, w, cmp)
    BY <1>1 DEF Comparators
  <2>2. \A y, z : Precedes(y, z, cmp, pos) <=> NotAfter(y, z, cmp) /\ (NotAfter(z, y, cmp) => pos[y] < pos[z])
    BY DEF Precedes
  <2>3. \A i, j \in 1..Len(s) : /\ c < i /\ i < j /\ j <= d =>
                                     Precedes(s[i], s[j], cmp, pos)
                                /\ d < i /\ i < j /\ j <= e =>
                                     Precedes(s[i], s[j], cmp, pos)
                                /\ i <= d /\ d < j => pos[s[i]] < pos[s[j]]
    <3> SUFFICES ASSUME NEW i \in 1..Len(s), NEW j \in 1..Len(s)
                 PROVE  /\ c < i /\ i < j /\ j <= d => Precedes(s[i], s[j], cmp, pos)
                        /\ d < i /\ i < j /\ j <= e =>
                             Precedes(s[i], s[j], cmp, pos)
                        /\ i <= d /\ d < j => pos[s[i]] < pos[s[j]]
      OBVIOUS
    <3>1. c < i /\ i < j /\ j <= d => Precedes(s[i], s[j], cmp, pos)
      <4>1. j <= d => j <= c + size
        BY <1>1, <1>2
      <4> QED
        BY <1>1, <1>2, <4>1, RunsSay
    <3>2. d < i \/ d < j => d = c + size
      BY <1>2
    <3>3. d < i /\ i < j /\ j <= e => Precedes(s[i], s[j], cmp, pos)
      <4>1. (c + size) + size = e
        BY <1>1, <1>2 DEF e
      <4> QED
        BY <1>1, <1>2, <3>2, <4>1, RunsSay
    <3>4. i <= d /\ d < j => pos[s[i]] < pos[s[j]]
      <4>1. i <= d /\ d < j => i < j
        BY <1>2
      <4> QED
        BY <1>1, <1>2, <3>2, <4>1, RunsSay
    <3> QED
      BY <3>1, <3>3, <3>4
  <2>4. CASE r = a + 1 /\ a < d
    <3>1. CASE x <= d
      BY <1>2, <1>3, <1>4, <1>6, <2>3, <2>4, <3>1
    <3>2. CASE x > d
      <4>1. x > b /\ b + 1 \in 1..Len(s) /\ b < e
        BY <1>0, <1>2, <1>4, <1>6, <3>2
      <4>2. NotAfter(s[r], s[b + 1], cmp)
        BY <1>2, <2>4, <4>1 DEF e
      <4>3. x = b + 1 \/ Precedes(s[b + 1], s[x], cmp, pos)
        BY <1>2, <1>4, <1>6, <2>3, <4>1
      <4>4. NotAfter(s[r], s[x], cmp)
        BY <1>1, <1>3, <1>4, <2>1, <2>2, <4>1, <4>2, <4>3
      <4>5. pos[s[r]] < pos[s[x]]
        BY <1>2, <1>3, <1>4, <2>3, <2>4, <3>2
      <4> QED
        BY <2>2, <4>4, <4>5
    <3> QED
      BY <1>2, <3>1, <3>2
  <2>5. CASE r = b + 1 /\ ~(r = a + 1 /\ a < d)
    <3>1. b < Len(s) /\ b < e /\ (a < d => ~NotAfter(s[a + 1], s[r], cmp))
      BY <2>5 DEF e
    <3>2. CASE x > b
      BY <1>2, <1>3, <1>4, <1>6, <2>3, <2>5, <3>1, <3>2
    <3>3. CASE x <= d
      <4>1. a < d /\ a + 1 \in 1..Len(s)
        BY <1>2, <1>4, <3>3
      <4>2. NotAfter(s[r], s[a + 1], cmp)
        BY <1>1, <1>3, <2>1, <3>1, <4>1
      <4>3. x = a + 1 \/ Precedes(s[a + 1], s[x], cmp, pos)
        BY <1>2, <1>4, <2>3, <3>3, <4>1
      <4>4. NotAfter(s[r], s[x], cmp) /\ ~NotAfter(s[x], s[r], cmp)
        BY <1>1, <1>3, <1>4, <2>1, <2>2, <3>1, <4>1, <4>2, <4>3
      <4> QED
        BY <2>2, <4>4
    <3> QED
      BY <1>4, <3>2, <3>3
  <2> QED
    BY <2>4, <2>5
<1> QED
  BY <1>0, <1>2, <1>4, <1>5, <1>6

(* A step in the middle of two runs: the element at p or q is taken.       *)
LEMMA StepTakes ==
  ASSUME NEW N, NEW m \in MergeStates(N), NEW size, NEW cmp, ~RunsMerged(m),
         NEW e \in N, e = IF FromP(m, cmp) THEN m.p ELSE m.q,
         NEW k, k = MergeStep(m, size, cmp)
  PROVE  /\ k \in MergeStates(N) /\ k.tail = e /\ k.merges = m.merges
         /\ k.head = IF m.tail = NULL THEN e ELSE m.head
         /\ k.next = IF m.tail = NULL THEN m.next ELSE [m.next EXCEPT ![m.tail] = e]
         /\ k.prev = [m.prev EXCEPT ![e] = m.tail]
         /\ FromP(m, cmp) => /\ k.p = m.next[e] /\ k.psize = m.psize - 1
                             /\ k.q = m.q /\ k.qsize = m.qsize
         /\ ~FromP(m, cmp) => /\ k.q = m.next[e] /\ k.qsize = m.qsize - 1
                              /\ k.p = m.p /\ k.psize = m.psize
<1> DEFINE rest == IF FromP(m, cmp)
                   THEN [m EXCEPT !.p = m.next[e], !.psize = @ - 1]
                   ELSE [m EXCEPT !.q = m.next[e], !.qsize = @ - 1]
<1>1. k = [rest EXCEPT !.head = IF m.tail = NULL THEN e ELSE @,
                       !.next = IF m.tail = NULL THEN @ ELSE [@ EXCEPT ![m.tail] = e],
                       !.prev[e] = m.tail,
                       !.tail = e]
  BY DEF MergeStep
<1>2. /\ m.prev \in [N -> N \cup {NULL}] /\ m.next \in [N -> N \cup {NULL}]
      /\ m.head \in N \cup {NULL} /\ m.tail \in N \cup {NULL}
      /\ m.p \in N \cup {NULL} /\ m.q \in N \cup {NULL}
      /\ m.psize \in Int /\ m.qsize \in Int /\ m.merges \in Nat
  BY DEF MergeStates
<1>3. /\ rest \in MergeStates(N) /\ rest.head = m.head /\ rest.next = m.next
      /\ rest.prev = m.prev /\ rest.merges = m.merges
      /\ FromP(m, cmp) => /\ rest.p = m.next[e] /\ rest.psize = m.psize - 1
                          /\ rest.q = m.q /\ rest.qsize = m.qsize
      /\ ~FromP(m, cmp) => /\ rest.q = m.next[e] /\ rest.qsize = m.qsize - 1
                           /\ rest.p = m.p /\ rest.psize = m.psize
  <2>1. CASE FromP(m, cmp)
    <3>1. rest = [m EXCEPT !.p = m.next[e], !.psize = @ - 1]
      BY <2>1
    <3>2. m.next[e] \in N \cup {NULL} /\ m.psize - 1 \in Int
      BY <1>2
    <3> HIDE DEF rest
    <3> QED
      BY <1>2, <2>1, <3>1, <3>2 DEF MergeStates
  <2>2. CASE ~FromP(m, cmp)
    <3>1. rest = [m EXCEPT !.q = m.next[e], !.qsize = @ - 1]
      BY <2>2
    <3>2. m.next[e] \in N \cup {NULL} /\ m.qsize - 1 \in Int
      BY <1>2
    <3> HIDE DEF rest
    <3> QED
      BY <1>2, <2>2, <3>1, <3>2 DEF MergeStates
  <2> QED
    BY <2>1, <2>2
<1> HIDE DEF rest
<1>4. /\ k.head = (IF m.tail = NULL THEN e ELSE m.head)
      /\ k.next = (IF m.tail = NULL THEN m.next ELSE [m.next EXCEPT ![m.tail] = e])
      /\ k.prev = [m.prev EXCEPT ![e] = m.tail]
      /\ k.tail = e /\ k.merges = m.merges
      /\ k.p = rest.p /\ k.psize = rest.psize /\ k.q = rest.q /\ k.qsize = rest.qsize
  BY <1>1, <1>3 DEF MergeStates
<1>5. k = [head |-> k.head, prev |-> k.prev, next |-> k.next, p |-> k.p, q |-> k.q,
           psize |-> k.psize, qsize |-> k.qsize, tail |-> k.tail, merges |-> k.merges]
  BY <1>1, <1>3 DEF MergeStates
<1>6. k \in MergeStates(N)
  <2>1. k.head \in N \cup {NULL} /\ k.tail \in N \cup {NULL} /\ k.merges \in Nat
    BY <1>2, <1>4
  <2>2. k.prev \in [N -> N \cup {NULL}] /\ k.next \in [N -> N \cup {NULL}]
    BY <1>2, <1>4
  <2>3. /\ k.p \in N \cup {NULL} /\ k.q \in N \cup {NULL}
        /\ k.psize \in Int /\ k.qsize \in Int
    BY <1>3, <1>4 DEF MergeStates
  <2> QED
    BY <1>5, <2>1, <2>2, <2>3 DEF MergeStates
<1> QED
  BY <1>3, <1>4, <1>6

(* ... after which the new list has one element more.                      *)
LEMMA MergingStep ==
  ASSUME NEW N, NEW l, NEW s, NEW size, NEW cmp, NEW pos,
         Pass(N, l, s, size, cmp, pos), NEW m, NEW t, NEW c, NEW a, NEW b,
         Merging(m, t, c, a, b, N, l, s, size, cmp, pos), ~RunsMerged(m)
  PROVE  \E u, x, y : /\ Len(u) = Len(t) + 1
                      /\ Merging(MergeStep(m, size, cmp), u, c, x, y, N, l, s, size, cmp, pos)
<1> DEFINE d == RunEnd(s, c, size)
           L == Len(s)
           T == Taken(a, d, b)
           k == MergeStep(m, size, cmp)
<1>1. /\ NULL \notin N /\ s \in Orders(N) /\ s \in Seq(N) /\ size \in Nat \ {0}
      /\ \A i \in 1..L : s[i] \in N
      /\ \A i, j \in 1..L : s[i] = s[j] => i = j
      /\ l \in Lists(N)
  BY DEF Pass, Orders, IsInjective
<1>2. /\ m \in MergeStates(N) /\ t \in Orders(N) /\ Reached(s, size, c, a, b)
      /\ Built(m, l, t, N) /\ Len(t) = a + b - d
      /\ Merged(t, s, T, c, c + 2 * size, cmp, pos)
      /\ m.psize = d - a /\ (a < d => m.p = s[a + 1])
      /\ m.q = ElementAt(s, b + 1) /\ (b < L => m.qsize = c + 2 * size - b)
      /\ m.merges # 0 /\ (m.merges = 1 => c = 0)
      /\ c \in Multiples(2 * size)
  BY DEF Merging, Places, Reached
<1>3. /\ a \in Nat /\ b \in Nat /\ c \in Nat /\ d \in Nat /\ L \in Nat
      /\ c <= a /\ a <= d /\ d <= b /\ b <= L /\ c < d /\ c < L
      /\ b <= c + 2 * size /\ d <= c + size
      /\ d = c + size \/ (d = L /\ b = L)
  BY <1>1, <1>2, ReachedIs DEF Reached
<1>4. m.q = (IF b < L THEN s[b + 1] ELSE NULL) /\ (b < L => m.q # NULL)
  <2>1. b + 1 <= Len(s) <=> b < L
    BY <1>3
  <2>2. b < L => s[b + 1] # NULL
    <3>1. b < L => b + 1 \in 1..L
      BY <1>3
    <3> QED
      BY <1>1, <3>1
  <2>3. m.q = IF b + 1 <= Len(s) THEN s[b + 1] ELSE NULL
    BY <1>2 DEF ElementAt
  <2> QED
    BY <2>1, <2>2, <2>3
<1> HIDE DEF d, L, T, k
<1> DEFINE F == FromP(m, cmp)
           r == IF F THEN a + 1 ELSE b + 1
           e == s[r]
           x == IF F THEN a + 1 ELSE a
           y == IF F THEN b ELSE b + 1
           u == Append(t, e)
<1>0. m.qsize = 0 \/ m.q = NULL <=> ~(b < L /\ b < c + 2 * size)
  <2>1. CASE b < L
    <3>1. m.qsize = c + 2 * size - b /\ m.q # NULL
      BY <1>2, <1>4, <2>1
    <3>2. c + 2 * size \in Nat /\ b <= c + 2 * size
      BY <1>1, <1>3
    <3>3. m.qsize = 0 <=> ~(b < c + 2 * size)
      BY <1>1, <1>3, <3>1, <3>2
    <3> QED
      BY <2>1, <3>1, <3>3
  <2>2. CASE ~(b < L)
    <3>1. m.q = NULL
      BY <1>3, <1>4, <2>2
    <3> QED
      BY <2>2, <3>1
  <2> QED
    BY <2>1, <2>2
<1>5. F <=> a < d /\ (b < L /\ b < c + 2 * size => NotAfter(s[a + 1], s[b + 1], cmp))
  <2>1. m.psize > 0 <=> a < d
    BY <1>2, <1>3
  <2>3. a < d => m.p = s[a + 1]
    BY <1>2
  <2>4. b < L => m.q = s[b + 1]
    BY <1>4
  <2> QED
    BY <1>0, <2>1, <2>3, <2>4 DEF FromP
<1>6. ~F => b < L /\ b < c + 2 * size /\ (a < d => ~NotAfter(s[a + 1], s[b + 1], cmp))
  <2>1. ~(m.psize = 0 /\ (m.qsize = 0 \/ m.q = NULL))
    BY DEF RunsMerged
  <2>2. m.psize = 0 <=> ~(a < d)
    BY <1>2, <1>3
  <2> QED
    BY <1>0, <1>5, <2>1, <2>2
<1> HIDE DEF F
<1>7. r \in 1..L /\ r \notin T /\ r <= c + 2 * size
  BY <1>1, <1>3, <1>5, <1>6 DEF T, Taken
<1>8. \A i \in (1..L) \ (T \cup {r}) :
        IF i > c + 2 * size THEN pos[s[r]] < pos[s[i]] ELSE Precedes(s[r], s[i], cmp, pos)
  <2>1. \/ /\ r = a + 1 /\ a < d
           /\ b < L /\ b < c + 2 * size => NotAfter(s[a + 1], s[b + 1], cmp)
        \/ /\ r = b + 1 /\ b < L /\ b < c + 2 * size
           /\ a < d => ~NotAfter(s[a + 1], s[b + 1], cmp)
    BY <1>5, <1>6
  <2> HIDE DEF r
  <2> QED
    BY <1>2, <2>1, NextPrecedes DEF d, L, T
<1>9. /\ u \in Orders(N) /\ Len(u) = Len(t) + 1 /\ e \in N \ ToSet(t)
      /\ Merged(u, s, T \cup {r}, c, c + 2 * size, cmp, pos)
  <2>1. c <= Len(t) /\ Len(t) < c + 2 * size /\ 2 * size \in Nat \ {0}
    <3>1. a < d \/ b < c + 2 * size
      BY <1>5, <1>6
    <3>2. Len(t) = a + b - d
      BY <1>2
    <3> QED
      BY <1>1, <1>3, <3>1, <3>2
  <2>2. T \in SUBSET (1..Len(s)) /\ r \in (1..Len(s)) \ T
    <3>1. T \subseteq 1..L
      BY <1>3 DEF T, Taken
    <3> QED
      BY <1>7, <3>1 DEF L
  <2> HIDE DEF r
  <2>3. \A i \in (1..Len(s)) \ (T \cup {r}) :
          IF i > c + 2 * size THEN pos[s[r]] < pos[s[i]] ELSE Precedes(s[r], s[i], cmp, pos)
    BY <1>8 DEF L
  <2> DEFINE z == c + 2 * size
             w == 2 * size
  <2>4. /\ w \in Nat \ {0} /\ c \in Multiples(w) /\ z = c + w /\ c <= Len(t) /\ Len(t) < z
        /\ r <= z /\ Merged(t, s, T, c, z, cmp, pos)
        /\ \A i \in (1..Len(s)) \ (T \cup {r}) :
             IF i > z THEN pos[s[r]] < pos[s[i]] ELSE Precedes(s[r], s[i], cmp, pos)
    BY <1>2, <1>7, <2>1, <2>3
  <2> HIDE DEF z, w
  <2>5. /\ u \in Orders(N) /\ Len(u) = Len(t) + 1 /\ e \in N \ ToSet(t)
        /\ Merged(u, s, T \cup {r}, c, z, cmp, pos)
    <3>1. s \in Orders(N) /\ t \in Orders(N)
      BY <1>1, <1>2
    <3> HIDE DEF e, u
    <3>2. Append(t, s[r]) = u /\ e = s[r]
      BY DEF e, u
    <3>3. /\ Append(t, s[r]) \in Orders(N) /\ Len(Append(t, s[r])) = Len(t) + 1
          /\ s[r] \in N \ ToSet(t)
          /\ Merged(Append(t, s[r]), s, T \cup {r}, c, z, cmp, pos)
      BY <2>2, <2>4, <3>1, MergedMore, SMTT(60)
    <3> QED
      BY <3>2, <3>3
  <2> QED
    BY <2>5 DEF z
<1>10. T \cup {r} = Taken(x, d, y)
  BY <1>3, <1>5, <1>6 DEF T, Taken
<1>11. e = IF F THEN m.p ELSE m.q
  BY <1>2, <1>4, <1>5, <1>6
<1>12. /\ k \in MergeStates(N) /\ k.tail = e /\ k.merges = m.merges
       /\ k.head = IF m.tail = NULL THEN e ELSE m.head
       /\ k.next = IF m.tail = NULL THEN m.next ELSE [m.next EXCEPT ![m.tail] = e]
       /\ k.prev = [m.prev EXCEPT ![e] = m.tail]
       /\ F => /\ k.p = m.next[e] /\ k.psize = m.psize - 1
               /\ k.q = m.q /\ k.qsize = m.qsize
       /\ ~F => /\ k.q = m.next[e] /\ k.qsize = m.qsize - 1
                /\ k.p = m.p /\ k.psize = m.psize
  <2> HIDE DEF e
  <2> QED
    BY <1>2, <1>9, <1>11, StepTakes DEF F, k
<1>13. Built(k, l, u, N)
  <2> HIDE DEF e
  <2> QED
    BY <1>1, <1>2, <1>9, <1>12, BuiltMore
<1>14. m.next[e] = ElementAt(s, r + 1)
  <2>1. m.next[e] = l.next[e]
    BY <1>2, <1>9 DEF Built, Same
  <2>2. l.next[s[L]] = NULL /\ \A i \in 1..(L - 1) : l.next[s[i]] = s[i + 1]
    BY <1>1, <1>3, RepresentsIs DEF Pass, L
  <2> QED
    BY <1>3, <1>7, <2>1, <2>2 DEF ElementAt, L
<1>15. Places(k, s, size, c, x, y)
  <2>1. Reached(s, size, c, x, y)
    <3>1. /\ x \in Nat /\ y \in Nat /\ c <= x /\ x <= d /\ d <= y /\ y <= L
          /\ y <= c + 2 * size
      <4>1. CASE F
        BY <1>3, <1>5, <4>1
      <4>2. CASE ~F
        <5>1. b < L /\ b < c + 2 * size /\ c + 2 * size \in Nat
          BY <1>1, <1>3, <1>6, <4>2
        <5> QED
          BY <1>3, <4>2, <5>1
      <4> QED
        BY <4>1, <4>2
    <3> QED
      BY <1>2, <1>3, <3>1 DEF Reached, d, L
  <2>2. k.psize = d - x /\ (x < d => k.p = s[x + 1])
    <3>1. CASE F
      <4>1. x < d => x + 1 <= L
        BY <1>3
      <4> QED
        BY <1>2, <1>3, <1>12, <1>14, <3>1, <4>1 DEF ElementAt, L
    <3>2. CASE ~F
      BY <1>2, <1>12, <3>2
    <3> QED
      BY <3>1, <3>2
  <2>3. k.q = ElementAt(s, y + 1) /\ (y < L => k.qsize = c + 2 * size - y)
    <3>1. CASE F
      BY <1>2, <1>12, <3>1
    <3>2. CASE ~F
      BY <1>1, <1>2, <1>3, <1>6, <1>12, <1>14, <3>2
    <3> QED
      BY <3>1, <3>2
  <2> QED
    BY <1>2, <1>12, <2>1, <2>2, <2>3 DEF Places, d, L
<1>16. Len(u) = x + y - d
  BY <1>2, <1>3, <1>9
<1>17. Merging(k, u, c, x, y, N, l, s, size, cmp, pos)
  BY <1>9, <1>10, <1>12, <1>13, <1>15, <1>16 DEF Merging, d
<1> QED
  BY <1>9, <1>17 DEF k

(* Between two pairs of runs: everything up to c is merged.                *)
AtBoundary(m, t, c, N, l, s, size, cmp, pos) ==
  /\ m \in MergeStates(N) /\ t \in Orders(N) /\ Built(m, l, t, N)
  /\ c \in Multiples(2 * size) /\ c < Len(s) /\ Len(t) = c
  /\ m.q = s[c + 1] /\ (m.merges = 0 => c = 0)
  /\ Merged(t, s, 1..c, c, c + 2 * size, cmp, pos)

(* The next two runs are split off.                                        *)
LEMMA SplitStep ==
  ASSUME NEW N, NEW l, NEW s, NEW size, NEW cmp, NEW pos,
         Pass(N, l, s, size, cmp, pos), NEW m, NEW t, NEW c,
         AtBoundary(m, t, c, N, l, s, size, cmp, pos)
  PROVE  /\ Merging(SplitRuns(m, size), t, c, c, RunEnd(s, c, size),
                    N, l, s, size, cmp, pos)
         /\ ~RunsMerged(SplitRuns(m, size))
<1> DEFINE d == RunEnd(s, c, size)
           L == Len(s)
           k == SplitRuns(m, size)
<1>1. /\ IsFiniteSet(N) /\ NULL \notin N /\ s \in Orders(N) /\ s \in Seq(N)
      /\ size \in Nat \ {0}
      /\ L \in Nat /\ \A i \in 1..L : s[i] \in N
      /\ \A i, j \in 1..L : s[i] = s[j] => i = j
  BY DEF Pass, Orders, IsInjective
<1>2. /\ m \in MergeStates(N) /\ t \in Orders(N) /\ Built(m, l, t, N)
      /\ c \in Multiples(2 * size) /\ c < L /\ Len(t) = c
      /\ m.q = s[c + 1] /\ (m.merges = 0 => c = 0) /\ m.merges \in Nat
      /\ Merged(t, s, 1..c, c, c + 2 * size, cmp, pos)
  BY DEF AtBoundary, MergeStates
<1>3. c \in Nat
  BY <1>1, <1>2, HalfMultiple, NextMultiple
<1>4. d = (IF c + size <= L THEN c + size ELSE L)
  BY DEF RunEnd
<1>5. d \in Nat /\ c < d /\ d <= L /\ d <= c + size /\ d <= c + 2 * size
      /\ (d < L => d = c + size)
  BY <1>1, <1>2, <1>3, <1>4
<1>6. \A r \in (c + 1)..L : m.next[s[r]] = ElementAt(s, r + 1)
  <2> SUFFICES ASSUME NEW r \in (c + 1)..L PROVE m.next[s[r]] = ElementAt(s, r + 1)
    OBVIOUS
  <2>1. r \in 1..L /\ r \notin 1..c
    BY <1>3
  <2>2. s[r] \in N \ ToSet(t)
    <3>1. ToSet(t) = {s[i] : i \in 1..c}
      BY <1>2 DEF Merged
    <3>2. \A i \in 1..c : i \in 1..L
      BY <1>2, <1>3, <1>1
    <3> QED
      BY <1>1, <2>1, <3>1, <3>2
  <2>3. m.next[s[r]] = l.next[s[r]]
    BY <1>2, <2>2 DEF Built, Same
  <2>4. l.next[s[L]] = NULL /\ \A i \in 1..(L - 1) : l.next[s[i]] = s[i + 1]
    BY <1>1, <1>2, <1>3, RepresentsIs DEF Pass
  <2>5. CASE r = L
    BY <1>1, <2>3, <2>4, <2>5 DEF ElementAt
  <2>6. CASE r < L
    <3>1. r \in 1..(L - 1) /\ r + 1 <= L
      BY <1>1, <2>1, <2>6
    <3> QED
      BY <2>3, <2>4, <3>1 DEF ElementAt
  <2> QED
    BY <1>1, <2>1, <2>5, <2>6
<1>9. /\ k \in MergeStates(N) /\ k.head = m.head /\ k.tail = m.tail
      /\ k.prev = m.prev /\ k.next = m.next /\ k.p = m.q
      /\ k.q = ElementAt(s, d + 1) /\ k.psize = d - c /\ k.qsize = size
      /\ k.merges = m.merges + 1
  <2> HIDE DEF d, k
  <2>1. /\ IsFiniteSet(N) /\ NULL \notin N /\ s \in Orders(N) /\ m \in MergeStates(N)
        /\ size \in Nat \ {0} /\ c \in Nat /\ c < Len(s) /\ m.q = s[c + 1]
        /\ \A r \in (c + 1)..Len(s) : m.next[s[r]] = ElementAt(s, r + 1)
        /\ d = RunEnd(s, c, size) /\ k = SplitRuns(m, size)
    BY <1>1, <1>2, <1>3, <1>6 DEF d, k
  <2> QED
    BY <2>1, RunsSplit
<1> HIDE DEF d, k
<1>10. Built(k, l, t, N)
  BY <1>2, <1>9 DEF Built, Same
<1>11. Taken(c, d, d) = 1..c
  BY <1>3, <1>5 DEF Taken
<1>12. Places(k, s, size, c, c, d)
  <2>1. Reached(s, size, c, c, d)
    BY <1>2, <1>3, <1>5 DEF Reached, d
  <2>2. d < L => k.qsize = c + 2 * size - d
    BY <1>1, <1>3, <1>5, <1>9
  <2>3. k.merges # 0 /\ (k.merges = 1 => c = 0)
    BY <1>2, <1>9
  <2> QED
    BY <1>2, <1>9, <2>1, <2>2, <2>3 DEF Places, d
<1>13. Len(t) = c + d - d
  BY <1>2, <1>3, <1>5
<1>14. Merging(k, t, c, c, d, N, l, s, size, cmp, pos)
  BY <1>2, <1>9, <1>10, <1>11, <1>12, <1>13 DEF Merging, d
<1>15. ~RunsMerged(k)
  BY <1>3, <1>5, <1>9 DEF RunsMerged
<1> QED
  BY <1>14, <1>15 DEF d, k

(* When both runs are used up and there are more, their end is a boundary. *)
LEMMA RunsDone ==
  ASSUME NEW N, NEW l, NEW s, NEW size, NEW cmp, NEW pos,
         Pass(N, l, s, size, cmp, pos), NEW m, NEW t, NEW c, NEW a, NEW b,
         Merging(m, t, c, a, b, N, l, s, size, cmp, pos), RunsMerged(m)
  PROVE  /\ Len(t) = b /\ ToSet(t) = {s[i] : i \in 1..b}
         /\ Len(t) < Len(s) =>
              m.q # NULL /\ AtBoundary(m, t, b, N, l, s, size, cmp, pos)
<1> DEFINE d == RunEnd(s, c, size)
           L == Len(s)
<1>1. /\ NULL \notin N /\ s \in Orders(N) /\ s \in Seq(N) /\ size \in Nat \ {0}
      /\ L \in Nat /\ \A i \in 1..L : s[i] \in N
  BY DEF Pass, Orders
<1>2. /\ m \in MergeStates(N) /\ t \in Orders(N) /\ Reached(s, size, c, a, b)
      /\ Built(m, l, t, N) /\ Len(t) = a + b - d
      /\ Merged(t, s, Taken(a, d, b), c, c + 2 * size, cmp, pos)
      /\ m.psize = d - a
      /\ m.q = ElementAt(s, b + 1) /\ (b < L => m.qsize = c + 2 * size - b)
      /\ m.merges # 0
  BY DEF Merging, Places
<1>3. /\ a \in Nat /\ b \in Nat /\ c \in Nat /\ d \in Nat
      /\ a <= d /\ d <= b /\ b <= L
      /\ c + 2 * size \in Multiples(2 * size)
  BY <1>1, <1>2, ReachedIs
<1> HIDE DEF d
<1>4. a = d /\ Len(t) = b /\ Taken(a, d, b) = 1..b
  <2>1. a = d
    BY <1>2, <1>3 DEF RunsMerged
  <2> QED
    BY <1>2, <1>3, <2>1 DEF Taken
<1>5. ToSet(t) = {s[i] : i \in 1..b}
  BY <1>2, <1>4 DEF Merged
<1>6. ASSUME b < L PROVE m.q # NULL /\ AtBoundary(m, t, b, N, l, s, size, cmp, pos)
  <2>1. b + 1 \in 1..L
    BY <1>1, <1>3, <1>6
  <2>2. m.q = s[b + 1] /\ m.q # NULL
    BY <1>1, <1>2, <2>1 DEF ElementAt
  <2>3. m.qsize = 0
    BY <2>2 DEF RunsMerged
  <2> DEFINE w == 2 * size
  <2>4. b = c + w /\ w \in Nat
    BY <1>1, <1>2, <1>3, <1>6, <2>3
  <2> HIDE DEF w
  <2>5. InRuns(t, w, cmp, pos) /\ (b + w) - b = w
    <3>1. (c + w) - c = w
      BY <1>3, <2>4
    <3> QED
      BY <1>2, <1>3, <2>4, <3>1 DEF Merged, w
  <2>6. ASSUME NEW j \in 1..Len(t), NEW r \in (1..L) \ (1..b)
        PROVE  j <= b /\ pos[t[j]] < pos[s[r]]
    <3>1. j <= b /\ r > c + 2 * size
      BY <1>1, <1>3, <1>4, <2>4 DEF w
    <3> QED
      BY <1>2, <1>4, <3>1 DEF Merged
  <2>7. Merged(t, s, 1..b, b, b + 2 * size, cmp, pos)
    BY <1>5, <2>5, <2>6 DEF Merged, w
  <2>8. b \in Multiples(2 * size)
    BY <1>3, <2>4 DEF w
  <2> QED
    BY <1>2, <1>4, <1>6, <2>2, <2>7, <2>8 DEF AtBoundary
<1> QED
  BY <1>4, <1>5, <1>6

(* Where a pass can be when the new list has n elements.                   *)
InPass(m, n, N, l, s, size, cmp, pos) ==
  \E t, c, a, b :
    /\ Len(t) = n
    /\ \/ AtBoundary(m, t, c, N, l, s, size, cmp, pos) /\ RunsMerged(m)
       \/ Merging(m, t, c, a, b, N, l, s, size, cmp, pos)

(* Runs that are used up are replaced first.                               *)
LEMMA SplitFirst ==
  ASSUME NEW m, NEW size, NEW cmp, RunsMerged(m), NEW k, k = SplitRuns(m, size),
         ~RunsMerged(k)
  PROVE  MergeStep(m, size, cmp) = MergeStep(k, size, cmp)
<1> DEFINE e == IF FromP(k, cmp) THEN k.p ELSE k.q
           rest == IF FromP(k, cmp)
                   THEN [k EXCEPT !.p = k.next[e], !.psize = @ - 1]
                   ELSE [k EXCEPT !.q = k.next[e], !.qsize = @ - 1]
           taken == [rest EXCEPT
                       !.head = IF k.tail = NULL THEN e ELSE @,
                       !.next = IF k.tail = NULL THEN @ ELSE [@ EXCEPT ![k.tail] = e],
                       !.prev[e] = k.tail,
                       !.tail = e]
<1>1. MergeStep(k, size, cmp) = taken
  BY DEF MergeStep
<1>2. MergeStep(m, size, cmp) = taken
  BY DEF MergeStep
<1> QED
  BY <1>1, <1>2, Zenon

(* Each step adds an element, until none is left.                          *)
LEMMA PassStep ==
  ASSUME NEW N, NEW l, NEW s, NEW size, NEW cmp, NEW pos,
         Pass(N, l, s, size, cmp, pos), NEW m, NEW n \in Nat,
         InPass(m, n, N, l, s, size, cmp, pos)
  PROVE  /\ m \in MergeStates(N) /\ n <= Len(s)
         /\ RunsMerged(m) /\ m.q = NULL <=> n = Len(s)
         /\ n < Len(s) => InPass(MergeStep(m, size, cmp), n + 1, N, l, s, size, cmp, pos)
<1>1. PICK t, c, a, b :
        /\ Len(t) = n
        /\ \/ AtBoundary(m, t, c, N, l, s, size, cmp, pos) /\ RunsMerged(m)
           \/ Merging(m, t, c, a, b, N, l, s, size, cmp, pos)
  BY DEF InPass
<1>2. s \in Orders(N) /\ Len(s) \in Nat /\ size \in Nat \ {0} /\ \A i \in 1..Len(s) : s[i] # NULL
  BY DEF Pass, Orders
<1>3. ASSUME NEW e, AtBoundary(m, t, e, N, l, s, size, cmp, pos), RunsMerged(m)
      PROVE  /\ m \in MergeStates(N) /\ n < Len(s) /\ m.q # NULL
             /\ InPass(MergeStep(m, size, cmp), n + 1, N, l, s, size, cmp, pos)
  <2> DEFINE k == SplitRuns(m, size)
             d == RunEnd(s, e, size)
  <2>1. m \in MergeStates(N) /\ e < Len(s) /\ n = e /\ m.q = s[e + 1]
    BY <1>1, <1>3 DEF AtBoundary
  <2>2. m.q # NULL
    BY <1>2, <2>1
  <2>3. Merging(k, t, e, e, d, N, l, s, size, cmp, pos) /\ ~RunsMerged(k)
    BY <1>3, SplitStep
  <2> HIDE DEF k, d
  <2>4. PICK u, x, y : /\ Len(u) = Len(t) + 1
                       /\ Merging(MergeStep(k, size, cmp), u, e, x, y, N, l, s, size, cmp, pos)
    BY <2>3, MergingStep
  <2>5. MergeStep(m, size, cmp) = MergeStep(k, size, cmp)
    BY <1>3, <2>3, SplitFirst DEF k
  <2> QED
    BY <1>1, <2>1, <2>2, <2>4, <2>5 DEF InPass
<1>4. CASE AtBoundary(m, t, c, N, l, s, size, cmp, pos) /\ RunsMerged(m)
  BY <1>2, <1>3, <1>4
<1>5. CASE Merging(m, t, c, a, b, N, l, s, size, cmp, pos)
  <2> DEFINE d == RunEnd(s, c, size)
  <2>1. /\ m \in MergeStates(N) /\ Reached(s, size, c, a, b) /\ n = a + b - d
        /\ m.psize = d - a /\ m.q = ElementAt(s, b + 1)
    BY <1>1, <1>5 DEF Merging, Places
  <2>2. /\ a \in Nat /\ b \in Nat /\ d \in Nat /\ a <= d /\ d <= b /\ b <= Len(s)
    BY <1>2, <2>1, ReachedIs
  <2> HIDE DEF d
  <2>3. n <= Len(s)
    BY <1>2, <2>1, <2>2
  <2>4. n = Len(s) => RunsMerged(m) /\ m.q = NULL
    BY <1>2, <2>1, <2>2 DEF RunsMerged, ElementAt
  <2>5. CASE RunsMerged(m)
    <3>1. Len(t) < Len(s) => m.q # NULL /\ AtBoundary(m, t, b, N, l, s, size, cmp, pos)
      BY <1>5, <2>5, RunsDone
    <3> QED
      BY <1>1, <1>2, <1>3, <2>1, <2>3, <2>4, <2>5, <3>1
  <2>6. CASE ~RunsMerged(m)
    <3>1. PICK u, x, y : /\ Len(u) = Len(t) + 1
                         /\ Merging(MergeStep(m, size, cmp), u, c, x, y, N, l, s, size, cmp, pos)
      BY <1>5, <2>6, MergingStep
    <3>2. InPass(MergeStep(m, size, cmp), n + 1, N, l, s, size, cmp, pos)
      BY <1>1, <3>1 DEF InPass
    <3> QED
      BY <1>2, <2>1, <2>3, <2>4, <2>6, <3>2
  <2> QED
    BY <2>5, <2>6
<1> QED
  BY <1>1, <1>4, <1>5

(* It begins with nothing merged.                                          *)
LEMMA PassBegins ==
  ASSUME NEW N, NEW l, NEW s, NEW size, NEW cmp, NEW pos,
         Pass(N, l, s, size, cmp, pos), NEW m,
         m = [head |-> NULL, prev |-> l.prev, next |-> l.next, p |-> NULL,
              q |-> l.head, psize |-> 0, qsize |-> 0, tail |-> NULL, merges |-> 0]
  PROVE  InPass(m, 0, N, l, s, size, cmp, pos)
<1> DEFINE t == <<>>
<1>1. /\ s \in Orders(N) /\ s \in Seq(N) /\ Len(s) \in Nat /\ size \in Nat \ {0}
      /\ Len(s) > 0 /\ l \in Lists(N) /\ Represents(l, s)
  BY DEF Pass, Orders
<1>2. m \in MergeStates(N)
  <2>1. /\ l.head \in N \cup {NULL} /\ l.prev \in [N -> N \cup {NULL}]
        /\ l.next \in [N -> N \cup {NULL}]
    BY <1>1 DEF Lists
  <2> QED
    BY <2>1 DEF MergeStates
<1>3. /\ t \in Orders(N) /\ Len(t) = 0 /\ ToSet(t) = {}
  BY DEF Orders, IsInjective, ToSet
<1> HIDE DEF t
<1>4. Built(m, l, t, N)
  BY <1>3 DEF Built, Same
<1>5. 0 \in Multiples(2 * size)
  <2>1. 0 * (2 * size) = 0 /\ 0 \in Nat
    BY <1>1
  <2> QED
    BY <2>1 DEF Multiples
<1>6. m.q = s[1]
  BY <1>1, RepresentsIs
<1>7. Merged(t, s, 1..0, 0, 0 + 2 * size, cmp, pos)
  <2>1. 1..0 = {} /\ 1..Len(t) = {}
    BY <1>3
  <2> QED
    BY <1>3, <2>1 DEF Merged, InRuns
<1>8. AtBoundary(m, t, 0, N, l, s, size, cmp, pos) /\ RunsMerged(m)
  BY <1>1, <1>2, <1>3, <1>4, <1>5, <1>6, <1>7 DEF AtBoundary, RunsMerged
<1> QED
  BY <1>3, <1>8 DEF InPass

(* The elements are in the order they are to have.                         *)
InOrder(t, cmp, pos) ==
  \A i, j \in 1..Len(t) : i < j => Precedes(t[i], t[j], cmp, pos)

(* So they are if the first run is all there is.                           *)
LEMMA OneRun ==
  ASSUME NEW t, Len(t) \in Nat, NEW size \in Nat \ {0}, NEW cmp, NEW pos,
         InRuns(t, size, cmp, pos), Len(t) <= size
  PROVE  InOrder(t, cmp, pos)
<1> SUFFICES ASSUME NEW i \in 1..Len(t), NEW j \in 1..Len(t), i < j
             PROVE  Precedes(t[i], t[j], cmp, pos)
  BY DEF InOrder
<1>1. 0 \in Multiples(size)
  <2>1. 0 * size = 0 /\ 0 \in Nat
    OBVIOUS
  <2> QED
    BY <2>1 DEF Multiples
<1>2. \A b \in Multiples(size) : b <= 0 \/ b >= 0 + size
  BY <1>1, NextMultiple
<1>3. \A b \in Multiples(size) : b \in Nat
  BY NextMultiple
<1>4. ~Apart(i, j, size)
  BY <1>2, <1>3 DEF Apart
<1> QED
  BY <1>4 DEF InRuns

(* What a pass over the list with the elements of s leaves: a list of the  *)
(* same elements, whose runs are twice as long.                            *)
SortStates(N) == [list : Lists(N), insize : Nat \ {0}, looping : BOOLEAN]
Passed(r, N, l, s, size, cmp, pos) ==
  \E t \in Orders(N) :
    /\ ToSet(t) = ToSet(s) /\ Len(t) = Len(s)
    /\ r \in SortStates(N) /\ Represents(r.list, t)
    /\ Same(r.list, l, N \ ToSet(s))
    /\ r.insize = 2 * size /\ InRuns(t, r.insize, cmp, pos)
    /\ ~r.looping => InOrder(t, cmp, pos)

(* The last step of it links the ends.                                     *)
LEMMA PassEnds ==
  ASSUME NEW N, NEW l, NEW s, NEW size, NEW cmp, NEW pos,
         Pass(N, l, s, size, cmp, pos), NEW m,
         InPass(m, Len(s), N, l, s, size, cmp, pos), NEW r,
         r = [list |-> [head |-> m.head,
                        prev |-> [m.prev EXCEPT ![m.head] = m.tail],
                        next |-> [m.next EXCEPT ![m.tail] = NULL]],
              insize |-> 2 * size,
              looping |-> m.merges > 1]
  PROVE  Passed(r, N, l, s, size, cmp, pos)
<1> DEFINE L == Len(s)
<1>1. /\ s \in Orders(N) /\ s \in Seq(N) /\ L \in Nat /\ L > 0 /\ size \in Nat \ {0}
      /\ 2 * size \in Nat \ {0} /\ ToSet(s) = {s[i] : i \in 1..L}
  <2>1. s \in Seq(N) /\ L > 0 /\ size \in Nat \ {0} /\ s \in Orders(N)
    BY DEF Pass, Orders
  <2>2. ToSet(s) = {s[i] : i \in 1..L}
    BY <2>1 DEF ToSet
  <2> QED
    BY <2>1, <2>2
<1>2. /\ m \in MergeStates(N) /\ RunsMerged(m)
  BY <1>1, PassStep
<1>3. PICK t, c, a, b : Len(t) = L /\ Merging(m, t, c, a, b, N, l, s, size, cmp, pos)
  <2>1. PICK t, c, a, b :
          /\ Len(t) = L
          /\ \/ AtBoundary(m, t, c, N, l, s, size, cmp, pos) /\ RunsMerged(m)
             \/ Merging(m, t, c, a, b, N, l, s, size, cmp, pos)
    BY DEF InPass
  <2>2. ~AtBoundary(m, t, c, N, l, s, size, cmp, pos)
    BY <1>1, <2>1 DEF AtBoundary
  <2> QED
    BY <2>1, <2>2
<1> DEFINE d == RunEnd(s, c, size)
           w == c + 2 * size
<1>4. /\ t \in Orders(N) /\ t \in Seq(N) /\ Built(m, l, t, N)
      /\ Reached(s, size, c, a, b)
      /\ Merged(t, s, Taken(a, d, b), c, w, cmp, pos)
      /\ m.merges # 0 /\ (m.merges = 1 => c = 0) /\ m.merges \in Nat
      /\ \A i \in 1..L : t[i] \in N /\ t[i] \in ToSet(t)
      /\ \A i, j \in 1..L : t[i] = t[j] => i = j
  <2>1. /\ t \in Orders(N) /\ Built(m, l, t, N) /\ Reached(s, size, c, a, b)
        /\ Merged(t, s, Taken(a, d, b), c, w, cmp, pos)
        /\ m.merges # 0 /\ (m.merges = 1 => c = 0)
    BY <1>3 DEF Merging, Places
  <2>2. m.merges \in Nat
    BY <1>2 DEF MergeStates
  <2>3. /\ t \in Seq(N) /\ \A i \in 1..L : t[i] \in N /\ t[i] \in ToSet(t)
        /\ \A i, j \in 1..L : t[i] = t[j] => i = j
    BY <1>3, <2>1 DEF Orders, IsInjective, ToSet
  <2> QED
    BY <2>1, <2>2, <2>3
<1>5. Len(t) = b /\ ToSet(t) = {s[i] : i \in 1..b}
  BY <1>2, <1>3, RunsDone
<1>6. ToSet(t) = ToSet(s) /\ b = L
  BY <1>1, <1>3, <1>5
<1>7. c \in Nat /\ b <= w /\ w - c = 2 * size
  <2>1. c \in Nat /\ b <= w
    BY <1>1, <1>4, ReachedIs
  <2> QED
    BY <1>1, <2>1
<1>8. InRuns(t, 2 * size, cmp, pos)
  BY <1>4, <1>7 DEF Merged
<1>9. ~(m.merges > 1) => InOrder(t, cmp, pos)
  <2> SUFFICES ASSUME ~(m.merges > 1) PROVE InOrder(t, cmp, pos)
    OBVIOUS
  <2>1. c = 0
    BY <1>4
  <2> DEFINE z == 2 * size
  <2>2. z \in Nat \ {0} /\ Len(t) \in Nat /\ Len(t) <= z /\ InRuns(t, z, cmp, pos)
    BY <1>1, <1>3, <1>6, <1>7, <1>8, <2>1
  <2> HIDE DEF z
  <2> QED
    BY <2>2, OneRun
<1> DEFINE x == r.list
<1>10. /\ m.head = t[1] /\ m.tail = t[L] /\ t[1] \in N /\ t[L] \in N
       /\ m.prev \in [N -> N \cup {NULL}] /\ m.next \in [N -> N \cup {NULL}]
       /\ \A i \in 1..(L - 1) : m.next[t[i]] = t[i + 1] /\ m.prev[t[i + 1]] = t[i]
       /\ Same(m, l, N \ ToSet(t))
  BY <1>1, <1>2, <1>3, <1>4 DEF Built, MergeStates
<1>11. /\ x = [head |-> m.head, prev |-> x.prev, next |-> x.next]
       /\ x.prev = [m.prev EXCEPT ![t[1]] = t[L]]
       /\ x.next = [m.next EXCEPT ![t[L]] = NULL]
  BY <1>10
<1> HIDE DEF x
<1>12. x \in Lists(N)
  <2>1. x.prev \in [N -> N \cup {NULL}] /\ x.next \in [N -> N \cup {NULL}]
    BY <1>10, <1>11
  <2> QED
    BY <1>10, <1>11, <2>1 DEF Lists
<1>13. /\ \A n \in N : x.prev[n] = IF n = t[1] THEN t[L] ELSE m.prev[n]
       /\ \A n \in N : x.next[n] = IF n = t[L] THEN NULL ELSE m.next[n]
  BY <1>10, <1>11
<1>14. Represents(x, t)
  <2>1. x.head = t[1] /\ x.prev[t[1]] = t[L] /\ x.next[t[L]] = NULL
    BY <1>10, <1>11, <1>13
  <2>2. ASSUME NEW i \in 1..(L - 1)
        PROVE  x.next[t[i]] = t[i + 1] /\ x.prev[t[i + 1]] = t[i]
    <3>1. /\ i \in 1..L /\ i + 1 \in 1..L /\ 1 \in 1..L /\ L \in 1..L
          /\ i # L /\ i + 1 # 1
      BY <1>1
    <3>2. t[i] # t[L] /\ t[i + 1] # t[1] /\ t[i] \in N /\ t[i + 1] \in N
      BY <1>4, <3>1
    <3> QED
      BY <1>10, <1>13, <3>2
  <2> QED
    BY <1>1, <1>3, <1>4, <2>1, <2>2, RepresentsIs
<1>15. Same(x, l, N \ ToSet(s))
  <2> SUFFICES ASSUME NEW n \in N \ ToSet(s)
               PROVE  x.prev[n] = l.prev[n] /\ x.next[n] = l.next[n]
    BY DEF Same
  <2>1. n # t[1] /\ n # t[L]
    BY <1>1, <1>4, <1>6
  <2>2. m.prev[n] = l.prev[n] /\ m.next[n] = l.next[n]
    BY <1>6, <1>10 DEF Same
  <2> QED
    BY <1>13, <2>1, <2>2
<1>16. r.insize = 2 * size
  OBVIOUS
<1>17. r.looping \in BOOLEAN /\ (~r.looping => InOrder(t, cmp, pos))
  <2>1. CASE m.merges > 1
    <3>1. r.looping = TRUE
      BY <2>1
    <3> QED
      BY <3>1
  <2>2. CASE ~(m.merges > 1)
    <3>1. (m.merges > 1) = FALSE
      BY <2>2
    <3>2. r.looping = FALSE
      BY <3>1
    <3> QED
      BY <1>9, <2>2, <3>2
  <2> QED
    BY <2>1, <2>2
<1>18. r \in SortStates(N)
  <2>1. r = [list |-> r.list, insize |-> r.insize, looping |-> r.looping]
    OBVIOUS
  <2> QED
    BY <1>1, <1>12, <1>16, <1>17, <2>1 DEF SortStates, x
<1> QED
  BY <1>3, <1>4, <1>6, <1>8, <1>14, <1>15, <1>16, <1>17, <1>18 DEF Passed, x

(* A pass: after as many steps as there are nodes nothing is left.         *)
LEMMA PassMerges ==
  ASSUME NEW N, NEW l, NEW s, NEW size, NEW cmp, NEW pos,
         Pass(N, l, s, size, cmp, pos)
  PROVE  Passed(MergePass(l, size, cmp), N, l, s, size, cmp, pos)
<1> DEFINE K == Cardinality(DOMAIN l.next)
           start == [head |-> NULL, prev |-> l.prev, next |-> l.next, p |-> NULL,
                     q |-> l.head, psize |-> 0, qsize |-> 0, tail |-> NULL, merges |-> 0]
           Going(f) == [i \in 0..K |->
                          IF i = 0 THEN start
                          ELSE IF RunsMerged(f[i - 1]) /\ f[i - 1].q = NULL THEN f[i - 1]
                               ELSE MergeStep(f[i - 1], size, cmp)]
           step == CHOOSE f : f = Going(f)
           Leaves(m) == [list |-> [head |-> m.head,
                                   prev |-> [m.prev EXCEPT ![m.head] = m.tail],
                                   next |-> [m.next EXCEPT ![m.tail] = NULL]],
                         insize |-> 2 * size,
                         looping |-> m.merges > 1]
           In(m, n) == InPass(m, n, N, l, s, size, cmp, pos)
           Out(m) == RunsMerged(m) /\ m.q = NULL
           V == {m \in MergeStates(N) : \E n \in Nat : In(m, n)}
           Next1 == [m \in V |-> IF Out(m) THEN m ELSE MergeStep(m, size, cmp)]
<1>1. MergePass(l, size, cmp) = Leaves(step[K])
  BY Zenon DEF MergePass
<1>2. /\ K \in Nat /\ Len(s) \in Nat /\ Len(s) <= K
  BY Size, FS_CardinalityType DEF Pass, Orders, Lists
<1>3. In(start, 0)
  <2> HIDE DEF start
  <2> QED
    BY PassBegins DEF start
<1>4. ASSUME NEW m, NEW n \in Nat, In(m, n)
      PROVE  /\ m \in MergeStates(N) /\ n <= Len(s)
             /\ Out(m) <=> n = Len(s)
             /\ n < Len(s) => In(MergeStep(m, size, cmp), n + 1)
  BY <1>4, PassStep
<1> HIDE DEF K, start, In, Out
<1>5. start \in V
  BY <1>3, <1>4
<1>6. ASSUME NEW m \in V PROVE Next1[m] \in V
  <2>1. PICK n \in Nat : In(m, n)
    OBVIOUS
  <2>2. CASE Out(m)
    BY <2>2
  <2>3. CASE ~Out(m)
    <3>1. In(MergeStep(m, size, cmp), n + 1) /\ n + 1 \in Nat
      BY <1>2, <1>4, <2>1, <2>3
    <3>2. MergeStep(m, size, cmp) \in V
      BY <1>4, <3>1
    <3> QED
      BY <2>3, <3>2
  <2> QED
    BY <2>2, <2>3
<1>7. PICK g : g \in [0..K -> V] /\ g[0] = start /\ \A i \in 1..K : g[i] = Next1[g[i - 1]]
  <2>1. Next1 \in [V -> V]
    BY <1>6
  <2> HIDE DEF V, Next1
  <2>2. [i \in 1..K |-> Next1] \in Steps(K, V)
    BY <2>1 DEF Steps
  <2>3. \E f : IsFold(f, K, V, start, [i \in 1..K |-> Next1])
    BY <1>2, <1>5, <2>2, FoldExists
  <2> QED
    BY <2>3 DEF IsFold
<1>8. g = Going(g)
  <2> SUFFICES ASSUME NEW i \in 0..K PROVE g[i] = Going(g)[i]
    <3>1. g = [i \in 0..K |-> g[i]]
      BY <1>7
    <3>2. Going(g) = [i \in 0..K |-> Going(g)[i]]
      OBVIOUS
    <3> HIDE DEF Going
    <3> QED
      BY <3>1, <3>2, Zenon
  <2>1. CASE i = 0
    BY <1>7, <2>1
  <2>2. CASE i > 0
    <3>1. i \in 1..K /\ i - 1 \in 0..K
      BY <1>2, <2>2
    <3>2. g[i - 1] \in V
      BY <1>7, <3>1
    <3>3. g[i] = IF Out(g[i - 1]) THEN g[i - 1] ELSE MergeStep(g[i - 1], size, cmp)
      BY <1>7, <3>1, <3>2
    <3>4. i # 0
      BY <2>2
    <3> QED
      BY <3>3, <3>4 DEF Out
  <2> QED
    BY <1>2, <2>1, <2>2
<1>9. step = Going(step)
  <2> HIDE DEF Going
  <2> QED
    BY <1>8
<1> HIDE DEF step
<1>10. /\ step[0] = start
       /\ \A i \in 1..K : step[i] = IF Out(step[i - 1]) THEN step[i - 1]
                                    ELSE MergeStep(step[i - 1], size, cmp)
  <2>1. \A i \in 0..K : step[i] = Going(step)[i]
    BY <1>9
  <2>2. 0 \in 0..K /\ \A i \in 1..K : i \in 0..K /\ i # 0
    BY <1>2
  <2> QED
    BY <2>1, <2>2 DEF Out
<1> HIDE DEF V, Next1, Going
<1>11. In(step[K], Len(s))
  <2> DEFINE Good == {i \in Nat : i <= K => In(step[i], IF i <= Len(s) THEN i ELSE Len(s))}
  <2>1. 0 \in Good
    BY <1>2, <1>3, <1>10
  <2>2. ASSUME NEW i \in Nat, i \in Good PROVE i + 1 \in Good
    <3> SUFFICES ASSUME i + 1 <= K
                 PROVE  In(step[i + 1], IF i + 1 <= Len(s) THEN i + 1 ELSE Len(s))
      OBVIOUS
    <3>1. In(step[i], IF i <= Len(s) THEN i ELSE Len(s))
      BY <1>2, <2>2
    <3>2. step[i + 1] = IF Out(step[i]) THEN step[i] ELSE MergeStep(step[i], size, cmp)
      <4>1. i + 1 \in 1..K /\ (i + 1) - 1 = i
        BY <1>2
      <4> QED
        BY <1>10, <4>1
    <3>3. CASE i < Len(s)
      <4>1. In(step[i], i) /\ i # Len(s)
        BY <1>2, <3>1, <3>3
      <4>2. ~Out(step[i]) /\ In(MergeStep(step[i], size, cmp), i + 1)
        BY <1>4, <3>3, <4>1
      <4> QED
        BY <1>2, <3>2, <3>3, <4>2
    <3>4. CASE ~(i < Len(s))
      <4>1. In(step[i], Len(s))
        BY <1>2, <3>1, <3>4
      <4>2. Out(step[i])
        BY <1>2, <1>4, <4>1
      <4>3. ~(i + 1 <= Len(s))
        BY <1>2, <3>4
      <4> QED
        BY <3>2, <4>1, <4>2, <4>3
    <3> QED
      BY <3>3, <3>4
  <2> HIDE DEF Good
  <2>3. K \in Good
    BY <1>2, <2>1, <2>2, Induction
  <2>4. (IF K <= Len(s) THEN K ELSE Len(s)) = Len(s)
    BY <1>2
  <2> QED
    BY <1>2, <2>3, <2>4 DEF Good
<1> HIDE DEF Leaves
<1>12. Passed(Leaves(step[K]), N, l, s, size, cmp, pos)
  <2>1. InPass(step[K], Len(s), N, l, s, size, cmp, pos)
    BY <1>11 DEF In
  <2> DEFINE m == step[K]
             r == Leaves(m)
  <2>2. r = [list |-> [head |-> m.head,
                       prev |-> [m.prev EXCEPT ![m.head] = m.tail],
                       next |-> [m.next EXCEPT ![m.tail] = NULL]],
             insize |-> 2 * size,
             looping |-> m.merges > 1]
    BY DEF Leaves
  <2> HIDE DEF m, r
  <2>3. Passed(r, N, l, s, size, cmp, pos)
    BY <2>1, <2>2, PassEnds DEF m
  <2> QED
    BY <2>3 DEF m, r
<1> QED
  BY <1>1, <1>12

(* What a list is follows from its elements and the links outside.         *)
LEMMA ListIs ==
  ASSUME NEW N, NEW l \in Lists(N), NEW m \in Lists(N), NEW s \in Orders(N),
         Represents(l, s), Represents(m, s), Same(l, m, N \ ToSet(s))
  PROVE  l = m
<1> DEFINE n == Len(s)
<1>1. /\ s \in Seq(N) /\ n \in Nat /\ ToSet(s) = {s[i] : i \in 1..n}
  <2>1. s \in Seq(N)
    BY DEF Orders
  <2> QED
    BY <2>1 DEF ToSet
<1>2. l.head = m.head
  BY <1>1, RepresentsIs
<1>3. ASSUME NEW i \in 1..n PROVE l.prev[s[i]] = m.prev[s[i]] /\ l.next[s[i]] = m.next[s[i]]
  <2>1. /\ l.prev[s[1]] = s[n] /\ l.next[s[n]] = NULL
        /\ m.prev[s[1]] = s[n] /\ m.next[s[n]] = NULL
        /\ \A j \in 1..(n - 1) : l.next[s[j]] = s[j + 1] /\ l.prev[s[j + 1]] = s[j]
        /\ \A j \in 1..(n - 1) : m.next[s[j]] = s[j + 1] /\ m.prev[s[j + 1]] = s[j]
    BY <1>1, RepresentsIs
  <2>2. l.next[s[i]] = m.next[s[i]]
    <3>1. i = n \/ i \in 1..(n - 1)
      BY <1>1
    <3> QED
      BY <2>1, <3>1
  <2>3. l.prev[s[i]] = m.prev[s[i]]
    <3>1. i = 1 \/ (i - 1 \in 1..(n - 1) /\ (i - 1) + 1 = i)
      BY <1>1
    <3>2. CASE i = 1
      BY <2>1, <3>2
    <3>3. CASE i - 1 \in 1..(n - 1) /\ (i - 1) + 1 = i
      <4>1. l.prev[s[(i - 1) + 1]] = s[i - 1] /\ m.prev[s[(i - 1) + 1]] = s[i - 1]
        BY <2>1, <3>3
      <4> QED
        BY <3>3, <4>1
    <3> QED
      BY <3>1, <3>2, <3>3
  <2> QED
    BY <2>2, <2>3
<1>4. \A x \in N : l.prev[x] = m.prev[x] /\ l.next[x] = m.next[x]
  BY <1>1, <1>3 DEF Same
<1>5. /\ l.prev \in [N -> N \cup {NULL}] /\ l.next \in [N -> N \cup {NULL}]
      /\ m.prev \in [N -> N \cup {NULL}] /\ m.next \in [N -> N \cup {NULL}]
      /\ l = [head |-> l.head, prev |-> l.prev, next |-> l.next]
      /\ m = [head |-> m.head, prev |-> m.prev, next |-> m.next]
  BY DEF Lists
<1>6. l.prev = m.prev /\ l.next = m.next
  BY <1>4, <1>5
<1> QED
  BY <1>2, <1>5, <1>6

(* What the sort has after a number of passes.                             *)
Sorting(r, N, l, s, cmp, pos) ==
  \E t \in Orders(N) :
    /\ ToSet(t) = ToSet(s) /\ Len(t) = Len(s)
    /\ r \in SortStates(N) /\ Represents(r.list, t)
    /\ Same(r.list, l, N \ ToSet(s))
    /\ InRuns(t, r.insize, cmp, pos)
    /\ IF r.looping THEN Len(s) > 0 ELSE InOrder(t, cmp, pos)

(* A pass keeps that, and makes the runs longer.                           *)
LEMMA SortingStep ==
  ASSUME NEW N, IsFiniteSet(N), NULL \notin N, NEW l, NEW s \in Orders(N),
         NEW cmp \in Comparators(N), NEW pos \in [N -> Int], NEW r,
         Sorting(r, N, l, s, cmp, pos), r.looping
  PROVE  /\ Sorting(MergePass(r.list, r.insize, cmp), N, l, s, cmp, pos)
         /\ MergePass(r.list, r.insize, cmp).insize = 2 * r.insize
<1> DEFINE k == MergePass(r.list, r.insize, cmp)
           size == r.insize
<1>1. PICK t \in Orders(N) :
        /\ ToSet(t) = ToSet(s) /\ Len(t) = Len(s)
        /\ r \in SortStates(N) /\ Represents(r.list, t)
        /\ Same(r.list, l, N \ ToSet(s))
        /\ InRuns(t, r.insize, cmp, pos)
        /\ Len(s) > 0
  BY DEF Sorting
<1>2. r.list \in Lists(N) /\ size \in Nat \ {0}
  BY <1>1 DEF SortStates
<1>3. Passed(k, N, r.list, t, size, cmp, pos)
  <2>1. Pass(N, r.list, t, size, cmp, pos)
    BY <1>1, <1>2 DEF Pass
  <2> QED
    BY <2>1, PassMerges
<1> HIDE DEF k
<1>4. PICK u \in Orders(N) :
        /\ ToSet(u) = ToSet(t) /\ Len(u) = Len(t)
        /\ k \in SortStates(N) /\ Represents(k.list, u)
        /\ Same(k.list, r.list, N \ ToSet(t))
        /\ k.insize = 2 * size /\ InRuns(u, k.insize, cmp, pos)
        /\ ~k.looping => InOrder(u, cmp, pos)
  BY <1>3 DEF Passed
<1>5. Same(k.list, l, N \ ToSet(s))
  BY <1>1, <1>4 DEF Same
<1>6. Sorting(k, N, l, s, cmp, pos)
  BY <1>1, <1>4, <1>5 DEF Sorting
<1> QED
  BY <1>4, <1>6 DEF k

(* As many passes as there are nodes are enough.                           *)
LEMMA AllSorted ==
  ASSUME NEW N, IsFiniteSet(N), NULL \notin N, NEW l \in Lists(N), NEW s \in Orders(N),
         Represents(l, s), NEW cmp \in Comparators(N), NEW pos \in [N -> Int],
         InRuns(s, 1, cmp, pos)
  PROVE  \E t \in Orders(N) :
           /\ ToSet(t) = ToSet(s) /\ Len(t) = Len(s) /\ InOrder(t, cmp, pos)
           /\ DLSort(l, cmp) \in Lists(N) /\ Represents(DLSort(l, cmp), t)
           /\ Same(DLSort(l, cmp), l, N \ ToSet(s))
<1> DEFINE K == Cardinality(DOMAIN l.next)
           start == [list |-> l, insize |-> 1, looping |-> l.head # NULL]
           Going(f) == [k \in 0..K |->
                          IF k = 0 THEN start
                          ELSE IF ~f[k - 1].looping THEN f[k - 1]
                               ELSE MergePass(f[k - 1].list, f[k - 1].insize, cmp)]
           pass == CHOOSE f : f = Going(f)
           In(r) == Sorting(r, N, l, s, cmp, pos)
           V == {r \in SortStates(N) : In(r)}
           G(r) == IF ~r.looping THEN r ELSE MergePass(r.list, r.insize, cmp)
           Next1 == [r \in V |-> G(r)]
<1>1. DLSort(l, cmp) = pass[K].list
  BY Zenon DEF DLSort
<1>2. /\ K \in Nat /\ Len(s) \in Nat /\ Len(s) <= K /\ s \in Seq(N)
      /\ \A i \in 1..Len(s) : s[i] \in N
  BY Size, FS_CardinalityType DEF Orders, Lists
<1>3. start \in V /\ start.insize = 1
  <2>1. start \in SortStates(N) /\ start.list = l /\ start.insize = 1
    BY DEF SortStates
  <2>2. start.looping <=> Len(s) > 0
    <3>1. l.head # NULL <=> Len(s) > 0
      <4>1. CASE Len(s) = 0
        <5>1. l.head = NULL
          BY <1>2, <4>1, RepresentsIs
        <5> QED
          BY <4>1, <5>1
      <4>2. CASE Len(s) # 0
        <5>1. l.head = s[1] /\ s[1] \in N /\ Len(s) > 0
          BY <1>2, <4>2, RepresentsIs
        <5> QED
          BY <5>1
      <4> QED
        BY <4>1, <4>2
    <3> QED
      BY <3>1
  <2> HIDE DEF start
  <2>3. Len(s) = 0 => InOrder(s, cmp, pos)
    BY DEF InOrder
  <2>4. Same(l, l, N \ ToSet(s))
    BY DEF Same
  <2>5. In(start)
    <3>1. IF start.looping THEN Len(s) > 0 ELSE InOrder(s, cmp, pos)
      BY <1>2, <2>2, <2>3
    <3> QED
      BY <2>1, <2>4, <3>1 DEF Sorting
  <2> QED
    BY <2>1, <2>5
<1> HIDE DEF K, start, In
<1>4. ASSUME NEW r \in V
      PROVE  /\ G(r) \in V /\ r.insize \in Nat \ {0} /\ (~r.looping => G(r) = r)
             /\ r.looping => G(r).insize = 2 * r.insize
  <2>1. r.insize \in Nat \ {0}
    BY DEF SortStates
  <2>2. CASE r.looping
    <3> DEFINE k == MergePass(r.list, r.insize, cmp)
    <3>1. Sorting(k, N, l, s, cmp, pos) /\ k.insize = 2 * r.insize
      BY <2>2, SortingStep DEF In
    <3> HIDE DEF k
    <3>2. k \in SortStates(N)
      BY <3>1 DEF Sorting
    <3>3. G(r) = k
      BY <2>2 DEF k
    <3> QED
      BY <2>1, <2>2, <3>1, <3>2, <3>3 DEF In
  <2>3. CASE ~r.looping
    BY <2>1, <2>3
  <2> QED
    BY <2>2, <2>3
<1> HIDE DEF G
<1>5. PICK g : g \in [0..K -> V] /\ g[0] = start /\ \A i \in 1..K : g[i] = Next1[g[i - 1]]
  <2>1. Next1 \in [V -> V]
    BY <1>4
  <2> HIDE DEF V, Next1
  <2>2. [i \in 1..K |-> Next1] \in Steps(K, V)
    BY <2>1 DEF Steps
  <2>3. \E f : IsFold(f, K, V, start, [i \in 1..K |-> Next1])
    BY <1>2, <1>3, <2>2, FoldExists
  <2> QED
    BY <2>3 DEF IsFold
<1>6. g = Going(g)
  <2> SUFFICES ASSUME NEW i \in 0..K PROVE g[i] = Going(g)[i]
    <3>1. g = [i \in 0..K |-> g[i]]
      BY <1>5
    <3>2. Going(g) = [i \in 0..K |-> Going(g)[i]]
      OBVIOUS
    <3> HIDE DEF Going
    <3> QED
      BY <3>1, <3>2, Zenon
  <2>1. CASE i = 0
    BY <1>5, <2>1
  <2>2. CASE i > 0
    <3>1. i \in 1..K /\ i - 1 \in 0..K /\ i # 0
      BY <1>2, <2>2
    <3>2. g[i - 1] \in V
      BY <1>5, <3>1
    <3>3. g[i] = G(g[i - 1])
      BY <1>5, <3>1, <3>2
    <3> QED
      BY <3>1, <3>3 DEF G
  <2> QED
    BY <1>2, <2>1, <2>2
<1>7. pass = Going(pass)
  <2> HIDE DEF Going
  <2> QED
    BY <1>6
<1> HIDE DEF pass
<1>8. pass[0] = start /\ \A i \in 1..K : pass[i] = G(pass[i - 1])
  <2>1. \A i \in 0..K : pass[i] = Going(pass)[i]
    BY <1>7
  <2>2. 0 \in 0..K /\ \A i \in 1..K : i \in 0..K /\ i # 0
    BY <1>2
  <2> QED
    BY <2>1, <2>2 DEF G
<1> HIDE DEF V, Next1, Going
<1>9. pass[K] \in V /\ (pass[K].looping => pass[K].insize > K)
  <2> DEFINE Good == {i \in Nat : i <= K => /\ pass[i] \in V
                                            /\ pass[i].looping => pass[i].insize > i}
  <2>1. 0 \in Good
    BY <1>2, <1>3, <1>8
  <2>2. ASSUME NEW i \in Nat, i \in Good PROVE i + 1 \in Good
    <3> SUFFICES ASSUME i + 1 <= K
                 PROVE  /\ pass[i + 1] \in V
                        /\ pass[i + 1].looping => pass[i + 1].insize > i + 1
      OBVIOUS
    <3>1. pass[i] \in V /\ (pass[i].looping => pass[i].insize > i)
      BY <1>2, <2>2
    <3>2. pass[i + 1] = G(pass[i])
      <4>1. i + 1 \in 1..K /\ (i + 1) - 1 = i
        BY <1>2
      <4> QED
        BY <1>8, <4>1
    <3>3. /\ G(pass[i]) \in V /\ pass[i].insize \in Nat \ {0}
          /\ ~pass[i].looping => G(pass[i]) = pass[i]
          /\ pass[i].looping => G(pass[i]).insize = 2 * pass[i].insize
      BY <1>4, <3>1
    <3>4. CASE pass[i].looping
      <4>1. 2 * pass[i].insize > i + 1
        BY <3>1, <3>3, <3>4
      <4> QED
        BY <3>2, <3>3, <3>4, <4>1
    <3>5. CASE ~pass[i].looping
      BY <3>2, <3>3, <3>5
    <3> QED
      BY <3>4, <3>5
  <2> HIDE DEF Good
  <2>3. K \in Good
    BY <1>2, <2>1, <2>2, Induction
  <2> QED
    BY <1>2, <2>3 DEF Good
<1> DEFINE r == pass[K]
<1> HIDE DEF r
<1>10. r \in V /\ (r.looping => r.insize > K)
  BY <1>9 DEF r
<1>11. PICK t \in Orders(N) :
         /\ ToSet(t) = ToSet(s) /\ Len(t) = Len(s)
         /\ r \in SortStates(N) /\ Represents(r.list, t)
         /\ Same(r.list, l, N \ ToSet(s))
         /\ InRuns(t, r.insize, cmp, pos)
         /\ IF r.looping THEN Len(s) > 0 ELSE InOrder(t, cmp, pos)
  BY <1>10 DEF V, In, Sorting
<1>12. r.list \in Lists(N) /\ r.insize \in Nat \ {0}
  BY <1>11 DEF SortStates
<1>13. InOrder(t, cmp, pos)
  <2>1. CASE r.looping
    <3> DEFINE size == r.insize
    <3>1. Len(t) \in Nat /\ size \in Nat \ {0} /\ Len(t) <= size /\ InRuns(t, size, cmp, pos)
      BY <1>2, <1>10, <1>11, <1>12, <2>1
    <3> HIDE DEF size
    <3> QED
      BY <3>1, OneRun
  <2>2. CASE ~r.looping
    BY <1>11, <2>2
  <2> QED
    BY <2>1, <2>2
<1>14. DLSort(l, cmp) = r.list
  BY <1>1 DEF r
<1> QED
  BY <1>11, <1>12, <1>13, <1>14

(* DL_SORT2 sorts every list with every comparator: it leaves what         *)
(* DLRelink says, the elements linked in both directions, in the order of  *)
(* cmp and equal ones in the order they were in, and no link of another    *)
(* list is touched.                                                        *)
THEOREM SortsStably ==
  ASSUME NEW N, IsFiniteSet(N), NULL \notin N, NEW l \in Lists(N), NEW s \in Orders(N),
         Represents(l, s), NEW cmp \in Comparators(N)
  PROVE  SortedStably(DLSort(l, cmp), l, cmp)
<1> DEFINE L == Len(s)
           Place(n) == CHOOSE i \in 1..L : s[i] = n
           pos == [n \in N |-> IF n \in ToSet(s) THEN Place(n) ELSE 0]
           x == DLSort(l, cmp)
<1>1. /\ s \in Seq(N) /\ L \in Nat /\ DOMAIN s = 1..L
      /\ ToSet(s) = {s[i] : i \in 1..L} /\ \A i \in 1..L : s[i] \in N
      /\ \A i, j \in 1..L : s[i] = s[j] => i = j
  BY DEF Orders, IsInjective, ToSet
<1>2. \A i \in 1..L : pos[s[i]] = i
  BY <1>1
<1>3. pos \in [N -> Int]
  <2>1. ASSUME NEW n \in ToSet(s) PROVE Place(n) \in Int
    BY <1>1
  <2> QED
    BY <2>1
<1> HIDE DEF pos, x
<1>4. InRuns(s, 1, cmp, pos)
  <2> SUFFICES ASSUME NEW i \in 1..L, NEW j \in 1..L, i < j
               PROVE  Apart(i, j, 1) /\ pos[s[i]] < pos[s[j]]
    BY DEF InRuns
  <2>1. i * 1 = i /\ i \in Nat
    OBVIOUS
  <2>2. i \in Multiples(1)
    BY <2>1 DEF Multiples
  <2> QED
    BY <1>2, <2>2 DEF Apart
<1>5. PICK t \in Orders(N) :
        /\ ToSet(t) = ToSet(s) /\ Len(t) = L /\ InOrder(t, cmp, pos)
        /\ x \in Lists(N) /\ Represents(x, t) /\ Same(x, l, N \ ToSet(s))
  BY <1>3, <1>4, AllSorted DEF x
<1>6. Elements(l) = s /\ Elements(x) = t
  BY <1>5, ElementsAre
<1>7. t \in Seq(N) /\ DOMAIN t = 1..L /\ IsInjective(t)
  BY <1>5 DEF Orders
<1>8. ASSUME NEW i \in DOMAIN t, NEW j \in DOMAIN t, i < j
      PROVE  /\ NotAfter(t[i], t[j], cmp)
             /\ \A p, q \in DOMAIN s :
                  s[p] = t[i] /\ s[q] = t[j] /\ NotAfter(t[j], t[i], cmp) => p < q
  <2>1. Precedes(t[i], t[j], cmp, pos)
    BY <1>5, <1>7, <1>8 DEF InOrder
  <2> QED
    BY <1>1, <1>2, <2>1 DEF Precedes
<1>9. x = DLRelink(l, t)
  <2>1. L = 0 => l.head = NULL
    BY <1>1, RepresentsIs
  <2>2. /\ DLRelink(l, t) \in Lists(N) /\ Represents(DLRelink(l, t), t)
        /\ Same(DLRelink(l, t), l, N \ ToSet(t))
    BY <1>5, <2>1, Relinked
  <2> DEFINE y == DLRelink(l, t)
  <2>3. Same(x, y, N \ ToSet(t))
    BY <1>5, <2>2 DEF Same
  <2> HIDE DEF y
  <2>4. y \in Lists(N) /\ Represents(y, t)
    BY <2>2 DEF y
  <2>5. x = y
    BY <1>5, <2>3, <2>4, ListIs
  <2> QED
    BY <2>5 DEF y
<1> QED
  BY <1>5, <1>6, <1>7, <1>8, <1>9 DEF SortedStably, x

(* Comparing keys compares.                                                *)
LEMMA KeysCompare ==
  ASSUME NEW n \in Nat, NEW key \in [1..n -> Int], NEW cmp,
         cmp = [p \in (1..n) \X (1..n) |-> key[p[1]] - key[p[2]]]
  PROVE  cmp \in Comparators(1..n)
<1>1. \A x, y \in 1..n : cmp[<<x, y>>] = key[x] - key[y]
  <2> SUFFICES ASSUME NEW x \in 1..n, NEW y \in 1..n
               PROVE  cmp[<<x, y>>] = key[x] - key[y]
    OBVIOUS
  <2>1. <<x, y>> \in (1..n) \X (1..n) /\ <<x, y>>[1] = x /\ <<x, y>>[2] = y
    OBVIOUS
  <2> QED
    BY <2>1
<1>2. cmp \in [(1..n) \X (1..n) -> Int]
  OBVIOUS
<1>3. \A x, y \in 1..n : NotAfter(x, y, cmp) <=> key[x] <= key[y]
  <2> SUFFICES ASSUME NEW x \in 1..n, NEW y \in 1..n
               PROVE  NotAfter(x, y, cmp) <=> key[x] <= key[y]
    OBVIOUS
  <2>1. cmp[<<x, y>>] = key[x] - key[y] /\ key[x] \in Int /\ key[y] \in Int
    BY <1>1
  <2> QED
    BY <2>1 DEF NotAfter
<1>4. \A x \in 1..n : key[x] \in Int
  OBVIOUS
<1>5. ASSUME NEW x \in 1..n, NEW y \in 1..n
      PROVE  NotAfter(x, y, cmp) \/ NotAfter(y, x, cmp)
  <2>1. key[x] <= key[y] \/ key[y] <= key[x]
    BY <1>4
  <2> QED
    BY <1>3, <2>1
<1>6. ASSUME NEW x \in 1..n, NEW y \in 1..n, NEW z \in 1..n,
             NotAfter(x, y, cmp), NotAfter(y, z, cmp)
      PROVE  NotAfter(x, z, cmp)
  <2>1. key[x] <= key[y] /\ key[y] <= key[z]
    BY <1>3, <1>6
  <2>2. key[x] <= key[z]
    BY <1>4, <2>1
  <2> QED
    BY <1>3, <2>2
<1> QED
  BY <1>2, <1>5, <1>6, Zenon DEF Comparators

(* A list of elements with keys is sorted by its keys, and stably.         *)
THEOREM KeysSorted == Spec => []SortIsStable
<1>1. SortIsStable
  <2> SUFFICES ASSUME NEW n \in 1..5, NEW key \in [1..n -> 1..n], NEW s, NEW l, NEW cmp,
                      s = [i \in 1..n |-> i],
                      l = AppendAll(ListAt(NULL, NoLinks(1..n)), s),
                      cmp = [p \in (1..n) \X (1..n) |-> key[p[1]] - key[p[2]]]
               PROVE  SortedStably(DLSort(l, cmp), l, cmp)
    BY Zenon DEF SortIsStable
  <2> DEFINE N == 1..n
             e == ListAt(NULL, NoLinks(N))
  <2>1. /\ n \in Nat /\ IsFiniteSet(N) /\ NULL \notin N
    <3>1. n \in Nat /\ N \subseteq 1..5 /\ 1 \in Int /\ n \in Int
      OBVIOUS
    <3>2. IsFiniteSet(1..n)
      BY <3>1, FS_Interval
    <3> QED
      BY <3>1, <3>2, NumbersAssumption
  <2>2. s \in Orders(N)
    <3>1. s \in [1..n -> N] /\ \A i \in 1..n : s[i] = i
      OBVIOUS
    <3>2. s \in Seq(N) /\ Len(s) = n /\ DOMAIN s = 1..n
      BY <2>1, <3>1, FunctionIsSeq
    <3> QED
      BY <3>1, <3>2 DEF Orders, IsInjective
  <2>3. e \in Lists(N) /\ e.head = NULL
    BY DEF ListAt, NoLinks, Lists
  <2>4. l \in Lists(N) /\ Represents(l, s)
    <3> HIDE DEF e, N
    <3>1. AppendAll(e, s) \in Lists(N) /\ Represents(AppendAll(e, s), s)
      BY <2>1, <2>2, <2>3, AllAppended
    <3>2. l = AppendAll(e, s)
      BY DEF e, N
    <3> QED
      BY <3>1, <3>2
  <2>5. cmp \in Comparators(N)
    <3>1. key \in [1..n -> Int]
      OBVIOUS
    <3> QED
      BY <2>1, <3>1, KeysCompare
  <2> QED
    BY <2>1, <2>2, <2>4, <2>5, SortsStably
<1> QED
  BY <1>1, PTL
=============================================================================
