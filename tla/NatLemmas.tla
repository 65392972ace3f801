----------------------------- MODULE NatLemmas -----------------------------
(***************************************************************************)
(* What the proofs about the fixture need to know of the naturals, and of  *)
(* sums over finite sets.                                                  *)
(***************************************************************************)
EXTENDS Integers, Functions, FiniteSetTheorems, TLAPS, WellFoundedInduction

(* A non-empty set of naturals has a least element.                        *)
LEMMA NatMin ==
  ASSUME NEW S \in SUBSET Nat, S # {}
  PROVE  \E m \in S : \A x \in S : m <= x
<1> DEFINE R == {ss \in Nat \X Nat : ss[1] < ss[2]}
<1>1. IsWellFoundedOn(R, Nat)
  BY NatLessThanWellFounded DEF OpToRel
<1> HIDE DEF R
<1>2. PICK m \in S : \A x \in S : ~(<<x, m>> \in R)
  BY <1>1, WFMin
<1>3. \A x \in S : ~(x < m)
  BY <1>2 DEF R
<1> QED
  BY <1>3

LEMMA ProductNat == \A x, y \in Nat : x * y \in Nat
OBVIOUS

LEMMA ProductLess ==
  ASSUME NEW x \in Nat \ {0}, NEW y \in Nat, NEW z \in Nat, y < z
  PROVE  x * y < x * z
<1>1. x * z = x * y + x * (z - y)
  OBVIOUS
<1>2. x * (z - y) > 0
  OBVIOUS
<1>3. x * y \in Int /\ x * z \in Int /\ x * (z - y) \in Int
  OBVIOUS
<1> QED
  BY <1>1, <1>2, <1>3
-----------------------------------------------------------------------------
(* A set with 0 and the successor of each of its numbers has them all.     *)
LEMMA Induction ==
  ASSUME NEW S, 0 \in S, \A n \in Nat : n \in S => n + 1 \in S
  PROVE  Nat \subseteq S
<1> SUFFICES ASSUME Nat \ S # {} PROVE FALSE
  OBVIOUS
<1>1. PICK m \in Nat \ S : \A x \in Nat \ S : m <= x
  BY NatMin
<1>2. m - 1 \in Nat /\ m - 1 \notin Nat \ S
  BY <1>1
<1> QED
  BY <1>1, <1>2
-----------------------------------------------------------------------------
(* SumFunction of the community modules adds up the values one by one,     *)
(* always in the same order.                                               *)
Picked(s) == CHOOSE x \in s : TRUE
Adds(sum, f, S) ==
  /\ DOMAIN sum = S
  /\ \A s \in S : sum[s] = IF s = {} THEN 0 ELSE f[Picked(s)] + sum[s \ {Picked(s)}]

(* There is such a function for the subsets of a finite set, with integers *)
(* for values.                                                             *)
LEMMA SumsExist ==
  ASSUME NEW D, IsFiniteSet(D), NEW f \in [D -> Int]
  PROVE  \E sum \in [SUBSET D -> Int] : Adds(sum, f, SUBSET D)
<1> DEFINE Small(n) == {s \in SUBSET D : Cardinality(s) <= n}
           Good     == {n \in Nat : \E sum \in [Small(n) -> Int] : Adds(sum, f, Small(n))}
<1>1. \A s \in SUBSET D : IsFiniteSet(s) /\ Cardinality(s) \in Nat
  BY FS_Subset, FS_CardinalityType
<1>2. 0 \in Good
  <2>1. \A s \in Small(0) : s = {}
    BY <1>1, FS_EmptySet
  <2>2. [s \in Small(0) |-> 0] \in [Small(0) -> Int]
        /\ Adds([s \in Small(0) |-> 0], f, Small(0))
    BY <2>1 DEF Adds
  <2> QED
    BY <2>2
<1>3. ASSUME NEW n \in Nat, n \in Good PROVE n + 1 \in Good
  <2>1. PICK sum \in [Small(n) -> Int] : Adds(sum, f, Small(n))
    BY <1>3
  <2> DEFINE more == [s \in Small(n + 1) |->
                        IF s = {} THEN 0 ELSE f[Picked(s)] + sum[s \ {Picked(s)}]]
  <2>2. ASSUME NEW s \in Small(n + 1), s # {}
        PROVE  Picked(s) \in D /\ s \ {Picked(s)} \in Small(n)
    <3>1. Picked(s) \in s
      BY <2>2 DEF Picked
    <3>2. Cardinality(s \ {Picked(s)}) = Cardinality(s) - 1
      BY <1>1, <3>1, FS_RemoveElement
    <3> QED
      BY <1>1, <3>1, <3>2
  <2>3. more \in [Small(n + 1) -> Int]
    BY <2>2
  <2>4. \A s \in Small(n) : s \in Small(n + 1) /\ more[s] = sum[s]
    <3>1. \A s \in Small(n) : s \in Small(n + 1)
      BY <1>1
    <3> QED
      BY <2>1, <3>1 DEF Adds
  <2>5. Adds(more, f, Small(n + 1))
    <3> SUFFICES ASSUME NEW s \in Small(n + 1), s # {}
                 PROVE  sum[s \ {Picked(s)}] = more[s \ {Picked(s)}]
      BY DEF Adds
    <3> QED
      BY <2>2, <2>4
  <2> HIDE DEF more, Small
  <2> QED
    BY <2>3, <2>5
<1>4. Cardinality(D) \in Good
  <2> HIDE DEF Good
  <2> QED
    BY <1>1, <1>2, <1>3, Induction
<1>5. Small(Cardinality(D)) = SUBSET D
  BY <1>1, FS_Subset
<1> QED
  BY <1>4, <1>5

(* Induction over the subsets, in the order in which they are added up.    *)
LEMMA SubsetInduction ==
  ASSUME NEW D, IsFiniteSet(D), NEW G, {} \in G,
         \A s \in SUBSET D : s # {} /\ s \ {Picked(s)} \in G => s \in G
  PROVE  SUBSET D \subseteq G
<1> DEFINE Small(n) == {s \in SUBSET D : Cardinality(s) <= n}
           Good     == {n \in Nat : Small(n) \subseteq G}
<1>1. \A s \in SUBSET D : IsFiniteSet(s) /\ Cardinality(s) \in Nat
  BY FS_Subset, FS_CardinalityType
<1>2. 0 \in Good
  <2>1. \A s \in Small(0) : s = {}
    BY <1>1, FS_EmptySet
  <2> QED
    BY <2>1
<1>3. ASSUME NEW n \in Nat, n \in Good PROVE n + 1 \in Good
  <2> SUFFICES ASSUME NEW s \in SUBSET D, s # {}, Cardinality(s) <= n + 1
               PROVE  s \in G
    BY <1>2, <1>3
  <2>1. Picked(s) \in s
    BY DEF Picked
  <2>2. Cardinality(s \ {Picked(s)}) = Cardinality(s) - 1
    BY <1>1, <2>1, FS_RemoveElement
  <2>3. s \ {Picked(s)} \in Small(n)
    BY <1>1, <2>2
  <2> QED
    BY <1>3, <2>3
<1>4. Cardinality(D) \in Good
  <2> HIDE DEF Good
  <2> QED
    BY <1>1, <1>2, <1>3, Induction
<1>5. Small(Cardinality(D)) = SUBSET D
  BY <1>1, FS_Subset
<1> QED
  BY <1>4, <1>5

(* The sum is the value of such a function.                                *)
LEMMA SumIsValue ==
  ASSUME NEW D, IsFiniteSet(D), NEW f \in [D -> Int]
  PROVE  \E sum \in [SUBSET D -> Int] :
           Adds(sum, f, SUBSET D) /\ SumFunction(f) = sum[D]
<1> DEFINE Is(it) == it = [s \in SUBSET DOMAIN f |->
                             IF s = {} THEN 0 ELSE f[Picked(s)] + it[s \ {Picked(s)}]]
           it == CHOOSE it : Is(it)
           G  == {s \in SUBSET D : it[s] \in Int}
<1>1. SumFunction(f) = it[D]
  BY Zenon
  DEF SumFunction, SumFunctionOnSet, FoldFunctionOnSet, MapThenFoldSet, Picked
<1>2. PICK sum \in [SUBSET D -> Int] : Adds(sum, f, SUBSET D)
  BY SumsExist
<1>3. Is(sum)
  BY <1>2 DEF Adds
<1>4. Is(it)
  BY <1>3
<1>5. Adds(it, f, SUBSET D)
  BY <1>4 DEF Adds
<1> HIDE DEF it
<1>6. SUBSET D \subseteq G
  <2>1. {} \in G
    <3>1. {} \in SUBSET D
      OBVIOUS
    <3>2. it[{}] = 0
      BY <1>5, <3>1 DEF Adds
    <3> QED
      BY <3>1, <3>2
  <2>2. \A s \in SUBSET D : s # {} /\ s \ {Picked(s)} \in G => s \in G
    BY <1>5 DEF Adds, Picked
  <2> HIDE DEF G
  <2> QED
    BY <2>1, <2>2, SubsetInduction
<1>7. it \in [SUBSET D -> Int]
  BY <1>4, <1>6
<1> QED
  BY <1>1, <1>5, <1>7

(* The sum of integers is an integer; it is linear, and it grows with each *)
(* of them.                                                                *)
LEMMA SumType ==
  ASSUME NEW D, IsFiniteSet(D), NEW f \in [D -> Int]
  PROVE  SumFunction(f) \in Int
<1>1. PICK sum \in [SUBSET D -> Int] : SumFunction(f) = sum[D]
  BY SumIsValue
<1>2. D \in SUBSET D
  OBVIOUS
<1> QED
  BY <1>1, <1>2

LEMMA SumOfSums ==
  ASSUME NEW D, IsFiniteSet(D), NEW f \in [D -> Int], NEW g \in [D -> Int]
  PROVE  SumFunction([x \in D |-> f[x] + g[x]]) = SumFunction(f) + SumFunction(g)
<1> DEFINE h == [x \in D |-> f[x] + g[x]]
<1>1. h \in [D -> Int]
  OBVIOUS
<1>2. PICK F \in [SUBSET D -> Int] : Adds(F, f, SUBSET D) /\ SumFunction(f) = F[D]
  BY SumIsValue
<1>3. PICK G \in [SUBSET D -> Int] : Adds(G, g, SUBSET D) /\ SumFunction(g) = G[D]
  BY SumIsValue
<1> HIDE DEF h
<1>4. PICK H \in [SUBSET D -> Int] : Adds(H, h, SUBSET D) /\ SumFunction(h) = H[D]
  BY <1>1, SumIsValue
<1> DEFINE S == {s \in SUBSET D : H[s] = F[s] + G[s]}
<1>5. {} \in S
  <2>1. {} \in SUBSET D
    OBVIOUS
  <2>2. F[{}] = 0 /\ G[{}] = 0 /\ H[{}] = 0
    BY <1>2, <1>3, <1>4, <2>1 DEF Adds
  <2> QED
    BY <2>1, <2>2
<1>6. ASSUME NEW s \in SUBSET D, s # {}, s \ {Picked(s)} \in S PROVE s \in S
  <2>1. Picked(s) \in D /\ s \ {Picked(s)} \in SUBSET D
    BY <1>6 DEF Picked
  <2>2. h[Picked(s)] = f[Picked(s)] + g[Picked(s)]
    BY <2>1 DEF h
  <2>3. /\ F[s] = f[Picked(s)] + F[s \ {Picked(s)}]
        /\ G[s] = g[Picked(s)] + G[s \ {Picked(s)}]
        /\ H[s] = h[Picked(s)] + H[s \ {Picked(s)}]
    BY <1>2, <1>3, <1>4, <1>6 DEF Adds
  <2> QED
    BY <1>6, <2>1, <2>2, <2>3
<1>7. SUBSET D \subseteq S
  <2> HIDE DEF S
  <2> QED
    BY <1>5, <1>6, SubsetInduction
<1> QED
  BY <1>2, <1>3, <1>4, <1>7 DEF h

LEMMA SumOfOne ==
  ASSUME NEW D, IsFiniteSet(D), NEW i \in D, NEW v \in Int
  PROVE  SumFunction([x \in D |-> IF x = i THEN v ELSE 0]) = v
<1> DEFINE f == [x \in D |-> IF x = i THEN v ELSE 0]
<1>1. f \in [D -> Int]
  OBVIOUS
<1> HIDE DEF f
<1>2. PICK F \in [SUBSET D -> Int] : Adds(F, f, SUBSET D) /\ SumFunction(f) = F[D]
  BY <1>1, SumIsValue
<1> DEFINE S == {s \in SUBSET D : F[s] = IF i \in s THEN v ELSE 0}
<1>3. {} \in S
  BY <1>2 DEF Adds
<1>4. ASSUME NEW s \in SUBSET D, s # {}, s \ {Picked(s)} \in S PROVE s \in S
  <2>1. Picked(s) \in s /\ F[s] = f[Picked(s)] + F[s \ {Picked(s)}]
    BY <1>2, <1>4 DEF Adds, Picked
  <2>2. f[Picked(s)] = IF Picked(s) = i THEN v ELSE 0
    BY <2>1 DEF f
  <2>3. F[s \ {Picked(s)}] = IF i \in s \ {Picked(s)} THEN v ELSE 0
    BY <1>4
  <2> QED
    BY <2>1, <2>2, <2>3
<1>5. SUBSET D \subseteq S
  <2> HIDE DEF S
  <2> QED
    BY <1>3, <1>4, SubsetInduction
<1> QED
  BY <1>2, <1>5 DEF f

LEMMA SumLeq ==
  ASSUME NEW D, IsFiniteSet(D), NEW f \in [D -> Int], NEW g \in [D -> Int],
         \A x \in D : f[x] <= g[x]
  PROVE  SumFunction(f) <= SumFunction(g)
<1>2. PICK F \in [SUBSET D -> Int] : Adds(F, f, SUBSET D) /\ SumFunction(f) = F[D]
  BY SumIsValue
<1>3. PICK G \in [SUBSET D -> Int] : Adds(G, g, SUBSET D) /\ SumFunction(g) = G[D]
  BY SumIsValue
<1> DEFINE S == {s \in SUBSET D : F[s] <= G[s]}
<1>5. {} \in S
  <2>1. {} \in SUBSET D
    OBVIOUS
  <2>2. F[{}] = 0 /\ G[{}] = 0
    BY <1>2, <1>3, <2>1 DEF Adds
  <2> QED
    BY <2>1, <2>2
<1>6. ASSUME NEW s \in SUBSET D, s # {}, s \ {Picked(s)} \in S PROVE s \in S
  <2>1. Picked(s) \in D /\ s \ {Picked(s)} \in SUBSET D
    BY <1>6 DEF Picked
  <2>3. /\ F[s] = f[Picked(s)] + F[s \ {Picked(s)}]
        /\ G[s] = g[Picked(s)] + G[s \ {Picked(s)}]
    BY <1>2, <1>3, <1>6 DEF Adds
  <2> QED
    BY <1>6, <2>1, <2>3
<1>7. SUBSET D \subseteq S
  <2> HIDE DEF S
  <2> QED
    BY <1>5, <1>6, SubsetInduction
<1> QED
  BY <1>2, <1>3, <1>7

(* Where all but one of the numbers stay the same.                         *)
LEMMA SumUpdate ==
  ASSUME NEW D, IsFiniteSet(D), NEW f \in [D -> Int], NEW g \in [D -> Int],
         NEW i \in D, \A x \in D : x # i => g[x] = f[x]
  PROVE  SumFunction(g) = SumFunction(f) + (g[i] - f[i])
<1> DEFINE e == [x \in D |-> IF x = i THEN g[i] - f[i] ELSE 0]
<1>1. e \in [D -> Int] /\ g[i] - f[i] \in Int
  OBVIOUS
<1>2. g = [x \in D |-> f[x] + e[x]]
  OBVIOUS
<1>3. SumFunction(e) = g[i] - f[i]
  BY <1>1, SumOfOne
<1> HIDE DEF e
<1>4. SumFunction([x \in D |-> f[x] + e[x]]) = SumFunction(f) + SumFunction(e)
  BY <1>1, SumOfSums
<1> QED
  BY <1>2, <1>3, <1>4

LEMMA SumOfZeros ==
  ASSUME NEW D, IsFiniteSet(D), NEW f \in [D -> Int], \A x \in D : f[x] = 0
  PROVE  SumFunction(f) = 0
<1>1. f = [x \in D |-> f[x] + f[x]]
  OBVIOUS
<1>2. SumFunction([x \in D |-> f[x] + f[x]]) = SumFunction(f) + SumFunction(f)
  BY SumOfSums
<1> QED
  BY <1>1, <1>2, SumType

LEMMA Distributes ==
  \A x, y, z \in Int : (x + y) * z = x * z + y * z /\ x * (y - z) = x * y - x * z
OBVIOUS

(* A sum of naturals is no less than two of them.                          *)
LEMMA SumHasBoth ==
  ASSUME NEW D, IsFiniteSet(D), NEW f \in [D -> Nat], NEW i \in D, NEW j \in D
  PROVE  IF i = j THEN f[i] <= SumFunction(f) ELSE f[i] + f[j] <= SumFunction(f)
<1> DEFINE one   == [x \in D |-> IF x = i THEN f[i] ELSE 0]
           other == [x \in D |-> IF x = j THEN IF i = j THEN 0 ELSE f[j] ELSE 0]
           both  == [x \in D |-> one[x] + other[x]]
<1>1. one \in [D -> Int] /\ other \in [D -> Int] /\ both \in [D -> Int] /\ f \in [D -> Int]
  OBVIOUS
<1>2. \A x \in D : both[x] <= f[x]
  OBVIOUS
<1>3. SumFunction(one) = f[i] /\ SumFunction(other) = IF i = j THEN 0 ELSE f[j]
  <2>1. f[i] \in Int /\ (IF i = j THEN 0 ELSE f[j]) \in Int
    OBVIOUS
  <2>2. SumFunction(one) = f[i]
    BY <2>1, SumOfOne
  <2>3. SumFunction(other) = IF i = j THEN 0 ELSE f[j]
    BY <2>1, SumOfOne
  <2> QED
    BY <2>2, <2>3
<1> HIDE DEF one, other
<1>4. SumFunction(both) = SumFunction(one) + SumFunction(other)
  BY <1>1, SumOfSums
<1> HIDE DEF both
<1>5. SumFunction(both) <= SumFunction(f)
  BY <1>1, <1>2, SumLeq
<1>6. SumFunction(f) \in Int /\ f[i] \in Nat /\ f[j] \in Nat
  BY <1>1, SumType
<1> QED
  BY <1>3, <1>4, <1>5, <1>6

(* Finitely many naturals have a greatest one: their sum is a bound.       *)
LEMMA NatMax ==
  ASSUME NEW D, IsFiniteSet(D), D # {}, NEW f \in [D -> Nat]
  PROVE  \E i \in D : \A x \in D : f[x] <= f[i]
<1> DEFINE Bounds == {b \in Nat : \A x \in D : f[x] <= b}
<1>1. SumFunction(f) \in Bounds
  <2>1. \A x \in D : f[x] <= SumFunction(f)
    BY SumHasBoth
  <2>2. f \in [D -> Int]
    OBVIOUS
  <2>3. SumFunction(f) \in Int
    BY <2>2, SumType
  <2> QED
    BY <2>1, <2>3
<1>2. PICK b \in Bounds : \A x \in Bounds : b <= x
  BY <1>1, NatMin
<1>3. b - 1 \notin Bounds
  BY <1>2
<1> QED
  BY <1>2, <1>3
-----------------------------------------------------------------------------
(* Multiplication and \div.                                                *)
LEMMA ProductLeq ==
  ASSUME NEW x \in Int, NEW y \in Int, NEW p \in Nat \ {0}
  PROVE  x <= y <=> x * p <= y * p
OBVIOUS

LEMMA Quotient ==
  ASSUME NEW x \in Nat, NEW p \in Nat \ {0}, NEW m \in Int
  PROVE  x \div p \in Nat /\ (m <= x \div p <=> m * p <= x)
OBVIOUS

(* A sum over numbers, one more of them added.                             *)
LEMMA SumOfNext ==
  ASSUME NEW D, IsFiniteSet(D), D \subseteq Nat, NEW f \in [D -> Int], NEW n \in Nat
  PROVE  SumFunction([x \in D |-> IF x <= n + 1 THEN f[x] ELSE 0])
           = SumFunction([x \in D |-> IF x <= n THEN f[x] ELSE 0])
               + (IF n + 1 \in D THEN f[n + 1] ELSE 0)
<1> DEFINE old == [x \in D |-> IF x <= n THEN f[x] ELSE 0]
           new == [x \in D |-> IF x <= n + 1 THEN f[x] ELSE 0]
           j   == n + 1
<1>1. old \in [D -> Int] /\ new \in [D -> Int]
  OBVIOUS
<1>2. ASSUME NEW x \in D, x # j PROVE new[x] = old[x]
  <2>1. x \in Nat
    OBVIOUS
  <2>2. x <= n + 1 <=> x <= n
    BY <1>2, <2>1
  <2> QED
    BY <2>2
<1>3. j \in D => new[j] = f[j] /\ old[j] = 0 /\ f[j] \in Int
  OBVIOUS
<1> HIDE DEF old, new, j
<1>4. SumFunction(old) \in Int
  BY <1>1, SumType
<1>5. CASE j \in D
  <2>1. SumFunction(new) = SumFunction(old) + (new[j] - old[j])
    BY <1>1, <1>2, <1>5, SumUpdate
  <2>2. SumFunction(new) = SumFunction(old) + f[j]
    BY <1>3, <1>4, <1>5, <2>1
  <2> QED
    BY <1>5, <2>2 DEF old, new, j
<1>6. CASE j \notin D
  <2>1. new = old
    BY <1>2, <1>6 DEF old, new
  <2>2. SumFunction(new) = SumFunction(old) + 0
    BY <1>4, <2>1
  <2> QED
    BY <1>6, <2>2 DEF old, new, j
<1> QED
  BY <1>5, <1>6

(* A sum over at most five numbers, written out.                           *)
LEMMA SumOfFive ==
  ASSUME NEW D, D \subseteq 1..5, NEW f \in [D -> Int],
         NEW v \in [1..5 -> Int],
         \A i \in 1..5 : v[i] = IF i \in D THEN f[i] ELSE 0
  PROVE  SumFunction(f) = v[1] + v[2] + v[3] + v[4] + v[5]
<1>1. IsFiniteSet(D) /\ D \subseteq Nat
  <2>1. \A n \in Nat : IsFiniteSet(1..n)
    BY FS_Interval
  <2>2. 5 \in Nat
    OBVIOUS
  <2>3. IsFiniteSet(1..5)
    BY <2>1, <2>2, Zenon
  <2>4. IsFiniteSet(D)
    BY <2>3, FS_Subset, Zenon
  <2> QED
    BY <2>4
<1> DEFINE upTo(n) == SumFunction([x \in D |-> IF x <= n THEN f[x] ELSE 0])
<1>2. \A n \in Nat : upTo(n + 1) = upTo(n) + (IF n + 1 \in D THEN f[n + 1] ELSE 0)
  BY <1>1, SumOfNext
<1>3. upTo(0) = 0
  <2> DEFINE none == [x \in D |-> IF x <= 0 THEN f[x] ELSE 0]
  <2>1. none \in [D -> Int] /\ \A x \in D : none[x] = 0
    OBVIOUS
  <2> HIDE DEF none
  <2>2. SumFunction(none) = 0
    BY <1>1, <2>1, SumOfZeros
  <2> QED
    BY <2>2 DEF none
<1>4. upTo(5) = SumFunction(f)
  <2>1. [x \in D |-> IF x <= 5 THEN f[x] ELSE 0] = f
    OBVIOUS
  <2> QED
    BY <2>1
<1> HIDE DEF upTo
<1>5. /\ upTo(1) = upTo(0) + v[1] /\ upTo(2) = upTo(1) + v[2] /\ upTo(3) = upTo(2) + v[3]
      /\ upTo(4) = upTo(3) + v[4] /\ upTo(5) = upTo(4) + v[5]
  <2>1. ASSUME NEW n \in 0..4 PROVE upTo(n + 1) = upTo(n) + v[n + 1]
    <3>1. n \in Nat /\ n + 1 \in 1..5
      OBVIOUS
    <3> QED
      BY <1>2, <3>1
  <2>2. 0 + 1 = 1 /\ 1 + 1 = 2 /\ 2 + 1 = 3 /\ 3 + 1 = 4 /\ 4 + 1 = 5
    OBVIOUS
  <2>3. 0 \in 0..4 /\ 1 \in 0..4 /\ 2 \in 0..4 /\ 3 \in 0..4 /\ 4 \in 0..4
    OBVIOUS
  <2> QED
    BY <2>1, <2>2, <2>3
<1>6. v[1] \in Int /\ v[2] \in Int /\ v[3] \in Int /\ v[4] \in Int /\ v[5] \in Int
  OBVIOUS
<1> QED
  BY <1>3, <1>4, <1>5, <1>6
=============================================================================
