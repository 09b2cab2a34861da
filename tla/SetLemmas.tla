------------------------------ MODULE SetLemmas ------------------------------
(***************************************************************************)
(* Lemmas about sets of numbers, their sums, least and greatest, for       *)
(* the proofs about RegistryInstalls and Ranking.  The induction is over a *)
(* set of numbers and rests on < being well-founded.                       *)
(***************************************************************************)
EXTENDS Integers, FiniteSetsExt, FiniteSetTheorems, WellFoundedInduction, TLAPS

(* A set of numbers with 0 and all their successors has all numbers.         *)
LEMMA NatSetInduction ==
  ASSUME NEW S, 0 \in S, \A n \in Nat : n \in S => n + 1 \in S
  PROVE  Nat \subseteq S
<1> DEFINE R == OpToRel(<, Nat)
           T == Nat \ S
<1>1. IsWellFoundedOn(R, Nat)
  BY NatLessThanWellFounded
<1>2. \A x, y \in Nat : x < y => <<x, y>> \in R
  BY DEF OpToRel
<1> HIDE DEF R
<1>3. SUFFICES ASSUME T # {} PROVE FALSE
  OBVIOUS
<1>4. PICK x \in T : \A y \in T : ~(<<y, x>> \in R)
  BY <1>1, <1>3, WFMin
<1>5. x \in Nat /\ x # 0
  OBVIOUS
<1>6. x - 1 \in Nat /\ x - 1 < x /\ x - 1 + 1 = x
  BY <1>5
<1>7. x - 1 \notin T
  BY <1>2, <1>4, <1>5, <1>6
<1> QED BY <1>6, <1>7

(* A set of numbers has a least.                                             *)
LEMMA LeastExists ==
  ASSUME NEW K, K \subseteq Nat, K # {}
  PROVE  \E x \in K : \A y \in K : x <= y
<1> DEFINE R == OpToRel(<, Nat)
<1>1. IsWellFoundedOn(R, Nat)
  BY NatLessThanWellFounded
<1>2. \A x, y \in Nat : x < y => <<x, y>> \in R
  BY DEF OpToRel
<1> HIDE DEF R
<1>3. PICK x \in K : \A y \in K : ~(<<y, x>> \in R)
  BY <1>1, WFMin
<1>4. \A y \in K : ~(y < x)
  BY <1>2, <1>3
<1>5. \A y \in K : x <= y
  BY <1>4
<1> QED BY <1>5

(* The members of a set are summed one after another, in some order.         *)
Member(T) == CHOOSE x \in T : TRUE

Sums(g, f, D) == \A T \in D : g[T] = IF T = {} THEN 0 ELSE f[Member(T)] + g[T \ {Member(T)}]

(* A finite set has a sum of each of its subsets.                            *)
LEMMA SumsExist ==
  ASSUME NEW K, IsFiniteSet(K), NEW f, \A x \in K : f[x] \in Nat
  PROVE  \E g \in [SUBSET K -> Nat] : Sums(g, f, SUBSET K)
<1> DEFINE Small(n) == {T \in SUBSET K : Cardinality(T) <= n}
           S == {n \in Nat : \E g \in [Small(n) -> Nat] : Sums(g, f, Small(n))}
<1>1. \A T \in SUBSET K : IsFiniteSet(T) /\ Cardinality(T) \in Nat /\ Cardinality(T) <= Cardinality(K)
  BY FS_Subset, FS_CardinalityType
<1>2. \A T \in SUBSET K : T # {} =>
        /\ Member(T) \in T /\ f[Member(T)] \in Nat
        /\ T \ {Member(T)} \in SUBSET K
        /\ Cardinality(T \ {Member(T)}) = Cardinality(T) - 1
  <2> SUFFICES ASSUME NEW T \in SUBSET K, T # {}
               PROVE  /\ Member(T) \in T /\ f[Member(T)] \in Nat
                      /\ T \ {Member(T)} \in SUBSET K
                      /\ Cardinality(T \ {Member(T)}) = Cardinality(T) - 1
    OBVIOUS
  <2>1. Member(T) \in T
    BY DEF Member
  <2>2. Cardinality(T \ {Member(T)}) = Cardinality(T) - 1
    BY <1>1, <2>1, FS_RemoveElement
  <2> QED BY <2>1, <2>2
<1>3. 0 \in S
  <2> DEFINE g == [T \in Small(0) |-> 0]
  <2>1. \A T \in Small(0) : T = {}
    <3> SUFFICES ASSUME NEW T \in Small(0) PROVE T = {}
      OBVIOUS
    <3>1. IsFiniteSet(T) /\ Cardinality(T) = 0
      BY <1>1
    <3> QED BY <3>1, FS_EmptySet
  <2>2. g \in [Small(0) -> Nat] /\ Sums(g, f, Small(0))
    BY <2>1 DEF Sums
  <2> QED BY <2>2
<1>4. ASSUME NEW n \in Nat, n \in S PROVE n + 1 \in S
  <2>1. PICK g \in [Small(n) -> Nat] : Sums(g, f, Small(n))
    BY <1>4
  <2> DEFINE h == [T \in Small(n + 1) |->
                     IF T \in Small(n) THEN g[T] ELSE f[Member(T)] + g[T \ {Member(T)}]]
  <2>2. \A T \in Small(n + 1) : T # {} => T \ {Member(T)} \in Small(n)
    <3> SUFFICES ASSUME NEW T \in Small(n + 1), T # {} PROVE T \ {Member(T)} \in Small(n)
      OBVIOUS
    <3>1. T \ {Member(T)} \in SUBSET K /\ Cardinality(T \ {Member(T)}) = Cardinality(T) - 1
      BY <1>2
    <3>2. Cardinality(T) \in Nat /\ Cardinality(T) <= n + 1
      BY <1>1
    <3>3. Cardinality(T) - 1 <= n
      BY <3>2
    <3> QED BY <3>1, <3>3
  <2>3. Small(n) \subseteq Small(n + 1)
    <3> SUFFICES ASSUME NEW T \in Small(n) PROVE Cardinality(T) <= n + 1
      OBVIOUS
    <3> QED BY <1>1
  <2>4. \A T \in Small(n + 1) : T = {} => T \in Small(n)
    BY FS_EmptySet
  <2> HIDE DEF Small
  <2>5. h \in [Small(n + 1) -> Nat]
    <3> SUFFICES ASSUME NEW T \in Small(n + 1) PROVE h[T] \in Nat
      OBVIOUS
    <3>1. CASE T \in Small(n)
      BY <3>1, <2>1
    <3>2. CASE T \notin Small(n)
      <4>1. T # {} /\ T \in SUBSET K
        BY <2>4, <3>2 DEF Small
      <4>2. f[Member(T)] \in Nat /\ g[T \ {Member(T)}] \in Nat
        BY <1>2, <2>1, <2>2, <4>1
      <4>3. h[T] = f[Member(T)] + g[T \ {Member(T)}]
        BY <3>2
      <4> HIDE DEF h
      <4> QED BY <4>2, <4>3
    <3> QED BY <3>1, <3>2
  <2>6. Sums(h, f, Small(n + 1))
    <3> SUFFICES ASSUME NEW T \in Small(n + 1)
                 PROVE  h[T] = IF T = {} THEN 0 ELSE f[Member(T)] + h[T \ {Member(T)}]
      BY DEF Sums
    <3>1. T # {} => T \ {Member(T)} \in Small(n + 1) /\ h[T \ {Member(T)}] = g[T \ {Member(T)}]
      BY <2>2, <2>3
    <3>2. CASE T \in Small(n)
      <4>1. g[T] = IF T = {} THEN 0 ELSE f[Member(T)] + g[T \ {Member(T)}]
        BY <2>1, <3>2 DEF Sums
      <4> QED BY <3>1, <3>2, <4>1
    <3>3. CASE T \notin Small(n)
      BY <2>4, <3>1, <3>3
    <3> QED BY <3>2, <3>3
  <2> HIDE DEF h
  <2>7. \E k \in [Small(n + 1) -> Nat] : Sums(k, f, Small(n + 1))
    BY <2>5, <2>6
  <2> QED BY <2>7
<1>5. Cardinality(K) \in S
  <2>1. Nat \subseteq S
    <3> HIDE DEF S
    <3> QED BY <1>3, <1>4, NatSetInduction
  <2> QED BY <2>1, FS_CardinalityType
<1>6. Small(Cardinality(K)) = SUBSET K
  BY <1>1
<1> QED BY <1>5, <1>6

(* n is the sum of f over K. *)
IsSum(n, f, K) == \E g : Sums(g, f, SUBSET K) /\ n = g[K]

(* Sums of what is the same are the same, however their members are chosen.  *)
LEMMA SumsAgree ==
  ASSUME NEW K, IsFiniteSet(K), NEW f, NEW h, \A x \in K : f[x] = h[x] /\ f[x] \in Nat,
         NEW m, IsSum(m, f, K), NEW n, IsSum(n, h, K)
  PROVE  m = n
<1>1. PICK a : Sums(a, f, SUBSET K) /\ m = a[K]
  BY DEF IsSum
<1>2. PICK b : Sums(b, h, SUBSET K) /\ n = b[K]
  BY DEF IsSum
<1> DEFINE S == {k \in Nat : \A T \in SUBSET K : Cardinality(T) = k => a[T] = b[T]}
<1>3. \A T \in SUBSET K : IsFiniteSet(T) /\ Cardinality(T) \in Nat
  BY FS_Subset, FS_CardinalityType
<1>4. \A T \in SUBSET K :
        /\ a[T] = IF T = {} THEN 0 ELSE f[Member(T)] + a[T \ {Member(T)}]
        /\ b[T] = IF T = {} THEN 0 ELSE h[Member(T)] + b[T \ {Member(T)}]
  BY <1>1, <1>2 DEF Sums
<1>5. 0 \in S
  <2> SUFFICES ASSUME NEW T \in SUBSET K, Cardinality(T) = 0 PROVE a[T] = b[T]
    OBVIOUS
  <2>1. T = {}
    BY <1>3, FS_EmptySet
  <2> QED BY <1>4, <2>1
<1>6. ASSUME NEW k \in Nat, k \in S PROVE k + 1 \in S
  <2> SUFFICES ASSUME NEW T \in SUBSET K, Cardinality(T) = k + 1 PROVE a[T] = b[T]
    OBVIOUS
  <2>1. T # {}
    BY FS_EmptySet
  <2>2. Member(T) \in T
    BY <2>1 DEF Member
  <2>3. Cardinality(T \ {Member(T)}) = k
    <3>1. IsFiniteSet(T)
      BY <1>3
    <3>2. Cardinality(T \ {Member(T)}) = Cardinality(T) - 1
      BY <2>2, <3>1, FS_RemoveElement
    <3> QED BY <3>2
  <2>4. a[T \ {Member(T)}] = b[T \ {Member(T)}]
    BY <1>6, <2>3
  <2>5. f[Member(T)] = h[Member(T)]
    BY <2>2
  <2> QED BY <1>4, <2>1, <2>4, <2>5
<1>7. Cardinality(K) \in S
  <2>1. Nat \subseteq S
    <3> HIDE DEF S
    <3> QED BY <1>5, <1>6, NatSetInduction
  <2> QED BY <2>1, FS_CardinalityType
<1> QED BY <1>1, <1>2, <1>7

(* The sum of numbers over a finite set is a number.                         *)
LEMMA SumType ==
  ASSUME NEW K, IsFiniteSet(K), NEW f, \A x \in K : f[x] \in Nat, NEW n, IsSum(n, f, K)
  PROVE  n \in Nat
<1>1. PICK g \in [SUBSET K -> Nat] : Sums(g, f, SUBSET K)
  BY SumsExist
<1>2. IsSum(g[K], f, K)
  BY <1>1 DEF IsSum
<1>3. n = g[K]
  BY <1>2, SumsAgree
<1> QED BY <1>1, <1>3

LEMMA SumOfNone == ASSUME NEW f, NEW n, IsSum(n, f, {}) PROVE n = 0
  BY DEF IsSum, Sums

(* Any member may be the one that is added last.                             *)
LEMMA SumWithout ==
  ASSUME NEW K, IsFiniteSet(K), NEW f, \A x \in K : f[x] \in Nat, NEW y \in K,
         NEW m, IsSum(m, f, K \ {y}), NEW n, IsSum(n, f, K)
  PROVE  n = f[y] + m
<1>1. PICK g \in [SUBSET K -> Nat] : Sums(g, f, SUBSET K)
  BY SumsExist
<1> DEFINE Unfolds(T) == \A x \in T : g[T] = f[x] + g[T \ {x}]
           S == {k \in Nat : \A T \in SUBSET K : Cardinality(T) = k => Unfolds(T)}
<1>2. \A T \in SUBSET K : IsFiniteSet(T) /\ Cardinality(T) \in Nat
  BY FS_Subset, FS_CardinalityType
<1>3. \A T \in SUBSET K : T # {} => Member(T) \in T /\ g[T] = f[Member(T)] + g[T \ {Member(T)}]
  BY <1>1 DEF Sums, Member
<1>4. 0 \in S
  <2> SUFFICES ASSUME NEW T \in SUBSET K, Cardinality(T) = 0 PROVE Unfolds(T)
    OBVIOUS
  <2>1. T = {}
    BY <1>2, FS_EmptySet
  <2> QED BY <2>1
<1>5. ASSUME NEW k \in Nat, k \in S PROVE k + 1 \in S
  <2> SUFFICES ASSUME NEW T \in SUBSET K, Cardinality(T) = k + 1, NEW x \in T
               PROVE  g[T] = f[x] + g[T \ {x}]
    OBVIOUS
  <2> DEFINE z == Member(T)
  <2>1. z \in T /\ g[T] = f[z] + g[T \ {z}]
    BY <1>3
  <2>2. CASE x = z
    BY <2>1, <2>2
  <2>3. CASE x # z
    <3> HIDE DEF z
    <3>1. \A u \in T : Cardinality(T \ {u}) = k
      <4> SUFFICES ASSUME NEW u \in T PROVE Cardinality(T \ {u}) = k
        OBVIOUS
      <4>1. IsFiniteSet(T)
        BY <1>2
      <4>2. Cardinality(T \ {u}) = Cardinality(T) - 1
        BY <4>1, FS_RemoveElement
      <4> QED BY <4>2
    <3>2. Unfolds(T \ {z}) /\ Unfolds(T \ {x})
      BY <1>5, <2>1, <3>1
    <3> DEFINE R == (T \ {z}) \ {x}
    <3>3. R = (T \ {x}) \ {z}
      OBVIOUS
    <3>4. g[T \ {z}] = f[x] + g[R] /\ g[T \ {x}] = f[z] + g[R]
      BY <2>1, <2>3, <3>2, <3>3
    <3>5. R \in SUBSET K
      OBVIOUS
    <3> HIDE DEF R
    <3>6. f[x] \in Nat /\ f[z] \in Nat /\ g[R] \in Nat
      BY <1>1, <2>1, <3>5
    <3> QED BY <2>1, <3>4, <3>6
  <2> QED BY <2>2, <2>3
<1>6. Cardinality(K) \in S
  <2>1. Nat \subseteq S
    <3> HIDE DEF S
    <3> QED BY <1>4, <1>5, NatSetInduction
  <2> QED BY <2>1, FS_CardinalityType
<1>7. g[K] = f[y] + g[K \ {y}]
  BY <1>6
<1>8. n = g[K]
  <2>1. IsSum(g[K], f, K)
    BY <1>1 DEF IsSum
  <2> QED BY <2>1, SumsAgree
<1>9. m = g[K \ {y}]
  <2>1. IsSum(g[K \ {y}], f, K \ {y})
    BY <1>1 DEF IsSum, Sums
  <2>2. IsFiniteSet(K \ {y})
    BY FS_Subset
  <2> QED BY <2>1, <2>2, SumsAgree
<1> QED BY <1>7, <1>8, <1>9

(* Every function of numbers has a sum.                                      *)
LEMMA SumExists ==
  ASSUME NEW K, IsFiniteSet(K), NEW f, \A x \in K : f[x] \in Nat
  PROVE  \E n \in Nat : IsSum(n, f, K)
<1>1. PICK g \in [SUBSET K -> Nat] : Sums(g, f, SUBSET K)
  BY SumsExist
<1>2. IsSum(g[K], f, K)
  BY <1>1 DEF IsSum
<1> QED BY <1>1, <1>2

(* What changes for one member changes the sum by as much.                   *)
LEMMA SumMoves ==
  ASSUME NEW K, IsFiniteSet(K), NEW f, NEW h, \A x \in K : f[x] \in Nat, \A x \in K : h[x] \in Nat,
         NEW y \in K, \A x \in K \ {y} : h[x] = f[x],
         NEW n, IsSum(n, f, K), NEW m, IsSum(m, h, K)
  PROVE  \E k \in Nat : IsSum(k, f, K \ {y}) /\ n = f[y] + k /\ m = h[y] + k
<1> DEFINE R == K \ {y}
<1>1. IsFiniteSet(R)
  BY FS_Subset
<1>2. \A x \in R : f[x] = h[x] /\ f[x] \in Nat
  OBVIOUS
<1>3. \A x \in R : f[x] \in Nat
  OBVIOUS
<1>4. \A x \in R : h[x] \in Nat
  OBVIOUS
<1> HIDE DEF R
<1>5. PICK k \in Nat : IsSum(k, f, R)
  BY <1>1, <1>3, SumExists
<1>6. PICK l \in Nat : IsSum(l, h, R)
  BY <1>1, <1>4, SumExists
<1>7. k = l
  BY <1>1, <1>2, <1>5, <1>6, SumsAgree
<1>8. n = f[y] + k
  BY <1>5, SumWithout DEF R
<1>9. m = h[y] + k
  BY <1>6, <1>7, SumWithout DEF R
<1> QED BY <1>5, <1>8, <1>9 DEF R

(* What one summand spends comes off the sum.                                *)
LEMMA SumShrinks ==
  ASSUME NEW K, IsFiniteSet(K), NEW f, NEW h, \A x \in K : f[x] \in Nat, \A x \in K : h[x] \in Nat,
         NEW y \in K, \A x \in K \ {y} : h[x] = f[x],
         NEW n, IsSum(n, f, K), NEW m, IsSum(m, h, K),
         NEW c \in Nat, NEW d \in Nat, d + h[y] <= c + f[y]
  PROVE  d + m <= c + n
<1> DEFINE R == K \ {y}
<1>1. IsFiniteSet(R)
  BY FS_Subset
<1>2. \A x \in R : f[x] = h[x] /\ f[x] \in Nat
  OBVIOUS
<1>3. \A x \in R : f[x] \in Nat
  OBVIOUS
<1>4. \A x \in R : h[x] \in Nat
  OBVIOUS
<1> HIDE DEF R
<1>5. PICK k \in Nat : IsSum(k, f, R)
  BY <1>1, <1>3, SumExists
<1>6. PICK l \in Nat : IsSum(l, h, R)
  BY <1>1, <1>4, SumExists
<1>7. k = l
  BY <1>1, <1>2, <1>5, <1>6, SumsAgree
<1>8. n = f[y] + k
  BY <1>5, SumWithout DEF R
<1>9. m = h[y] + k
  BY <1>6, <1>7, SumWithout DEF R
<1>10. f[y] \in Nat /\ h[y] \in Nat
  OBVIOUS
<1>11. QED
  BY <1>5, <1>8, <1>9, <1>10

(* What is at most b for each member is at most b times as many as they are. *)
LEMMA SumAtMost ==
  ASSUME NEW K, IsFiniteSet(K), NEW b \in Nat, NEW f, \A x \in K : f[x] \in Nat /\ f[x] <= b,
         NEW n, IsSum(n, f, K)
  PROVE  n <= Cardinality(K) * b
<1>1. PICK g \in [SUBSET K -> Nat] : Sums(g, f, SUBSET K)
  BY SumsExist
<1> DEFINE S == {k \in Nat : \A T \in SUBSET K : Cardinality(T) = k => g[T] <= k * b}
<1>2. \A T \in SUBSET K : IsFiniteSet(T) /\ Cardinality(T) \in Nat
  BY FS_Subset, FS_CardinalityType
<1>3. \A T \in SUBSET K :
        /\ T # {} => Member(T) \in T /\ g[T] = f[Member(T)] + g[T \ {Member(T)}]
        /\ T = {} => g[T] = 0
  BY <1>1 DEF Sums, Member
<1>4. 0 \in S
  <2> SUFFICES ASSUME NEW T \in SUBSET K, Cardinality(T) = 0 PROVE g[T] <= 0 * b
    OBVIOUS
  <2>1. T = {}
    BY <1>2, FS_EmptySet
  <2>2. g[T] = 0
    BY <1>3, <2>1
  <2> DEFINE z == 0 * b
  <2>3. z = 0
    OBVIOUS
  <2> HIDE DEF z
  <2>4. g[T] <= z
    BY <2>2, <2>3
  <2> QED BY <2>4 DEF z
<1>5. ASSUME NEW k \in Nat, k \in S PROVE k + 1 \in S
  <2> SUFFICES ASSUME NEW T \in SUBSET K, Cardinality(T) = k + 1 PROVE g[T] <= (k + 1) * b
    OBVIOUS
  <2>1. T # {}
    BY FS_EmptySet
  <2>2. Member(T) \in T /\ g[T] = f[Member(T)] + g[T \ {Member(T)}]
    BY <1>3, <2>1
  <2>3. Cardinality(T \ {Member(T)}) = k
    <3>1. IsFiniteSet(T)
      BY <1>2
    <3>2. Cardinality(T \ {Member(T)}) = Cardinality(T) - 1
      BY <2>2, <3>1, FS_RemoveElement
    <3> QED BY <3>2
  <2>4. g[T \ {Member(T)}] <= k * b /\ g[T \ {Member(T)}] \in Nat
    BY <1>1, <1>5, <2>3
  <2>5. f[Member(T)] \in Nat /\ f[Member(T)] <= b
    BY <2>2
  <2>6. (k + 1) * b = k * b + b /\ k * b \in Nat
    OBVIOUS
  <2> DEFINE p == k * b
             q == (k + 1) * b
  <2>7. q = p + b /\ p \in Nat /\ g[T \ {Member(T)}] <= p
    BY <2>4, <2>6
  <2> HIDE DEF p, q
  <2>8. g[T] <= q
    BY <2>2, <2>4, <2>5, <2>7
  <2> QED BY <2>8 DEF q
<1>6. Cardinality(K) \in S
  <2>1. Nat \subseteq S
    <3> HIDE DEF S
    <3> QED BY <1>4, <1>5, NatSetInduction
  <2> QED BY <2>1, FS_CardinalityType
<1>7. n = g[K]
  <2>1. IsSum(g[K], f, K)
    BY <1>1 DEF IsSum
  <2> QED BY <2>1, SumsAgree
<1> QED BY <1>6, <1>7

(* What FiniteSetsExt and Functions compute is the sum.                      *)
LEMMA FunctionSum ==
  ASSUME NEW K, IsFiniteSet(K), NEW f, \A x \in K : f[x] \in Nat
  PROVE  IsSum(SumFunctionOnSet(f, K), f, K)
<1> DEFINE Body(g) ==
             [T \in SUBSET K |->
                IF T = {} THEN 0 ELSE f[CHOOSE x \in T : TRUE] + g[T \ {CHOOSE x \in T : TRUE}]]
           sum == CHOOSE g : g = Body(g)
<1>1. SumFunctionOnSet(f, K) = sum[K]
  BY DEF SumFunctionOnSet, FoldFunctionOnSet, MapThenFoldSet
<1>2. sum = Body(sum)
  <2>1. PICK g \in [SUBSET K -> Nat] : Sums(g, f, SUBSET K)
    BY SumsExist
  <2>2. g = Body(g)
    BY <2>1 DEF Sums, Member
  <2> HIDE DEF Body
  <2> QED BY <2>2
<1>3. Sums(sum, f, SUBSET K)
  <2> HIDE DEF sum
  <2> QED BY <1>2 DEF Sums, Member
<1> HIDE DEF sum
<1> QED BY <1>1, <1>3 DEF IsSum

(* A finite set of numbers has a greatest.                                   *)
LEMMA GreatestExists ==
  ASSUME NEW K, IsFiniteSet(K), K \subseteq Int, K # {}
  PROVE  \E x \in K : \A y \in K : x >= y
<1> DEFINE HasGreatest(T) == T = {} \/ \E x \in T : \A y \in T : x >= y
           S == {n \in Nat : \A T \in SUBSET K : Cardinality(T) = n => HasGreatest(T)}
<1>1. \A T \in SUBSET K : IsFiniteSet(T) /\ Cardinality(T) \in Nat
  BY FS_Subset, FS_CardinalityType
<1>2. 0 \in S
  BY <1>1, FS_EmptySet
<1>3. ASSUME NEW n \in Nat, n \in S PROVE n + 1 \in S
  <2> SUFFICES ASSUME NEW T \in SUBSET K, Cardinality(T) = n + 1 PROVE HasGreatest(T)
    OBVIOUS
  <2>1. T # {}
    BY FS_EmptySet
  <2>2. PICK x \in T : TRUE
    BY <2>1
  <2>3. Cardinality(T \ {x}) = n
    <3>1. IsFiniteSet(T)
      BY <1>1
    <3>2. Cardinality(T \ {x}) = Cardinality(T) - 1
      BY <3>1, FS_RemoveElement
    <3> QED BY <3>2
  <2>4. HasGreatest(T \ {x})
    BY <1>3, <2>3
  <2>5. CASE T \ {x} = {}
    <3>1. \A y \in T : x >= y
      BY <2>5
    <3> QED BY <3>1
  <2>6. CASE T \ {x} # {}
    <3>1. PICK z \in T \ {x} : \A y \in T \ {x} : z >= y
      BY <2>4, <2>6
    <3>2. CASE x >= z
      <4>1. \A y \in T : x >= y
        BY <3>1, <3>2
      <4> QED BY <4>1
    <3>3. CASE ~(x >= z)
      <4>1. \A y \in T : z >= y
        BY <3>1, <3>3
      <4> QED BY <4>1
    <3> QED BY <3>2, <3>3
  <2> QED BY <2>5, <2>6
<1>4. Cardinality(K) \in S
  <2>1. Nat \subseteq S
    <3> HIDE DEF S
    <3> QED BY <1>2, <1>3, NatSetInduction
  <2> QED BY <2>1, FS_CardinalityType
<1> QED BY <1>4
=============================================================================
