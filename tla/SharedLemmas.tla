---------------------------- MODULE SharedLemmas ----------------------------
(***************************************************************************)
(* What the proofs about several components need: induction for the folds   *)
(* of the community modules, and how a position that is counted around a    *)
(* ring goes on.                                                            *)
(*                                                                          *)
(* The library's induction theorems are about an operator; these are about  *)
(* a set, the numbers or the subsets of which something is true, and follow *)
(* from the well-foundedness of < alone.                                    *)
(***************************************************************************)
EXTENDS Integers, FiniteSets, FiniteSetsExt, FiniteSetTheorems, WellFoundedInduction, TLAPS

(* A set of numbers that is not empty has a least one.                       *)
LEMMA Least ==
  ASSUME NEW T \in SUBSET Nat, T # {}
  PROVE  \E n \in T : \A m \in T : n <= m
<1> DEFINE R == OpToRel(<, Nat)
<1>1. PICK n \in T : \A m \in T : ~(<<m, n>> \in R)
  BY NatLessThanWellFounded, WFMin
<1>2. \A x, y \in Nat : x < y => <<x, y>> \in R
  BY DEF OpToRel
<1> HIDE DEF R
<1>3. ASSUME NEW m \in T PROVE n <= m
  <2>1. ~(<<m, n>> \in R) /\ m \in Nat /\ n \in Nat
    BY <1>1
  <2>2. ~(m < n)
    BY <1>2, <2>1, Zenon
  <2> QED
    BY <2>1, <2>2
<1> QED
  BY <1>3

(* Induction over the numbers: what holds of 0 and is handed on by + 1.      *)
LEMMA NumbersBySuccessor ==
  ASSUME NEW T, 0 \in T, \A n \in Nat : n \in T => n + 1 \in T
  PROVE  Nat \subseteq T
<1> SUFFICES ASSUME Nat \ T # {} PROVE FALSE
  OBVIOUS
<1>1. PICK n \in Nat \ T : \A m \in Nat \ T : n <= m
  BY Least
<1>2. n # 0 /\ n - 1 \in Nat
  BY <1>1
<1> QED
  BY <1>1, <1>2

(* Induction over the subsets of a finite set: what holds of a set if it     *)
(* holds of the set without any one of its elements.                         *)
LEMMA SubsetsByRemoval ==
  ASSUME NEW S, IsFiniteSet(S), NEW T,
         \A U \in SUBSET S : (\A x \in U : U \ {x} \in T) => U \in T
  PROVE  SUBSET S \subseteq T
<1> DEFINE G == {n \in Nat : \A U \in SUBSET S : Cardinality(U) = n => U \in T}
<1>0. \A U \in SUBSET S : IsFiniteSet(U) /\ Cardinality(U) \in Nat
  BY FS_CardinalityType, FS_Subset
<1>1. 0 \in G
  <2>1. \A U \in SUBSET S : Cardinality(U) = 0 => U = {}
    BY <1>0, FS_EmptySet
  <2> QED
    BY <2>1
<1>2. ASSUME NEW n \in Nat, n \in G PROVE n + 1 \in G
  <2> SUFFICES ASSUME NEW U \in SUBSET S, Cardinality(U) = n + 1 PROVE U \in T
    OBVIOUS
  <2>1. ASSUME NEW x \in U PROVE U \ {x} \in T
    <3>1. Cardinality(U \ {x}) = Cardinality(U) - 1
      BY <1>0, FS_RemoveElement
    <3>2. Cardinality(U \ {x}) = n
      BY <3>1
    <3> QED
      BY <3>2, <1>2
  <2> QED
    BY <2>1
<1>3. Nat \subseteq G
  BY <1>1, <1>2, NumbersBySuccessor
<1> QED
  BY <1>0, <1>3

(* The recursion by which the folds are defined, on the subsets of S: g      *)
(* begins with base for the empty set and takes the element c names last.    *)
Folds(g, S, V, base, c, h) ==
    /\ g \in [SUBSET S -> V]
    /\ \A U \in SUBSET S :
          g[U] = IF U = {} THEN base ELSE h[<<c[U], g[U \ {c[U]}]>>]

(* On a finite set it has a solution.                                        *)
LEMMA FoldExists ==
  ASSUME NEW S, IsFiniteSet(S), NEW V, NEW base \in V,
         NEW c, \A U \in SUBSET S : U # {} => c[U] \in U,
         NEW h, h \in [S \X V -> V]
  PROVE  \E g : Folds(g, S, V, base, c, h)
<1> DEFINE Small(n) == {U \in SUBSET S : Cardinality(U) <= n}
           Solves(g, n) == /\ g \in [SUBSET S -> V]
                           /\ \A U \in Small(n) :
                                 g[U] = IF U = {} THEN base ELSE h[<<c[U], g[U \ {c[U]}]>>]
           T == {n \in Nat : \E g : Solves(g, n)}
<1>0. \A U \in SUBSET S : IsFiniteSet(U) /\ Cardinality(U) \in Nat
  BY FS_CardinalityType, FS_Subset
<1>1. 0 \in T
  <2> DEFINE g == [U \in SUBSET S |-> base]
  <2>1. \A U \in Small(0) : U = {}
    BY <1>0, FS_EmptySet
  <2>2. Solves(g, 0)
    BY <2>1
  <2> HIDE DEF g, Solves
  <2> QED
    BY <2>2
<1>2. ASSUME NEW n \in Nat, n \in T PROVE n + 1 \in T
  <2>1. PICK g : Solves(g, n)
    BY <1>2
  <2> DEFINE k == [U \in SUBSET S |-> IF U = {} THEN base ELSE h[<<c[U], g[U \ {c[U]}]>>]]
  <2>2. ASSUME NEW U \in SUBSET S, U # {}
        PROVE  /\ c[U] \in S /\ U \ {c[U]} \in SUBSET S
               /\ Cardinality(U \ {c[U]}) = Cardinality(U) - 1
    <3>1. c[U] \in U
      BY <2>2
    <3> QED
      BY <1>0, <2>2, <3>1, FS_RemoveElement
  <2>3. k \in [SUBSET S -> V]
    BY <2>1, <2>2
  <2>4. ASSUME NEW U \in Small(n) PROVE k[U] = g[U]
    BY <2>1, <2>4
  <2>5. Solves(k, n + 1)
    <3> SUFFICES ASSUME NEW U \in Small(n + 1), U # {}
                 PROVE  k[U] = h[<<c[U], k[U \ {c[U]}]>>]
      BY <2>3
    <3>1. U \ {c[U]} \in Small(n)
      BY <2>2, <1>0
    <3>2. k[U \ {c[U]}] = g[U \ {c[U]}]
      BY <3>1, <2>4
    <3> QED
      BY <3>2
  <2> HIDE DEF k, Solves
  <2> QED
    BY <2>5
<1>3. Nat \subseteq T
  BY <1>1, <1>2, NumbersBySuccessor
<1>4. PICK g : Solves(g, Cardinality(S))
  BY <1>0, <1>3
<1>5. \A U \in SUBSET S : U \in Small(Cardinality(S))
  BY <1>0, FS_Subset
<1> QED
  BY <1>4, <1>5 DEF Folds

(* The greatest of finitely many numbers.                                    *)
LEMMA MaxIsGreatest ==
  ASSUME NEW S, IsFiniteSet(S), S # {}, S \subseteq Int
  PROVE  Max(S) \in S /\ \A y \in S : y <= Max(S)
<1> DEFINE Q == {U \in SUBSET S : U # {} => \E x \in U : \A y \in U : x >= y}
<1>1. ASSUME NEW U \in SUBSET S, \A x \in U : U \ {x} \in Q PROVE U \in Q
  <2> SUFFICES ASSUME U # {} PROVE \E x \in U : \A y \in U : x >= y
    OBVIOUS
  <2>1. PICK z \in U : TRUE
    OBVIOUS
  <2>2. CASE U \ {z} = {}
    <3>1. \A y \in U : z >= y
      BY <2>2
    <3> QED
      BY <3>1
  <2>3. CASE U \ {z} # {}
    <3>1. PICK x \in U \ {z} : \A y \in U \ {z} : x >= y
      BY <1>1, <2>3
    <3>2. x \in Int /\ z \in Int
      OBVIOUS
    <3>3. CASE x >= z
      BY <3>1, <3>3
    <3>4. CASE ~(x >= z)
      <4>1. \A y \in U : z >= y
        BY <3>1, <3>2, <3>4
      <4> QED
        BY <4>1
    <3> QED
      BY <3>3, <3>4
  <2> QED
    BY <2>2, <2>3
<1>2. SUBSET S \subseteq Q
  <2> HIDE DEF Q
  <2> QED
    BY <1>1, SubsetsByRemoval
<1>3. \E x \in S : \A y \in S : x >= y
  BY <1>2
<1> QED
  BY <1>3 DEF Max

-----------------------------------------------------------------------------
(* Division with remainder, and how it goes on by one.                       *)
LEMMA Euclid ==
  ASSUME NEW R \in Nat \ {0}, NEW n \in Nat
  PROVE  /\ n \div R \in Nat /\ n % R \in Nat /\ n % R < R
         /\ n = R * (n \div R) + (n % R)
OBVIOUS

LEMMA EuclidUnique ==
  ASSUME NEW R \in Nat \ {0}, NEW k \in Nat, NEW m \in Nat, m < R,
         NEW j \in Nat, NEW l \in Nat, l < R, R * k + m = R * j + l
  PROVE  k = j /\ m = l
<1>1. ASSUME NEW u \in Nat, NEW v \in Nat, u < v PROVE R * v >= R * u + R
  <2>1. PICK d \in Nat : v = u + 1 + d
    <3>1. v - u - 1 \in Nat /\ v = u + 1 + (v - u - 1)
      BY <1>1
    <3> QED
      BY <3>1
  <2>2. R * v = R * u + R + R * d
    BY <2>1
  <2>3. R * d \in Nat /\ R * u \in Nat
    OBVIOUS
  <2> QED
    BY <2>2, <2>3
<1>2. R * k \in Nat /\ R * j \in Nat
  OBVIOUS
<1>3. ~(k < j)
  <2> SUFFICES ASSUME k < j PROVE FALSE
    OBVIOUS
  <2>1. R * j >= R * k + R
    BY <1>1
  <2> QED
    BY <1>2, <2>1
<1>4. ~(j < k)
  <2> SUFFICES ASSUME j < k PROVE FALSE
    OBVIOUS
  <2>1. R * k >= R * j + R
    BY <1>1
  <2> QED
    BY <1>2, <2>1
<1> QED
  BY <1>2, <1>3, <1>4

LEMMA NextTurn ==
  ASSUME NEW R \in Nat \ {0}, NEW n \in Nat
  PROVE  \/ /\ (n % R) + 1 < R
            /\ (n + 1) \div R = n \div R /\ (n + 1) % R = (n % R) + 1
         \/ /\ (n % R) + 1 = R
            /\ (n + 1) \div R = (n \div R) + 1 /\ (n + 1) % R = 0
<1>1. PICK k \in Nat, m \in Nat : k = n \div R /\ m = n % R /\ m < R /\ n = R * k + m
  BY Euclid
<1>2. PICK j \in Nat, l \in Nat :
         j = (n + 1) \div R /\ l = (n + 1) % R /\ l < R /\ n + 1 = R * j + l
  <2>1. n + 1 \in Nat
    OBVIOUS
  <2> QED
    BY <2>1, Euclid
<1>3. R * k \in Nat /\ R * j \in Nat
  OBVIOUS
<1>4. CASE m + 1 < R
  <2>1. R * k + (m + 1) = R * j + l /\ m + 1 \in Nat
    BY <1>1, <1>2, <1>3
  <2>2. k = j /\ m + 1 = l
    BY <1>2, <1>4, <2>1, EuclidUnique
  <2> QED
    BY <1>1, <1>2, <1>4, <2>2
<1>5. CASE ~(m + 1 < R)
  <2>1. m + 1 = R
    BY <1>1, <1>5
  <2>2. R * (k + 1) = R * k + R
    OBVIOUS
  <2>3. R * (k + 1) + 0 = R * j + l /\ k + 1 \in Nat /\ 0 < R
    BY <1>1, <1>2, <1>3, <2>1, <2>2
  <2>4. k + 1 = j /\ 0 = l
    BY <1>2, <2>3, EuclidUnique
  <2> QED
    BY <1>1, <1>2, <2>1, <2>4
<1> QED
  BY <1>4, <1>5

(* What a candidate whose d positions of the ring begin at s was dealt when  *)
(* the ring stands at n.                                                     *)
Dealt(d, s, R, n) ==
    LET m == n % R
    IN  (n \div R) * d + (IF m <= s THEN 0 ELSE IF m <= s + d THEN m - s ELSE d)

LEMMA DealtOne ==
  ASSUME NEW R \in Nat, NEW d \in Nat \ {0}, NEW s \in Nat, s + d <= R, NEW n \in Nat
  PROVE  /\ Dealt(d, s, R, n) \in Nat
         /\ s <= n % R /\ n % R < s + d => Dealt(d, s, R, n + 1) = Dealt(d, s, R, n) + 1
         /\ ~(s <= n % R /\ n % R < s + d) => Dealt(d, s, R, n + 1) = Dealt(d, s, R, n)
<1>0. R \in Nat \ {0}
  OBVIOUS
<1>1. PICK k \in Nat, m \in Nat : k = n \div R /\ m = n % R /\ m < R
  BY <1>0, Euclid
<1>2. PICK x \in Nat : x = k * d
  OBVIOUS
<1>3. Dealt(d, s, R, n) = x + (IF m <= s THEN 0 ELSE IF m <= s + d THEN m - s ELSE d)
  BY <1>1, <1>2 DEF Dealt
<1>4. CASE m + 1 < R
  <2>0. ~((n % R) + 1 = R)
    BY <1>1, <1>4
  <2>1. (n + 1) \div R = k /\ (n + 1) % R = m + 1
    BY <1>0, <1>1, <2>0, NextTurn
  <2>2. Dealt(d, s, R, n + 1)
          = x + (IF m + 1 <= s THEN 0 ELSE IF m + 1 <= s + d THEN m + 1 - s ELSE d)
    BY <1>2, <2>1 DEF Dealt
  <2> QED
    BY <1>1, <1>3, <2>2
<1>5. CASE ~(m + 1 < R)
  <2>1. m + 1 = R /\ (n + 1) \div R = k + 1 /\ (n + 1) % R = 0
    BY <1>0, <1>1, <1>5, NextTurn
  <2>2. (k + 1) * d = x + d
    BY <1>2
  <2>3. Dealt(d, s, R, n + 1) = x + d
    BY <2>1, <2>2 DEF Dealt
  <2> QED
    BY <1>1, <1>3, <2>1, <2>3
<1> QED
  BY <1>4, <1>5

LEMMA DealtBounds ==
  ASSUME NEW R \in Nat, NEW d \in Nat \ {0}, NEW s \in Nat, s + d <= R, NEW n \in Nat
  PROVE  /\ (n \div R) * d <= Dealt(d, s, R, n)
         /\ Dealt(d, s, R, n) <= ((n + R - 1) \div R) * d
<1>0. R \in Nat \ {0}
  OBVIOUS
<1>1. PICK k \in Nat, m \in Nat : k = n \div R /\ m = n % R /\ m < R /\ n = R * k + m
  BY <1>0, Euclid
<1>2. PICK x \in Nat : x = k * d
  OBVIOUS
<1>3. Dealt(d, s, R, n) = x + (IF m <= s THEN 0 ELSE IF m <= s + d THEN m - s ELSE d)
  BY <1>1, <1>2 DEF Dealt
<1>4. PICK t \in Nat : t = n + R - 1
  BY <1>0
<1>5. PICK j \in Nat, l \in Nat : j = t \div R /\ l = t % R /\ l < R /\ t = R * j + l
  BY <1>0, Euclid
<1>6. R * k \in Nat /\ R * j \in Nat
  OBVIOUS
<1>7. CASE m = 0
  <2>1. R * k + (R - 1) = R * j + l /\ R - 1 \in Nat /\ R - 1 < R
    BY <1>0, <1>1, <1>4, <1>5, <1>6, <1>7
  <2>2. j = k
    BY <1>0, <1>5, <2>1, EuclidUnique
  <2> QED
    BY <1>1, <1>2, <1>3, <1>4, <1>5, <1>7, <2>2
<1>8. CASE m # 0
  <2>1. R * (k + 1) = R * k + R
    OBVIOUS
  <2>2. R * (k + 1) + (m - 1) = R * j + l /\ m - 1 \in Nat /\ m - 1 < R /\ k + 1 \in Nat
    BY <1>0, <1>1, <1>4, <1>5, <1>6, <1>8, <2>1
  <2>3. j = k + 1
    BY <1>0, <1>5, <2>2, EuclidUnique
  <2>4. j * d = x + d
    BY <1>2, <2>3
  <2> QED
    BY <1>1, <1>2, <1>3, <1>4, <1>5, <2>4
<1> QED
  BY <1>7, <1>8
=============================================================================
