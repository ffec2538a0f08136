----------------------------- MODULE Recursion ------------------------------
(***************************************************************************)
(* Induction over the natural numbers, and definition by recursion over    *)
(* the subsets of a finite set, from the well-foundedness of < on Nat.     *)
(* The folds of the community modules choose a function that satisfies a   *)
(* recursive equation; FoldExists and Recursion say that there is one, so  *)
(* that what a fold computes can be proved by induction (Induct).  Sets    *)
(* take the place of predicates, and functions that of operators, so that  *)
(* the lemmas can be cited with any of them.  And the remainders of a      *)
(* division, in which the clocks of several components count.              *)
(***************************************************************************)
EXTENDS Integers, FiniteSets, FiniteSetsExt, FiniteSetTheorems, WellFoundedInduction, TLAPS

(* A set of natural numbers that has elements has a least one.             *)
LEMMA Least ==
  ASSUME NEW S \in SUBSET Nat, S # {}
  PROVE  \E n \in S : \A m \in S : n <= m
<1>1. PICK n \in S : \A m \in S : <<m, n>> \notin OpToRel(<, Nat)
  BY NatLessThanWellFounded, WFMin
<1>2. \A m \in S : ~(m < n)
  <2> SUFFICES ASSUME NEW m \in S, m < n PROVE FALSE
    OBVIOUS
  <2>1. <<m, n>> \in Nat \X Nat
    OBVIOUS
  <2>2. <<m, n>>[1] < <<m, n>>[2]
    OBVIOUS
  <2> QED
    BY <1>1, <2>1, <2>2 DEF OpToRel
<1> QED
  BY <1>2

(* Induction over the natural numbers.                                     *)
LEMMA Induct ==
  ASSUME NEW S, 0 \in S, \A n \in Nat : n \in S => n + 1 \in S
  PROVE  \A n \in Nat : n \in S
<1> DEFINE Bad == {n \in Nat : n \notin S}
<1> SUFFICES ASSUME Bad # {} PROVE FALSE
  OBVIOUS
<1>1. PICK n \in Bad : \A m \in Bad : n <= m
  <2> HIDE DEF Bad
  <2>1. Bad \in SUBSET Nat
    BY DEF Bad
  <2> QED
    BY <2>1, Least
<1>2. n # 0
  OBVIOUS
<1>3. n - 1 \in Nat /\ n - 1 \notin Bad
  BY <1>1, <1>2
<1> QED
  BY <1>3

(* w is defined by recursion over the subsets of S: its value for s is a   *)
(* step from its value for s without the element chosen first.             *)
IsFold(w, S, D, base, choose, step) ==
  /\ w \in [SUBSET S -> D]
  /\ \A s \in SUBSET S : w[s] = IF s = {} THEN base ELSE step[w[s \ {choose[s]}]][choose[s]]

(* Such a function exists, for every finite set S: by induction over the   *)
(* cardinality of the subsets on which it is defined.                      *)
LEMMA Recursion ==
  ASSUME NEW S, IsFiniteSet(S), NEW D, NEW base \in D, NEW choose, NEW step,
         \A s \in SUBSET S : s # {} => choose[s] \in s,
         \A d \in D, x \in S : step[d][x] \in D
  PROVE  \E w : IsFold(w, S, D, base, choose, step)
<1> DEFINE Small(n) == {s \in SUBSET S : Cardinality(s) <= n}
           Good(n, w) == /\ w \in [Small(n) -> D]
                         /\ \A s \in Small(n) :
                              w[s] = IF s = {} THEN base
                                     ELSE step[w[s \ {choose[s]}]][choose[s]]
           Reach == {n \in Nat : \E w : Good(n, w)}
<1>1. \A s \in SUBSET S : /\ IsFiniteSet(s) /\ Cardinality(s) \in Nat
                          /\ Cardinality(s) = 0 <=> s = {}
  BY FS_Subset, FS_CardinalityType, FS_EmptySet
<1>2. \A s \in SUBSET S : s # {} =>
        /\ s \ {choose[s]} \in SUBSET S
        /\ Cardinality(s \ {choose[s]}) = Cardinality(s) - 1
  BY <1>1, FS_RemoveElement
<1>a. \A s \in SUBSET S, n \in Nat :
        /\ Cardinality(s) <= n => Cardinality(s) <= n + 1
        /\ Cardinality(s) <= n + 1 => Cardinality(s) - 1 <= n
        /\ Cardinality(s) <= 0 => s = {}
  <2> HIDE DEF Small, Good, Reach
  <2> QED
    BY <1>1
<1>3. 0 \in Reach
  <2> DEFINE w == [s \in Small(0) |-> base]
  <2>1. ASSUME NEW s \in Small(0) PROVE s = {}
    BY <1>a, 0 \in Nat, Zenon
  <2>2. Good(0, w)
    BY <2>1
  <2> QED
    BY <2>2
<1>4. ASSUME NEW n \in Nat, n \in Reach PROVE n + 1 \in Reach
  <2>1. PICK w : Good(n, w)
    BY <1>4
  <2> DEFINE v == [s \in Small(n + 1) |->
                     IF s = {} THEN base ELSE step[w[s \ {choose[s]}]][choose[s]]]
  <2>2. ASSUME NEW s \in Small(n + 1), s # {}
        PROVE  s \ {choose[s]} \in Small(n) /\ choose[s] \in S
    <3>1. s \in SUBSET S /\ Cardinality(s) <= n + 1 /\ choose[s] \in s
      BY <2>2
    <3>2. /\ s \ {choose[s]} \in SUBSET S
          /\ Cardinality(s \ {choose[s]}) = Cardinality(s) - 1
          /\ Cardinality(s) \in Nat
      BY <1>1, <1>2, <2>2, <3>1, Zenon
    <3>3. Cardinality(s \ {choose[s]}) <= n
      BY <1>a, <3>1, <3>2, Zenon
    <3> QED
      BY <3>1, <3>2, <3>3, Zenon
  <2>3. ASSUME NEW s \in Small(n) PROVE s \in Small(n + 1) /\ v[s] = w[s]
    <3>1. s \in SUBSET S /\ Cardinality(s) \in Nat /\ Cardinality(s) <= n
      BY <1>1, Zenon
    <3>2. Cardinality(s) <= n + 1
      BY <1>a, <3>1, Zenon
    <3>3. s \in Small(n + 1)
      BY <3>1, <3>2, Zenon
    <3> QED
      BY <2>1, <3>3, Zenon
  <2> HIDE DEF Small
  <2>4. v \in [Small(n + 1) -> D]
    <3> SUFFICES ASSUME NEW s \in Small(n + 1)
                 PROVE (IF s = {} THEN base ELSE step[w[s \ {choose[s]}]][choose[s]]) \in D
      OBVIOUS
    <3>1. CASE s # {}
      <4>1. w[s \ {choose[s]}] \in D
        BY <2>1, <2>2, <3>1
      <4> QED
        BY <2>2, <3>1, <4>1
    <3> QED
      BY <3>1
  <2>5. ASSUME NEW s \in Small(n + 1)
        PROVE  v[s] = IF s = {} THEN base ELSE step[v[s \ {choose[s]}]][choose[s]]
    <3>1. s # {} => v[s \ {choose[s]}] = w[s \ {choose[s]}]
      BY <2>2, <2>3, Zenon
    <3> QED
      BY <3>1, Zenon
  <2>6. Good(n + 1, v)
    BY <2>4, <2>5, Zenon
  <2>7. n + 1 \in Nat
    OBVIOUS
  <2> QED
    BY <2>6, <2>7, Zenon
<1>5. Cardinality(S) \in Reach
  <2> HIDE DEF Reach
  <2>1. \A n \in Nat : n \in Reach
    BY <1>3, <1>4, Induct
  <2> QED
    BY <2>1, <1>1
<1>6. PICK w : Good(Cardinality(S), w)
  BY <1>5
<1>7. \A s \in SUBSET S : s \in Small(Cardinality(S))
  BY FS_Subset, FS_CardinalityType
<1>8. Small(Cardinality(S)) = SUBSET S
  BY <1>7
<1> QED
  BY <1>6, <1>8, Zenon DEF IsFold

(* The greatest element of a set of numbers.                               *)
LEMMA Greatest ==
  ASSUME NEW n \in Nat, NEW s \in SUBSET (1 .. n), s # {}
  PROVE  Max(s) \in s /\ \A x \in s : x <= Max(s)
<1> DEFINE T == {n - x : x \in s}
<1>1. T \in SUBSET Nat /\ T # {}
  <2>1. \A x \in s : n - x \in Nat
    OBVIOUS
  <2>2. T \in SUBSET Nat
    BY <2>1, Zenon
  <2> QED
    BY <2>2, Zenon
<1>2. PICK m \in T : \A k \in T : m <= k
  <2> HIDE DEF T
  <2> QED
    BY <1>1, Least
<1>3. PICK y \in s : m = n - y
  OBVIOUS
<1>4. \A x \in s : y >= x
  <2> SUFFICES ASSUME NEW x \in s PROVE y >= x
    OBVIOUS
  <2>1. m <= n - x
    BY <1>2
  <2> QED
    BY <1>3, <2>1
<1>5. \E z \in s : \A x \in s : z >= x
  BY <1>4
<1>6. Max(s) \in s /\ \A x \in s : Max(s) >= x
  BY <1>5, Zenon DEF Max
<1> QED
  BY <1>6

(* The greatest of the numbers 1 .. k + 1, and what is left without it.    *)
LEMMA PrefixMax ==
  ASSUME NEW k \in Nat
  PROVE  Max(1 .. k + 1) = k + 1 /\ (1 .. k + 1) \ {k + 1} = 1 .. k
<1> DEFINE s == 1 .. k + 1
<1>1. s \in SUBSET (1 .. k + 1) /\ s # {} /\ k + 1 \in Nat /\ k + 1 \in s
  OBVIOUS
<1>2. Max(s) \in s /\ \A x \in s : x <= Max(s)
  <2> HIDE DEF s
  <2> QED
    BY <1>1, Greatest
<1>3. k + 1 <= Max(s) /\ Max(s) <= k + 1 /\ Max(s) \in Int
  BY <1>1, <1>2
<1>4. Max(s) = k + 1
  BY <1>3
<1> QED
  BY <1>4

(* The function that a fold over the elements 1 .. n stands for.            *)
IsFoldLeft(w, n, D, base, step) ==
  /\ w \in [SUBSET (1 .. n) -> D]
  /\ \A s \in SUBSET (1 .. n) :
       w[s] = IF s = {} THEN base ELSE step[w[s \ {Max(s)}]][Max(s)]

(* It exists, for every length and every step.                             *)
LEMMA FoldExists ==
  ASSUME NEW n \in Nat, NEW D, NEW base \in D, NEW step,
         \A d \in D, x \in 1 .. n : step[d][x] \in D
  PROVE  \E w : IsFoldLeft(w, n, D, base, step)
<1> DEFINE S == 1 .. n
           choose == [s \in SUBSET S |-> Max(s)]
<1>1. \A s \in SUBSET S : s # {} => choose[s] \in s
  BY Greatest
<1>2. IsFiniteSet(S)
  BY FS_Interval
<1>3. \A d \in D, x \in S : step[d][x] \in D
  OBVIOUS
<1>4. PICK w : IsFold(w, S, D, base, choose, step)
  <2> HIDE DEF choose, S
  <2> QED
    BY <1>1, <1>2, <1>3, Recursion
<1>5. \A s \in SUBSET S : choose[s] = Max(s)
  BY Zenon
<1> HIDE DEF choose
<1> QED
  BY <1>4, <1>5, Zenon DEF IsFold, IsFoldLeft

-----------------------------------------------------------------------------
(* Division                                                                *)

(* The only multiple of m between -m and m is 0.                           *)
LEMMA SmallMultiple ==
  ASSUME NEW m \in Nat \ {0}, NEW d \in Int, -m < m * d, m * d < m
  PROVE  d = 0
<1>1. CASE d >= 1
  <2>1. m * d >= m
    BY <1>1, SMTT(30)
  <2> QED
    BY <2>1
<1>2. CASE d <= -1
  <2>1. m * d <= -m
    BY <1>2, SMTT(30)
  <2> QED
    BY <2>1
<1> QED
  BY <1>1, <1>2

(* Quotient and remainder are unique.                                      *)
LEMMA Division ==
  ASSUME NEW m \in Nat \ {0}, NEW q \in Int, NEW r \in 0 .. m - 1
  PROVE  (m * q + r) % m = r /\ (m * q + r) \div m = q
<1> DEFINE a == m * q + r
           p == a \div m
           s == a % m
           d == p - q
<1>1. a \in Int /\ p \in Int /\ s \in 0 .. m - 1 /\ a = m * p + s
  OBVIOUS
<1>2. d \in Int /\ p = q + d
  BY <1>1
<1> HIDE DEF p, s, d
<1>3. m * p = m * q + m * d
  BY <1>1, <1>2, SMTT(30)
<1>4. m * d = r - s
  <2>1. ASSUME NEW x \in Int, NEW y \in Int, NEW z \in Int, x + r = y + s, y = x + z
        PROVE  z = r - s
    BY <1>1, <2>1
  <2>2. m * q \in Int /\ m * p \in Int /\ m * d \in Int
    BY <1>1, <1>2
  <2> QED
    BY <1>1, <1>3, <2>1, <2>2
<1>5. d = 0
  BY <1>1, <1>2, <1>4, SmallMultiple
<1>6. m * d = 0
  BY <1>5
<1> QED
  BY <1>1, <1>2, <1>4, <1>5, <1>6 DEF p, s
=============================================================================
