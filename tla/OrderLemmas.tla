----------------------------- MODULE OrderLemmas -----------------------------
(***************************************************************************)
(* Facts about sets of natural numbers that the proofs of several          *)
(* components use: the least-number principle for a set, from which an      *)
(* induction can be had without an operator as a parameter, what Min and    *)
(* Max of FiniteSetsExt return, and that MapThenSumSet is a sum.            *)
(***************************************************************************)
EXTENDS Naturals, FiniteSets, FiniteSetsExt, FiniteSetTheorems, WellFoundedInduction, TLAPS

(* A set of natural numbers that is not empty has a least member. *)
LEMMA LeastMember ==
    ASSUME NEW S, S \subseteq Nat, S # {}
    PROVE  \E n \in S : \A m \in S : n <= m
<1>1. PICK n \in S : \A m \in S : ~(<<m, n>> \in OpToRel(<, Nat))
  BY NatLessThanWellFounded, WFMin
<1>2. \A m \in S : ~(m < n)
  <2> TAKE m \in S
  <2>1. <<m, n>> \in Nat \X Nat
    OBVIOUS
  <2>2. QED
    BY <2>1, <1>1 DEF OpToRel
<1>3. QED
  BY <1>2

(* One that is bounded has a greatest member. *)
LEMMA GreatestMember ==
    ASSUME NEW S, NEW b \in Nat, S \subseteq 0..b, S # {}
    PROVE  \E n \in S : \A m \in S : m <= n
<1> DEFINE Bounds == {k \in Nat : \A m \in S : m <= k}
<1>1. b \in Bounds
  OBVIOUS
<1>2. PICK k \in Bounds : \A j \in Bounds : k <= j
  BY <1>1, LeastMember, Bounds \subseteq Nat, Bounds # {}
<1>3. k \in S
  <2> SUFFICES ASSUME k \notin S PROVE FALSE
    OBVIOUS
  <2>1. \A m \in S : m \in Nat /\ m < k
    BY <1>2
  <2>2. k # 0
    <3>1. PICK m \in S : TRUE
      OBVIOUS
    <3>2. QED
      BY <3>1, <2>1
  <2>3. k - 1 \in Bounds
    BY <2>1, <2>2, <1>2
  <2>4. QED
    BY <1>2, <2>3
<1>4. QED
  BY <1>2, <1>3

LEMMA MinIsLeast ==
    ASSUME NEW S, S \subseteq Nat, S # {}
    PROVE  Min(S) \in S /\ \A m \in S : Min(S) <= m
BY LeastMember DEF Min

LEMMA MaxIsGreatest ==
    ASSUME NEW S, NEW b \in Nat, S \subseteq 0..b, S # {}
    PROVE  Max(S) \in S /\ \A m \in S : m <= Max(S)
BY GreatestMember DEF Max

-----------------------------------------------------------------------------
(* Sums over a finite set: what MapThenSumSet of FiniteSetsExt computes *)

(* T gives each subset of L the sum of f over it. *)
Additive(f, L, T) ==
    /\ T \in [SUBSET L -> Nat]
    /\ T[{}] = 0
    /\ \A s \in SUBSET L : \A x \in L \ s : T[s \cup {x}] = T[s] + f[x]

LEMMA AdditiveExists ==
    ASSUME NEW L, IsFiniteSet(L), NEW f \in [L -> Nat]
    PROVE  \E T : Additive(f, L, T)
<1> DEFINE Without(K) == ~\E T : Additive(f, K, T)
           Bad == {n \in Nat : \E K \in SUBSET L : Cardinality(K) = n /\ Without(K)}
<1>1. SUFFICES ASSUME Without(L) PROVE FALSE
  OBVIOUS
<1>2. Cardinality(L) \in Bad
  <2>1. Cardinality(L) \in Nat /\ L \in SUBSET L
    BY FS_CardinalityType
  <2> QED
    BY <1>1, <2>1
<1>3. PICK n \in Bad : \A m \in Bad : n <= m
  BY <1>2, LeastMember, Bad \subseteq Nat, Bad # {}
<1>4. PICK K \in SUBSET L : Cardinality(K) = n /\ Without(K)
  BY <1>3
<1>5. K # {}
  <2>1. SUFFICES ASSUME K = {} PROVE FALSE
    OBVIOUS
  <2>2. Additive(f, K, [s \in SUBSET K |-> 0])
    BY <2>1 DEF Additive
  <2> QED
    BY <1>4, <2>2
<1>6. PICK x \in K : TRUE
  BY <1>5
<1>7. IsFiniteSet(K) /\ Cardinality(K \ {x}) = n - 1 /\ n \in Nat /\ n # 0
  <2>1. IsFiniteSet(K)
    BY FS_Subset
  <2>2. Cardinality(K \ {x}) = Cardinality(K) - 1
    BY <2>1, FS_RemoveElement
  <2>3. IsFiniteSet(K \ {x}) /\ Cardinality(K \ {x}) \in Nat
    BY <2>1, FS_Subset, FS_CardinalityType
  <2> QED
    BY <1>3, <1>4, <2>1, <2>2, <2>3
<1>8. ~Without(K \ {x})
  <2>1. n - 1 \notin Bad
    BY <1>3, <1>7
  <2>2. n - 1 \in Nat /\ K \ {x} \in SUBSET L
    BY <1>7
  <2> QED
    BY <1>7, <2>1, <2>2
<1>9. PICK P : Additive(f, K \ {x}, P)
  BY <1>8
<1>10. PICK T : T = [s \in SUBSET K |-> IF x \in s THEN P[s \ {x}] + f[x] ELSE P[s]]
  OBVIOUS
<1>11. f[x] \in Nat /\ P \in [SUBSET (K \ {x}) -> Nat]
  BY <1>9 DEF Additive
<1>12. T \in [SUBSET K -> Nat]
  <2>1. ASSUME NEW s \in SUBSET K PROVE (IF x \in s THEN P[s \ {x}] + f[x] ELSE P[s]) \in Nat
    <3>1. s \ {x} \in SUBSET (K \ {x}) /\ (x \notin s => s \in SUBSET (K \ {x}))
      OBVIOUS
    <3>2. P[s \ {x}] \in Nat /\ (x \notin s => P[s] \in Nat)
      BY <1>11, <3>1
    <3> QED
      BY <1>11, <3>2
  <2> QED
    BY <1>10, <2>1
<1>13. T[{}] = 0
  BY <1>9, <1>10 DEF Additive
<1>14. ASSUME NEW s \in SUBSET K, NEW y \in K \ s PROVE T[s \cup {y}] = T[s] + f[y]
  <2>0. s \cup {y} \in SUBSET K /\ f[y] \in Nat
    OBVIOUS
  <2>1. CASE y = x
    <3>1. s \in SUBSET (K \ {x}) /\ (s \cup {x}) \ {x} = s
      BY <1>14, <2>1
    <3> QED
      BY <1>10, <2>0, <2>1, <3>1
  <2>2. CASE y # x /\ x \notin s
    <3>1. s \in SUBSET (K \ {x}) /\ y \in (K \ {x}) \ s /\ x \notin s \cup {y}
      BY <2>2
    <3>2. P[s \cup {y}] = P[s] + f[y]
      BY <1>9, <3>1 DEF Additive
    <3> QED
      BY <1>10, <2>0, <2>2, <3>1, <3>2
  <2>3. CASE y # x /\ x \in s
    <3>1. s \ {x} \in SUBSET (K \ {x}) /\ y \in (K \ {x}) \ (s \ {x}) /\ (s \cup {y}) \ {x} = (s \ {x}) \cup {y}
      BY <2>3
    <3>2. P[(s \ {x}) \cup {y}] = P[s \ {x}] + f[y] /\ P[s \ {x}] \in Nat
      BY <1>9, <3>1 DEF Additive
    <3>3. T[s \cup {y}] = P[(s \ {x}) \cup {y}] + f[x] /\ T[s] = P[s \ {x}] + f[x]
      BY <1>10, <2>0, <2>3, <3>1
    <3>4. PICK p \in Nat : p = P[s \ {x}]
      BY <3>2
    <3>5. P[(s \ {x}) \cup {y}] = p + f[y]
      BY <3>2, <3>4
    <3>6. T[s \cup {y}] = (p + f[y]) + f[x] /\ T[s] = p + f[x]
      BY <3>3, <3>4, <3>5
    <3>7. PICK a \in Nat, b \in Nat : a = f[x] /\ b = f[y]
      BY <1>11, <2>0
    <3> QED
      BY <3>6, <3>7
  <2> QED
    BY <2>1, <2>2, <2>3
<1>15. Additive(f, K, T)
  BY <1>12, <1>13, <1>14 DEF Additive
<1> QED
  BY <1>4, <1>15

(* The recursion that MapThenSumSet of a function's values unfolds to. *)
Adds(f, S, iter) ==
    iter = [s \in SUBSET S |-> IF s = {} THEN 0
                               ELSE f[CHOOSE x \in s : TRUE] + iter[s \ {CHOOSE x \in s : TRUE}]]

SumOver(f, S) == (CHOOSE iter : Adds(f, S, iter))[S]

LEMMA AdditiveAdds ==
    ASSUME NEW L, NEW f \in [L -> Nat], NEW T, Additive(f, L, T), NEW S \in SUBSET L
    PROVE  Adds(f, S, [s \in SUBSET S |-> T[s]])
<1> DEFINE iter == [s \in SUBSET S |-> T[s]]
<1>1. ASSUME NEW s \in SUBSET S
      PROVE  iter[s] = IF s = {} THEN 0 ELSE f[CHOOSE x \in s : TRUE] + iter[s \ {CHOOSE x \in s : TRUE}]
  <2>1. CASE s = {}
    BY <2>1 DEF Additive
  <2>2. CASE s # {}
    <3>1. PICK x \in s : x = CHOOSE y \in s : TRUE
      BY <2>2
    <3>2. s \ {x} \in SUBSET L /\ x \in L \ (s \ {x}) /\ (s \ {x}) \cup {x} = s
      OBVIOUS
    <3>3. T[s] = T[s \ {x}] + f[x] /\ T[s \ {x}] \in Nat /\ f[x] \in Nat
      BY <3>2 DEF Additive
    <3>4. iter[s] = T[s] /\ iter[s \ {x}] = T[s \ {x}]
      OBVIOUS
    <3>5. PICK a \in Nat, b \in Nat : a = T[s \ {x}] /\ b = f[x]
      BY <3>3
    <3>6. iter[s] = a + b /\ f[x] + iter[s \ {x}] = b + a
      BY <3>3, <3>4, <3>5
    <3>7. iter[s] = f[x] + iter[s \ {x}]
      BY <3>5, <3>6
    <3> HIDE DEF iter
    <3> QED
      BY <2>2, <3>1, <3>7
  <2> QED
    BY <2>1, <2>2
<1>2. PICK g : g = iter
  OBVIOUS
<1>3. g = [s \in SUBSET S |-> g[s]] /\ \A s \in SUBSET S :
          g[s] = IF s = {} THEN 0 ELSE f[CHOOSE x \in s : TRUE] + g[s \ {CHOOSE x \in s : TRUE}]
  BY <1>1, <1>2
<1>4. Adds(f, S, g)
  BY <1>3 DEF Adds
<1> QED
  BY <1>2, <1>4

LEMMA AddsOnlyThat ==
    ASSUME NEW L, IsFiniteSet(L), NEW f \in [L -> Nat], NEW T, Additive(f, L, T), NEW S \in SUBSET L,
           NEW iter, Adds(f, S, iter)
    PROVE  iter[S] = T[S]
<1> DEFINE Bad == {n \in Nat : \E s \in SUBSET S : Cardinality(s) = n /\ iter[s] # T[s]}
<1>1. SUFFICES ASSUME iter[S] # T[S] PROVE FALSE
  OBVIOUS
<1>2. Cardinality(S) \in Bad
  <2>1. IsFiniteSet(S) /\ Cardinality(S) \in Nat
    BY FS_Subset, FS_CardinalityType
  <2> QED
    BY <1>1, <2>1
<1>3. PICK n \in Bad : \A m \in Bad : n <= m
  BY <1>2, LeastMember, Bad \subseteq Nat, Bad # {}
<1>4. PICK s \in SUBSET S : Cardinality(s) = n /\ iter[s] # T[s]
  BY <1>3
<1>5. iter[s] = IF s = {} THEN 0 ELSE f[CHOOSE x \in s : TRUE] + iter[s \ {CHOOSE x \in s : TRUE}]
  BY DEF Adds
<1>6. s # {}
  BY <1>4, <1>5 DEF Additive
<1>7. PICK x \in s : x = CHOOSE y \in s : TRUE
  BY <1>6
<1>8. s \in SUBSET L /\ s \ {x} \in SUBSET L /\ x \in L \ (s \ {x}) /\ (s \ {x}) \cup {x} = s
  OBVIOUS
<1>9. T[s] = T[s \ {x}] + f[x] /\ T[s \ {x}] \in Nat /\ f[x] \in Nat
  BY <1>8 DEF Additive
<1>10. iter[s \ {x}] = T[s \ {x}]
  <2>1. IsFiniteSet(s) /\ IsFiniteSet(s \ {x})
    BY <1>8, FS_Subset
  <2>2. Cardinality(s \ {x}) = n - 1 /\ Cardinality(s \ {x}) \in Nat /\ n \in Nat
    BY <1>3, <1>4, <2>1, FS_RemoveElement, FS_CardinalityType
  <2>3. Cardinality(s \ {x}) \notin Bad
    <3>1. PICK k \in Nat : k = Cardinality(s \ {x}) /\ k = n - 1
      BY <2>2
    <3>2. ~(n <= k)
      BY <2>2, <3>1
    <3> HIDE DEF Bad
    <3> QED
      BY <1>3, <3>1, <3>2
  <2> QED
    BY <2>2, <2>3
<1>11. iter[s] = f[x] + iter[s \ {x}]
  BY <1>5, <1>6, <1>7
<1>12. PICK a \in Nat, b \in Nat : a = T[s \ {x}] /\ b = f[x]
  BY <1>9
<1>13. iter[s] = b + a /\ T[s] = a + b
  BY <1>9, <1>10, <1>11, <1>12
<1> QED
  BY <1>4, <1>12, <1>13

(* It is a sum: nothing for nothing, and one term more for one element more. *)
LEMMA SumIsAdditive ==
    ASSUME NEW L, IsFiniteSet(L), NEW f \in [L -> Nat]
    PROVE  \E T : Additive(f, L, T) /\ \A S \in SUBSET L : SumOver(f, S) = T[S]
<1>1. PICK T : Additive(f, L, T)
  BY AdditiveExists
<1>2. ASSUME NEW S \in SUBSET L PROVE SumOver(f, S) = T[S]
  <2>1. PICK iter : iter = CHOOSE it : Adds(f, S, it)
    OBVIOUS
  <2>2. Adds(f, S, iter)
    BY <1>1, <2>1, AdditiveAdds
  <2>3. iter[S] = T[S]
    BY <1>1, <2>2, AddsOnlyThat
  <2> QED
    BY <2>1, <2>3 DEF SumOver
<1> QED
  BY <1>1, <1>2

(* The values of a function on a finite set are bounded. *)
LEMMA FiniteBound ==
    ASSUME NEW L, IsFiniteSet(L), NEW f \in [L -> Nat]
    PROVE  \E b \in Nat : \A x \in L : f[x] <= b
<1>1. PICK T : Additive(f, L, T)
  BY AdditiveExists
<1>2. PICK b \in Nat : b = T[L]
  BY <1>1 DEF Additive
<1>3. ASSUME NEW x \in L PROVE f[x] <= b
  <2>1. L \ {x} \in SUBSET L /\ x \in L \ (L \ {x}) /\ (L \ {x}) \cup {x} = L
    OBVIOUS
  <2>2. T[L] = T[L \ {x}] + f[x] /\ T[L \ {x}] \in Nat
    BY <1>1, <2>1 DEF Additive
  <2>3. PICK a \in Nat, c \in Nat : a = T[L \ {x}] /\ c = f[x]
    BY <2>2
  <2>4. b = a + c
    BY <1>2, <2>2, <2>3
  <2> QED
    BY <2>3, <2>4
<1> QED
  BY <1>2, <1>3
=============================================================================
