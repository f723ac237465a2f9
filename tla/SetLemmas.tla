----------------------------- MODULE SetLemmas ------------------------------
(***************************************************************************)
(* What operators of the library that are defined by CHOOSE or by a fold   *)
(* return: the greatest number of a set, a set as a sequence, and sums;    *)
(* that what is computed step by step exists; and how far rounding is off. *)
(***************************************************************************)
EXTENDS Integers, FiniteSets, FiniteSetsExt, SequencesExt, FiniteSetTheorems, TLAPS

\* A finite set of numbers that is not empty has a greatest one: of the sets of
\* its members from m on, one has no other strictly inside.
LEMMA LargestExists ==
  ASSUME NEW K \in SUBSET Nat, IsFiniteSet(K), K # {}
  PROVE  \E m \in K : \A k \in K : k <= m
  <1> DEFINE From(m) == {k \in K : k >= m}
             F       == {From(m) : m \in K}
  <1>1. F \subseteq FiniteSubsetsOf(K) /\ F # {}
    <2>1. \A m \in K : From(m) \in SUBSET K /\ IsFiniteSet(From(m))
      BY FS_Subset
    <2> QED
      BY <2>1 DEF FiniteSubsetsOf
  <1>2. PICK x \in F : \A y \in F : <<y, x>> \notin StrictSubsetOrdering(K)
    BY <1>1, FS_StrictSubsetOrderingWellFounded, WFMin, Zenon
  <1>3. PICK m \in K : x = From(m)
    BY <1>2
  <1>4. ASSUME NEW k \in K, ~(k <= m) PROVE FALSE
    <2>1. k \in Nat /\ m \in Nat
      OBVIOUS
    <2>2. ~(m >= k) /\ m >= m /\ \A n \in Nat : n >= k => n >= m
      BY <1>4, <2>1
    <2>3. From(k) \subseteq From(m) /\ m \in From(m) /\ m \notin From(k)
      BY <2>2
    <2>4. <<From(k), x>> \in StrictSubsetOrdering(K)
      BY <1>3, <2>3 DEF StrictSubsetOrdering
    <2> QED
      BY <1>2, <2>4
  <1> QED
    BY <1>4

\* So the library's Max, a CHOOSE, returns it.
LEMMA MaxProperty ==
  ASSUME NEW K \in SUBSET Nat, IsFiniteSet(K), K # {}
  PROVE  Max(K) \in K /\ \A k \in K : k <= Max(K)
  <1>1. \E m \in K : \A k \in K : m >= k
    BY LargestExists
  <1>2. Max(K) \in K /\ \A k \in K : Max(K) >= k
    BY <1>1, Zenon DEF Max
  <1> HIDE DEF Max
  <1> QED
    BY <1>2

\* A set of natural numbers that is not empty has a least one.
LEMMA LeastExists ==
  ASSUME NEW K \in SUBSET Nat, K # {}
  PROVE  \E m \in K : \A k \in K : m <= k
  <1>1. PICK R : R = OpToRel(<, Nat)
    BY Zenon
  <1>2. \A x, y \in Nat : x < y => <<x, y>> \in R
    BY <1>1 DEF OpToRel
  <1>3. IsWellFoundedOn(R, Nat)
    BY <1>1, NatLessThanWellFounded, Zenon
  <1>4. PICK m \in K : \A k \in K : <<k, m>> \notin R
    BY <1>3, WFMin, Zenon
  <1>5. ASSUME NEW k \in K PROVE m <= k
    <2>1. k \in Nat /\ m \in Nat
      OBVIOUS
    <2>2. ~(k < m)
      BY <1>2, <1>4, <2>1
    <2> QED
      BY <2>1, <2>2
  <1> QED
    BY <1>5

\* SetToSeq lists every member of a finite set once.
LEMMA SetToSeqProperty ==
  ASSUME NEW S, IsFiniteSet(S)
  PROVE  LET s == SetToSeq(S)  n == Cardinality(S) IN
         /\ n \in Nat /\ s \in [1..n -> S]
         /\ \A a, b \in 1..n : s[a] = s[b] => a = b
         /\ \A x \in S : \E a \in 1..n : s[a] = x
  <1> DEFINE n == Cardinality(S)
  <1>1. n \in Nat /\ ExistsBijection(1..n, S)
    BY FS_CardinalityType
  <1> HIDE DEF n
  <1>2. \E f \in [1..n -> S] : IsInjective(f)
    BY <1>1 DEF ExistsBijection, Bijection, Injection
  <1>3. SetToSeq(S) \in [1..n -> S] /\ IsInjective(SetToSeq(S))
    BY <1>2, Zenon DEF SetToSeq, n
  <1> DEFINE s == SetToSeq(S)
  <1>4. s \in [1..n -> S] /\ IsInjective(s)
    BY <1>3
  <1> HIDE DEF s
  <1>5. s \in Injection(1..n, S)
    BY <1>4 DEF Injection
  <1>6. Cardinality(1..n) = n
    BY <1>1, FS_Interval
  <1>7. s \in Surjection(1..n, S)
    BY <1>5, <1>6, FS_Injection DEF n
  <1>8. \A x \in S : \E a \in 1..n : s[a] = x
    BY <1>4, <1>7 DEF Surjection
  <1>9. \A a, b \in 1..n : s[a] = s[b] => a = b
    BY <1>4 DEF IsInjective
  <1> QED
    BY <1>1, <1>4, <1>8, <1>9 DEF n, s

-----------------------------------------------------------------------------
(* Sums.  The library's folds are recursive functions of the subsets of a  *)
(* set; here is what such a function is, whichever element each step takes *)
(* first, with h for the numbers added.                                    *)

\* c takes an element of every subset of S that is not empty.
Takes(c, S) == \A s \in SUBSET S : s # {} => c[s] \in s

\* f sums h over the subsets of S, in the order in which c takes their elements:
\* the recursion of the library's folds.
Sums(h, c, S, f) ==
  f = [s \in SUBSET S |-> IF s = {} THEN 0 ELSE h[c[s]] + f[s \ {c[s]}]]

\* Of a set of subsets of a finite set, one has no other strictly inside.
LEMMA SmallestSubset ==
  ASSUME NEW S, IsFiniteSet(S), NEW B \in SUBSET SUBSET S, B # {}
  PROVE  \E x \in B : \A y \in B : ~(y \subseteq x /\ y # x)
  <1>1. B \subseteq FiniteSubsetsOf(S)
    BY FS_Subset DEF FiniteSubsetsOf
  <1>2. PICK x \in B : \A y \in B : <<y, x>> \notin StrictSubsetOrdering(S)
    BY <1>1, FS_StrictSubsetOrderingWellFounded, WFMin, Zenon
  <1>3. \A y \in B : y \subseteq x /\ y # x => <<y, x>> \in StrictSubsetOrdering(S)
    BY DEF StrictSubsetOrdering
  <1>4. \A y \in B : ~(y \subseteq x /\ y # x)
    BY <1>2, <1>3
  <1> QED
    BY <1>4, Zenon

\* One step of the recursion.
LEMMA SumsStep ==
  ASSUME NEW S, NEW h, NEW c, NEW f, Sums(h, c, S, f), Takes(c, S), NEW s \in SUBSET S
  PROVE  /\ s = {} => f[s] = 0
         /\ s # {} => /\ c[s] \in s /\ f[s] = h[c[s]] + f[s \ {c[s]}]
                      /\ s \ {c[s]} \in SUBSET S
  BY DEF Sums, Takes

\* The recursion has one solution.
LEMMA SumsUnique ==
  ASSUME NEW S, IsFiniteSet(S), NEW h, NEW c, Takes(c, S), NEW T \in SUBSET S,
         NEW f, Sums(h, c, S, f), NEW g, Sums(h, c, T, g)
  PROVE  \A s \in SUBSET T : f[s] = g[s]
  <1> DEFINE B == {s \in SUBSET T : f[s] # g[s]}
  <1> SUFFICES ASSUME B # {} PROVE FALSE
    OBVIOUS
  <1>1. PICK x \in B : \A y \in B : ~(y \subseteq x /\ y # x)
    <2>1. B \in SUBSET SUBSET S
      OBVIOUS
    <2> HIDE DEF B
    <2> QED
      BY <2>1, SmallestSubset
  <1>2. Takes(c, T)
    BY DEF Takes
  <1>3. x \in SUBSET T /\ x \in SUBSET S /\ f[x] # g[x]
    OBVIOUS
  <1>4. x # {} /\ c[x] \in x
    <2>1. x = {} => f[x] = 0 /\ g[x] = 0
      BY <1>2, <1>3 DEF Sums
    <2> QED
      BY <1>2, <1>3, <2>1 DEF Takes
  <1>5. f[x] = h[c[x]] + f[x \ {c[x]}] /\ g[x] = h[c[x]] + g[x \ {c[x]}]
    BY <1>2, <1>3, <1>4, SumsStep
  <1>6. x \ {c[x]} \in SUBSET T /\ x \ {c[x]} # x
    BY <1>3, <1>4
  <1>7. f[x \ {c[x]}] = g[x \ {c[x]}]
    BY <1>1, <1>6
  <1> QED
    BY <1>3, <1>5, <1>7

\* It has one: a smallest subset without a solution would be solved by those of
\* its own subsets.
LEMMA SumsExist ==
  ASSUME NEW S, IsFiniteSet(S), NEW h, NEW c, Takes(c, S)
  PROVE  \E f : Sums(h, c, S, f)
  <1> DEFINE Solution(s) == CHOOSE f : Sums(h, c, s, f)
             B == {s \in SUBSET S : ~\E f : Sums(h, c, s, f)}
  <1>0. S \in B \/ \E f : Sums(h, c, S, f)
    OBVIOUS
  <1> SUFFICES ASSUME B # {} PROVE FALSE
    BY <1>0
  <1>1. PICK x \in B : \A y \in B : ~(y \subseteq x /\ y # x)
    <2>1. B \in SUBSET SUBSET S
      OBVIOUS
    <2> HIDE DEF B
    <2> QED
      BY <2>1, SmallestSubset
  <1>2. ASSUME NEW s \in SUBSET x, s # x PROVE Sums(h, c, s, Solution(s))
    <2>1. \E f : Sums(h, c, s, f)
      BY <1>1, <1>2
    <2> QED
      BY <2>1, Zenon
  <1>3. x \in SUBSET S /\ IsFiniteSet(x) /\ Takes(c, x)
    BY FS_Subset DEF Takes
  <1>4. \A s \in SUBSET x : IsFiniteSet(s) /\ Takes(c, s)
    BY <1>3, FS_Subset DEF Takes
  <1>5. PICK v : v = [s \in SUBSET x |-> Solution(s)[s]]
    OBVIOUS
  <1> HIDE DEF Solution
  <1> DEFINE f == [s \in SUBSET x |-> IF s = {} THEN 0 ELSE h[c[s]] + v[s \ {c[s]}]]
  <1>6. ASSUME NEW u \in SUBSET x, u # x PROVE f[u] = v[u]
    <2>1. Sums(h, c, u, Solution(u)) /\ v[u] = Solution(u)[u] /\ u \in SUBSET u
      BY <1>2, <1>5, <1>6
    <2>2. CASE u = {}
      <3>1. Solution(u)[u] = 0
        BY <2>1, <2>2 DEF Sums
      <3> QED
        BY <2>1, <2>2, <3>1
    <2>3. CASE u # {}
      <3> DEFINE w == u \ {c[u]}
      <3>1. /\ c[u] \in u /\ w \in SUBSET u /\ w \in SUBSET x /\ w # x /\ w \in SUBSET w
            /\ Solution(u)[u] = h[c[u]] + Solution(u)[w]
        BY <1>4, <1>6, <2>1, <2>3, SumsStep
      <3>2. Solution(u)[w] = Solution(w)[w]
        <4>1. Sums(h, c, w, Solution(w)) /\ IsFiniteSet(u) /\ Takes(c, u)
          BY <1>2, <1>4, <1>6, <3>1
        <4> HIDE DEF w
        <4> QED
          BY <2>1, <3>1, <4>1, SumsUnique
      <3>3. v[w] = Solution(w)[w]
        BY <1>5, <3>1
      <3> QED
        BY <2>1, <2>3, <3>1, <3>2, <3>3
    <2> QED
      BY <2>2, <2>3
  <1>7. Sums(h, c, x, f)
    <2> SUFFICES ASSUME NEW s \in SUBSET x
                 PROVE  f[s] = IF s = {} THEN 0 ELSE h[c[s]] + f[s \ {c[s]}]
      BY Zenon DEF Sums
    <2>1. s # {} => s \ {c[s]} \in SUBSET x /\ s \ {c[s]} # x
      BY <1>3 DEF Takes
    <2>2. s # {} => f[s \ {c[s]}] = v[s \ {c[s]}]
      BY <1>6, <2>1
    <2> QED
      BY <2>2
  <1> QED
    BY <1>1, <1>7

\* The sums of integers are integers.
LEMMA SumsType ==
  ASSUME NEW S, IsFiniteSet(S), NEW h, \A x \in S : h[x] \in Int,
         NEW c, Takes(c, S), NEW f, Sums(h, c, S, f)
  PROVE  \A s \in SUBSET S : f[s] \in Int
  <1> DEFINE B == {s \in SUBSET S : f[s] \notin Int}
  <1> SUFFICES ASSUME B # {} PROVE FALSE
    OBVIOUS
  <1>1. PICK x \in B : \A y \in B : ~(y \subseteq x /\ y # x)
    <2>1. B \in SUBSET SUBSET S
      OBVIOUS
    <2> HIDE DEF B
    <2> QED
      BY <2>1, SmallestSubset
  <1>2. x = {} => f[x] = 0
    BY DEF Sums
  <1>3. x # {} => c[x] \in x /\ f[x] = h[c[x]] + f[x \ {c[x]}] /\ x \ {c[x]} \in SUBSET S
    BY SumsStep
  <1>4. x # {} => f[x \ {c[x]}] \in Int /\ h[c[x]] \in Int
    BY <1>1, <1>3
  <1>5. f[x] \in Int
    <2>1. CASE x = {}
      BY <1>2, <2>1
    <2>2. CASE x # {}
      BY <1>3, <1>4, <2>2
    <2> QED
      BY <2>1, <2>2
  <1> QED
    BY <1>5

\* Any element may be taken first.
LEMMA SumsAny ==
  ASSUME NEW S, IsFiniteSet(S), NEW h, \A x \in S : h[x] \in Int,
         NEW c, Takes(c, S), NEW f, Sums(h, c, S, f)
  PROVE  \A s \in SUBSET S : \A y \in s : f[s] = h[y] + f[s \ {y}]
  <1> DEFINE B == {s \in SUBSET S : \E y \in s : f[s] # h[y] + f[s \ {y}]}
  <1> SUFFICES ASSUME B # {} PROVE FALSE
    OBVIOUS
  <1>1. PICK x \in B : \A y \in B : ~(y \subseteq x /\ y # x)
    <2>1. B \in SUBSET SUBSET S
      OBVIOUS
    <2> HIDE DEF B
    <2> QED
      BY <2>1, SmallestSubset
  <1>2. PICK y \in x : f[x] # h[y] + f[x \ {y}]
    BY <1>1
  <1>3. PICK z : z = c[x]
    OBVIOUS
  <1>4. z \in x /\ f[x] = h[z] + f[x \ {z}] /\ x \in SUBSET S /\ y # z
    <2>1. x \in SUBSET S /\ x # {}
      BY <1>2
    <2>2. z \in x /\ f[x] = h[z] + f[x \ {z}]
      BY <1>3, <2>1, SumsStep
    <2>3. y # z
      BY <1>2, <2>2
    <2> QED
      BY <2>1, <2>2, <2>3
  <1>5. ASSUME NEW s \in SUBSET x, s # x, NEW k \in s
        PROVE  f[s] = h[k] + f[s \ {k}]
    BY <1>1, <1>5
  <1> HIDE DEF B
  <1>6. f[x \ {z}] = h[y] + f[(x \ {z}) \ {y}]
    BY <1>4, <1>5
  <1>7. f[x \ {y}] = h[z] + f[(x \ {y}) \ {z}]
    BY <1>4, <1>5
  <1>8. (x \ {y}) \ {z} = (x \ {z}) \ {y}
    OBVIOUS
  <1>9. h[y] \in Int /\ h[z] \in Int /\ f[(x \ {z}) \ {y}] \in Int
    BY <1>4, SumsType
  <1>10. PICK n \in Int : n = f[(x \ {z}) \ {y}]
    BY <1>9
  <1>11. f[x] = h[z] + (h[y] + n) /\ h[y] + f[x \ {y}] = h[y] + (h[z] + n)
    BY <1>4, <1>6, <1>7, <1>8, <1>10
  <1> QED
    BY <1>2, <1>9, <1>11

\* The sum of h over S, taking any element first, as the library's
\* MapThenSumSet does.
Arbitrary(S) == [s \in SUBSET S |-> CHOOSE x \in s : TRUE]
SumOver(h, S) == (CHOOSE f : Sums(h, Arbitrary(S), S, f))[S]

LEMMA ArbitraryTakes ==
  ASSUME NEW S
  PROVE  Takes(Arbitrary(S), S)
  BY DEF Takes, Arbitrary

\* The CHOOSE in it has a value.
LEMMA SumSolves ==
  ASSUME NEW S, IsFiniteSet(S), NEW h
  PROVE  \E f : Sums(h, Arbitrary(S), S, f) /\ SumOver(h, S) = f[S]
  <1> DEFINE f == CHOOSE f : Sums(h, Arbitrary(S), S, f)
  <1>1. Sums(h, Arbitrary(S), S, f)
    BY SumsExist, ArbitraryTakes, Zenon
  <1> QED
    BY <1>1, Zenon DEF SumOver

\* Whatever the order, and over whatever greater set, the recursion gives it.
LEMMA SumIs ==
  ASSUME NEW S, IsFiniteSet(S), NEW h, \A x \in S : h[x] \in Int,
         NEW c, Takes(c, S), NEW f, Sums(h, c, S, f), NEW T \in SUBSET S
  PROVE  f[T] = SumOver(h, T)
  <1>1. IsFiniteSet(T) /\ Takes(Arbitrary(T), T)
    BY FS_Subset, ArbitraryTakes
  <1>2. PICK g : Sums(h, Arbitrary(T), T, g) /\ SumOver(h, T) = g[T]
    BY <1>1, SumSolves
  <1> DEFINE B == {s \in SUBSET T : f[s] # g[s]}
  <1>3. ASSUME B # {} PROVE FALSE
    <2>1. PICK x \in B : \A y \in B : ~(y \subseteq x /\ y # x)
      <3>1. B \in SUBSET SUBSET T
        OBVIOUS
      <3> HIDE DEF B
      <3> QED
        BY <1>1, <1>3, <3>1, SmallestSubset
    <2>2. x # {}
      BY <1>2 DEF Sums
    <2>3. PICK k \in x : TRUE
      BY <2>2
    <2>4. x \in SUBSET T /\ x \in SUBSET S /\ f[x \ {k}] = g[x \ {k}]
      BY <2>1
    <2>5. f[x] = h[k] + f[x \ {k}]
      BY <2>4, SumsAny
    <2>6. g[x] = h[k] + g[x \ {k}]
      BY <1>1, <1>2, <2>4, SumsAny
    <2> QED
      BY <2>4, <2>5, <2>6
  <1> QED
    BY <1>2, <1>3

\* What a sum is made of.
LEMMA SumEmpty ==
  ASSUME NEW h
  PROVE  SumOver(h, {}) = 0
  <1>1. PICK f : Sums(h, Arbitrary({}), {}, f) /\ SumOver(h, {}) = f[{}]
    BY SumSolves, FS_EmptySet
  <1> QED
    BY <1>1 DEF Sums

LEMMA SumType ==
  ASSUME NEW S, IsFiniteSet(S), NEW h, \A x \in S : h[x] \in Int
  PROVE  SumOver(h, S) \in Int
  <1>1. PICK f : Sums(h, Arbitrary(S), S, f) /\ SumOver(h, S) = f[S]
    BY SumSolves
  <1> QED
    BY <1>1, ArbitraryTakes, SumsType

LEMMA SumRemove ==
  ASSUME NEW T, IsFiniteSet(T), NEW h, \A x \in T : h[x] \in Int, NEW y \in T
  PROVE  SumOver(h, T) = h[y] + SumOver(h, T \ {y})
  <1>1. PICK f : Sums(h, Arbitrary(T), T, f)
    BY SumSolves
  <1>2. PICK c : c = Arbitrary(T)
    OBVIOUS
  <1>3. Takes(c, T) /\ Sums(h, c, T, f)
    BY <1>1, <1>2, ArbitraryTakes
  <1>4. T \in SUBSET T /\ T \ {y} \in SUBSET T
    OBVIOUS
  <1>5. f[T] = h[y] + f[T \ {y}]
    BY <1>3, <1>4, SumsAny
  <1>6. f[T] = SumOver(h, T)
    BY <1>3, <1>4, SumIs
  <1>7. f[T \ {y}] = SumOver(h, T \ {y})
    BY <1>3, <1>4, SumIs
  <1> QED
    BY <1>5, <1>6, <1>7

LEMMA SumInsert ==
  ASSUME NEW S, IsFiniteSet(S), NEW y, y \notin S, NEW h, \A x \in S \cup {y} : h[x] \in Int
  PROVE  /\ SumOver(h, S) \in Int
         /\ SumOver(h, S \cup {y}) = h[y] + SumOver(h, S)
  <1>1. PICK T : T = S \cup {y}
    OBVIOUS
  <1>2. IsFiniteSet(T)
    BY <1>1, FS_AddElement
  <1>3. y \in T /\ T \ {y} = S /\ \A x \in T : h[x] \in Int
    BY <1>1
  <1>4. SumOver(h, T) = h[y] + SumOver(h, T \ {y})
    BY <1>2, <1>3, SumRemove
  <1>5. SumOver(h, S) \in Int
    BY SumType
  <1> QED
    BY <1>1, <1>3, <1>4, <1>5

LEMMA SumOne ==
  ASSUME NEW y, NEW h, h[y] \in Int
  PROVE  SumOver(h, {y}) = h[y]
  <1>1. SumOver(h, {} \cup {y}) = h[y] + SumOver(h, {})
    BY SumInsert, FS_EmptySet
  <1>2. {} \cup {y} = {y}
    OBVIOUS
  <1>3. SumOver(h, {y}) = h[y] + 0
    BY <1>1, <1>2, SumEmpty, Zenon
  <1> QED
    BY <1>3

LEMMA SumPair ==
  ASSUME NEW x, NEW y, x # y, NEW h, h[x] \in Int, h[y] \in Int
  PROVE  SumOver(h, {x, y}) = h[x] + h[y]
  <1>1. IsFiniteSet({y}) /\ {y} \cup {x} = {x, y}
    BY FS_Singleton
  <1>2. SumOver(h, {y} \cup {x}) = h[x] + SumOver(h, {y})
    BY <1>1, SumInsert
  <1> QED
    BY <1>1, <1>2, SumOne

\* Functions that agree on a set have the same sum over it.
LEMMA SumCongruent ==
  ASSUME NEW S, IsFiniteSet(S), NEW h, NEW g, \A x \in S : h[x] = g[x] /\ h[x] \in Int
  PROVE  SumOver(h, S) = SumOver(g, S)
  <1>1. PICK f : Sums(h, Arbitrary(S), S, f) /\ SumOver(h, S) = f[S]
    BY SumSolves
  <1>2. PICK e : Sums(g, Arbitrary(S), S, e) /\ SumOver(g, S) = e[S]
    BY SumSolves
  <1>3. Sums(g, Arbitrary(S), S, f)
    <2> DEFINE c == Arbitrary(S)
    <2>1. Takes(c, S)
      BY ArbitraryTakes
    <2> HIDE DEF c
    <2>2. \A s \in SUBSET S : s # {} => h[c[s]] = g[c[s]]
      BY <2>1 DEF Takes
    <2> QED
      BY <1>1, <2>2 DEF Sums, c
  <1>4. S \in SUBSET S
    OBVIOUS
  <1> QED
    BY <1>1, <1>2, <1>3, <1>4, ArbitraryTakes, SumsUnique

\* A sum in two parts.
LEMMA SumUnion ==
  ASSUME NEW S, IsFiniteSet(S), NEW U, IsFiniteSet(U), S \cap U = {},
         NEW h, \A x \in S \cup U : h[x] \in Int
  PROVE  /\ SumOver(h, S) \in Int /\ SumOver(h, U) \in Int
         /\ SumOver(h, S \cup U) = SumOver(h, S) + SumOver(h, U)
  <1>1. SumOver(h, S) \in Int /\ SumOver(h, U) \in Int
    BY SumType
  <1> DEFINE B == {s \in SUBSET S : SumOver(h, s \cup U) # SumOver(h, s) + SumOver(h, U)}
  <1>2. ASSUME B # {} PROVE FALSE
    <2>1. PICK x \in B : \A y \in B : ~(y \subseteq x /\ y # x)
      <3>1. B \in SUBSET SUBSET S
        OBVIOUS
      <3> HIDE DEF B
      <3> QED
        BY <1>2, <3>1, SmallestSubset
    <2>2. x # {}
      <3> SUFFICES ASSUME x = {} PROVE FALSE
        OBVIOUS
      <3>1. x \cup U = U /\ SumOver(h, x \cup U) # SumOver(h, x) + SumOver(h, U)
        OBVIOUS
      <3>2. SumOver(h, x) = 0
        BY SumEmpty
      <3> HIDE DEF B
      <3> QED
        BY <1>1, <3>1, <3>2
    <2>3. PICK k \in x : TRUE
      BY <2>2
    <2>4. PICK y, v, w : y = x \ {k} /\ v = x \cup U /\ w = y \cup U
      OBVIOUS
    <2>5. SumOver(h, w) = SumOver(h, y) + SumOver(h, U)
      BY <2>1, <2>4
    <2>6. IsFiniteSet(x) /\ IsFiniteSet(y) /\ IsFiniteSet(v) /\ k \in v /\ v \ {k} = w
      BY <2>4, FS_Subset, FS_Union
    <2>7. /\ \A z \in x : h[z] \in Int
          /\ \A z \in v : h[z] \in Int
          /\ \A z \in y : h[z] \in Int
      BY <2>4
    <2>8. SumOver(h, x) = h[k] + SumOver(h, y) /\ SumOver(h, y) \in Int /\ h[k] \in Int
      BY <2>4, <2>6, <2>7, SumRemove, SumType
    <2>9. SumOver(h, v) = h[k] + SumOver(h, w)
      BY <2>6, <2>7, SumRemove
    <2>10. SumOver(h, v) # SumOver(h, x) + SumOver(h, U)
      BY <2>4
    <2> QED
      BY <1>1, <2>5, <2>8, <2>9, <2>10
  <1>3. S \in SUBSET S
    OBVIOUS
  <1> QED
    BY <1>1, <1>2, <1>3

\* A sum over the places a function maps a set to.
LEMMA SumImage ==
  ASSUME NEW S, IsFiniteSet(S), NEW e, \A x, y \in S : e[x] = e[y] => x = y,
         NEW h, NEW g, \A x \in S : g[x] \in Int /\ h[e[x]] = g[x]
  PROVE  SumOver(h, {e[x] : x \in S}) = SumOver(g, S)
  <1> DEFINE I(s) == {e[x] : x \in s}
             B == {s \in SUBSET S : ~IsFiniteSet(I(s)) \/ SumOver(h, I(s)) # SumOver(g, s)}
  <1>1. ASSUME B # {} PROVE FALSE
    <2>1. PICK x \in B : \A y \in B : ~(y \subseteq x /\ y # x)
      <3>1. B \in SUBSET SUBSET S
        OBVIOUS
      <3> HIDE DEF B
      <3> QED
        BY <1>1, <3>1, SmallestSubset
    <2>2. x # {}
      <3> SUFFICES ASSUME x = {} PROVE FALSE
        OBVIOUS
      <3>1. I(x) = {} /\ (~IsFiniteSet(I(x)) \/ SumOver(h, I(x)) # SumOver(g, x))
        OBVIOUS
      <3> HIDE DEF B, I
      <3> QED
        BY <3>1, SumEmpty, FS_EmptySet
    <2>3. PICK k \in x : TRUE
      BY <2>2
    <2>4. PICK y, v, w : y = x \ {k} /\ v = I(x) /\ w = I(y)
      OBVIOUS
    <2>5. IsFiniteSet(w) /\ SumOver(h, w) = SumOver(g, y)
      BY <2>1, <2>4
    <2>7. e[k] \in v /\ v \ {e[k]} = w /\ v = w \cup {e[k]}
      BY <2>4
    <2>6. IsFiniteSet(x) /\ IsFiniteSet(v)
      BY <2>5, <2>7, FS_Subset, FS_AddElement
    <2>8. (\A z \in x : g[z] \in Int) /\ (\A z \in v : h[z] \in Int) /\ h[e[k]] = g[k]
      BY <2>4
    <2>9. SumOver(g, x) = g[k] + SumOver(g, y)
      BY <2>4, <2>6, <2>8, SumRemove
    <2>10. SumOver(h, v) = h[e[k]] + SumOver(h, w)
      BY <2>6, <2>7, <2>8, SumRemove
    <2>11. SumOver(h, v) # SumOver(g, x)
      BY <2>4, <2>6
    <2> QED
      BY <2>5, <2>8, <2>9, <2>10, <2>11
  <1>2. S \in SUBSET S
    OBVIOUS
  <1> QED
    BY <1>1, <1>2

-----------------------------------------------------------------------------
(* The sums of the library's Functions, and what becomes of a sum.         *)

\* SumFunctionOnSet, and so SumFunction, is such a sum.
LEMMA SumFunctionIs ==
  ASSUME NEW h, NEW S
  PROVE  SumFunctionOnSet(h, S) = SumOver(h, S)
  <1> DEFINE Rec(f) == f = [s \in SUBSET S |->
                              IF s = {} THEN 0
                              ELSE LET x == CHOOSE x \in s : TRUE IN h[x] + f[s \ {x}]]
             c == Arbitrary(S)
  <1>1. SumFunctionOnSet(h, S) = (CHOOSE f : Rec(f))[S]
    BY Zenon DEF SumFunctionOnSet, FoldFunctionOnSet, MapThenFoldSet
  <1>2. ASSUME NEW f PROVE Rec(f) <=> Sums(h, c, S, f)
    <2>1. ASSUME NEW s \in SUBSET S, s # {}
          PROVE  (LET x == CHOOSE x \in s : TRUE IN h[x] + f[s \ {x}]) = h[c[s]] + f[s \ {c[s]}]
      <3>1. (CHOOSE x \in s : TRUE) = c[s]
        BY <2>1 DEF Arbitrary
      <3> HIDE DEF c
      <3> QED
        BY <3>1, Zenon
    <2> HIDE DEF c
    <2>2. [s \in SUBSET S |-> IF s = {} THEN 0
                              ELSE LET x == CHOOSE x \in s : TRUE IN h[x] + f[s \ {x}]]
            = [s \in SUBSET S |-> IF s = {} THEN 0 ELSE h[c[s]] + f[s \ {c[s]}]]
      BY <2>1, Zenon
    <2> QED
      BY <2>2, Zenon DEF Sums
  <1>3. (CHOOSE f : Rec(f)) = (CHOOSE f : Sums(h, c, S, f))
    <2> HIDE DEF Rec, c
    <2> QED
      BY <1>2, Zenon
  <1> QED
    BY <1>1, <1>3, Zenon DEF SumOver

\* One more number at the end of a sequence.
LEMMA SumAppend ==
  ASSUME NEW n \in Nat, NEW h, NEW g, \A k \in 1..n : g[k] = h[k] /\ h[k] \in Int, g[n + 1] \in Int
  PROVE  SumOver(h, 1..n) \in Int /\ SumOver(g, 1..(n + 1)) = SumOver(h, 1..n) + g[n + 1]
  <1>1. PICK S : S = 1..n
    OBVIOUS
  <1>2. PICK y : y = n + 1
    OBVIOUS
  <1>3. IsFiniteSet(S) /\ y \notin S /\ 1..(n + 1) = S \cup {y}
    <2>1. 1 \in Int /\ n \in Int
      OBVIOUS
    <2>2. IsFiniteSet(S)
      BY <1>1, <2>1, FS_Interval
    <2>3. y \notin S /\ 1..(n + 1) = S \cup {y}
      BY <1>1, <1>2
    <2> QED
      BY <2>2, <2>3
  <1>4. \A x \in S \cup {y} : g[x] \in Int
    BY <1>1, <1>2
  <1>5. SumOver(g, S) \in Int /\ SumOver(g, S \cup {y}) = g[y] + SumOver(g, S)
    BY <1>3, <1>4, SumInsert
  <1>6. SumOver(h, S) = SumOver(g, S)
    <2>1. \A x \in S : h[x] = g[x] /\ h[x] \in Int
      BY <1>1
    <2> QED
      BY <1>3, <2>1, SumCongruent
  <1>7. g[y] \in Int
    BY <1>2
  <1>8. SumOver(g, S) \in Int => g[y] + SumOver(g, S) = SumOver(g, S) + g[y]
    BY <1>7
  <1> QED
    BY <1>1, <1>2, <1>3, <1>5, <1>6, <1>8

\* Another number in one place.
LEMMA SumChange ==
  ASSUME NEW S, IsFiniteSet(S), NEW h, NEW g, NEW y \in S, \A x \in S : h[x] \in Int,
         g[y] \in Int, \A x \in S \ {y} : g[x] = h[x]
  PROVE  SumOver(h, S) \in Int /\ SumOver(g, S) = SumOver(h, S) + (g[y] - h[y])
  <1>1. PICK T : T = S \ {y}
    OBVIOUS
  <1>2. IsFiniteSet(T) /\ \A x \in T : h[x] = g[x] /\ h[x] \in Int
    BY <1>1, FS_Subset
  <1>3. SumOver(h, T) = SumOver(g, T) /\ SumOver(h, T) \in Int
    BY <1>2, SumCongruent, SumType
  <1>4. SumOver(h, S) = h[y] + SumOver(h, T)
    BY <1>1, SumRemove
  <1>5. \A x \in S : g[x] \in Int
    OBVIOUS
  <1>6. SumOver(g, S) = g[y] + SumOver(g, T)
    BY <1>1, <1>5, SumRemove
  <1> QED
    BY <1>3, <1>4, <1>6

\* Zeros.
LEMMA SumNothing ==
  ASSUME NEW S, IsFiniteSet(S), NEW h, \A x \in S : h[x] = 0
  PROVE  SumOver(h, S) = 0
  <1> DEFINE c == Arbitrary(S)
             f == [s \in SUBSET S |-> 0]
  <1>1. Takes(c, S)
    BY ArbitraryTakes
  <1> HIDE DEF c
  <1>2. f = [s \in SUBSET S |-> IF s = {} THEN 0 ELSE h[c[s]] + f[s \ {c[s]}]]
    BY <1>1 DEF Takes
  <1>3. Sums(h, c, S, f)
    BY <1>2 DEF Sums
  <1>4. S \in SUBSET S /\ f[S] = 0
    OBVIOUS
  <1> HIDE DEF f
  <1> QED
    BY <1>1, <1>3, <1>4, SumIs

\* Numbers that are not negative have a sum that is not, and none is greater.
LEMMA SumNat ==
  ASSUME NEW S, IsFiniteSet(S), NEW h, \A x \in S : h[x] \in Nat
  PROVE  SumOver(h, S) \in Nat
  <1>1. PICK c : c = Arbitrary(S)
    OBVIOUS
  <1>2. PICK f : Sums(h, c, S, f) /\ SumOver(h, S) = f[S]
    BY <1>1, SumSolves
  <1>3. Takes(c, S)
    BY <1>1, ArbitraryTakes
  <1> DEFINE B == {s \in SUBSET S : f[s] \notin Nat}
  <1>4. ASSUME B # {} PROVE FALSE
    <2>1. PICK x \in B : \A y \in B : ~(y \subseteq x /\ y # x)
      <3>1. B \in SUBSET SUBSET S
        OBVIOUS
      <3> HIDE DEF B
      <3> QED
        BY <1>4, <3>1, SmallestSubset
    <2>2. x \in SUBSET S
      OBVIOUS
    <2>3. x = {} => f[x] = 0
      BY <1>2, <2>2 DEF Sums
    <2>4. x # {} => c[x] \in x /\ f[x] = h[c[x]] + f[x \ {c[x]}]
      BY <1>2, <1>3, <2>2 DEF Sums, Takes
    <2>5. x # {} => x \ {c[x]} \in SUBSET S /\ f[x \ {c[x]}] \in Nat /\ h[c[x]] \in Nat
      BY <2>1, <2>2, <2>4
    <2> QED
      BY <2>1, <2>3, <2>4, <2>5
  <1>5. S \in SUBSET S
    OBVIOUS
  <1> QED
    BY <1>2, <1>4, <1>5

LEMMA SumAtLeast ==
  ASSUME NEW S, IsFiniteSet(S), NEW h, \A x \in S : h[x] \in Nat, NEW y \in S
  PROVE  SumOver(h, S) \in Nat /\ h[y] <= SumOver(h, S)
  <1>1. PICK T : T = S \ {y}
    OBVIOUS
  <1>2. IsFiniteSet(T) /\ \A x \in T : h[x] \in Nat
    BY <1>1, FS_Subset
  <1>3. SumOver(h, S) = h[y] + SumOver(h, T)
    <2>1. \A x \in S : h[x] \in Int
      OBVIOUS
    <2> QED
      BY <1>1, <2>1, SumRemove
  <1>4. SumOver(h, T) \in Nat
    BY <1>2, SumNat
  <1> QED
    BY <1>3, <1>4

\* Two parts of a multiple of every number add up to that multiple of the sum.
LEMMA SumSplits ==
  ASSUME NEW S, IsFiniteSet(S), NEW h, NEW g, NEW k, NEW m \in Int,
         \A x \in S : h[x] \in Int /\ g[x] \in Int /\ k[x] \in Int /\ g[x] + k[x] = m * h[x]
  PROVE  SumOver(g, S) + SumOver(k, S) = m * SumOver(h, S)
  <1> DEFINE B == {s \in SUBSET S : ~(SumOver(g, s) + SumOver(k, s) = m * SumOver(h, s))}
  <1>1. \A s \in SUBSET S : /\ IsFiniteSet(s) /\ SumOver(g, s) \in Int /\ SumOver(h, s) \in Int
                            /\ SumOver(k, s) \in Int
    <2>1. SUFFICES ASSUME NEW s \in SUBSET S
                   PROVE  /\ IsFiniteSet(s) /\ SumOver(g, s) \in Int /\ SumOver(h, s) \in Int
                          /\ SumOver(k, s) \in Int
      OBVIOUS
    <2>2. IsFiniteSet(s)
      BY FS_Subset
    <2>3. SumOver(g, s) \in Int /\ SumOver(h, s) \in Int /\ SumOver(k, s) \in Int
      BY <2>2, SumType
    <2> QED
      BY <2>2, <2>3
  <1>2. ASSUME B # {} PROVE FALSE
    <2>1. PICK x \in B : \A y \in B : ~(y \subseteq x /\ y # x)
      <3>1. B \in SUBSET SUBSET S
        OBVIOUS
      <3> HIDE DEF B
      <3> QED
        BY <1>2, <3>1, SmallestSubset
    <2>2. x \in SUBSET S /\ IsFiniteSet(x)
      BY <1>1
    <2>3. x # {}
      <3>1. SumOver(g, {}) = 0 /\ SumOver(h, {}) = 0 /\ SumOver(k, {}) = 0
        BY SumEmpty
      <3>2. {} \notin B
        BY <3>1
      <3> QED
        BY <2>1, <3>2
    <2>4. PICK y \in x : TRUE
      BY <2>3
    <2>5. PICK z : z = x \ {y}
      OBVIOUS
    <2>6. z \in SUBSET S /\ z \notin B
      BY <2>1, <2>2, <2>4, <2>5
    <2>7. /\ SumOver(g, x) = g[y] + SumOver(g, z) /\ SumOver(h, x) = h[y] + SumOver(h, z)
          /\ SumOver(k, x) = k[y] + SumOver(k, z)
      <3>1. \A u \in x : h[u] \in Int /\ g[u] \in Int /\ k[u] \in Int
        BY <2>2
      <3> QED
        BY <2>2, <2>4, <2>5, <3>1, SumRemove
    <2>8. PICK a \in Int, b \in Int, d \in Int :
                 a = SumOver(g, z) /\ b = SumOver(h, z) /\ d = SumOver(k, z)
      BY <1>1, <2>6
    <2>9. PICK p \in Int, q \in Int, r \in Int : p = g[y] /\ q = h[y] /\ r = k[y]
      BY <2>2, <2>4
    <2>10. a + d = m * b /\ p + r = m * q
      BY <2>2, <2>4, <2>6, <2>8, <2>9
    <2>11. (p + a) + (r + d) = m * (q + b)
      BY <2>10
    <2> QED
      BY <2>1, <2>7, <2>8, <2>9, <2>11
  <1>3. S \in SUBSET S
    OBVIOUS
  <1> QED
    BY <1>2, <1>3

\* What is not in a part of a set, and adds nothing, can be left out.
LEMMA SumPart ==
  ASSUME NEW S, IsFiniteSet(S), NEW U \in SUBSET S, NEW h, NEW g,
         \A x \in U : h[x] = g[x] /\ h[x] \in Int, \A x \in S \ U : h[x] = 0
  PROVE  SumOver(h, S) = SumOver(g, U) /\ SumOver(g, U) \in Int
  <1>1. PICK V : V = S \ U
    OBVIOUS
  <1>2. IsFiniteSet(U) /\ IsFiniteSet(V) /\ U \cap V = {} /\ S = U \cup V
    BY <1>1, FS_Subset
  <1>3. SumOver(h, S) = SumOver(h, U) + SumOver(h, V) /\ SumOver(h, U) \in Int
    <2>1. \A x \in U \cup V : h[x] \in Int
      BY <1>1
    <2> QED
      BY <1>2, <2>1, SumUnion
  <1>4. SumOver(h, V) = 0
    <2>1. \A x \in V : h[x] = 0
      BY <1>1
    <2> QED
      BY <1>2, <2>1, SumNothing
  <1>5. SumOver(h, U) = SumOver(g, U)
    BY <1>2, SumCongruent
  <1> QED
    BY <1>3, <1>4, <1>5

\* A table turned: its rows are the columns.  The totals of its rows.
Turned(h, t, S, T)    == \A i \in S : \A j \in T : h[i][j] \in Int /\ t[j][i] = h[i][j]
Totals(row, h, S, T)  == \A i \in S : row[i] = SumOver(h[i], T)

\* Rows and columns of a table have the same total.
LEMMA SumExchange ==
  ASSUME NEW S, IsFiniteSet(S), NEW T, IsFiniteSet(T),
         NEW h, NEW turned, Turned(h, turned, S, T),
         NEW row, Totals(row, h, S, T), NEW col, Totals(col, turned, T, S)
  PROVE  SumOver(row, S) = SumOver(col, T)
  <1> USE DEF Turned, Totals
  <1> DEFINE Col(s) == [j \in T |-> SumOver(turned[j], s)]
             B == {s \in SUBSET S : SumOver(row, s) # SumOver(Col(s), T)}
  <1>1. ASSUME B # {} PROVE FALSE
    <2>1. PICK x \in B : \A y \in B : ~(y \subseteq x /\ y # x)
      <3>1. B \in SUBSET SUBSET S
        OBVIOUS
      <3> HIDE DEF B
      <3> QED
        BY <1>1, <3>1, SmallestSubset
    <2>2. x \in SUBSET S /\ SumOver(row, x) # SumOver(Col(x), T)
      BY <2>1
    <2>3. x # {}
      <3>1. ASSUME x = {} PROVE FALSE
        <4>1. SumOver(row, x) = 0
          BY <3>1, SumEmpty
        <4>2. PICK z : z = Col(x)
          OBVIOUS
        <4>3. \A j \in T : z[j] = 0
          BY <3>1, <4>2, SumEmpty
        <4>4. SumOver(z, T) = 0
          BY <4>3, SumNothing
        <4> QED
          BY <2>2, <4>1, <4>2, <4>4
      <3> QED
        BY <3>1
    <2>4. PICK i \in x : TRUE
      BY <2>3
    <2>5. PICK y : y = x \ {i}
      OBVIOUS
    <2>6. IsFiniteSet(x) /\ x \subseteq S /\ i \in S /\ y \in SUBSET S /\ y \subseteq x /\ y # x
      BY <2>2, <2>4, <2>5, FS_Subset
    <2>7. SumOver(row, y) = SumOver(Col(y), T)
      BY <2>1, <2>6
    <2>8. PICK z, w : z = Col(x) /\ w = Col(y)
      OBVIOUS
    <2>9. IsFiniteSet(y) /\ \A j \in T : w[j] = SumOver(turned[j], y) /\ z[j] = SumOver(turned[j], x)
      BY <2>6, <2>8, FS_Subset
    <2>10. \A j \in T : w[j] \in Int /\ h[i][j] \in Int /\ h[i][j] + w[j] = z[j]
      <3>1. SUFFICES ASSUME NEW j \in T PROVE w[j] \in Int /\ h[i][j] \in Int /\ h[i][j] + w[j] = z[j]
        OBVIOUS
      <3>2. \A k \in x : turned[j][k] \in Int
        BY <2>6
      <3>3. SumOver(turned[j], x) = turned[j][i] + SumOver(turned[j], y)
        BY <2>4, <2>5, <2>6, <3>2, SumRemove
      <3>4. SumOver(turned[j], y) \in Int
        <4>1. \A k \in y : turned[j][k] \in Int
          BY <2>6, <3>2
        <4> QED
          BY <2>9, <4>1, SumType
      <3>5. turned[j][i] = h[i][j] /\ h[i][j] \in Int
        BY <2>6
      <3> QED
        BY <2>9, <3>3, <3>4, <3>5
    <2>11. SumOver(h[i], T) + SumOver(w, T) = SumOver(z, T)
      <3>1. \A j \in T : z[j] \in Int /\ h[i][j] \in Int /\ w[j] \in Int /\ h[i][j] + w[j] = 1 * z[j]
        <4>1. \A u, v, t : u \in Int /\ v \in Int /\ v + u = t => t \in Int /\ v + u = 1 * t
          OBVIOUS
        <4> QED
          BY <2>10, <4>1
      <3>2. SumOver(h[i], T) + SumOver(w, T) = 1 * SumOver(z, T)
        BY <3>1, SumSplits
      <3>3. SumOver(z, T) \in Int
        BY <3>1, SumType
      <3> QED
        BY <3>2, <3>3
    <2>12. SumOver(row, x) = row[i] + SumOver(row, y)
      <3>1. \A k \in x : row[k] \in Int
        <4>1. \A k \in x : SumOver(h[k], T) \in Int
          BY <2>6, SumType
        <4> QED
          BY <2>6, <4>1
      <3> QED
        BY <2>4, <2>5, <2>6, <3>1, SumRemove
    <2> QED
      BY <2>2, <2>6, <2>7, <2>8, <2>11, <2>12
  <1>2. S \in SUBSET S
    OBVIOUS
  <1>3. PICK z : z = Col(S)
    OBVIOUS
  <1>4. SumOver(row, S) = SumOver(z, T)
    BY <1>1, <1>2, <1>3
  <1>5. \A j \in T : z[j] \in Int /\ col[j] = z[j]
    <2>1. \A j \in T : SumOver(turned[j], S) \in Int
      BY SumType
    <2> QED
      BY <1>3, <2>1
  <1>6. SumOver(col, T) = SumOver(z, T)
    BY <1>5, SumCongruent
  <1> QED
    BY <1>4, <1>6

\* A number that stands in one place only.
LEMMA SumOnly ==
  ASSUME NEW S, IsFiniteSet(S), NEW y, NEW v \in Int, NEW h,
         \A x \in S : h[x] = IF x = y THEN v ELSE 0
  PROVE  SumOver(h, S) = IF y \in S THEN v ELSE 0
  <1>1. CASE y \in S
    <2>1. {y} \in SUBSET S /\ (\A x \in {y} : h[x] = h[x] /\ h[x] \in Int) /\ \A x \in S \ {y} : h[x] = 0
      BY <1>1
    <2>2. SumOver(h, S) = SumOver(h, {y})
      BY <2>1, SumPart
    <2>3. h[y] = v /\ SumOver(h, {y}) = h[y]
      BY <1>1, SumOne
    <2> QED
      BY <1>1, <2>2, <2>3
  <1>2. CASE y \notin S
    <2>1. \A x \in S : h[x] = 0
      BY <1>2
    <2> QED
      BY <1>2, <2>1, SumNothing
  <1> QED
    BY <1>1, <1>2

\* What holds of every number, up to a rest of its own, holds of the sums.
LEMMA SumWithin ==
  ASSUME NEW S, IsFiniteSet(S), NEW h, NEW g, NEW k, NEW p \in Int, NEW q \in Int,
         \A x \in S : h[x] \in Int /\ g[x] \in Int /\ k[x] \in Int /\ p * g[x] <= q * h[x] + k[x]
  PROVE  p * SumOver(g, S) <= q * SumOver(h, S) + SumOver(k, S)
  <1> DEFINE B == {s \in SUBSET S : ~(p * SumOver(g, s) <= q * SumOver(h, s) + SumOver(k, s))}
  <1>1. \A s \in SUBSET S : /\ IsFiniteSet(s) /\ SumOver(g, s) \in Int /\ SumOver(h, s) \in Int
                            /\ SumOver(k, s) \in Int
    <2>1. SUFFICES ASSUME NEW s \in SUBSET S
                   PROVE  /\ IsFiniteSet(s) /\ SumOver(g, s) \in Int /\ SumOver(h, s) \in Int
                          /\ SumOver(k, s) \in Int
      OBVIOUS
    <2>2. IsFiniteSet(s)
      BY FS_Subset
    <2>3. SumOver(g, s) \in Int /\ SumOver(h, s) \in Int /\ SumOver(k, s) \in Int
      BY <2>2, SumType
    <2> QED
      BY <2>2, <2>3
  <1>2. ASSUME B # {} PROVE FALSE
    <2>1. PICK x \in B : \A y \in B : ~(y \subseteq x /\ y # x)
      <3>1. B \in SUBSET SUBSET S
        OBVIOUS
      <3> HIDE DEF B
      <3> QED
        BY <1>2, <3>1, SmallestSubset
    <2>2. x \in SUBSET S /\ IsFiniteSet(x)
      BY <1>1
    <2>3. x # {}
      <3>1. SumOver(g, {}) = 0 /\ SumOver(h, {}) = 0 /\ SumOver(k, {}) = 0
        BY SumEmpty
      <3>2. p * 0 <= q * 0 + 0
        OBVIOUS
      <3>3. {} \notin B
        BY <3>1, <3>2
      <3> QED
        BY <2>1, <3>3
    <2>4. PICK y \in x : TRUE
      BY <2>3
    <2>5. PICK z : z = x \ {y}
      OBVIOUS
    <2>6. z \in SUBSET S /\ z \notin B
      BY <2>1, <2>2, <2>4, <2>5
    <2>7. /\ SumOver(g, x) = g[y] + SumOver(g, z) /\ SumOver(h, x) = h[y] + SumOver(h, z)
          /\ SumOver(k, x) = k[y] + SumOver(k, z)
      <3>1. \A u \in x : h[u] \in Int /\ g[u] \in Int /\ k[u] \in Int
        BY <2>2
      <3> QED
        BY <2>2, <2>4, <2>5, <3>1, SumRemove
    <2>8. PICK a \in Int, b \in Int, d \in Int :
                 a = SumOver(g, z) /\ b = SumOver(h, z) /\ d = SumOver(k, z)
      BY <1>1, <2>6
    <2>9. PICK e \in Int, f \in Int, n \in Int : e = g[y] /\ f = h[y] /\ n = k[y]
      BY <2>2, <2>4
    <2>10. p * a <= q * b + d /\ p * e <= q * f + n
      BY <2>2, <2>4, <2>6, <2>8, <2>9
    <2>11. p * (e + a) <= q * (f + b) + (n + d)
      <3>1. PICK pa \in Int, pe \in Int, qb \in Int, qf \in Int :
                   pa = p * a /\ pe = p * e /\ qb = q * b /\ qf = q * f
        OBVIOUS
      <3>2. p * (e + a) = pe + pa /\ q * (f + b) = qf + qb
        BY <3>1
      <3> QED
        BY <2>10, <3>1, <3>2
    <2> QED
      BY <2>1, <2>7, <2>8, <2>9, <2>11
  <1>3. S \in SUBSET S
    OBVIOUS
  <1> QED
    BY <1>2, <1>3

\* What holds of every number, up to a rest, holds of their sum, up to as many
\* rests.
LEMMA SumRounded ==
  ASSUME NEW S, IsFiniteSet(S), NEW h, NEW g, \A x \in S : h[x] \in Nat /\ g[x] \in Nat,
         NEW p \in Nat, NEW q \in Nat, NEW r \in Nat, \A x \in S : p * g[x] <= q * h[x] + r
  PROVE  /\ SumOver(g, S) \in Nat /\ SumOver(h, S) \in Nat /\ Cardinality(S) \in Nat
         /\ p * SumOver(g, S) <= q * SumOver(h, S) + r * Cardinality(S)
  <1> DEFINE B == {s \in SUBSET S : ~(p * SumOver(g, s) <= q * SumOver(h, s) + r * Cardinality(s))}
  <1>1. \A s \in SUBSET S : IsFiniteSet(s) /\ SumOver(g, s) \in Nat /\ SumOver(h, s) \in Nat
                            /\ Cardinality(s) \in Nat
    <2>1. SUFFICES ASSUME NEW s \in SUBSET S
                   PROVE  IsFiniteSet(s) /\ SumOver(g, s) \in Nat /\ SumOver(h, s) \in Nat
                          /\ Cardinality(s) \in Nat
      OBVIOUS
    <2>2. IsFiniteSet(s) /\ Cardinality(s) \in Nat
      BY FS_Subset, FS_CardinalityType
    <2>3. SumOver(g, s) \in Nat /\ SumOver(h, s) \in Nat
      BY <2>2, SumNat
    <2> QED
      BY <2>2, <2>3
  <1>2. ASSUME B # {} PROVE FALSE
    <2>1. PICK x \in B : \A y \in B : ~(y \subseteq x /\ y # x)
      <3>1. B \in SUBSET SUBSET S
        OBVIOUS
      <3> HIDE DEF B
      <3> QED
        BY <1>2, <3>1, SmallestSubset
    <2>2. x \in SUBSET S /\ IsFiniteSet(x)
      BY <1>1
    <2>3. x # {}
      <3>1. SumOver(g, {}) = 0 /\ SumOver(h, {}) = 0 /\ Cardinality({}) = 0
        BY SumEmpty, FS_EmptySet
      <3>2. {} \notin B
        BY <3>1
      <3> QED
        BY <2>1, <3>2
    <2>4. PICK y \in x : TRUE
      BY <2>3
    <2>5. PICK z : z = x \ {y}
      OBVIOUS
    <2>6. z \in SUBSET S /\ z \notin B
      BY <2>1, <2>2, <2>4, <2>5
    <2>7. SumOver(g, x) = g[y] + SumOver(g, z) /\ SumOver(h, x) = h[y] + SumOver(h, z)
      <3>1. \A u \in x : g[u] \in Int /\ h[u] \in Int
        BY <2>2
      <3> QED
        BY <2>2, <2>5, <3>1, SumRemove
    <2>8. Cardinality(x) = Cardinality(z) + 1
      <3>1. Cardinality(z) = Cardinality(x) - 1
        BY <2>2, <2>5, FS_RemoveElement
      <3> QED
        BY <1>1, <2>2, <3>1
    <2>9. PICK gz \in Nat, hz \in Nat, n \in Nat :
            gz = SumOver(g, z) /\ hz = SumOver(h, z) /\ n = Cardinality(z)
      BY <1>1, <2>6
    <2>10. PICK gy \in Nat, hy \in Nat : gy = g[y] /\ hy = h[y] /\ p * gy <= q * hy + r
      BY <2>2
    <2>11. p * gz <= q * hz + r * n
      BY <2>6, <2>9
    <2>12. p * (gy + gz) <= q * (hy + hz) + r * (n + 1)
      <3>1. /\ p * gy \in Int /\ p * gz \in Int /\ q * hy \in Int /\ q * hz \in Int /\ r * n \in Int
            /\ p * (gy + gz) = p * gy + p * gz /\ q * (hy + hz) = q * hy + q * hz /\ r * (n + 1) = r * n + r
        OBVIOUS
      <3> QED
        BY <2>10, <2>11, <3>1
    <2>13. p * SumOver(g, x) <= q * SumOver(h, x) + r * Cardinality(x)
      BY <2>7, <2>8, <2>9, <2>10, <2>12
    <2> QED
      BY <2>1, <2>13
  <1> QED
    BY <1>1, <1>2
-----------------------------------------------------------------------------
(* A function on an interval whose every value comes from the one before.  *)

Iterates(g, a, z, first, step) ==
  /\ g = [n \in a..z |-> g[n]]
  /\ \A n \in a..z : g[n] \in Int /\ g[n] = IF n = a THEN first ELSE step[g[n - 1]]

LEMMA IterationExists ==
  ASSUME NEW a \in Nat, NEW z \in Nat, NEW first \in Int, NEW step, \A n \in Int : step[n] \in Int
  PROVE  \E g : Iterates(g, a, z, first, step)
  <1> DEFINE Runs(g, k) == /\ g = [n \in a..k |-> IF n = a THEN first ELSE step[g[n - 1]]]
                           /\ \A n \in a..k : g[n] \in Int
             K == {k \in Nat : k >= a /\ ~\E g : Runs(g, k)}
  <1>1. ASSUME K # {} PROVE FALSE
    <2>1. PICK m \in K : \A k \in K : m <= k
      <3>1. K \in SUBSET Nat
        OBVIOUS
      <3> HIDE DEF K
      <3> QED
        BY <1>1, <3>1, LeastExists
    <2>2. m \in Nat /\ m >= a /\ \A g : ~Runs(g, m)
      OBVIOUS
    <2>3. CASE m = a
      <3>1. PICK g : g = [n \in a..m |-> first]
        OBVIOUS
      <3>2. g = [n \in a..m |-> IF n = a THEN first ELSE step[g[n - 1]]]
        BY <2>3, <3>1
      <3>3. Runs(g, m)
        BY <3>1, <3>2
      <3> QED
        BY <2>2, <3>3
    <2>4. CASE m # a
      <3>1. m - 1 \in Nat /\ m - 1 >= a
        BY <2>2, <2>4
      <3>2. m - 1 \notin K
        <4>1. ~(m <= m - 1)
          BY <2>2
        <4> QED
          BY <2>1, <4>1
      <3>3. PICK g : Runs(g, m - 1)
        BY <3>1, <3>2
      <3>4. PICK h : h = [n \in a..m |-> IF n = m THEN step[g[m - 1]] ELSE g[n]]
        OBVIOUS
      <3>5. \A n \in a..m : n # m => n \in a..(m - 1)
        BY <2>2
      <3>6. \A n \in a..m : n # a => n - 1 \in a..(m - 1)
        BY <2>2
      <3>7. \A n \in a..(m - 1) : n \in a..m /\ n # m /\ h[n] = g[n]
        BY <2>2, <3>4
      <3>8. ASSUME NEW n \in a..m
            PROVE  h[n] = (IF n = a THEN first ELSE step[h[n - 1]]) /\ h[n] \in Int
        <4>1. CASE n = m
          <5>1. h[n] = step[g[m - 1]] /\ m - 1 \in a..(m - 1) /\ h[m - 1] = g[m - 1]
            BY <2>2, <3>1, <3>4, <3>7, <4>1
          <5>2. g[m - 1] \in Int
            BY <3>3, <5>1
          <5> QED
            BY <2>4, <4>1, <5>1, <5>2
        <4>2. CASE n # m
          <5>1. n \in a..(m - 1) /\ h[n] = g[n] /\ g[n] \in Int
            BY <3>3, <3>5, <3>7, <4>2
          <5>2. g[n] = IF n = a THEN first ELSE step[g[n - 1]]
            BY <3>3, <5>1
          <5>3. n # a => h[n - 1] = g[n - 1]
            BY <3>6, <3>7
          <5> QED
            BY <5>1, <5>2, <5>3
        <4> QED
          BY <4>1, <4>2
      <3>9. h = [n \in a..m |-> IF n = a THEN first ELSE step[h[n - 1]]]
        <4>1. DOMAIN h = a..m /\ h = [n \in a..m |-> h[n]]
          BY <3>4
        <4> QED
          BY <3>8, <4>1
      <3>10. Runs(h, m)
        BY <3>8, <3>9
      <3> QED
        BY <2>2, <3>10
    <2> QED
      BY <2>3, <2>4
  <1>2. CASE z >= a
    <2>1. PICK g : Runs(g, z)
      BY <1>1, <1>2
    <2>2. Iterates(g, a, z, first, step)
      BY <2>1 DEF Iterates
    <2> QED
      BY <2>2
  <1>3. CASE z < a
    <2>1. a..z = {}
      BY <1>3
    <2>2. PICK g : g = [n \in a..z |-> first]
      OBVIOUS
    <2>3. Iterates(g, a, z, first, step)
      BY <2>1, <2>2 DEF Iterates
    <2> QED
      BY <2>3
  <1> QED
    BY <1>2, <1>3

-----------------------------------------------------------------------------
(* Intervals.                                                              *)

\* How many rows there are before the last of n.
LEMMA RowsBefore ==
  ASSUME NEW n \in Nat, n > 0
  PROVE  IsFiniteSet(1..(n - 1)) /\ Cardinality(1..(n - 1)) = n - 1
  <1>1. 1 \in Int /\ n - 1 \in Int
    OBVIOUS
  <1>2. IsFiniteSet(1..(n - 1)) /\ Cardinality(1..(n - 1)) = IF 1 > n - 1 THEN 0 ELSE (n - 1) - 1 + 1
    BY <1>1, FS_Interval
  <1> QED
    BY <1>2

\* The sum of the steps of a function is how far it goes.
LEMMA SumTelescopes ==
  ASSUME NEW n \in Nat, NEW f, NEW w, f[0] \in Int,
         \A i \in 1..n : f[i] \in Int /\ w[i] = f[i] - f[i - 1]
  PROVE  SumOver(w, 1..n) = f[n] - f[0]
  <1> DEFINE K == {k \in Nat : k <= n /\ SumOver(w, 1..k) # f[k] - f[0]}
  <1>1. ASSUME K # {} PROVE FALSE
    <2>1. PICK m \in K : \A k \in K : m <= k
      <3>1. K \in SUBSET Nat
        OBVIOUS
      <3> HIDE DEF K
      <3> QED
        BY <1>1, <3>1, LeastExists
    <2>2. m \in Nat /\ m <= n /\ SumOver(w, 1..m) # f[m] - f[0]
      OBVIOUS
    <2>3. m # 0
      <3>1. SumOver(w, {}) = 0
        BY SumEmpty
      <3>2. 1..0 = {}
        OBVIOUS
      <3> QED
        BY <2>2, <3>1, <3>2
    <2>4. PICK p : p = m - 1
      OBVIOUS
    <2>5. p \in Nat /\ p <= n /\ m = p + 1 /\ ~(m <= p)
      BY <2>2, <2>3, <2>4
    <2>6. SumOver(w, 1..p) = f[p] - f[0]
      BY <2>1, <2>5
    <2>7. \A k \in 0..n : f[k] \in Int
      OBVIOUS
    <2>8. \A i \in 1..n : i - 1 \in 0..n /\ w[i] \in Int
      BY <2>7
    <2>9. (\A k \in 1..p : w[k] = w[k] /\ w[k] \in Int) /\ w[p + 1] \in Int
      BY <2>2, <2>5, <2>8
    <2>10. SumOver(w, 1..(p + 1)) = SumOver(w, 1..p) + w[p + 1]
      BY <2>5, <2>9, SumAppend
    <2>11. w[p + 1] = f[p + 1] - f[p] /\ f[p + 1] \in Int /\ f[p] \in Int
      <3>1. p + 1 \in 1..n /\ p \in 0..n /\ (p + 1) - 1 = p
        BY <2>2, <2>5
      <3> QED
        BY <2>7, <3>1
    <2> QED
      BY <2>2, <2>5, <2>6, <2>10, <2>11
  <1>2. n \notin K
    BY <1>1
  <1> QED
    BY <1>2

-----------------------------------------------------------------------------
(* Math.round of a quotient.                                               *)

\* It is off by half at most.
LEMMA RoundedQuotient ==
  ASSUME NEW n \in Int, NEW d \in Nat, d > 0, NEW q, q = (2 * n + d) \div (2 * d)
  PROVE  /\ q \in Int /\ (n \in Nat => q \in Nat)
         /\ 2 * (d * q) <= 2 * n + d /\ 2 * n < 2 * (d * q) + d
  <1>1. PICK a \in Int, b \in Nat : a = 2 * n + d /\ b = 2 * d
    <2>1. 2 * n + d \in Int /\ 2 * d \in Nat
      OBVIOUS
    <2> QED
      BY <2>1
  <1>2. b > 0 /\ q = a \div b /\ (n \in Nat => a \in Nat)
    BY <1>1
  <1>3. q \in Int /\ b * q <= a /\ a < b * q + b /\ (n \in Nat => q \in Nat)
    BY <1>2
  <1>4. PICK p \in Int : p = d * q
    BY <1>3
  <1>5. b * q = 2 * p
    BY <1>1, <1>3, <1>4
  <1>6. 2 * p <= 2 * n + d /\ 2 * n + d < 2 * p + 2 * d
    BY <1>1, <1>3, <1>5
  <1> QED
    BY <1>3, <1>4, <1>6
=============================================================================
