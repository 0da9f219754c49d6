---------------------------- MODULE IndexLemmas ----------------------------
(***************************************************************************)
(* Lemmas on sets of natural numbers and on the parts of a sequence that   *)
(* they select, which the proofs of several components use.                *)
(***************************************************************************)
EXTENDS Subsequence, FiniteSetTheorems, SequenceTheorems, WellFoundedInduction, TLAPS

(***************************************************************************)
(* Least and greatest elements                                             *)
(***************************************************************************)
\* A set of natural numbers that is not empty has a least element.
LEMMA LeastNat ==
  ASSUME NEW T \in SUBSET Nat, T # {}
  PROVE  \E x \in T : \A y \in T : x <= y
<1> DEFINE R == {ss \in Nat \X Nat : ss[1] < ss[2]}
<1>1. IsWellFoundedOn(R, Nat)
  BY NatLessThanWellFounded DEF OpToRel
<1>2. \A x, y \in Nat : x < y => <<x, y>> \in R
  OBVIOUS
<1>3. \E x \in T : \A y \in T : ~ (<<y, x>> \in R)
  <2> HIDE DEF R
  <2> QED BY <1>1, WFMin
<1> HIDE DEF R
<1>4. PICK x \in T : \A y \in T : ~ (<<y, x>> \in R)
  BY <1>3
<1>5. ASSUME NEW y \in T PROVE x <= y
  <2>1. ~(y < x)
    BY <1>2, <1>4, Zenon
  <2> QED BY <2>1
<1> QED BY <1>5

\* x is the greatest element of T.
IsGreatest(x, T) == x \in T /\ \A y \in T : y <= x

\* A finite set of natural numbers that is not empty has a greatest element: of
\* those that had none, a smallest one less any of its elements has one.
LEMMA GreatestNat ==
  ASSUME NEW S \in SUBSET Nat, IsFiniteSet(S), S # {}
  PROVE  \E x : IsGreatest(x, S)
<1> DEFINE Topless == {T \in SUBSET S : T # {} /\ ~ \E x : IsGreatest(x, T)}
           Sizes == {n \in Nat : \E T \in Topless : Cardinality(T) = n}
<1>1. SUFFICES ASSUME Topless # {} PROVE FALSE
  <2>1. Topless = {} => S \notin Topless
    OBVIOUS
  <2> QED BY <1>1, <2>1
<1>2. ASSUME NEW T \in Topless
      PROVE  T \in SUBSET Nat /\ T # {} /\ IsFiniteSet(T) /\ Cardinality(T) \in Nat
  BY FS_Subset, FS_CardinalityType
<1>3. Sizes # {}
  BY <1>1, <1>2
<1>4. PICK n \in Sizes : \A k \in Sizes : n <= k
  <2>1. Sizes \in SUBSET Nat
    OBVIOUS
  <2> HIDE DEF Sizes
  <2> QED BY <1>3, <2>1, LeastNat
<1>5. PICK T \in Topless : Cardinality(T) = n
  BY <1>4
<1>6. PICK x \in T : x \in Nat
  BY <1>2, <1>5
<1> DEFINE U == T \ {x}
<1>7. IsFiniteSet(U) /\ Cardinality(U) = n - 1 /\ Cardinality(U) \in Nat
  BY <1>2, <1>5, <1>6, FS_RemoveElement, FS_CardinalityType
<1>8. U \notin Topless
  <2>1. n - 1 \notin Sizes
    <3>1. n \in Nat
      BY <1>4
    <3> HIDE DEF Sizes
    <3> QED BY <1>4, <3>1
  <2> QED BY <1>7, <2>1
<1>9. CASE U = {}
  <2>1. IsGreatest(x, T)
    BY <1>6, <1>9 DEF IsGreatest
  <2> QED BY <1>5, <2>1
<1>10. CASE U # {}
  <2>1. PICK m : IsGreatest(m, U)
    BY <1>5, <1>8, <1>10
  <2>2. m \in Nat /\ T \in SUBSET Nat
    BY <1>2, <1>5, <2>1 DEF IsGreatest
  <2>3. CASE m <= x
    <3>1. \A y \in T : y = x \/ y <= m
      BY <2>1 DEF IsGreatest
    <3>2. IsGreatest(x, T)
      BY <1>6, <2>2, <2>3, <3>1 DEF IsGreatest
    <3> QED BY <1>5, <3>2
  <2>4. CASE x <= m
    <3>1. IsGreatest(m, T)
      BY <1>6, <2>1, <2>4 DEF IsGreatest
    <3> QED BY <1>5, <3>1
  <2> QED BY <1>6, <2>2, <2>3, <2>4
<1> QED BY <1>9, <1>10

(***************************************************************************)
(* Selecting elements of a sequence by their indices                       *)
(***************************************************************************)
\* The place that index k has among the indices K.
RankIn(K, k) == Cardinality({x \in K : x <= k})

\* A set of indices is finite, as are its parts.
LEMMA IndicesFinite ==
  ASSUME NEW n \in Nat, NEW K \in SUBSET (1..n)
  PROVE  /\ IsFiniteSet(K) /\ Cardinality(K) \in 0..n
         /\ \A k \in Int : /\ IsFiniteSet({x \in K : x <= k})
                           /\ RankIn(K, k) \in 0..Cardinality(K)
<1>1. IsFiniteSet(1..n) /\ Cardinality(1..n) = n
  BY FS_Interval
<1>2. IsFiniteSet(K) /\ Cardinality(K) <= n
  BY <1>1, FS_Subset
<1>3. Cardinality(K) \in Nat
  BY <1>2, FS_CardinalityType
<1>4. ASSUME NEW k \in Int
      PROVE  IsFiniteSet({x \in K : x <= k}) /\ RankIn(K, k) \in 0..Cardinality(K)
  <2>1. {x \in K : x <= k} \in SUBSET K
    OBVIOUS
  <2>2. IsFiniteSet({x \in K : x <= k}) /\ Cardinality({x \in K : x <= k}) <= Cardinality(K)
    BY <1>2, <2>1, FS_Subset
  <2>3. Cardinality({x \in K : x <= k}) \in Nat
    BY <2>2, FS_CardinalityType
  <2> QED BY <1>3, <2>2, <2>3 DEF RankIn
<1> QED BY <1>2, <1>3, <1>4

\* Of two indices of K the greater has the greater place.
LEMMA RankGrows ==
  ASSUME NEW n \in Nat, NEW K \in SUBSET (1..n), NEW i \in 1..n, NEW j \in K, i < j
  PROVE  RankIn(K, i) < RankIn(K, j)
<1> DEFINE A == {x \in K : x <= i}
           B == {x \in K : x <= j}
<1>0. i \in Int /\ j \in Int
  OBVIOUS
<1>1. A \in SUBSET B /\ A # B
  <2>1. j \in B /\ j \notin A
    BY <1>0
  <2>2. \A x \in K : x <= i => x <= j
    BY <1>0
  <2> QED BY <2>1, <2>2
<1>2. IsFiniteSet(B)
  BY <1>0, IndicesFinite
<1>3. Cardinality(A) <= Cardinality(B) /\ Cardinality(A) # Cardinality(B)
  <2> HIDE DEF A, B
  <2> QED BY <1>1, <1>2, FS_Subset, Zenon
<1>4. RankIn(K, i) \in Nat /\ RankIn(K, j) \in Nat
  <2>1. RankIn(K, i) \in 0..Cardinality(K) /\ RankIn(K, j) \in 0..Cardinality(K)
    BY <1>0, IndicesFinite
  <2> QED BY <2>1
<1> QED BY <1>3, <1>4 DEF RankIn

\* Every place up to the size of K is that of exactly one index, Nth(K, j).
LEMMA NthIsThere ==
  ASSUME NEW n \in Nat, NEW K \in SUBSET (1..n), NEW j \in 1..Cardinality(K)
  PROVE  Nth(K, j) \in K /\ RankIn(K, Nth(K, j)) = j
<1> DEFINE c == Cardinality(K)
           R == [k \in K |-> RankIn(K, k)]
<1>1. c \in Nat /\ IsFiniteSet(K)
  BY IndicesFinite
<1>2. \A k \in K : RankIn(K, k) \in 1..c
  <2> SUFFICES ASSUME NEW k \in K PROVE RankIn(K, k) \in 1..c
    OBVIOUS
  <2>0. k \in Int /\ k \in {x \in K : x <= k}
    OBVIOUS
  <2>1. {x \in K : x <= k} # {} /\ IsFiniteSet({x \in K : x <= k})
    BY <2>0, IndicesFinite
  <2>2. RankIn(K, k) # 0
    BY <2>1, FS_EmptySet DEF RankIn
  <2>3. RankIn(K, k) \in 0..c
    BY <2>0, IndicesFinite
  <2> QED BY <2>2, <2>3, <1>1
<1>3. R \in [K -> 1..c]
  BY <1>2
<1>4. \A a, b \in K : RankIn(K, a) = RankIn(K, b) => a = b
  <2> SUFFICES ASSUME NEW a \in K, NEW b \in K, RankIn(K, a) = RankIn(K, b), a < b
               PROVE  FALSE
    OBVIOUS
  <2>1. RankIn(K, a) < RankIn(K, b)
    BY RankGrows
  <2> QED BY <2>1, <1>2, <1>1
<1>5. R \in Injection(K, 1..c)
  BY <1>3, <1>4 DEF Injection, IsInjective
<1>6. IsFiniteSet(1..c) /\ Cardinality(1..c) = c
  BY <1>1, FS_Interval
<1>7. R \in Surjection(K, 1..c)
  <2> HIDE DEF R
  <2> QED BY <1>1, <1>5, <1>6, FS_Injection
<1>8. \E k \in K : RankIn(K, k) = j
  BY <1>7 DEF Surjection
<1> QED BY <1>8 DEF Nth, RankIn

\* Keep(s, K) is what s has at the indices K, in their order.
LEMMA Kept ==
  ASSUME NEW S, NEW s \in Seq(S), NEW K \in SUBSET (1..Len(s))
  PROVE  /\ Keep(s, K) \in Seq(S) /\ Len(Keep(s, K)) = Cardinality(K)
         /\ Cardinality(K) \in 0..Len(s)
         /\ \A j \in 1..Cardinality(K) :
              /\ Nth(K, j) \in K /\ Keep(s, K)[j] = s[Nth(K, j)] /\ RankIn(K, Nth(K, j)) = j
         /\ \A k \in K : /\ RankIn(K, k) \in 1..Cardinality(K)
                         /\ Nth(K, RankIn(K, k)) = k /\ Keep(s, K)[RankIn(K, k)] = s[k]
<1>0. Len(s) \in Nat
  OBVIOUS
<1>1. Cardinality(K) \in 0..Len(s)
  BY <1>0, IndicesFinite
<1>2. \A j \in 1..Cardinality(K) : Nth(K, j) \in K /\ RankIn(K, Nth(K, j)) = j
  BY <1>0, NthIsThere
<1>3. \A j \in 1..Cardinality(K) : Keep(s, K)[j] = s[Nth(K, j)]
  BY DEF Keep
<1>4. Keep(s, K) \in Seq(S) /\ Len(Keep(s, K)) = Cardinality(K)
  <2>1. \A j \in 1..Cardinality(K) : s[Nth(K, j)] \in S
    <3>1. \A k \in K : s[k] \in S
      BY <1>0
    <3> QED BY <1>2, <3>1
  <2>2. Keep(s, K) \in [1..Cardinality(K) -> S]
    BY <1>1, <2>1 DEF Keep
  <2> QED BY <1>1, <2>2
<1>5. ASSUME NEW k \in K
      PROVE  RankIn(K, k) \in 1..Cardinality(K) /\ Nth(K, RankIn(K, k)) = k
  <2>0. k \in Int /\ k \in {x \in K : x <= k}
    OBVIOUS
  <2>1. RankIn(K, k) \in 0..Cardinality(K)
    BY <1>0, <2>0, IndicesFinite
  <2>2. RankIn(K, k) # 0
    <3>1. {x \in K : x <= k} # {} /\ IsFiniteSet({x \in K : x <= k})
      BY <1>0, <2>0, IndicesFinite
    <3> QED BY <3>1, FS_EmptySet DEF RankIn
  <2>3. RankIn(K, k) \in 1..Cardinality(K)
    BY <2>1, <2>2
  <2> DEFINE i == Nth(K, RankIn(K, k))
  <2>4. i \in K /\ RankIn(K, i) = RankIn(K, k)
    BY <1>2, <2>3
  <2>5. i = k
    <3> HIDE DEF i
    <3>0. i \in 1..Len(s) /\ k \in 1..Len(s) /\ RankIn(K, k) \in Int
      BY <1>0, <2>3, <2>4
    <3>1. CASE i < k
      <4>1. RankIn(K, i) < RankIn(K, k)
        BY <1>0, <3>0, <3>1, RankGrows
      <4> QED BY <2>4, <3>0, <4>1
    <3>2. CASE k < i
      <4>1. RankIn(K, k) < RankIn(K, i)
        BY <1>0, <2>4, <3>0, <3>2, RankGrows
      <4> QED BY <2>4, <3>0, <4>1
    <3> QED BY <3>0, <3>1, <3>2
  <2> QED BY <2>3, <2>5
<1> QED BY <1>1, <1>2, <1>3, <1>4, <1>5

\* What precedes index a without the indices out is as long as its place says.
LEMMA RankWithout ==
  ASSUME NEW n \in Nat, NEW out \in SUBSET (1..n), NEW a \in 1..n
  PROVE  RankIn((1..n) \ out, a) = a - Cardinality({i \in out : i <= a})
<1> DEFINE A == {x \in (1..n) \ out : x <= a}
           B == {i \in out : i <= a}
<1>0. a \in Int /\ n \in Int
  OBVIOUS
<1>1. A \cup B = 1..a /\ A \cap B = {}
  <2>1. \A x \in A \cup B : x \in 1..a
    BY <1>0
  <2>2. \A x \in 1..a : x \in A \cup B
    BY <1>0
  <2> QED BY <2>1, <2>2
<1>2. IsFiniteSet(A) /\ IsFiniteSet(B)
  BY IndicesFinite
<1>3. Cardinality(1..a) = a
  BY FS_Interval
<1>4. Cardinality(A \cup B) = Cardinality(A) + Cardinality(B) - Cardinality(A \cap B)
  <2> HIDE DEF A, B
  <2> QED BY <1>2, FS_Union
<1>5. Cardinality(A \cap B) = 0
  BY <1>1, FS_EmptySet
<1>6. Cardinality(A) \in Nat /\ Cardinality(B) \in Nat
  BY <1>2, FS_CardinalityType
<1> HIDE DEF A, B
<1>7. a = Cardinality(A) + Cardinality(B) - 0
  BY <1>1, <1>3, <1>4, <1>5
<1>8. Cardinality(A) = a - Cardinality(B)
  BY <1>0, <1>6, <1>7
<1> QED BY <1>8 DEF A, B, RankIn

(***************************************************************************)
(* Selecting in order                                                      *)
(***************************************************************************)
\* f goes through the indices K from the least to the greatest, in n steps.
Counts(f, n, K) ==
  /\ \A j \in 1..n : f[j] \in K
  /\ \A i, j \in 1..n : i < j => f[i] < f[j]
  /\ \A k \in K : \E j \in 1..n : f[j] = k

\* Nth(K, j) does.
LEMMA NthOrder ==
  ASSUME NEW n \in Nat, NEW K \in SUBSET (1..n)
  PROVE  /\ Cardinality(K) \in Nat
         /\ \A i, j \in 1..Cardinality(K) : i < j => Nth(K, i) < Nth(K, j)
         /\ \A j \in 1..Cardinality(K) : Nth(K, j) \in K
         /\ \A k \in K : RankIn(K, k) \in 1..Cardinality(K) /\ Nth(K, RankIn(K, k)) = k
<1>1. Cardinality(K) \in 0..n
  BY IndicesFinite
<1>2. \A j \in 1..Cardinality(K) : Nth(K, j) \in K /\ RankIn(K, Nth(K, j)) = j
  BY NthIsThere
<1>3. ASSUME NEW i \in 1..Cardinality(K), NEW j \in 1..Cardinality(K), i < j
      PROVE  Nth(K, i) < Nth(K, j)
  <2>1. PICK a, b : a = Nth(K, i) /\ b = Nth(K, j)
    OBVIOUS
  <2>2. a \in K /\ b \in K /\ RankIn(K, a) = i /\ RankIn(K, b) = j
    BY <1>2, <2>1
  <2>3. a \in 1..n /\ b \in 1..n /\ a # b
    BY <1>3, <2>2
  <2>4. ~(b < a)
    <3>1. b < a => RankIn(K, b) < RankIn(K, a)
      BY <2>2, <2>3, RankGrows
    <3> QED BY <1>1, <1>3, <2>2, <3>1
  <2> QED BY <2>1, <2>3, <2>4
<1>4. ASSUME NEW k \in K
      PROVE  RankIn(K, k) \in 1..Cardinality(K) /\ Nth(K, RankIn(K, k)) = k
  <2>1. PICK s : s = [i \in 1..n |-> i]
    OBVIOUS
  <2>2. s \in Seq(Nat) /\ Len(s) = n
    BY <2>1
  <2>3. K \in SUBSET (1..Len(s))
    BY <2>2
  <2> QED BY <2>2, <2>3, Kept
<1> QED BY <1>1, <1>2, <1>3, <1>4

\* What the first m steps of f reach: m indices.
Reached(f, m) == {f[i] : i \in 1..m}

LEMMA StepsCounted ==
  ASSUME NEW n \in Nat, NEW K, NEW f, Counts(f, n, K), \A k \in K : k \in Int, NEW m \in 0..n
  PROVE  Cardinality(Reached(f, m)) = m
<1> DEFINE T == Reached(f, m)
<1>1. PICK g : g = [i \in 1..m |-> f[i]]
  OBVIOUS
<1>2. m \in Nat /\ \A i \in 1..m : i \in 1..n
  OBVIOUS
<1>3. \A i, j \in 1..m : i # j => f[i] # f[j]
  <2>1. ASSUME NEW i \in 1..m, NEW j \in 1..m, i < j PROVE f[i] # f[j]
    <3>1. f[i] < f[j] /\ f[i] \in Int
      BY <1>2, <2>1 DEF Counts
    <3> QED BY <3>1
  <2>2. \A i, j \in 1..m : i # j => i < j \/ j < i
    OBVIOUS
  <2> QED BY <2>1, <2>2
<1>4. g \in Bijection(1..m, T)
  <2>1. g \in [1..m -> T] /\ \A x \in T : \E i \in 1..m : g[i] = x
    BY <1>1 DEF Reached
  <2>2. \A i, j \in 1..m : g[i] = g[j] => i = j
    BY <1>1, <1>3
  <2> QED BY <2>1, <2>2 DEF Bijection, Injection, Surjection, IsInjective
<1>5. IsFiniteSet(1..m) /\ Cardinality(1..m) = m
  BY <1>2, FS_Interval
<1>6. ExistsBijection(1..m, T)
  BY <1>4 DEF ExistsBijection
<1> HIDE DEF T
<1>7. Cardinality(T) = m
  BY <1>5, <1>6, FS_Bijection
<1> QED BY <1>7 DEF T

\* K are indices up to N.
IndicesTo(N, K) == N \in Nat /\ K \in SUBSET (1..N)

\* It takes as many steps as there are indices.
LEMMA CountsAll ==
  ASSUME NEW N, NEW K, IndicesTo(N, K), NEW n \in Nat, NEW f, Counts(f, n, K)
  PROVE  Cardinality(K) = n
<1>1. Reached(f, n) = K
  BY DEF Counts, Reached
<1>2. Cardinality(Reached(f, n)) = n
  <2>1. n \in 0..n /\ \A k \in K : k \in Int
    BY DEF IndicesTo
  <2> QED BY <2>1, StepsCounted
<1> QED BY <1>1, <1>2

\* There is one way only to go through K.
LEMMA CountsNth ==
  ASSUME NEW N, NEW K, IndicesTo(N, K), NEW n \in Nat, NEW f, Counts(f, n, K), NEW j \in 1..n
  PROVE  Nth(K, j) = f[j]
<1>0. N \in Nat /\ K \in SUBSET (1..N) /\ \A k \in K : k \in Int
  BY DEF IndicesTo
<1>1. Cardinality(K) = n
  BY CountsAll
<1>2. Nth(K, j) = f[j]
  <2>1. {x \in K : x <= f[j]} = Reached(f, j)
    <3>0. j \in Int /\ \A i \in 1..n : f[i] \in Int
      <4>1. \A i \in 1..n : f[i] \in K
        BY DEF Counts
      <4>2. \A i \in 1..n : f[i] \in Int
        BY <1>0, <4>1
      <4> QED BY <4>2
    <3>1. ASSUME NEW x \in K, x <= f[j] PROVE x \in {f[i] : i \in 1..j}
      <4>1. PICK i \in 1..n : f[i] = x
        BY DEF Counts
      <4>2. ~(j < i)
        <5>1. j < i => f[j] < f[i]
          BY DEF Counts
        <5> QED BY <3>0, <3>1, <4>1, <5>1
      <4>3. i \in 1..j
        BY <4>2
      <4> QED BY <4>1, <4>3
    <3>2. ASSUME NEW i \in 1..j PROVE f[i] \in K /\ f[i] <= f[j]
      <4>1. i \in 1..n /\ (i = j \/ i < j)
        OBVIOUS
      <4>2. f[i] \in K /\ (i < j => f[i] < f[j])
        BY <4>1 DEF Counts
      <4> QED BY <3>0, <4>1, <4>2
    <3> QED BY <3>1, <3>2 DEF Reached
  <2>2. RankIn(K, f[j]) = j
    <3>1. j \in 0..n
      OBVIOUS
    <3>2. Cardinality(Reached(f, j)) = j
      BY <1>0, <3>1, StepsCounted
    <3> QED BY <2>1, <3>2 DEF RankIn
  <2>3. f[j] \in K
    BY DEF Counts
  <2> QED BY <1>0, <2>2, <2>3, NthOrder
<1> QED BY <1>2

\* g takes the indices J of t to the indices K of s, in order and with what is there.
Carries(g, t, J, s, K) ==
  /\ \A j \in J : g[j] \in K /\ t[j] = s[g[j]]
  /\ \A i, j \in J : i < j => g[i] < g[j]
  /\ \A k \in K : \E j \in J : g[j] = k

\* Then the two selections are the same.
LEMMA SameKept ==
  ASSUME NEW s, NEW K, IndicesTo(Len(s), K),
         NEW t, NEW J, IndicesTo(Len(t), J), NEW g, Carries(g, t, J, s, K)
  PROVE  Keep(t, J) = Keep(s, K)
<1>0. Len(s) \in Nat /\ Len(t) \in Nat /\ J \in SUBSET (1..Len(t))
  BY DEF IndicesTo
<1>1. PICK n : n = Cardinality(J)
  OBVIOUS
<1>2. /\ n \in Nat /\ \A j \in 1..n : Nth(J, j) \in J
      /\ \A i, j \in 1..n : i < j => Nth(J, i) < Nth(J, j)
      /\ \A k \in J : RankIn(J, k) \in 1..n /\ Nth(J, RankIn(J, k)) = k
  BY <1>0, <1>1, NthOrder
<1>3. PICK f : f = [j \in 1..n |-> g[Nth(J, j)]]
  OBVIOUS
<1>4. Counts(f, n, K)
  <2>1. \A j \in 1..n : f[j] \in K
    BY <1>2, <1>3 DEF Carries
  <2>2. \A i, j \in 1..n : i < j => f[i] < f[j]
    BY <1>2, <1>3 DEF Carries
  <2>3. ASSUME NEW k \in K PROVE \E j \in 1..n : f[j] = k
    <3>1. PICK j \in J : g[j] = k
      BY DEF Carries
    <3>2. RankIn(J, j) \in 1..n /\ f[RankIn(J, j)] = k
      BY <1>2, <1>3, <3>1
    <3> QED BY <3>2
  <2> QED BY <2>1, <2>2, <2>3 DEF Counts
<1>5. Cardinality(K) = n /\ \A j \in 1..n : Nth(K, j) = f[j]
  <2>1. n \in Nat
    BY <1>2
  <2>2. Cardinality(K) = n
    BY <1>4, <2>1, CountsAll
  <2>3. ASSUME NEW j \in 1..n PROVE Nth(K, j) = f[j]
    BY <1>4, <2>1, CountsNth, Zenon
  <2> QED BY <2>2, <2>3
<1>6. \A j \in 1..n : t[Nth(J, j)] = s[Nth(K, j)]
  <2>1. ASSUME NEW j \in 1..n PROVE t[Nth(J, j)] = s[Nth(K, j)]
    <3>1. Nth(J, j) \in J /\ Nth(K, j) = g[Nth(J, j)]
      BY <1>2, <1>3, <1>5
    <3> QED BY <3>1 DEF Carries
  <2> QED BY <2>1
<1>7. Keep(t, J) = [j \in 1..n |-> t[Nth(J, j)]]
  BY <1>1 DEF Keep
<1>8. Keep(s, K) = [j \in 1..n |-> s[Nth(K, j)]]
  BY <1>5 DEF Keep
<1> QED BY <1>6, <1>7, <1>8

\* What s has of C, in order; the indices of C among K.
Where(s, C) == {i \in 1..Len(s) : s[i] \in C}
Only(s, C) == Keep(s, Where(s, C))
WhereOf(s, K, C) == {k \in K : s[k] \in C}

\* Those indices are some of the sequence's.
LEMMA WhereFacts ==
  ASSUME NEW S, NEW s \in Seq(S), NEW C
  PROVE  IndicesTo(Len(s), Where(s, C))
  BY DEF Where, IndicesTo

\* A selection from a selection.
LEMMA KeptTwice ==
  ASSUME NEW S, NEW s \in Seq(S), NEW K, IndicesTo(Len(s), K), NEW t, t = Keep(s, K), NEW C
  PROVE  Only(t, C) = Keep(s, WhereOf(s, K, C))
<1>0. K \in SUBSET (1..Len(s)) /\ Len(s) \in Nat
  BY DEF IndicesTo
<1>1. PICK J, L : J = {j \in 1..Len(t) : t[j] \in C} /\ L = {k \in K : s[k] \in C}
  OBVIOUS
<1>2. PICK n : n = Cardinality(K)
  OBVIOUS
<1>3. /\ t \in Seq(S) /\ Len(t) = n /\ n \in Nat
      /\ \A j \in 1..n : Nth(K, j) \in K /\ t[j] = s[Nth(K, j)]
      /\ \A k \in K : RankIn(K, k) \in 1..n /\ Nth(K, RankIn(K, k)) = k /\ t[RankIn(K, k)] = s[k]
  BY <1>0, <1>2, Kept
<1>4. \A i, j \in 1..n : i < j => Nth(K, i) < Nth(K, j)
  BY <1>0, <1>2, NthOrder
<1>5. PICK g : g = [j \in 1..n |-> Nth(K, j)]
  OBVIOUS
<1>6. IndicesTo(Len(s), L) /\ IndicesTo(Len(t), J)
  BY <1>0, <1>1, <1>3 DEF IndicesTo
<1>7. \A j \in J : g[j] \in L /\ t[j] = s[g[j]]
  BY <1>1, <1>3, <1>5
<1>8. \A i, j \in J : i < j => g[i] < g[j]
  BY <1>1, <1>3, <1>4, <1>5
<1>9. ASSUME NEW k \in L PROVE \E j \in J : g[j] = k
  <2>1. RankIn(K, k) \in J /\ g[RankIn(K, k)] = k
    BY <1>1, <1>3, <1>5
  <2> QED BY <2>1
<1>10. Carries(g, t, J, s, L)
  BY <1>7, <1>8, <1>9 DEF Carries
<1>11. Keep(t, J) = Keep(s, L)
  BY <1>6, <1>10, SameKept
<1> QED BY <1>1, <1>11 DEF Only, Where, WhereOf

\* The indices of another sequence with the same selection.
LEMMA SameOnly ==
  ASSUME NEW S, NEW s \in Seq(S), NEW t \in Seq(S), NEW C, NEW g,
         Carries(g, t, Where(t, C), s, Where(s, C))
  PROVE  Only(t, C) = Only(s, C)
<1>1. IndicesTo(Len(s), Where(s, C)) /\ IndicesTo(Len(t), Where(t, C))
  BY WhereFacts
<1>2. Keep(t, Where(t, C)) = Keep(s, Where(s, C))
  BY <1>1, SameKept
<1> QED BY <1>2 DEF Only

\* What a selection consists of.
LEMMA OnlyHas ==
  ASSUME NEW S, NEW s \in Seq(S), NEW C, NEW t, t = Only(s, C)
  PROVE  /\ t \in Seq(S) /\ \A j \in 1..Len(t) : t[j] \in C /\ \E i \in 1..Len(s) : t[j] = s[i]
         /\ \A i \in 1..Len(s) : s[i] \in C => \E j \in 1..Len(t) : t[j] = s[i]
<1>1. PICK K : K = Where(s, C)
  OBVIOUS
<1>2. K \in SUBSET (1..Len(s)) /\ t = Keep(s, K) /\ \A k \in K : s[k] \in C
  BY <1>1 DEF Where, Only
<1>3. /\ t \in Seq(S) /\ Len(t) = Cardinality(K)
      /\ \A j \in 1..Cardinality(K) : Nth(K, j) \in K /\ t[j] = s[Nth(K, j)]
      /\ \A k \in K : RankIn(K, k) \in 1..Cardinality(K) /\ t[RankIn(K, k)] = s[k]
  BY <1>2, Kept
<1>4. ASSUME NEW i \in 1..Len(s), s[i] \in C PROVE \E j \in 1..Len(t) : t[j] = s[i]
  <2>1. i \in K
    BY <1>1, <1>4 DEF Where
  <2> QED BY <1>3, <2>1
<1> QED BY <1>2, <1>3, <1>4

\* A selection is empty if nothing of C is there.
LEMMA OnlyNone ==
  ASSUME NEW S, NEW s \in Seq(S), NEW C, \A i \in 1..Len(s) : s[i] \notin C
  PROVE  Only(s, C) = <<>>
<1>1. PICK t : t = Only(s, C)
  OBVIOUS
<1>2. t \in Seq(S) /\ \A j \in 1..Len(t) : t[j] \in C /\ \E i \in 1..Len(s) : t[j] = s[i]
  BY <1>1, OnlyHas
<1>3. ~(1 \in 1..Len(t))
  BY <1>2
<1>4. Len(t) = 0
  <2>1. Len(t) \in Nat
    BY <1>2
  <2> QED BY <1>3, <2>1
<1> QED BY <1>1, <1>2, <1>4, EmptySeq

\* A selection of two sequences that follow each other.
LEMMA OnlyJoined ==
  ASSUME NEW S, NEW a \in Seq(S), NEW b \in Seq(S), NEW C
  PROVE  Only(a \o b, C) = Only(a, C) \o Only(b, C)
<1>1. PICK q, K, A, B : q = a \o b /\ K = Where(q, C) /\ A = Where(a, C) /\ B = Where(b, C)
  OBVIOUS
<1>2. PICK p : p = Len(a)
  OBVIOUS
<1>3. /\ p \in Nat /\ Len(b) \in Nat /\ q \in Seq(S) /\ Len(q) = p + Len(b)
      /\ \A i \in 1..p : q[i] = a[i]
      /\ \A i \in 1..Len(b) : q[p + i] = b[i]
  BY <1>1, <1>2
<1>4. A \in SUBSET (1..p) /\ B \in SUBSET (1..Len(b)) /\ K \in SUBSET (1..Len(q))
  BY <1>1, <1>2 DEF Where
<1>5. PICK c, d : c = Cardinality(A) /\ d = Cardinality(B)
  OBVIOUS
<1>6. /\ c \in Nat /\ \A j \in 1..c : Nth(A, j) \in A
      /\ \A i, j \in 1..c : i < j => Nth(A, i) < Nth(A, j)
      /\ \A k \in A : RankIn(A, k) \in 1..c /\ Nth(A, RankIn(A, k)) = k
  BY <1>3, <1>4, <1>5, NthOrder
<1>7. /\ d \in Nat /\ \A j \in 1..d : Nth(B, j) \in B
      /\ \A i, j \in 1..d : i < j => Nth(B, i) < Nth(B, j)
      /\ \A k \in B : RankIn(B, k) \in 1..d /\ Nth(B, RankIn(B, k)) = k
  BY <1>3, <1>4, <1>5, NthOrder
<1>8. PICK f : f = [j \in 1..(c + d) |-> IF j <= c THEN Nth(A, j) ELSE p + Nth(B, j - c)]
  OBVIOUS
<1>9. /\ \A j \in 1..c : j \in 1..(c + d) /\ f[j] = Nth(A, j)
      /\ \A j \in 1..d : c + j \in 1..(c + d) /\ f[c + j] = p + Nth(B, j)
      /\ \A j \in 1..(c + d) : j \in 1..c \/ (j - c \in 1..d /\ j = c + (j - c))
  BY <1>6, <1>7, <1>8
<1>10. /\ \A k \in A : k \in K
       /\ \A k \in B : p + k \in K
       /\ \A k \in K : k \in A \/ (k - p \in B /\ k = p + (k - p))
  <2>1. ASSUME NEW k \in A PROVE k \in K
    <3>1. k \in 1..p /\ a[k] \in C
      BY <1>1, <1>2 DEF Where
    <3> QED BY <1>1, <1>3, <3>1 DEF Where
  <2>2. ASSUME NEW k \in B PROVE p + k \in K
    <3>1. k \in 1..Len(b) /\ b[k] \in C
      BY <1>1 DEF Where
    <3> QED BY <1>1, <1>3, <3>1 DEF Where
  <2>3. ASSUME NEW k \in K, k \notin A PROVE k - p \in B /\ k = p + (k - p)
    <3>1. k \in 1..(p + Len(b)) /\ q[k] \in C
      BY <1>1, <1>3 DEF Where
    <3>2. ~(k \in 1..p)
      BY <1>1, <1>2, <1>3, <2>3, <3>1 DEF Where
    <3>3. k - p \in 1..Len(b) /\ k = p + (k - p)
      BY <1>3, <3>1, <3>2
    <3>4. q[k] = b[k - p]
      BY <1>3, <3>3
    <3> QED BY <1>1, <3>1, <3>3, <3>4 DEF Where
  <2> QED BY <2>1, <2>2, <2>3
<1>11. Counts(f, c + d, K)
  <2>1. ASSUME NEW j \in 1..(c + d) PROVE f[j] \in K
    <3>1. CASE j \in 1..c
      BY <1>6, <1>9, <1>10, <3>1
    <3>2. CASE j - c \in 1..d /\ j = c + (j - c)
      <4>1. f[j] = p + Nth(B, j - c) /\ Nth(B, j - c) \in B
        BY <1>7, <1>9, <3>2
      <4> QED BY <1>10, <4>1
    <3> QED BY <1>9, <3>1, <3>2
  <2>2. ASSUME NEW i \in 1..(c + d), NEW j \in 1..(c + d), i < j PROVE f[i] < f[j]
    <3>1. CASE j \in 1..c
      <4>1. i \in 1..c
        BY <1>6, <2>2, <3>1
      <4> QED BY <1>6, <1>9, <2>2, <3>1, <4>1
    <3>2. CASE i \in 1..c /\ j - c \in 1..d
      <4>1. f[i] \in 1..p
        BY <1>4, <1>6, <1>9, <3>2
      <4>2. PICK y : y = j - c /\ y \in 1..d /\ j = c + y
        BY <1>6, <1>9, <3>2
      <4>3. f[j] = p + Nth(B, y) /\ Nth(B, y) \in 1..Len(b)
        BY <1>4, <1>7, <1>9, <4>2
      <4> QED BY <1>3, <4>1, <4>3
    <3>3. CASE i - c \in 1..d /\ j - c \in 1..d
      <4>1. PICK x, y : x = i - c /\ y = j - c
        OBVIOUS
      <4>2. x \in 1..d /\ y \in 1..d /\ x < y /\ i = c + x /\ j = c + y
        BY <1>6, <2>2, <3>3, <4>1
      <4>3. f[i] = p + Nth(B, x) /\ f[j] = p + Nth(B, y) /\ Nth(B, x) < Nth(B, y)
        BY <1>7, <1>9, <4>2
      <4>4. Nth(B, x) \in Int /\ Nth(B, y) \in Int
        <5>1. Nth(B, x) \in B /\ Nth(B, y) \in B
          BY <1>7, <4>2
        <5>2. \A v \in B : v \in Int
          BY <1>4
        <5> QED BY <5>1, <5>2
      <4> QED BY <1>3, <4>3, <4>4
    <3>4. j \in 1..c \/ (i \in 1..c /\ j - c \in 1..d) \/ (i - c \in 1..d /\ j - c \in 1..d)
      BY <1>6, <1>7
    <3> QED BY <3>1, <3>2, <3>3, <3>4
  <2>3. ASSUME NEW k \in K PROVE \E j \in 1..(c + d) : f[j] = k
    <3>1. CASE k \in A
      <4>1. RankIn(A, k) \in 1..c /\ f[RankIn(A, k)] = k
        BY <1>6, <1>9, <3>1
      <4> QED BY <1>9, <4>1
    <3>2. CASE k - p \in B /\ k = p + (k - p)
      <4>1. RankIn(B, k - p) \in 1..d /\ Nth(B, RankIn(B, k - p)) = k - p
        BY <1>7, <3>2
      <4>2. f[c + RankIn(B, k - p)] = k
        BY <1>9, <3>2, <4>1
      <4> QED BY <1>9, <4>1, <4>2
    <3> QED BY <1>10, <3>1, <3>2
  <2> QED BY <2>1, <2>2, <2>3 DEF Counts
<1>12. Cardinality(K) = c + d /\ \A j \in 1..(c + d) : Nth(K, j) = f[j]
  <2>1. c + d \in Nat /\ IndicesTo(Len(q), K)
    BY <1>3, <1>4, <1>6, <1>7 DEF IndicesTo
  <2>2. Cardinality(K) = c + d
    BY <1>11, <2>1, CountsAll
  <2>3. ASSUME NEW j \in 1..(c + d) PROVE Nth(K, j) = f[j]
    BY <1>11, <2>1, CountsNth, Zenon
  <2> QED BY <2>2, <2>3
<1>13. PICK x, y : x = Keep(a, A) /\ y = Keep(b, B)
  OBVIOUS
<1>14. x \in Seq(S) /\ Len(x) = c /\ \A j \in 1..c : x[j] = a[Nth(A, j)]
  BY <1>2, <1>4, <1>5, <1>13, Kept
<1>15. y \in Seq(S) /\ Len(y) = d /\ \A j \in 1..d : y[j] = b[Nth(B, j)]
  BY <1>4, <1>5, <1>13, Kept
<1>16. x \o y = [j \in 1..(c + d) |-> IF j <= c THEN x[j] ELSE y[j - c]]
  <2>1. /\ x \o y \in Seq(S) /\ Len(x \o y) = Len(x) + Len(y)
        /\ \A j \in 1..(Len(x) + Len(y)) : (x \o y)[j] = IF j <= Len(x) THEN x[j] ELSE y[j - Len(x)]
    BY <1>14, <1>15, ConcatProperties
  <2>2. PICK z : z = x \o y
    OBVIOUS
  <2>3. z = [j \in 1..Len(z) |-> z[j]]
    <3>1. z \in Seq(S)
      BY <2>1, <2>2
    <3> QED BY <3>1
  <2>4. Len(z) = c + d /\ \A j \in 1..(c + d) : z[j] = IF j <= c THEN x[j] ELSE y[j - c]
    BY <1>14, <1>15, <2>1, <2>2
  <2> QED BY <2>2, <2>3, <2>4
<1>17. Keep(q, K) = [j \in 1..(c + d) |-> q[Nth(K, j)]]
  BY <1>12 DEF Keep
<1>18. ASSUME NEW j \in 1..(c + d)
       PROVE  q[Nth(K, j)] = IF j <= c THEN x[j] ELSE y[j - c]
  <2>1. CASE j \in 1..c
    <3>1. Nth(K, j) = Nth(A, j) /\ Nth(A, j) \in 1..p
      BY <1>4, <1>6, <1>9, <1>12, <2>1
    <3> QED BY <1>3, <1>14, <2>1, <3>1
  <2>2. CASE ~(j \in 1..c)
    <3>1. j - c \in 1..d /\ j = c + (j - c) /\ ~(j <= c)
      BY <1>6, <1>9, <2>2
    <3>2. Nth(K, j) = p + Nth(B, j - c) /\ Nth(B, j - c) \in 1..Len(b)
      BY <1>4, <1>7, <1>9, <1>12, <3>1
    <3> QED BY <1>3, <1>15, <3>1, <3>2
  <2> QED BY <2>1, <2>2
<1>19. Keep(q, K) = x \o y
  BY <1>16, <1>17, <1>18
<1> QED BY <1>1, <1>13, <1>19 DEF Only
=============================================================================
