---------------------------- MODULE ListsProofs ----------------------------
(***************************************************************************)
(* Facts about numbers, counts, sums and sorted lists that the proofs of   *)
(* the components rest on.                                                 *)
(***************************************************************************)
EXTENDS Lists, SequencesExt, FiniteSetTheorems, WellFoundedInduction, TLAPS

-----------------------------------------------------------------------------
(* Induction, of a set of numbers.                                          *)

LEMMA LeastNumber ==
  ASSUME NEW T \in SUBSET Nat, T # {}
  PROVE  \E x \in T : \A y \in T : x <= y
<1> DEFINE R == OpToRel(<, Nat)
<1>1. IsWellFoundedOn(R, Nat)
  BY NatLessThanWellFounded
<1>2. \A x, y \in T : <<y, x>> \in R <=> y < x
  BY DEF OpToRel
<1> HIDE DEF R
<1>3. T \subseteq Nat
  OBVIOUS
<1>4. PICK x \in T : \A y \in T : ~ (<<y, x>> \in R)
  BY <1>1, <1>3, WFMin
<1>5. \A y \in T : ~ (y < x)
  BY <1>2, <1>4
<1>6. QED
  BY <1>5

LEMMA SetInduction ==
  ASSUME NEW T, 0 \in T, \A n \in Nat : n \in T => n + 1 \in T
  PROVE  Nat \subseteq T
<1> SUFFICES ASSUME Nat \ T # {} PROVE FALSE
  OBVIOUS
<1>1. PICK x \in Nat \ T : \A y \in Nat \ T : x <= y
  BY LeastNumber
<1>2. x # 0 /\ x - 1 \in Nat
  OBVIOUS
<1>3. x - 1 \in T
  BY <1>1, <1>2
<1>4. x - 1 + 1 = x
  OBVIOUS
<1>5. QED
  BY <1>1, <1>2, <1>3, <1>4

-----------------------------------------------------------------------------
(* Sums.  The partial sums are one function, and adding one more number     *)
(* adds it to the sum.                                                      *)
IsUpto(r, s, n) == r = [k \in 0 .. n |-> IF k = 0 THEN 0 ELSE r[k - 1] + s[k]]

LEMMA UptoExists ==
  ASSUME NEW n \in Nat, NEW s
  PROVE  \E r : IsUpto(r, s, n)
<1> DEFINE T == {m \in Nat : \E r : IsUpto(r, s, m)}
<1>1. 0 \in T
  <2> DEFINE r == [k \in 0 .. 0 |-> 0]
  <2>1. IsUpto(r, s, 0)
    BY DEF IsUpto
  <2>2. QED
    BY <2>1
<1>2. ASSUME NEW m \in Nat, m \in T PROVE m + 1 \in T
  <2>1. PICK r : IsUpto(r, s, m)
    BY <1>2
  <2> DEFINE q == [k \in 0 .. m + 1 |-> IF k = m + 1 THEN r[m] + s[m + 1] ELSE r[k]]
  <2>2. ASSUME NEW k \in 0 .. m + 1 PROVE q[k] = IF k = 0 THEN 0 ELSE q[k - 1] + s[k]
    <3>1. k # 0 => k - 1 \in 0 .. m
      OBVIOUS
    <3>2. CASE k = m + 1
      BY <3>1, <3>2
    <3>3. CASE k # m + 1
      <4>1. k \in 0 .. m
        BY <3>3
      <4>2. r[k] = IF k = 0 THEN 0 ELSE r[k - 1] + s[k]
        BY <2>1, <4>1 DEF IsUpto
      <4>3. QED
        BY <3>1, <3>3, <4>1, <4>2
    <3>4. QED
      BY <3>2, <3>3
  <2>3. q = [k \in 0 .. m + 1 |-> IF k = 0 THEN 0 ELSE q[k - 1] + s[k]]
    <3>1. q = [k \in 0 .. m + 1 |-> q[k]]
      OBVIOUS
    <3> HIDE DEF q
    <3>2. QED
      BY <2>2, <3>1
  <2>4. IsUpto(q, s, m + 1)
    BY <2>3 DEF IsUpto
  <2>5. QED
    BY <2>4
<1>3. QED
  <2>1. Nat \subseteq T
    BY <1>1, <1>2, SetInduction
  <2>2. QED
    BY <2>1

(* Two lists that agree on 1 .. n have the same partial sums up to n.       *)
Agree(s, t, n) == \A k \in 1 .. n : s[k] = t[k] /\ s[k] \in Int

LEMMA UptoAgree ==
  ASSUME NEW n \in Nat, NEW m \in Nat, n <= m, NEW s, NEW t, Agree(s, t, n),
         NEW r, IsUpto(r, s, n), NEW q, IsUpto(q, t, m)
  PROVE  \A k \in 0 .. n : r[k] = q[k] /\ r[k] \in Int
<1> DEFINE T == {k \in Nat : k <= n => r[k] = q[k] /\ r[k] \in Int}
<1>1. 0 \in T
  BY DEF IsUpto
<1>2. ASSUME NEW k \in Nat, k \in T PROVE k + 1 \in T
  <2> SUFFICES ASSUME k + 1 <= n PROVE r[k + 1] = q[k + 1] /\ r[k + 1] \in Int
    OBVIOUS
  <2>1. k + 1 \in 0 .. n /\ k + 1 \in 0 .. m /\ k + 1 \in 1 .. n /\ k + 1 # 0 /\ k + 1 - 1 = k
    OBVIOUS
  <2>2. r[k + 1] = r[k] + s[k + 1]
    BY <2>1 DEF IsUpto
  <2>3. q[k + 1] = q[k] + t[k + 1]
    BY <2>1 DEF IsUpto
  <2>4. QED
    BY <1>2, <2>1, <2>2, <2>3 DEF Agree
<1>3. Nat \subseteq T
  BY <1>1, <1>2, SetInduction
<1>4. QED
  BY <1>3

IsNumbers(s, n) == n \in Nat /\ Len(s) = n /\ \A k \in 1 .. n : s[k] \in Int

LEMMA SumIsLast ==
  ASSUME NEW n, NEW s, IsNumbers(s, n)
  PROVE  \E r : IsUpto(r, s, n) /\ SumOf(s) = r[n] /\ r[n] \in Int
<1> DEFINE c == CHOOSE r : IsUpto(r, s, Len(s))
<1>1. n = Len(s) /\ n \in Nat /\ \A k \in 1 .. n : s[k] \in Int
  BY DEF IsNumbers
<1>2. IsUpto(c, s, Len(s))
  BY <1>1, UptoExists
<1>3. SumOf(s) = c[Len(s)]
  BY Zenon DEF SumOf, IsUpto
<1> HIDE DEF c
<1>4. c[n] \in Int
  <2>1. \A k \in 0 .. n : c[k] \in Int
    BY <1>1, <1>2, UptoAgree DEF Agree
  <2>2. QED
    BY <1>1, <2>1
<1>5. QED
  BY <1>1, <1>2, <1>3, <1>4

LEMMA SumEmpty == ASSUME NEW s, Len(s) = 0 PROVE SumOf(s) = 0
<1>1. IsNumbers(s, 0)
  BY DEF IsNumbers
<1>2. PICK r : IsUpto(r, s, 0) /\ SumOf(s) = r[0]
  BY <1>1, SumIsLast
<1>3. QED
  BY <1>2 DEF IsUpto

LEMMA SumInt == ASSUME NEW n, NEW s, IsNumbers(s, n) PROVE SumOf(s) \in Int
<1>1. PICK r : SumOf(s) = r[n] /\ r[n] \in Int
  BY SumIsLast
<1>2. QED
  BY <1>1

LEMMA SumAnother ==
  ASSUME NEW n \in Nat, NEW s, IsNumbers(s, n), NEW t, Len(t) = n + 1,
         \A k \in 1 .. n : t[k] = s[k], t[n + 1] \in Int
  PROVE  SumOf(t) = SumOf(s) + t[n + 1] /\ IsNumbers(t, n + 1)
<1>1. PICK r : IsUpto(r, s, n) /\ SumOf(s) = r[n]
  BY SumIsLast
<1>2. \A k \in 1 .. n : s[k] \in Int
  BY DEF IsNumbers
<1>3. IsNumbers(t, n + 1)
  <2>1. ASSUME NEW k \in 1 .. n + 1 PROVE t[k] \in Int
    <3>1. k = n + 1 \/ k \in 1 .. n
      OBVIOUS
    <3>2. QED
      BY <1>2, <3>1
  <2>2. QED
    BY <2>1 DEF IsNumbers
<1>4. PICK q : IsUpto(q, t, n + 1) /\ SumOf(t) = q[n + 1]
  BY <1>3, SumIsLast
<1>5. q[n + 1] = q[n] + t[n + 1]
  <2>1. n + 1 \in 0 .. n + 1 /\ n + 1 # 0 /\ n + 1 - 1 = n
    OBVIOUS
  <2>2. QED
    BY <1>4, <2>1 DEF IsUpto
<1>6. \A k \in 0 .. n : r[k] = q[k]
  <2>1. PICK m \in Nat : m = n + 1
    OBVIOUS
  <2>2. n <= m /\ IsUpto(q, t, m)
    BY <1>4, <2>1
  <2>3. Agree(s, t, n)
    BY <1>2 DEF Agree
  <2>4. QED
    BY <1>1, <2>2, <2>3, UptoAgree
<1>7. QED
  BY <1>1, <1>3, <1>4, <1>5, <1>6

-----------------------------------------------------------------------------
(* Counting.  In a list one longer, one more or as many are of a kind.      *)
LEMMA CountAnother ==
  ASSUME NEW n \in Nat, NEW S \in SUBSET (1 .. n), NEW T,
         T = S \/ T = S \cup {n + 1}
  PROVE  /\ IsFiniteSet(S) /\ Cardinality(S) \in Nat
         /\ Cardinality(T) = Cardinality(S) + (IF n + 1 \in T THEN 1 ELSE 0)
<1>1. IsFiniteSet(1 .. n)
  BY FS_Interval
<1>2. IsFiniteSet(S) /\ Cardinality(S) \in Nat
  BY <1>1, FS_Subset, FS_CardinalityType
<1>3. n + 1 \notin S
  OBVIOUS
<1>4. Cardinality(S \cup {n + 1}) = Cardinality(S) + 1
  BY <1>2, <1>3, FS_AddElement
<1>5. QED
  BY <1>2, <1>3, <1>4

-----------------------------------------------------------------------------
(* Ranks.  In a finite set in order, the elements have as many before them  *)
(* as 0, 1, 2 ...; so what is sorted by rank is a permutation, in order.    *)
Rank(R, D, i) == Cardinality({j \in D : <<j, i>> \in R})

IsOrder(R, D) ==
  /\ \A i \in D : <<i, i>> \notin R
  /\ \A i, j \in D : i = j \/ <<i, j>> \in R \/ <<j, i>> \in R
  /\ \A i, j, k \in D : <<i, j>> \in R /\ <<j, k>> \in R => <<i, k>> \in R

LEMMA RanksRise ==
  ASSUME NEW D, IsFiniteSet(D), NEW R, IsOrder(R, D)
  PROVE  /\ \A i \in D : Rank(R, D, i) \in Nat /\ Rank(R, D, i) < Cardinality(D)
         /\ \A i, j \in D : <<i, j>> \in R => Rank(R, D, i) < Rank(R, D, j)
<1> DEFINE Before(i) == {j \in D : <<j, i>> \in R}
<1>1. Cardinality(D) \in Nat
  BY FS_CardinalityType
<1>a. /\ \A i \in D : Before(i) \in SUBSET D /\ Rank(R, D, i) = Cardinality(Before(i))
      /\ \A i, j \in D : j \in Before(i) <=> <<j, i>> \in R
  BY DEF Rank
<1> HIDE DEF Before
<1>2. ASSUME NEW i \in D
      PROVE  /\ IsFiniteSet(Before(i)) /\ Cardinality(Before(i)) \in Nat
             /\ Cardinality(Before(i) \cup {i}) = Cardinality(Before(i)) + 1
  <2>1. IsFiniteSet(Before(i)) /\ Cardinality(Before(i)) \in Nat
    BY <1>a, FS_Subset, FS_CardinalityType
  <2>2. i \notin Before(i)
    BY <1>a DEF IsOrder
  <2>3. QED
    BY <2>1, <2>2, FS_AddElement
<1>3. ASSUME NEW i \in D PROVE Cardinality(Before(i)) < Cardinality(D)
  <2>1. Before(i) \cup {i} \in SUBSET D
    BY <1>a
  <2>2. Cardinality(Before(i) \cup {i}) <= Cardinality(D)
    BY <2>1, FS_Subset
  <2>3. QED
    BY <1>1, <1>2, <2>2
<1>4. ASSUME NEW i \in D, NEW j \in D, <<i, j>> \in R
      PROVE  Cardinality(Before(i)) < Cardinality(Before(j))
  <2>1. Before(i) \cup {i} \in SUBSET Before(j)
    <3>1. ASSUME NEW k \in Before(i) PROVE k \in Before(j)
      BY <1>4, <1>a DEF IsOrder
    <3>2. QED
      BY <1>4, <1>a, <3>1
  <2>2. Cardinality(Before(i) \cup {i}) <= Cardinality(Before(j))
    BY <1>2, <2>1, FS_Subset
  <2>3. /\ Cardinality(Before(i)) \in Nat /\ Cardinality(Before(j)) \in Nat
        /\ Cardinality(Before(i) \cup {i}) = Cardinality(Before(i)) + 1
    BY <1>2
  <2>4. QED
    BY <2>2, <2>3
<1>5. QED
  BY <1>2, <1>3, <1>4, <1>a

LEMMA EveryRank ==
  ASSUME NEW D, IsFiniteSet(D), NEW R, IsOrder(R, D), NEW k \in Nat, k < Cardinality(D)
  PROVE  \E i \in D : Rank(R, D, i) = k
<1> DEFINE c == Cardinality(D)
           f == [i \in D |-> Rank(R, D, i) + 1]
<1>1. c \in Nat
  BY FS_CardinalityType
<1>2. \A i \in D : Rank(R, D, i) \in Nat /\ Rank(R, D, i) < c
  BY RanksRise
<1>3. ASSUME NEW i \in D, NEW j \in D, Rank(R, D, i) = Rank(R, D, j) PROVE i = j
  <2>1. \A x, y \in D : <<x, y>> \in R => Rank(R, D, x) < Rank(R, D, y)
    BY RanksRise
  <2>2. \A x, y \in D : x = y \/ <<x, y>> \in R \/ <<y, x>> \in R
    BY DEF IsOrder
  <2>3. <<i, j>> \notin R /\ <<j, i>> \notin R
    BY <1>2, <1>3, <2>1
  <2>4. QED
    BY <2>2, <2>3
<1>4. IsFiniteSet(1 .. c) /\ Cardinality(1 .. c) = c
  BY <1>1, FS_Interval
<1>5. f \in Injection(D, 1 .. c)
  <2>1. ASSUME NEW i \in D PROVE Rank(R, D, i) + 1 \in 1 .. c
    BY <1>1, <1>2
  <2>2. f \in [D -> 1 .. c]
    BY <2>1
  <2>3. \A i, j \in D : f[i] = f[j] => i = j
    BY <1>2, <1>3
  <2>4. QED
    BY <2>2, <2>3 DEF Injection, IsInjective
<1>6. f \in Surjection(D, 1 .. c)
  BY <1>4, <1>5, FS_Injection
<1>7. PICK i \in D : f[i] = k + 1
  <2>1. k + 1 \in 1 .. c
    BY <1>1
  <2>2. \A t \in 1 .. c : \E i \in D : f[i] = t
    BY <1>6 DEF Surjection
  <2>3. QED
    BY <2>1, <2>2
<1>8. QED
  BY <1>2, <1>7

(* The number with n - 1 others before it.                                  *)
LEMMA NthMember ==
  ASSUME NEW S, \A i \in S : i \in Int, IsFiniteSet(S)
  PROVE  /\ \A n \in 1 .. Cardinality(S) : Nth(S, n) \in S
         /\ \A m, n \in 1 .. Cardinality(S) : Nth(S, m) = Nth(S, n) => m = n
<1> DEFINE R == {p \in S \X S : p[1] < p[2]}
<1>1. \A i, j \in S : <<i, j>> \in R <=> i < j
  OBVIOUS
<1>2. IsOrder(R, S)
  BY <1>1 DEF IsOrder
<1>3. Cardinality(S) \in Nat
  BY FS_CardinalityType
<1>4. \A i \in S : Rank(R, S, i) = Cardinality({j \in S : j < i})
  <2>1. ASSUME NEW i \in S PROVE {j \in S : <<j, i>> \in R} = {j \in S : j < i}
    BY <1>1
  <2> HIDE DEF R
  <2>2. QED
    BY <2>1 DEF Rank
<1>5. ASSUME NEW n \in 1 .. Cardinality(S)
      PROVE  Nth(S, n) \in S /\ Cardinality({j \in S : j < Nth(S, n)}) = n - 1
  <2>1. PICK k \in Nat : k = n - 1 /\ k < Cardinality(S)
    BY <1>3
  <2> HIDE DEF R
  <2>2. \E i \in S : Rank(R, S, i) = k
    BY <1>2, <2>1, EveryRank
  <2>3. \E i \in S : Cardinality({j \in S : j < i}) = n - 1
    BY <1>4, <2>1, <2>2
  <2>4. QED
    BY <2>3 DEF Nth
<1>6. \A m, n \in 1 .. Cardinality(S) : Nth(S, m) = Nth(S, n) => m - 1 = n - 1
  BY <1>5
<1>7. \A m, n \in 1 .. Cardinality(S) : m - 1 = n - 1 => m = n
  BY <1>3
<1>8. QED
  BY <1>5, <1>6, <1>7

(* What a stable sort puts in front of the i-th by its key: those with a    *)
(* smaller key, and those with an equal one that were in front before.      *)
InFront(t, n, i) == {j \in 1 .. n : t[j] < t[i] \/ (~(t[i] < t[j]) /\ j < i)}

Ranks(R, t, n) ==
  /\ IsOrder(R, 1 .. n)
  /\ \A i \in 1 .. n : Rank(R, 1 .. n, i) = Cardinality(InFront(t, n, i))
  /\ \A i, j \in 1 .. n : t[j] < t[i] => <<j, i>> \in R

LEMMA InFrontRanks ==
  ASSUME NEW n \in Nat, NEW t \in [1 .. n -> Int]
  PROVE  \E R : Ranks(R, t, n)
<1> DEFINE D == 1 .. n
           Ahead(i, j) == t[i] < t[j] \/ (~(t[j] < t[i]) /\ i < j)
           R == {p \in D \X D : Ahead(p[1], p[2])}
<1>1. \A i, j \in D : <<i, j>> \in R <=> Ahead(i, j)
  OBVIOUS
<1>2. IsOrder(R, D)
  <2>1. \A i \in D : t[i] \in Int
    OBVIOUS
  <2>2. \A i \in D : ~Ahead(i, i)
    BY <2>1
  <2>3. \A i, j \in D : i = j \/ Ahead(i, j) \/ Ahead(j, i)
    BY <2>1
  <2>4. \A i, j, k \in D : Ahead(i, j) /\ Ahead(j, k) => Ahead(i, k)
    BY <2>1
  <2> HIDE DEF Ahead, R
  <2>5. QED
    BY <1>1, <2>2, <2>3, <2>4 DEF IsOrder
<1>3. \A i \in D : Rank(R, D, i) = Cardinality(InFront(t, n, i))
  <2>1. ASSUME NEW i \in D PROVE {j \in D : <<j, i>> \in R} = InFront(t, n, i)
    BY <1>1 DEF InFront
  <2> HIDE DEF R
  <2>2. QED
    BY <2>1 DEF Rank
<1>4. \A i, j \in D : t[j] < t[i] => <<j, i>> \in R
  BY <1>1
<1> HIDE DEF R
<1>5. Ranks(R, t, n)
  BY <1>2, <1>3, <1>4 DEF Ranks
<1>6. QED
  BY <1>5

LEMMA EveryPlace ==
  ASSUME NEW n \in Nat, NEW t \in [1 .. n -> Int]
  PROVE  /\ \A k \in 1 .. n : \E i \in 1 .. n : Cardinality(InFront(t, n, i)) = k - 1
         /\ \A i, j \in 1 .. n :
              Cardinality(InFront(t, n, i)) <= Cardinality(InFront(t, n, j)) => t[i] <= t[j]
<1>1. PICK R : Ranks(R, t, n)
  BY InFrontRanks
<1> DEFINE D == 1 .. n
<1>2. IsFiniteSet(D) /\ Cardinality(D) = n
  BY FS_Interval
<1>3. /\ IsOrder(R, D) /\ \A i \in D : Rank(R, D, i) = Cardinality(InFront(t, n, i))
      /\ \A i, j \in D : t[j] < t[i] => <<j, i>> \in R
  BY <1>1 DEF Ranks
<1>4. \A i \in D : t[i] \in Int
  OBVIOUS
<1> HIDE DEF D
<1>5. ASSUME NEW k \in D PROVE \E i \in D : Cardinality(InFront(t, n, i)) = k - 1
  <2>1. k - 1 \in Nat /\ k - 1 < n
    BY <1>5 DEF D
  <2>2. \E i \in D : Rank(R, D, i) = k - 1
    BY <1>2, <1>3, <2>1, EveryRank
  <2>3. QED
    BY <1>3, <2>2
<1>6. ASSUME NEW i \in D, NEW j \in D,
             Cardinality(InFront(t, n, i)) <= Cardinality(InFront(t, n, j))
      PROVE  t[i] <= t[j]
  <2>1. \A x, y \in D : <<x, y>> \in R => Rank(R, D, x) < Rank(R, D, y)
    BY <1>2, <1>3, RanksRise
  <2>2. \A x \in D : Rank(R, D, x) \in Nat
    BY <1>2, <1>3, RanksRise
  <2>3. <<j, i>> \notin R
    BY <1>3, <1>6, <2>1, <2>2
  <2>4. QED
    BY <1>3, <1>4, <2>3
<1>7. QED
  BY <1>5, <1>6 DEF D

(* Everything has a place, and no other has it.                             *)
LEMMA OwnPlace ==
  ASSUME NEW n \in Nat, NEW t \in [1 .. n -> Int]
  PROVE  /\ \A i \in 1 .. n : \E k \in 1 .. n : Cardinality(InFront(t, n, i)) = k - 1
         /\ \A i, j \in 1 .. n :
              Cardinality(InFront(t, n, i)) = Cardinality(InFront(t, n, j)) => i = j
<1>1. PICK R : Ranks(R, t, n)
  BY InFrontRanks
<1> DEFINE D == 1 .. n
<1>2. IsFiniteSet(D) /\ Cardinality(D) = n
  BY FS_Interval
<1>3. IsOrder(R, D) /\ \A i \in D : Rank(R, D, i) = Cardinality(InFront(t, n, i))
  BY <1>1 DEF Ranks
<1> HIDE DEF D
<1>4. /\ \A i \in D : Rank(R, D, i) \in Nat /\ Rank(R, D, i) < n
      /\ \A i, j \in D : <<i, j>> \in R => Rank(R, D, i) < Rank(R, D, j)
  BY <1>2, <1>3, RanksRise
<1>5. ASSUME NEW i \in D PROVE \E k \in D : Cardinality(InFront(t, n, i)) = k - 1
  <2>1. PICK c \in Nat : c = Cardinality(InFront(t, n, i)) /\ c < n
    BY <1>3, <1>4
  <2>2. c + 1 \in D /\ c = (c + 1) - 1
    BY <2>1 DEF D
  <2>3. QED
    BY <2>1, <2>2
<1>6. ASSUME NEW i \in D, NEW j \in D,
             Cardinality(InFront(t, n, i)) = Cardinality(InFront(t, n, j))
      PROVE  i = j
  <2>1. i = j \/ <<i, j>> \in R \/ <<j, i>> \in R
    BY <1>3 DEF IsOrder
  <2>2. Rank(R, D, i) = Rank(R, D, j) /\ Rank(R, D, i) \in Nat
    BY <1>3, <1>4, <1>6
  <2>3. <<i, j>> \notin R /\ <<j, i>> \notin R
    BY <1>4, <2>2
  <2>4. QED
    BY <2>1, <2>3
<1>7. QED
  BY <1>5, <1>6 DEF D

(* A list of numbers in ascending order.                                    *)
LEMMA SortedNumbers ==
  ASSUME NEW n \in Nat, NEW s \in [1 .. n -> Int]
  PROVE  /\ DOMAIN Sorted(s, <) = 1 .. n
         /\ \A k \in 1 .. n : Sorted(s, <)[k] \in {s[i] : i \in 1 .. n}
         /\ \A k, l \in 1 .. n : k <= l => Sorted(s, <)[k] <= Sorted(s, <)[l]
<1> DEFINE At(k) == CHOOSE i \in 1 .. n : Cardinality(InFront(s, n, i)) = k - 1
<1>1. Sorted(s, <) = [k \in 1 .. n |-> s[At(k)]]
  <2>1. DOMAIN s = 1 .. n
    OBVIOUS
  <2>2. QED
    BY <2>1 DEF Sorted, InFront
<1>2. ASSUME NEW k \in 1 .. n PROVE At(k) \in 1 .. n /\ Cardinality(InFront(s, n, At(k))) = k - 1
  <2>1. \E i \in 1 .. n : Cardinality(InFront(s, n, i)) = k - 1
    BY EveryPlace
  <2>2. QED
    BY <2>1
<1> HIDE DEF At
<1>3. ASSUME NEW k \in 1 .. n, NEW l \in 1 .. n, k <= l PROVE s[At(k)] <= s[At(l)]
  <2>1. \A i, j \in 1 .. n :
          Cardinality(InFront(s, n, i)) <= Cardinality(InFront(s, n, j)) => s[i] <= s[j]
    BY EveryPlace
  <2>2. PICK x \in 1 .. n : x = At(k) /\ Cardinality(InFront(s, n, x)) = k - 1
    BY <1>2
  <2>3. PICK y \in 1 .. n : y = At(l) /\ Cardinality(InFront(s, n, y)) = l - 1
    BY <1>2
  <2>4. k - 1 <= l - 1
    BY <1>3
  <2>5. s[x] <= s[y]
    BY <2>1, <2>2, <2>3, <2>4
  <2>6. QED
    BY <2>2, <2>3, <2>5
<1>4. QED
  BY <1>1, <1>2, <1>3
=============================================================================
