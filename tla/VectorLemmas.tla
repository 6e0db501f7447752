---------------------------- MODULE VectorLemmas ----------------------------
(***************************************************************************)
(* What erase, the linear searches and the bounds of the modules rest on:  *)
(* facts about sequences and sets of numbers that no library module has.   *)
(***************************************************************************)
EXTENDS SequencesExt, SequenceTheorems, FiniteSetTheorems, WellFoundedInduction, TLAPS

\* Erasing one element of a vector keeps the others in their order.
LEMMA RemoveAtProperties ==
  ASSUME NEW S, NEW s \in Seq(S), NEW i \in 1..Len(s)
  PROVE  /\ RemoveAt(s, i) \in Seq(S)
         /\ Len(RemoveAt(s, i)) = Len(s) - 1
         /\ \A j \in 1..(Len(s) - 1) :
              RemoveAt(s, i)[j] = IF j < i THEN s[j] ELSE s[j + 1]
<1> DEFINE before == SubSeq(s, 1, i - 1)
           after  == SubSeq(s, i + 1, Len(s))
<1>1. Len(s) \in Nat /\ i \in Int /\ 1 <= i /\ i <= Len(s)
  BY LenProperties
<1>2. /\ before \in Seq(S)
      /\ Len(before) = i - 1
      /\ \A j \in 1..(i - 1) : before[j] = s[j]
  BY SubSeqProperties
<1>3. /\ after \in Seq(S)
      /\ Len(after) = Len(s) - i
      /\ \A j \in 1..(Len(s) - i) : after[j] = s[i + j]
  BY SubSeqProperties
<1>4. RemoveAt(s, i) = before \o after
  BY DEF RemoveAt
<1> HIDE DEF before, after
<1>5. /\ before \o after \in Seq(S)
      /\ Len(before \o after) = Len(before) + Len(after)
      /\ \A j \in 1..(Len(before) + Len(after)) :
           (before \o after)[j] = IF j <= Len(before) THEN before[j] ELSE after[j - Len(before)]
  BY <1>2, <1>3, ConcatProperties
<1>6. Len(before) + Len(after) = Len(s) - 1
  BY <1>1, <1>2, <1>3
<1>7. ASSUME NEW j \in 1..(Len(s) - 1)
      PROVE  (before \o after)[j] = IF j < i THEN s[j] ELSE s[j + 1]
  <2>1. (before \o after)[j] = IF j <= i - 1 THEN before[j] ELSE after[j - (i - 1)]
    BY <1>2, <1>5, <1>6
  <2>2. CASE j < i
    BY <1>1, <1>2, <2>1, <2>2
  <2>3. CASE ~(j < i)
    <3>1. j - (i - 1) \in 1..(Len(s) - i) /\ ~(j <= i - 1) /\ i + (j - (i - 1)) = j + 1
      BY <1>1, <2>3
    <3> QED
      BY <1>3, <2>1, <2>3, <3>1
  <2> QED
    BY <2>2, <2>3
<1>8. Len(before \o after) = Len(s) - 1
  BY <1>5, <1>6
<1> QED
  BY <1>4, <1>5, <1>7, <1>8

\* A part of a vector, from its m-th element to its n-th.
LEMMA SliceProperties ==
  ASSUME NEW S, NEW s \in Seq(S), NEW m \in Nat \ {0}, NEW n \in Int, n <= Len(s)
  PROVE  /\ SubSeq(s, m, n) \in Seq(S)
         /\ Len(SubSeq(s, m, n)) = IF m <= n THEN n - m + 1 ELSE 0
         /\ \A i \in 1..(n - m + 1) : SubSeq(s, m, n)[i] = s[m + i - 1]
<1>1. \A i \in m..n : s[i] \in S
  BY LenProperties, ElementOfSeq
<1> QED
  BY <1>1, SubSeqProperties

\* The first hit of a search is well defined: a set of positions has a least
\* member.
LEMMA MinProperties ==
  ASSUME NEW S \in SUBSET Nat, S # {}
  PROVE  Min(S) \in S /\ \A y \in S : Min(S) <= y
<1>1. PICK x \in S : \A y \in S : ~(<<y, x>> \in OpToRel(<, Nat))
  BY NatLessThanWellFounded, WFMin
<1>2. ASSUME NEW y \in S PROVE x <= y
  <2>1. <<y, x>> \in Nat \X Nat
    OBVIOUS
  <2>2. ~(y < x)
    BY <1>1, <2>1 DEF OpToRel
  <2> QED
    BY <2>1, <2>2
<1> QED
  BY <1>2 DEF Min

\* The smaller of two numbers, where substr stops.
LEMMA MinOfTwo ==
  ASSUME NEW a \in Nat, NEW b \in Nat
  PROVE  Min({a, b}) = IF a <= b THEN a ELSE b
<1>1. Min({a, b}) \in {a, b} /\ \A y \in {a, b} : Min({a, b}) <= y
  BY MinProperties
<1> QED
  BY <1>1

-----------------------------------------------------------------------------
(* Powers of two, the capacities a vector that doubles goes through.        *)

\* The sets of numbers up to n + 1 are those up to n, without and with n + 1.
LEMMA PowerOfTwo ==
  ASSUME NEW n \in Nat
  PROVE  2^n \in Nat /\ 2^(n + 1) = 2 * 2^n
<1> DEFINE without == SUBSET (1..n)
           Plus(B) == B \cup {n + 1}
           with    == {Plus(B) : B \in without}
<1>1. /\ IsFiniteSet(1..n) /\ Cardinality(1..n) = n
      /\ IsFiniteSet(1..(n + 1)) /\ Cardinality(1..(n + 1)) = n + 1
  BY FS_Interval
<1>2. IsFiniteSet(without) /\ Cardinality(without) = 2^n
  BY <1>1, FS_SUBSET
<1>3. Cardinality(SUBSET (1..(n + 1))) = 2^(n + 1)
  BY <1>1, FS_SUBSET
<1>4. \A B \in without : n + 1 \notin B
  OBVIOUS
<1>5. \A B \in SUBSET (1..(n + 1)) : B \in without \/ (B \ {n + 1} \in without /\ B = Plus(B \ {n + 1}))
  <2> SUFFICES ASSUME NEW B \in SUBSET (1..(n + 1)), B \notin without
               PROVE  B \ {n + 1} \in without /\ B = Plus(B \ {n + 1})
    OBVIOUS
  <2>1. \A i \in 1..(n + 1) : i \in 1..n \/ i = n + 1
    OBVIOUS
  <2> QED
    BY <2>1
<1>6. SUBSET (1..(n + 1)) = without \cup with
  <2>1. \A B \in without : B \in SUBSET (1..(n + 1)) /\ Plus(B) \in SUBSET (1..(n + 1))
    OBVIOUS
  <2>2. ASSUME NEW B \in without \cup with PROVE B \in SUBSET (1..(n + 1))
    <3>1. CASE B \in without
      BY <2>1, <3>1
    <3>2. CASE B \in with
      <4>1. PICK C \in without : B = Plus(C)
        BY <3>2
      <4> QED
        BY <2>1, <4>1
    <3> QED
      BY <2>2, <3>1, <3>2
  <2>3. ASSUME NEW B \in SUBSET (1..(n + 1)) PROVE B \in without \cup with
    <3>1. CASE B \in without
      BY <3>1
    <3>2. CASE B \notin without
      <4>1. B \ {n + 1} \in without /\ B = Plus(B \ {n + 1})
        BY <1>5, <3>2
      <4> QED
        BY <4>1
    <3> QED
      BY <3>1, <3>2
  <2> HIDE DEF without, with
  <2> QED
    BY <2>2, <2>3
<1>7. without \cap with = {}
  BY <1>4
<1>8. IsFiniteSet(with) /\ Cardinality(with) = Cardinality(without)
  <2> DEFINE f == [B \in without |-> Plus(B)]
  <2>1. f \in Bijection(without, with)
    <3>1. f \in [without -> with]
      OBVIOUS
    <3>2. ASSUME NEW B \in without, NEW C \in without, f[B] = f[C] PROVE B = C
      <4>1. Plus(B) = Plus(C) /\ n + 1 \notin B /\ n + 1 \notin C
        BY <1>4, <3>2
      <4> QED
        BY <4>1
    <3>3. \A s \in with : \E B \in without : f[B] = s
      OBVIOUS
    <3> QED
      BY <3>1, <3>2, <3>3 DEF Bijection, Injection, Surjection, IsInjective
  <2>2. ExistsBijection(without, with)
    BY <2>1 DEF ExistsBijection
  <2> HIDE DEF without, with
  <2> QED
    BY <1>2, <2>2, FS_Bijection
<1> HIDE DEF without, with
<1>9. /\ Cardinality(without \cup with) =
           Cardinality(without) + Cardinality(with) - Cardinality(without \cap with)
      /\ Cardinality({}) = 0
      /\ Cardinality(without) \in Nat
  BY <1>2, <1>8, FS_Union, FS_EmptySet, FS_CardinalityType
<1>10. 2^n \in Nat
  BY <1>2, <1>9
<1>11. 2^(n + 1) = Cardinality(without \cup with)
  BY <1>3, <1>6
<1>12. Cardinality(without \cup with) = 2^n + 2^n - 0
  BY <1>2, <1>7, <1>8, <1>9
<1>13. 2^(n + 1) = 2^n + 2^n - 0
  BY <1>11, <1>12
<1> QED
  BY <1>10, <1>13

\* Every number lies below its power.
LEMMA BelowItsPower ==
  ASSUME NEW n \in Nat
  PROVE  n < 2^n
<1> DEFINE wrong == {k \in Nat : ~(k < 2^k)}
<1> SUFFICES ASSUME wrong # {} PROVE FALSE
  OBVIOUS
<1>1. wrong \in SUBSET Nat
  OBVIOUS
<1> DEFINE k == Min(wrong)
<1>2. k \in wrong /\ \A y \in wrong : k <= y
  BY <1>1, MinProperties
<1> HIDE DEF k
<1>3. k # 0
  <2>1. 0 < 2^0
    OBVIOUS
  <2> QED
    BY <1>2, <2>1
<1>4. k - 1 \in Nat /\ k - 1 \notin wrong /\ (k - 1) + 1 = k
  BY <1>2, <1>3
<1>5. k - 1 < 2^(k - 1) /\ 2^(k - 1) \in Nat /\ 2^k = 2 * 2^(k - 1)
  BY <1>4, PowerOfTwo
<1> QED
  BY <1>2, <1>4, <1>5

\* Of two numbers the larger has the larger power.
LEMMA PowersGrow ==
  ASSUME NEW m \in Nat, NEW n \in Nat, m <= n
  PROVE  2^m <= 2^n
<1> DEFINE wrong == {k \in Nat : m <= k /\ ~(2^m <= 2^k)}
<1> SUFFICES ASSUME wrong # {} PROVE FALSE
  OBVIOUS
<1>1. wrong \in SUBSET Nat
  OBVIOUS
<1> DEFINE k == Min(wrong)
<1>2. k \in wrong /\ \A y \in wrong : k <= y
  BY <1>1, MinProperties
<1> HIDE DEF k
<1>3. 2^m \in Nat
  BY PowerOfTwo
<1>4. k # m
  BY <1>2, <1>3
<1>5. k - 1 \in Nat /\ k - 1 \notin wrong /\ (k - 1) + 1 = k /\ m <= k - 1
  BY <1>2, <1>4
<1>6. 2^m <= 2^(k - 1) /\ 2^(k - 1) \in Nat /\ 2^k = 2 * 2^(k - 1)
  BY <1>5, PowerOfTwo
<1> QED
  BY <1>2, <1>3, <1>5, <1>6
=============================================================================
