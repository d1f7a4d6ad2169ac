--------------------------- MODULE SelectionProofs ---------------------------
(***************************************************************************)
(* What the selection of some places of a sequence consists of.            *)
(***************************************************************************)
EXTENDS Selection, SequenceTheorems, FiniteSetTheorems, TLAPS

\* The ranks of the places are a numbering of them.
LEMMA RanksAreANumbering ==
    ASSUME NEW K \in SUBSET Nat, IsFiniteSet(K)
    PROVE  [i \in K |-> Rank(K, i)] \in Bijection(K, 1 .. Cardinality(K))
<1> DEFINE below(i) == {j \in K : j <= i}
           rank == [i \in K |-> Rank(K, i)]
           n == Cardinality(K)
<1>1. n \in Nat BY FS_CardinalityType
<1>2. ASSUME NEW i \in K
      PROVE  IsFiniteSet(below(i)) /\ Rank(K, i) = Cardinality(below(i)) /\ Rank(K, i) \in 1 .. n
    <2>1. PICK B : B = below(i) OBVIOUS
    <2>2. B \in SUBSET K /\ i \in B BY <2>1
    <2>3. IsFiniteSet(B) /\ Cardinality(B) <= n BY <2>2, FS_Subset
    <2>4. Cardinality(B) \in Nat /\ Cardinality(B) # 0 BY <2>2, <2>3, FS_CardinalityType, FS_EmptySet
    <2>5. Rank(K, i) = Cardinality(B) BY <2>1 DEF Rank
    <2> QED BY <1>1, <2>1, <2>3, <2>4, <2>5
<1>3. ASSUME NEW i \in K, NEW k \in K, i < k PROVE Rank(K, i) # Rank(K, k)
    <2>1. PICK B : B = below(k) OBVIOUS
    <2>2. PICK A : A = below(i) OBVIOUS
    <2>3. \A j \in K : (j <= i => j <= k) /\ k <= k /\ ~(k <= i)
        BY ONLY K \in SUBSET Nat, i \in K, k \in K, <1>3
    <2>4. A \in SUBSET B /\ k \in B /\ k \notin A BY <2>1, <2>2, <2>3
    <2>5. IsFiniteSet(B) BY <1>2, <2>1
    <2>6. Cardinality(A) # Cardinality(B) BY <2>4, <2>5, FS_Subset
    <2>7. Rank(K, i) = Cardinality(A) /\ Rank(K, k) = Cardinality(B) BY <1>2, <2>1, <2>2
    <2> QED BY <2>6, <2>7
<1>4. ASSUME NEW i \in K, NEW k \in K, rank[i] = rank[k] PROVE i = k
    <2>1. i \in Nat /\ k \in Nat /\ Rank(K, i) = Rank(K, k) BY <1>4
    <2> QED BY <1>3, <2>1
<1>5. rank \in [K -> 1 .. n] BY <1>2
<1>6. IsFiniteSet(1 .. n) /\ Cardinality(1 .. n) = n BY <1>1, FS_Interval
<1> HIDE DEF rank, n
<1>7. rank \in Injection(K, 1 .. n) BY <1>4, <1>5 DEF Injection, IsInjective
<1>8. Cardinality(K) = Cardinality(1 .. n) BY <1>6 DEF n
<1>9. rank \in Surjection(K, 1 .. n) BY <1>6, <1>7, <1>8, FS_Injection
<1> QED BY <1>7, <1>9 DEF Bijection, rank, n

\* An entry of the selection is the one of its rank.
LEMMA EntryOfRank ==
    ASSUME NEW K \in SUBSET Nat, IsFiniteSet(K), NEW s, NEW w, w = Selected(s, K)
    PROVE  /\ \A i \in K : Rank(K, i) \in 1 .. Cardinality(K) /\ w[Rank(K, i)] = s[i]
           /\ \A k \in 1 .. Cardinality(K) : \E i \in K : Rank(K, i) = k /\ w[k] = s[i]
           /\ \A i, j \in K : Rank(K, i) = Rank(K, j) => i = j
<1> DEFINE rank == [i \in K |-> Rank(K, i)]
           n == Cardinality(K)
<1>1. rank \in Bijection(K, 1 .. n) BY RanksAreANumbering
<1> HIDE DEF rank
<1>2. /\ rank \in [K -> 1 .. n] /\ \A i, j \in K : rank[i] = rank[j] => i = j
      /\ \A k \in 1 .. n : \E i \in K : rank[i] = k
    <2>1. rank \in Injection(K, 1 .. n) /\ rank \in Surjection(K, 1 .. n)
        BY <1>1 DEF Bijection
    <2>2. rank \in [K -> 1 .. n] BY <2>1 DEF Injection
    <2>3. DOMAIN rank = K BY <2>2
    <2> QED BY <2>1, <2>2, <2>3 DEF Injection, IsInjective, Surjection
<1>3. \A i \in K : rank[i] = Rank(K, i) BY DEF rank
<1>4. ASSUME NEW k \in 1 .. n, NEW i \in K, Rank(K, i) = k PROVE w[k] = s[i]
    <2> DEFINE c == CHOOSE j \in K : Rank(K, j) = k
    <2>1. c \in K /\ Rank(K, c) = k BY <1>4
    <2>2. w[k] = s[c] BY DEF Selected
    <2> HIDE DEF c
    <2>3. c = i BY <1>2, <1>3, <1>4, <2>1
    <2> QED BY <2>2, <2>3
<1> QED BY <1>2, <1>3, <1>4

\* The selection is a sequence of the same elements, and no longer.
LEMMA SelectedIsSequence ==
    ASSUME NEW S, NEW s \in Seq(S), NEW K \in SUBSET DOMAIN s
    PROVE  /\ Selected(s, K) \in Seq(S)
           /\ Len(Selected(s, K)) = Cardinality(K) /\ Len(Selected(s, K)) <= Len(s)
           /\ IsFiniteSet(K) /\ K \subseteq Nat
<1>1. Len(s) \in Nat /\ DOMAIN s = 1 .. Len(s) BY LenProperties
<1>2. IsFiniteSet(1 .. Len(s)) /\ Cardinality(1 .. Len(s)) = Len(s)
    <2>1. 1 \in Int /\ Len(s) \in Int /\ (1 > Len(s) => Len(s) = 0) BY <1>1
    <2>2. /\ IsFiniteSet(1 .. Len(s))
          /\ Cardinality(1 .. Len(s)) = IF 1 > Len(s) THEN 0 ELSE Len(s) - 1 + 1
        BY <2>1, FS_Interval
    <2> QED BY <1>1, <2>1, <2>2
<1>3. K \in SUBSET (1 .. Len(s)) BY <1>1
<1>4. IsFiniteSet(K) /\ Cardinality(K) <= Len(s) BY <1>2, <1>3, FS_Subset
<1>5. K \in SUBSET Nat BY <1>1, <1>3
<1>6. Cardinality(K) \in Nat BY <1>4, FS_CardinalityType
<1>7. PICK w : w = Selected(s, K) OBVIOUS
<1>8. \A k \in 1 .. Cardinality(K) : \E i \in K : w[k] = s[i] BY <1>4, <1>5, <1>7, EntryOfRank
<1>9. \A k \in 1 .. Cardinality(K) : w[k] \in S BY <1>1, <1>3, <1>8, ElementOfSeq
<1>10. w \in [1 .. Cardinality(K) -> S] BY <1>7, <1>9 DEF Selected
<1>11. w \in Seq(S) /\ Len(w) = Cardinality(K) BY <1>6, <1>10, IsASeq, LenProperties
<1> QED BY <1>4, <1>5, <1>7, <1>11
=============================================================================
