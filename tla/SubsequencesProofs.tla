------------------------- MODULE SubsequencesProofs -------------------------
(* Facts about Numbering and Kept, for every set of indices and sequence.   *)
(* Induction over a finite set is by a minimal counterexample.              *)
EXTENDS Subsequences, SequenceTheorems, FiniteSetTheorems, WellFoundedInduction, TLAPS

\* A non-empty family of finite sets has a member that contains no other one.
LEMMA MinimalSet ==
    ASSUME NEW F, F # {}, \A K \in F : IsFiniteSet(K)
    PROVE  \E K \in F : \A L \in F : L \subseteq K => L = K
<1>. DEFINE S == UNION F
<1>1. F \subseteq FiniteSubsetsOf(S)
  BY DEF FiniteSubsetsOf
<1>2. PICK K \in F : \A L \in F : ~(<<L, K>> \in StrictSubsetOrdering(S))
  BY <1>1, FS_StrictSubsetOrderingWellFounded, WFMin
<1>3. \A L \in F : L \subseteq K => L = K
  BY <1>2 DEF StrictSubsetOrdering
<1>. QED
  BY <1>3

\* A non-empty finite set of integers has a greatest element.
LEMMA GreatestElement ==
    ASSUME NEW K \in SUBSET Int, IsFiniteSet(K), K # {}
    PROVE  \E m \in K : \A k \in K : k <= m
<1>. DEFINE F == {L \in SUBSET K : L # {} /\ ~ \E m \in L : \A k \in L : k <= m}
<1>. SUFFICES ASSUME F # {} PROVE FALSE
  OBVIOUS
<1>1. \A L \in F : IsFiniteSet(L)
  BY FS_Subset
<1>3. PICK L \in F : \A M \in F : M \subseteq L => M = L
  <2>. HIDE DEF F
  <2>. QED  BY <1>1, MinimalSet
<1>4. PICK x \in L : TRUE
  BY <1>3
<1>5. L \ {x} # {}
  BY <1>3, <1>4
<1>6. L \ {x} \notin F
  BY <1>3, <1>4
<1>7. PICK m \in L \ {x} : \A k \in L \ {x} : k <= m
  BY <1>3, <1>5, <1>6
<1>8. L \subseteq Int /\ x \in Int /\ m \in Int
  BY <1>3, <1>4, <1>7
<1>9. \E y \in L : \A k \in L : k <= y
  BY <1>7, <1>8, <1>4
<1>. QED
  BY <1>3, <1>9

IsNumbering(f, K) ==
    /\ f \in [1..Cardinality(K) -> K]
    /\ \A i, j \in 1..Cardinality(K) : i < j => f[i] < f[j]
    /\ \A k \in K : \E i \in 1..Cardinality(K) : f[i] = k

\* Every finite set of integers has a numbering.
LEMMA NumberingExists ==
    ASSUME NEW K \in SUBSET Int, IsFiniteSet(K)
    PROVE  \E f : IsNumbering(f, K)
<1>. DEFINE F == {L \in SUBSET K : ~ \E f : IsNumbering(f, L)}
<1>. SUFFICES ASSUME F # {} PROVE FALSE
  OBVIOUS
<1>1. \A L \in F : IsFiniteSet(L)
  BY FS_Subset
<1>2. PICK L \in F : \A M \in F : M \subseteq L => M = L
  <2>. HIDE DEF F
  <2>. QED  BY <1>1, MinimalSet
<1>3. IsFiniteSet(L) /\ L \in SUBSET Int
  BY <1>1, <1>2
<1>4. L # {}
  <2>. SUFFICES ASSUME L = {} PROVE FALSE
    OBVIOUS
  <2>1. Cardinality(L) = 0
    BY FS_EmptySet
  <2>2. IsNumbering([i \in 1..0 |-> i], L)
    BY <2>1 DEF IsNumbering
  <2>. QED
    BY <2>2, <1>2
<1>5. PICK m \in L : \A k \in L : k <= m
  BY <1>3, <1>4, GreatestElement
<1>. DEFINE M == L \ {m}
            n == Cardinality(L)
<1>6. IsFiniteSet(M) /\ Cardinality(M) = n - 1 /\ n \in Nat
  BY <1>3, <1>5, FS_RemoveElement, FS_CardinalityType
<1>7. n >= 1
  BY <1>3, <1>4, <1>6, FS_EmptySet
<1>8. PICK g : IsNumbering(g, M)
  BY <1>2, <1>5
<1>. DEFINE f == [i \in 1..n |-> IF i = n THEN m ELSE g[i]]
<1>9. g \in [1..(n - 1) -> M] /\ \A i, j \in 1..(n - 1) : i < j => g[i] < g[j]
  BY <1>6, <1>8 DEF IsNumbering
<1>10. \A k \in M : \E i \in 1..(n - 1) : g[i] = k
  BY <1>6, <1>8 DEF IsNumbering
<1>. HIDE DEF n
<1>11. f \in [1..n -> L]
  BY <1>5, <1>6, <1>7, <1>9
<1>12. \A i, j \in 1..n : i < j => f[i] < f[j]
  <2>. SUFFICES ASSUME NEW i \in 1..n, NEW j \in 1..n, i < j PROVE f[i] < f[j]
    OBVIOUS
  <2>1. i \in 1..(n - 1) /\ f[i] = g[i] /\ g[i] \in M
    BY <1>6, <1>9
  <2>2. CASE j = n
    <3>1. f[j] = m /\ g[i] # m /\ g[i] \in L
      BY <2>1, <2>2
    <3>2. g[i] <= m /\ g[i] \in Int /\ m \in Int
      BY <3>1, <1>3, <1>5
    <3>3. g[i] < m
      <4>. HIDE DEF f
      <4>. QED  BY <3>1, <3>2
    <3>. QED
      BY <2>1, <3>1, <3>3
  <2>3. CASE j # n
    BY <2>1, <2>3, <1>6, <1>9
  <2>. QED
    BY <2>2, <2>3
<1>13. \A k \in L : \E i \in 1..n : f[i] = k
  <2>. SUFFICES ASSUME NEW k \in L PROVE \E i \in 1..n : f[i] = k
    OBVIOUS
  <2>1. CASE k = m
    BY <2>1, <1>6, <1>7
  <2>2. CASE k # m
    <3>1. PICK i \in 1..(n - 1) : g[i] = k
      BY <2>2, <1>10
    <3>2. i \in 1..n /\ f[i] = k
      BY <3>1, <1>6
    <3>. QED
      BY <3>2
  <2>. QED
    BY <2>1, <2>2
<1>14. IsNumbering(f, L)
  BY <1>11, <1>12, <1>13 DEF IsNumbering, n
<1>. QED
  BY <1>14, <1>2

\* Numbering(K) is one.
LEMMA NumberingWorks ==
    ASSUME NEW K \in SUBSET Int, IsFiniteSet(K)
    PROVE  IsNumbering(Numbering(K), K)
<1>1. \E f \in [1..Cardinality(K) -> K] :
        /\ \A i, j \in 1..Cardinality(K) : i < j => f[i] < f[j]
        /\ \A k \in K : \E i \in 1..Cardinality(K) : f[i] = k
  BY NumberingExists DEF IsNumbering
<1>. QED
  BY <1>1, Zenon DEF Numbering, IsNumbering

\* Kept(s, S) holds exactly the members of s in S; it holds none twice if s does
\* not; and a first member that stays remains the first.
LEMMA KeptProperties ==
    ASSUME NEW T, NEW s \in Seq(T), NEW S
    PROVE  /\ Kept(s, S) \in Seq(T \cap S)
           /\ ToSet(Kept(s, S)) = ToSet(s) \cap S
           /\ (\A i, j \in DOMAIN s : s[i] = s[j] => i = j)
                => \A i, j \in DOMAIN Kept(s, S) : Kept(s, S)[i] = Kept(s, S)[j] => i = j
           /\ (Len(s) >= 1 /\ s[1] \in S) => (Len(Kept(s, S)) >= 1 /\ Kept(s, S)[1] = s[1])
<1>. DEFINE K == {i \in DOMAIN s : s[i] \in S}
            f == Numbering(K)
            n == Cardinality(K)
            t == Kept(s, S)
<1>1. DOMAIN s = 1..Len(s) /\ Len(s) \in Nat /\ \A i \in 1..Len(s) : s[i] \in T
  BY ElementOfSeq, LenProperties
<1>2. IsFiniteSet(K) /\ K \in SUBSET Int
  <2>1. K \in SUBSET (1..Len(s)) /\ 1..Len(s) \subseteq Int
    BY <1>1
  <2>2. IsFiniteSet(1..Len(s))
    BY <1>1, FS_Interval
  <2>. QED
    BY <2>1, <2>2, FS_Subset
<1>3. IsNumbering(f, K) /\ n \in Nat
  BY <1>2, NumberingWorks, FS_CardinalityType
<1>4. t = [k \in 1..n |-> s[f[k]]]
  BY DEF Kept
<1>. HIDE DEF f, n, t
<1>5. f \in [1..n -> K]
  BY <1>3 DEF IsNumbering, n
<1>6. \A i, j \in 1..n : i < j => f[i] < f[j]
  BY <1>3 DEF IsNumbering, n
<1>7. \A k \in K : \E i \in 1..n : f[i] = k
  BY <1>3 DEF IsNumbering, n
<1>8. DOMAIN t = 1..n /\ \A k \in 1..n : f[k] \in K /\ t[k] = s[f[k]]
  BY <1>4, <1>5
<1>9. t \in Seq(T \cap S)
  <2>1. \A k \in 1..n : s[f[k]] \in T \cap S
    BY <1>1, <1>8
  <2>. QED
    BY <1>3, <1>4, <2>1, IsASeq
<1>10. Len(t) = n
  BY <1>3, <1>8, <1>9, LenProperties
<1>11. ToSet(t) = ToSet(s) \cap S
  BY <1>7, <1>8 DEF ToSet
<1>12. ASSUME \A i, j \in DOMAIN s : s[i] = s[j] => i = j
       PROVE  \A i, j \in DOMAIN t : t[i] = t[j] => i = j
  <2>. SUFFICES ASSUME NEW i \in 1..n, NEW j \in 1..n, t[i] = t[j] PROVE i = j
    BY <1>8
  <2>1. f[i] = f[j] /\ f[i] \in Int /\ f[j] \in Int
    BY <1>8, <1>2, <1>12
  <2>2. ~(i < j) /\ ~(j < i)
    BY <2>1, <1>6
  <2>. QED
    BY <2>2, <1>3
<1>13. ASSUME Len(s) >= 1, s[1] \in S
       PROVE  Len(t) >= 1 /\ t[1] = s[1]
  <2>1. 1 \in K
    BY <1>1, <1>13
  <2>2. PICK i \in 1..n : f[i] = 1
    BY <1>7, <2>1
  <2>3. f[1] >= 1 /\ f[1] \in Int
    BY <2>2, <1>1, <1>3, <1>8
  <2>4. i = 1
    BY <2>2, <2>3, <1>3, <1>6
  <2>. QED
    BY <2>2, <2>4, <1>8, <1>10, <1>3
<1>. QED
  BY <1>9, <1>11, <1>12, <1>13 DEF t

=============================================================================
