---------------------------- MODULE Subsequences ----------------------------
(* What is left of a vector when some of its elements have been erased.     *)
EXTENDS Integers, FiniteSets, SequencesExt

\* The order-preserving numbering of a finite set K of indices.
Numbering(K) ==
    CHOOSE f \in [1..Cardinality(K) -> K] :
        /\ \A i, j \in 1..Cardinality(K) : i < j => f[i] < f[j]
        /\ \A k \in K : \E i \in 1..Cardinality(K) : f[i] = k

\* The members of s that belong to S, in their order.
Kept(s, S) ==
    LET K == {i \in DOMAIN s : s[i] \in S}
        f == Numbering(K)
    IN  [k \in 1..Cardinality(K) |-> s[f[k]]]

=============================================================================
