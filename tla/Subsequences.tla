----------------------------- MODULE Subsequences -----------------------------
(***************************************************************************)
(* What SelectSeq computes for membership in a set, without recursion, so  *)
(* that it can be proved about.                                            *)
(***************************************************************************)
EXTENDS Integers, Sequences, FiniteSets

\* The elements of s that are in K, in the order of s.
Subsequence(s, K) ==
    LET kept == {i \in 1..Len(s) : s[i] \in K}
        Nth(n) == CHOOSE i \in kept : Cardinality({j \in kept : j < i}) = n - 1
    IN  [n \in 1..Cardinality(kept) |-> s[Nth(n)]]

=============================================================================
