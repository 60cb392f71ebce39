---------------------------- MODULE Subsequences ----------------------------
(***************************************************************************)
(* Taking entries out of a list, as the waiting lists of this code do it:  *)
(* what stays keeps its order.  The definitions are those of SelectSeq,    *)
(* written with positions instead of recursion, so that                    *)
(* SubsequencesProofs can say what they return.                            *)
(***************************************************************************)
EXTENDS Naturals, Sequences, FiniteSets, SequencesExt

\* The positions of s that hold a member of K, and how many of them are not after i.
Kept(s, K) == {i \in DOMAIN s : s[i] \in K}
Rank(s, K, i) == Cardinality({j \in Kept(s, K) : j <= i})

\* The position of s that holds the k-th member of K.
Position(s, K, k) == CHOOSE i \in Kept(s, K) : Rank(s, K, i) = k

\* The entries of s that are members of K, in their order; and those that are not.
Only(s, K) == [k \in 1 .. Cardinality(Kept(s, K)) |-> s[Position(s, K, k)]]
Without(s, K) == Only(s, ToSet(s) \ K)
=============================================================================
