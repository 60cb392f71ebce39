------------------------- MODULE SubsequencesProofs -------------------------
(***************************************************************************)
(* What taking entries out of a list returns, for lists of any length; and *)
(* induction over the naturals, stated with sets.                          *)
(***************************************************************************)
EXTENDS Subsequences, FiniteSetTheorems, SequenceTheorems, TLAPS

-----------------------------------------------------------------------------
(* Induction.  The library states it for an arbitrary predicate; with a set in its place *)
(* every step is first-order.                                                            *)

\* Every set of naturals that is not empty has a least member.
LEMMA LeastNumber ==
    ASSUME NEW T \in SUBSET Nat, T # {}
    PROVE  \E m \in T : \A k \in T : m <= k
<1>1. \E m \in T : \A k \in T : ~ (<<k, m>> \in OpToRel(<, Nat))
  BY NatLessThanWellFounded, WFMin
<1>2. \A k, m \in Nat : k < m => <<k, m>> \in OpToRel(<, Nat)
  BY DEF OpToRel
<1>3. \E m \in T : \A k \in T : ~ (k < m)
  BY <1>1, <1>2, Zenon
<1> QED
  BY <1>3

\* A set that holds 0, and n + 1 with every n, holds every natural number.
LEMMA SetInduction ==
    ASSUME NEW T, 0 \in T, \A n \in Nat : n \in T => n + 1 \in T
    PROVE  Nat \subseteq T
<1> SUFFICES ASSUME Nat \ T # {} PROVE FALSE
  OBVIOUS
<1>1. PICK m \in Nat \ T : \A k \in Nat \ T : m <= k
  <2>1. Nat \ T \in SUBSET Nat
    OBVIOUS
  <2> QED
    BY <2>1, LeastNumber
<1>2. m - 1 \in Nat
  BY <1>1
<1>3. m - 1 \in T
  BY <1>1, <1>2
<1>4. (m - 1) + 1 = m
  BY <1>1
<1> QED
  BY <1>1, <1>2, <1>3, <1>4

-----------------------------------------------------------------------------
(* Positions                                                               *)

\* The positions kept up to i are finitely many, and one more when i is kept itself.
LEMMA RankStep ==
    ASSUME NEW S, NEW s \in Seq(S), NEW K
    PROVE  /\ IsFiniteSet(Kept(s, K))
           /\ Rank(s, K, 0) = 0
           /\ Rank(s, K, Len(s)) = Cardinality(Kept(s, K))
           /\ \A i \in Nat : /\ IsFiniteSet({j \in Kept(s, K) : j <= i})
                             /\ Rank(s, K, i) \in Nat
           /\ \A i \in Nat : Rank(s, K, i + 1) =
                 IF i + 1 \in Kept(s, K) THEN Rank(s, K, i) + 1 ELSE Rank(s, K, i)
<1>1. /\ Kept(s, K) \in SUBSET (1 .. Len(s))
      /\ IsFiniteSet(1 .. Len(s))
  BY FS_Interval DEF Kept
<1>2. IsFiniteSet(Kept(s, K))
  BY <1>1, FS_Subset
<1>3. ASSUME NEW i \in Nat
      PROVE  IsFiniteSet({j \in Kept(s, K) : j <= i}) /\ Rank(s, K, i) \in Nat
  <2>1. {j \in Kept(s, K) : j <= i} \in SUBSET Kept(s, K)
    OBVIOUS
  <2>2. IsFiniteSet({j \in Kept(s, K) : j <= i})
    BY <1>2, <2>1, FS_Subset
  <2> QED
    BY <2>2, FS_CardinalityType DEF Rank
<1>4. ASSUME NEW i \in Nat
      PROVE  Rank(s, K, i + 1) =
                 IF i + 1 \in Kept(s, K) THEN Rank(s, K, i) + 1 ELSE Rank(s, K, i)
  <2> DEFINE A == {j \in Kept(s, K) : j <= i}
             B == {j \in Kept(s, K) : j <= i + 1}
  <2>1. IsFiniteSet(A) /\ i + 1 \notin A
    BY <1>3
  <2>2. CASE i + 1 \in Kept(s, K)
    <3>1. B = A \cup {i + 1}
      BY <1>1, <2>2
    <3> QED
      BY <2>1, <2>2, <3>1, FS_AddElement DEF Rank
  <2>3. CASE i + 1 \notin Kept(s, K)
    <3>1. B = A
      BY <1>1, <2>3
    <3> QED
      BY <2>3, <3>1 DEF Rank
  <2> QED
    BY <2>2, <2>3
<1>5. Rank(s, K, 0) = 0
  <2>1. {j \in Kept(s, K) : j <= 0} = {}
    BY <1>1
  <2> QED
    BY <2>1, FS_EmptySet DEF Rank
<1>6. Rank(s, K, Len(s)) = Cardinality(Kept(s, K))
  <2>1. {j \in Kept(s, K) : j <= Len(s)} = Kept(s, K)
    BY <1>1
  <2> QED
    BY <2>1 DEF Rank
<1> QED
  BY <1>2, <1>3, <1>4, <1>5, <1>6

\* A later kept position has a higher rank.
LEMMA RankIncreases ==
    ASSUME NEW S, NEW s \in Seq(S), NEW K, NEW i \in Nat, NEW j \in Kept(s, K), i < j
    PROVE  Rank(s, K, i) < Rank(s, K, j)
<1>1. j \in Nat
  BY DEF Kept
<1> DEFINE A == {h \in Kept(s, K) : h <= i}
           B == {h \in Kept(s, K) : h <= j}
<1>2. IsFiniteSet(A) /\ IsFiniteSet(B)
  BY <1>1, RankStep
<1>3. A \in SUBSET B /\ j \in B /\ j \notin A
  <2>1. Kept(s, K) \subseteq Nat
    BY DEF Kept
  <2> QED
    BY <1>1, <2>1
<1>4. /\ Cardinality(A) <= Cardinality(B)
      /\ Cardinality(B) = Cardinality(A) => B = A
      /\ Cardinality(A) \in Nat /\ Cardinality(B) \in Nat
  BY <1>2, <1>3, FS_Subset, FS_CardinalityType
<1>5. Cardinality(A) < Cardinality(B)
  BY <1>3, <1>4
<1> QED
  BY <1>5 DEF Rank

\* Every number up to the count is the rank of a kept position: the first i with
\* Rank(i) >= k is kept and has it, because ranks grow by one at most.
LEMMA PositionExists ==
    ASSUME NEW S, NEW s \in Seq(S), NEW K, NEW k \in 1 .. Cardinality(Kept(s, K))
    PROVE  /\ Position(s, K, k) \in Kept(s, K)
           /\ Rank(s, K, Position(s, K, k)) = k
<1> DEFINE T == {i \in Nat : Rank(s, K, i) >= k}
<1>1. Len(s) \in T
  BY RankStep
<1>2. PICK m \in T : \A i \in T : m <= i
  <2>1. T \in SUBSET Nat /\ T # {}
    BY <1>1
  <2> HIDE DEF T
  <2> QED
    BY <2>1, LeastNumber
<1>3. m # 0
  BY RankStep
<1>4. m - 1 \in Nat /\ Rank(s, K, m - 1) < k
  <2>1. m - 1 \in Nat
    BY <1>3
  <2>2. m - 1 \notin T
    BY <1>2, <2>1
  <2>3. Rank(s, K, m - 1) \in Nat
    BY <2>1, RankStep
  <2> QED
    BY <2>1, <2>2, <2>3
<1>5. Rank(s, K, m) = IF m \in Kept(s, K) THEN Rank(s, K, m - 1) + 1 ELSE Rank(s, K, m - 1)
  <2>1. (m - 1) + 1 = m
    OBVIOUS
  <2>2. \A i \in Nat : Rank(s, K, i + 1) =
            IF i + 1 \in Kept(s, K) THEN Rank(s, K, i) + 1 ELSE Rank(s, K, i)
    BY RankStep
  <2> HIDE DEF T
  <2> QED
    BY <1>4, <2>1, <2>2
<1>6. Rank(s, K, m) >= k /\ Rank(s, K, m - 1) \in Nat /\ k \in Nat
  <2>1. \A i \in Nat : Rank(s, K, i) \in Nat
    BY RankStep
  <2> QED
    BY <1>4, <2>1
<1>7. m \in Kept(s, K) /\ Rank(s, K, m) = k
  BY <1>4, <1>5, <1>6
<1> QED
  BY <1>7 DEF Position

-----------------------------------------------------------------------------
(* What is returned                                                        *)

\* Only(s, K) is what a strictly increasing choice of positions reads from s, and that
\* choice meets every position that holds a member of K.
LEMMA OnlyEmbeds ==
    ASSUME NEW S, NEW s \in Seq(S), NEW K
    PROVE  \E m \in [1 .. Len(Only(s, K)) -> Kept(s, K)] :
               /\ \A k \in 1 .. Len(Only(s, K)) : Only(s, K)[k] = s[m[k]]
               /\ \A k, l \in 1 .. Len(Only(s, K)) : k < l => m[k] < m[l]
               /\ \A i \in Kept(s, K) : \E k \in 1 .. Len(Only(s, K)) : m[k] = i
<1> DEFINE n == Cardinality(Kept(s, K))
           m == [k \in 1 .. n |-> Position(s, K, k)]
<1>1. n \in Nat /\ IsFiniteSet(Kept(s, K)) /\ Kept(s, K) \subseteq 1 .. Len(s)
  <2>1. Kept(s, K) \subseteq 1 .. Len(s)
    BY DEF Kept
  <2>2. IsFiniteSet(Kept(s, K))
    BY RankStep
  <2> QED
    BY <2>1, <2>2, FS_CardinalityType
<1>2. \A k \in 1 .. n : m[k] \in Kept(s, K) /\ Rank(s, K, m[k]) = k
  BY PositionExists
<1>3. Len(Only(s, K)) = n
  BY <1>1 DEF Only
<1>4. m \in [1 .. n -> Kept(s, K)]
  BY <1>2
<1>5. ASSUME NEW k \in 1 .. n, NEW l \in 1 .. n, k < l PROVE m[k] < m[l]
  <2> SUFFICES ASSUME ~ (m[k] < m[l]) PROVE FALSE
    OBVIOUS
  <2>1. m[k] \in Nat /\ m[l] \in Nat
    BY <1>1, <1>2
  <2>2. m[k] # m[l]
    BY <1>2, <1>5
  <2>3. Rank(s, K, m[l]) < Rank(s, K, m[k])
    <3>1. m[l] < m[k] /\ m[k] \in Kept(s, K)
      BY <1>2, <2>1, <2>2
    <3> HIDE DEF m
    <3> QED
      BY <2>1, <3>1, RankIncreases
  <2> QED
    BY <1>2, <1>5, <2>3
<1>6. ASSUME NEW i \in Kept(s, K) PROVE \E k \in 1 .. n : m[k] = i
  <2> DEFINE r == Rank(s, K, i)
  <2>1. i \in 1 .. Len(s)
    BY <1>1
  <2>2. r \in 1 .. n
    <3>1. 0 < r
      <4>1. Rank(s, K, 0) < Rank(s, K, i)
        BY <2>1, RankIncreases
      <4> QED
        BY <4>1, RankStep
    <3>2. r <= n
      <4>1. {j \in Kept(s, K) : j <= i} \in SUBSET Kept(s, K)
        OBVIOUS
      <4> QED
        BY <1>1, <4>1, FS_Subset DEF Rank
    <3>3. r \in Nat
      <4>1. \A h \in Nat : Rank(s, K, h) \in Nat
        BY RankStep
      <4> QED
        BY <2>1, <4>1
    <3> QED
      BY <1>1, <3>1, <3>2, <3>3
  <2>3. m[r] \in Kept(s, K) /\ Rank(s, K, m[r]) = r
    BY <1>2, <2>2
  <2>4. m[r] \in Nat /\ i \in Nat
    BY <1>1, <2>3
  <2>5. m[r] = i
    <3>0. Rank(s, K, i) = r /\ Rank(s, K, m[r]) = r /\ r \in Nat
      BY <2>2, <2>3
    <3> HIDE DEF m, r
    <3>1. CASE m[r] < i
      <4>1. Rank(s, K, m[r]) < Rank(s, K, i)
        BY <2>4, <3>1, RankIncreases
      <4> QED
        BY <3>0, <4>1
    <3>2. CASE i < m[r]
      <4>1. Rank(s, K, i) < Rank(s, K, m[r])
        BY <2>3, <2>4, <3>2, RankIncreases
      <4> QED
        BY <3>0, <4>1
    <3> QED
      BY <2>4, <3>1, <3>2
  <2> QED
    BY <2>2, <2>5
<1>7. \A k \in 1 .. n : Only(s, K)[k] = s[m[k]]
  BY DEF Only
<1> HIDE DEF n, m
<1> QED
  BY <1>3, <1>4, <1>5, <1>6, <1>7

\* Only(s, K) is a list of the members of K that s holds, without repetition when s has none.
LEMMA OnlyProperties ==
    ASSUME NEW S, NEW s \in Seq(S), NEW K
    PROVE  /\ Only(s, K) \in Seq(S)
           /\ ToSet(Only(s, K)) = ToSet(s) \cap K
           /\ IsInjective(s) => IsInjective(Only(s, K))
<1> DEFINE o == Only(s, K)
<1>0. Len(o) \in Nat /\ DOMAIN o = 1 .. Len(o) /\ DOMAIN s = 1 .. Len(s) /\ Len(s) \in Nat
  <2>1. Cardinality(Kept(s, K)) \in Nat
    BY RankStep, FS_CardinalityType
  <2> QED
    BY <2>1 DEF Only
<1>1. PICK m \in [1 .. Len(o) -> Kept(s, K)] :
          /\ \A k \in 1 .. Len(o) : o[k] = s[m[k]]
          /\ \A k, l \in 1 .. Len(o) : k < l => m[k] < m[l]
          /\ \A i \in Kept(s, K) : \E k \in 1 .. Len(o) : m[k] = i
  BY OnlyEmbeds
<1>2. /\ \A i \in Kept(s, K) : i \in 1 .. Len(s) /\ s[i] \in K
      /\ \A i \in 1 .. Len(s) : s[i] \in K => i \in Kept(s, K)
  BY DEF Kept
<1>3. Only(s, K) \in Seq(S)
  <2>1. \A k \in 1 .. Len(o) : o[k] \in S
    BY <1>1, <1>2
  <2>2. o = [k \in 1 .. Len(o) |-> o[k]]
    BY <1>0 DEF Only
  <2> QED
    BY <1>0, <2>1, <2>2
<1>4. ToSet(Only(s, K)) = ToSet(s) \cap K
  <2> HIDE DEF o
  <2>1. ASSUME NEW x \in ToSet(o) PROVE x \in ToSet(s) \cap K
    <3>1. PICK k \in 1 .. Len(o) : x = o[k]
      BY <1>0, <2>1 DEF ToSet
    <3> QED
      BY <1>0, <1>1, <1>2, <3>1 DEF ToSet
  <2>2. ASSUME NEW x \in ToSet(s) \cap K PROVE x \in ToSet(o)
    <3>1. PICK i \in 1 .. Len(s) : x = s[i]
      BY <1>0, <2>2 DEF ToSet
    <3>2. PICK k \in 1 .. Len(o) : m[k] = i
      BY <1>1, <1>2, <3>1
    <3> QED
      BY <1>0, <1>1, <3>1, <3>2 DEF ToSet
  <2> QED
    BY <2>1, <2>2 DEF o
<1>5. ASSUME IsInjective(s) PROVE IsInjective(o)
  <2> HIDE DEF o
  <2>1. ASSUME NEW k \in 1 .. Len(o), NEW l \in 1 .. Len(o), o[k] = o[l] PROVE k = l
    <3>1. m[k] = m[l]
      BY <1>0, <1>1, <1>2, <1>5, <2>1 DEF IsInjective
    <3>2. m[k] \in Nat
      BY <1>1, <1>2
    <3> QED
      BY <1>0, <1>1, <3>1, <3>2
  <2> QED
    BY <1>0, <2>1 DEF IsInjective
<1> QED
  BY <1>3, <1>4, <1>5

\* Without(s, K) is a list of what s holds besides K.
LEMMA WithoutProperties ==
    ASSUME NEW S, NEW s \in Seq(S), NEW K
    PROVE  /\ Without(s, K) \in Seq(S)
           /\ ToSet(Without(s, K)) = ToSet(s) \ K
           /\ IsInjective(s) => IsInjective(Without(s, K))
BY OnlyProperties DEF Without

-----------------------------------------------------------------------------
(* The other operations on a waiting list                                  *)

\* Linking an entry at the tail adds it, and repeats nothing when it was not there.
LEMMA AppendedList ==
    ASSUME NEW S, NEW s \in Seq(S), NEW x \in S
    PROVE  /\ Append(s, x) \in Seq(S)
           /\ ToSet(Append(s, x)) = ToSet(s) \cup {x}
           /\ IsInjective(s) /\ x \notin ToSet(s) => IsInjective(Append(s, x))
<1> DEFINE a == Append(s, x)
<1>1. /\ a \in Seq(S)
      /\ Len(a) = Len(s) + 1
      /\ \A i \in 1 .. Len(s) : a[i] = s[i]
      /\ a[Len(s) + 1] = x
      /\ Len(s) \in Nat
      /\ DOMAIN a = 1 .. Len(a) /\ DOMAIN s = 1 .. Len(s)
  BY AppendProperties
<1> HIDE DEF a
<1>2. ToSet(a) = ToSet(s) \cup {x}
  <2>1. \A y : y \in ToSet(a) <=> \E i \in 1 .. Len(s) + 1 : y = a[i]
    BY <1>1 DEF ToSet
  <2>2. \A y : y \in ToSet(s) <=> \E i \in 1 .. Len(s) : y = s[i]
    BY <1>1 DEF ToSet
  <2>3. \A i \in 1 .. Len(s) + 1 : i \in 1 .. Len(s) \/ i = Len(s) + 1
    BY <1>1
  <2>4. Len(s) + 1 \in 1 .. Len(s) + 1 /\ \A i \in 1 .. Len(s) : i \in 1 .. Len(s) + 1
    BY <1>1
  <2> QED
    BY <1>1, <2>1, <2>2, <2>3, <2>4
<1>3. ASSUME IsInjective(s), x \notin ToSet(s) PROVE IsInjective(a)
  <2>1. \A i \in 1 .. Len(s) : s[i] # x
    BY <1>1, <1>3 DEF ToSet
  <2>2. \A i, j \in 1 .. Len(s) : s[i] = s[j] => i = j
    BY <1>1, <1>3 DEF IsInjective
  <2>3. ASSUME NEW i \in 1 .. Len(s) + 1, NEW j \in 1 .. Len(s) + 1, a[i] = a[j]
        PROVE  i = j
    BY <1>1, <2>1, <2>2, <2>3
  <2> QED
    BY <1>1, <2>3 DEF IsInjective
<1> QED
  BY <1>1, <1>2, <1>3 DEF a

\* Taking the head of a list that repeats nothing leaves the other entries.
LEMMA HeadTaken ==
    ASSUME NEW S, NEW s \in Seq(S), s # << >>
    PROVE  /\ Head(s) \in S
           /\ Head(s) \in ToSet(s)
           /\ Tail(s) \in Seq(S)
           /\ ToSet(Tail(s)) \subseteq ToSet(s)
           /\ ToSet(s) = ToSet(Tail(s)) \cup {Head(s)}
           /\ IsInjective(s) => /\ IsInjective(Tail(s))
                                /\ Head(s) \notin ToSet(Tail(s))
<1> DEFINE u == Tail(s)
<1>1. /\ Head(s) \in S /\ Head(s) = s[1]
      /\ u \in Seq(S) /\ Len(u) = Len(s) - 1
      /\ \A i \in 1 .. Len(u) : u[i] = s[i + 1]
      /\ Len(s) \in Nat /\ Len(s) >= 1
      /\ DOMAIN u = 1 .. Len(u) /\ DOMAIN s = 1 .. Len(s)
  BY HeadTailProperties, EmptySeq
<1> HIDE DEF u
<1>2. \A y : y \in ToSet(u) <=> \E i \in 1 .. Len(u) : y = u[i]
  BY <1>1 DEF ToSet
<1>3. \A y : y \in ToSet(s) <=> \E i \in 1 .. Len(s) : y = s[i]
  BY <1>1 DEF ToSet
<1>4. ToSet(s) = ToSet(u) \cup {Head(s)}
  <2>1. ASSUME NEW y \in ToSet(s) PROVE y \in ToSet(u) \cup {Head(s)}
    <3>1. PICK i \in 1 .. Len(s) : y = s[i]
      BY <1>3
    <3>2. CASE i = 1
      BY <1>1, <3>1, <3>2
    <3>3. CASE i # 1
      <4>1. i - 1 \in 1 .. Len(u) /\ u[i - 1] = y
        BY <1>1, <3>1, <3>3
      <4> QED
        BY <1>2, <4>1
    <3> QED
      BY <3>2, <3>3
  <2>2. ASSUME NEW y \in ToSet(u) PROVE y \in ToSet(s)
    <3>1. PICK i \in 1 .. Len(u) : y = u[i]
      BY <1>2
    <3>2. i + 1 \in 1 .. Len(s) /\ s[i + 1] = y
      BY <1>1, <3>1
    <3> QED
      BY <1>3, <3>2
  <2>3. Head(s) \in ToSet(s)
    <3>1. 1 \in 1 .. Len(s)
      BY <1>1
    <3> QED
      BY <1>1, <1>3, <3>1
  <2> QED
    BY <2>1, <2>2, <2>3
<1>5. ASSUME IsInjective(s) PROVE IsInjective(u) /\ Head(s) \notin ToSet(u)
  <2>1. \A i, j \in 1 .. Len(s) : s[i] = s[j] => i = j
    BY <1>1, <1>5 DEF IsInjective
  <2>2. ASSUME NEW i \in 1 .. Len(u), NEW j \in 1 .. Len(u), u[i] = u[j] PROVE i = j
    <3>1. i + 1 \in 1 .. Len(s) /\ j + 1 \in 1 .. Len(s) /\ s[i + 1] = s[j + 1]
      BY <1>1, <2>2
    <3>2. i + 1 = j + 1
      BY <2>1, <3>1
    <3> QED
      BY <3>2
  <2>3. ASSUME NEW i \in 1 .. Len(u) PROVE u[i] # Head(s)
    <3>1. i + 1 \in 1 .. Len(s) /\ 1 \in 1 .. Len(s) /\ u[i] = s[i + 1] /\ i + 1 # 1
      BY <1>1
    <3> QED
      BY <1>1, <2>1, <3>1
  <2> QED
    BY <1>1, <1>2, <2>2, <2>3 DEF IsInjective
<1> QED
  BY <1>1, <1>4, <1>5 DEF u

\* Joining two lists.
LEMMA ConcatenatedList ==
    ASSUME NEW S, NEW s \in Seq(S), NEW t \in Seq(S)
    PROVE  /\ s \o t \in Seq(S)
           /\ ToSet(s \o t) = ToSet(s) \cup ToSet(t)
           /\ IsInjective(s) /\ IsInjective(t) /\ ToSet(s) \cap ToSet(t) = {}
                 => IsInjective(s \o t)
<1> DEFINE u == s \o t
           m == Len(s)
           n == Len(t)
<1>1. /\ u \in Seq(S)
      /\ DOMAIN u = 1 .. m + n /\ DOMAIN s = 1 .. m /\ DOMAIN t = 1 .. n
      /\ m \in Nat /\ n \in Nat
      /\ \A i \in 1 .. m + n : u[i] = IF i <= m THEN s[i] ELSE t[i - m]
  BY ConcatProperties
<1> HIDE DEF u, m, n
<1>2. /\ \A i \in 1 .. m : i \in 1 .. m + n /\ u[i] = s[i]
      /\ \A i \in 1 .. n : i + m \in 1 .. m + n /\ u[i + m] = t[i]
  BY <1>1
<1>3. \A i \in 1 .. m + n : i \in 1 .. m \/ (i - m \in 1 .. n /\ u[i] = t[i - m])
  BY <1>1
<1>4. /\ \A y : y \in ToSet(s) <=> \E i \in 1 .. m : y = s[i]
      /\ \A y : y \in ToSet(t) <=> \E i \in 1 .. n : y = t[i]
      /\ \A y : y \in ToSet(u) <=> \E i \in 1 .. m + n : y = u[i]
  BY <1>1 DEF ToSet
<1>5. ToSet(u) = ToSet(s) \cup ToSet(t)
  <2>1. ASSUME NEW y \in ToSet(u) PROVE y \in ToSet(s) \cup ToSet(t)
    <3>1. PICK i \in 1 .. m + n : y = u[i]
      BY <1>4
    <3> QED
      BY <1>2, <1>3, <1>4, <3>1
  <2>2. ASSUME NEW y \in ToSet(s) PROVE y \in ToSet(u)
    BY <1>2, <1>4
  <2>3. ASSUME NEW y \in ToSet(t) PROVE y \in ToSet(u)
    BY <1>2, <1>4
  <2> QED
    BY <2>1, <2>2, <2>3
<1>6. ASSUME IsInjective(s), IsInjective(t), ToSet(s) \cap ToSet(t) = {}
      PROVE  IsInjective(u)
  <2>1. /\ \A i, j \in 1 .. m : s[i] = s[j] => i = j
        /\ \A i, j \in 1 .. n : t[i] = t[j] => i = j
    BY <1>1, <1>6 DEF IsInjective
  <2>2. \A i \in 1 .. m, j \in 1 .. n : s[i] # t[j]
    BY <1>4, <1>6
  <2>3. ASSUME NEW i \in 1 .. m + n, NEW j \in 1 .. m + n, u[i] = u[j] PROVE i = j
    <3>1. CASE i \in 1 .. m /\ j \in 1 .. m
      BY <1>2, <2>1, <2>3, <3>1
    <3>2. CASE i \in 1 .. m /\ j \notin 1 .. m
      BY <1>2, <1>3, <2>2, <2>3, <3>2
    <3>3. CASE i \notin 1 .. m /\ j \in 1 .. m
      BY <1>2, <1>3, <2>2, <2>3, <3>3
    <3>4. CASE i \notin 1 .. m /\ j \notin 1 .. m
      <4>1. i - m = j - m
        BY <1>3, <2>1, <2>3, <3>4
      <4> QED
        BY <1>1, <4>1
    <3> QED
      BY <3>1, <3>2, <3>3, <3>4
  <2> QED
    BY <1>1, <2>3 DEF IsInjective
<1> QED
  BY <1>1, <1>5, <1>6 DEF u

\* A list holds finitely many entries.
LEMMA ListIsFinite ==
    ASSUME NEW S, NEW s \in Seq(S)
    PROVE  IsFiniteSet(ToSet(s)) /\ ToSet(s) \subseteq S
<1>1. DOMAIN s = 1 .. Len(s) /\ Len(s) \in Nat /\ s \in [1 .. Len(s) -> S]
  BY LenProperties
<1>2. \A y : y \in ToSet(s) <=> \E i \in 1 .. Len(s) : y = s[i]
  BY <1>1 DEF ToSet
<1>3. ToSet(s) \subseteq S
  BY <1>1, <1>2
<1>4. s \in Surjection(1 .. Len(s), ToSet(s))
  BY <1>1, <1>2 DEF Surjection
<1>5. IsFiniteSet(1 .. Len(s))
  BY <1>1, FS_Interval
<1> QED
  BY <1>3, <1>4, <1>5, FS_Surjection
=============================================================================
