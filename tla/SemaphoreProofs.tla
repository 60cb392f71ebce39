-------------------------- MODULE SemaphoreProofs --------------------------
(***************************************************************************)
(* Proofs about the semaphore for any capacity, coroutines and requests.   *)
(*                                                                         *)
(* Sums are counted: Units(f, S) has f[x] members for each x in S, and the *)
(* lemmas on totals say how its size moves when one account moves.         *)
(*                                                                         *)
(* No property is inductive alone.  That the books balance after a waiter  *)
(* dies needs its account to be 0 or its whole request, and to be 0 when   *)
(* it has left the list (Accounts).  That the charged waiters come first   *)
(* survives the next grant because grantFromHead stops at the first        *)
(* waiter it cannot serve, which needs those it skips to be charged.  That *)
(* a ticket in force belongs to a charged waiter needs each coroutine to   *)
(* be in the list and among the tickets once (Waiting, Tickets); and that  *)
(* nothing is owed to a semaphore that is gone needs its list empty.       *)
(***************************************************************************)
EXTENDS Semaphore, SubsequencesProofs

-----------------------------------------------------------------------------
(* Totals                                                                  *)

Column(x, m) == {x} \X (1 .. m)

\* What Units and Total are, column by column.
LEMMA UnitsAreColumns ==
    ASSUME NEW f, NEW S
    PROVE  /\ Units(f, S) = UNION {Column(x, f[x]) : x \in S}
           /\ Total(f, S) = Cardinality(Units(f, S))
BY DEF Units, Column, Total

\* A column of m units.
LEMMA ColumnSize ==
    ASSUME NEW x, NEW m \in Nat
    PROVE  /\ IsFiniteSet(Column(x, m))
           /\ Cardinality(Column(x, m)) = m
<1>1. IsFiniteSet(1 .. m) /\ Cardinality(1 .. m) = m
  BY FS_Interval
<1>2. IsFiniteSet({x}) /\ Cardinality({x}) = 1
  BY FS_Singleton
<1>3. /\ IsFiniteSet({x} \X (1 .. m))
      /\ Cardinality({x} \X (1 .. m)) = Cardinality({x}) * Cardinality(1 .. m)
  BY <1>1, <1>2, FS_Product
<1> QED
  BY <1>1, <1>2, <1>3 DEF Column

\* The units of finitely many members are finitely many.
LEMMA UnitsFinite ==
    ASSUME NEW S, IsFiniteSet(S), NEW f, \A x \in S : f[x] \in Nat
    PROVE  IsFiniteSet(Units(f, S)) /\ Total(f, S) \in Nat
<1> DEFINE column == [x \in S |-> Column(x, f[x])]
           C == {Column(x, f[x]) : x \in S}
<1>1. column \in Surjection(S, C)
  <2>1. \A x \in S : column[x] \in C
    OBVIOUS
  <2>2. \A c \in C : \E x \in S : column[x] = c
    OBVIOUS
  <2>3. column = [x \in S |-> column[x]]
    OBVIOUS
  <2> HIDE DEF column, C
  <2>4. column \in [S -> C]
    BY <2>1, <2>3
  <2> QED
    BY <2>2, <2>4 DEF Surjection
<1>2. IsFiniteSet(C)
  <2> HIDE DEF column, C
  <2> QED
    BY <1>1, FS_Surjection
<1>3. \A c \in C : IsFiniteSet(c)
  BY ColumnSize
<1>4. IsFiniteSet(UNION C)
  <2> HIDE DEF C
  <2> QED
    BY <1>2, <1>3, FS_UNION
<1>5. IsFiniteSet(Units(f, S))
  BY <1>4, UnitsAreColumns
<1> QED
  BY <1>5, FS_CardinalityType DEF Total

\* The units of two sets without a common member.
LEMMA UnitsSplit ==
    ASSUME NEW S, NEW T, S \cap T = {}, NEW f,
           IsFiniteSet(Units(f, S)), IsFiniteSet(Units(f, T))
    PROVE  /\ IsFiniteSet(Units(f, S \cup T))
           /\ Total(f, S \cup T) = Total(f, S) + Total(f, T)
           /\ Total(f, S) \in Nat /\ Total(f, T) \in Nat
<1>1. Units(f, S \cup T) = Units(f, S) \cup Units(f, T)
  BY DEF Units
<1>2. Units(f, S) \cap Units(f, T) = {}
  <2> SUFFICES ASSUME NEW u, u \in Units(f, S), u \in Units(f, T) PROVE FALSE
    OBVIOUS
  <2>1. PICK x \in S : u \in {x} \X (1 .. f[x])
    BY DEF Units
  <2>2. PICK y \in T : u \in {y} \X (1 .. f[y])
    BY DEF Units
  <2>3. u[1] = x /\ u[1] = y
    BY <2>1, <2>2
  <2> QED
    BY <2>3
<1>3. /\ IsFiniteSet(Units(f, S) \cup Units(f, T))
      /\ Cardinality(Units(f, S) \cup Units(f, T))
            = Cardinality(Units(f, S)) + Cardinality(Units(f, T))
                - Cardinality(Units(f, S) \cap Units(f, T))
  BY FS_Union
<1>4. Cardinality(Units(f, S) \cap Units(f, T)) = 0
  BY <1>2, FS_EmptySet
<1>5. Total(f, S) \in Nat /\ Total(f, T) \in Nat
  BY FS_CardinalityType DEF Total
<1>6. Total(f, S \cup T) = Total(f, S) + Total(f, T) - 0
  <2>1. Total(f, S \cup T) = Cardinality(Units(f, S) \cup Units(f, T))
    BY <1>1 DEF Total
  <2> QED
    BY <1>3, <1>4, <2>1, UnitsAreColumns
<1>7. Total(f, S \cup T) = Total(f, S) + Total(f, T)
  BY <1>5, <1>6
<1>8. IsFiniteSet(Units(f, S \cup T))
  BY <1>1, <1>3
<1> QED
  BY <1>5, <1>7, <1>8

\* Part of the members have part of the units.
LEMMA UnitsPart ==
    ASSUME NEW T, NEW S \in SUBSET T, NEW f, IsFiniteSet(Units(f, T))
    PROVE  /\ IsFiniteSet(Units(f, S))
           /\ Total(f, S) <= Total(f, T)
           /\ Total(f, S) \in Nat /\ Total(f, T) \in Nat
<1>1. Units(f, S) \in SUBSET Units(f, T)
  BY DEF Units
<1> QED
  BY <1>1, FS_Subset, FS_CardinalityType DEF Total

\* The units depend on what is given to the members only.
LEMMA UnitsSame ==
    ASSUME NEW S, NEW f, NEW g, \A x \in S : f[x] = g[x]
    PROVE  Units(f, S) = Units(g, S) /\ Total(f, S) = Total(g, S)
<1>1. {{x} \X (1 .. f[x]) : x \in S} = {{x} \X (1 .. g[x]) : x \in S}
  <2>1. \A x \in S : {x} \X (1 .. f[x]) = {x} \X (1 .. g[x])
    OBVIOUS
  <2> QED
    BY <2>1
<1> QED
  BY <1>1 DEF Units, Total

\* Giving x more or less changes the total by the difference.
LEMMA TotalChanged ==
    ASSUME NEW S, NEW x \in S, NEW f, NEW g, IsFiniteSet(Units(f, S)),
           f[x] \in Nat, g[x] \in Nat, \A y \in S \ {x} : g[y] = f[y]
    PROVE  /\ IsFiniteSet(Units(g, S))
           /\ Total(g, S) + f[x] = Total(f, S) + g[x]
           /\ Total(f, S) \in Nat /\ Total(g, S) \in Nat
<1> DEFINE R == S \ {x}
<1>1. S = R \cup {x} /\ R \cap {x} = {} /\ R \in SUBSET S
  OBVIOUS
<1>2. Units(f, {x}) = Column(x, f[x]) /\ Units(g, {x}) = Column(x, g[x])
  <2>1. /\ UNION {Column(y, f[y]) : y \in {x}} = Column(x, f[x])
        /\ UNION {Column(y, g[y]) : y \in {x}} = Column(x, g[x])
    OBVIOUS
  <2> QED
    BY <2>1, UnitsAreColumns
<1>3. /\ IsFiniteSet(Units(f, {x})) /\ Total(f, {x}) = f[x]
      /\ IsFiniteSet(Units(g, {x})) /\ Total(g, {x}) = g[x]
  BY <1>2, ColumnSize DEF Total
<1>4. Units(f, R) = Units(g, R) /\ Total(f, R) = Total(g, R)
  BY UnitsSame
<1> HIDE DEF R
<1>5. IsFiniteSet(Units(f, R)) /\ Total(f, R) \in Nat
  BY <1>1, UnitsPart
<1>6. /\ IsFiniteSet(Units(f, R \cup {x}))
      /\ Total(f, R \cup {x}) = Total(f, R) + Total(f, {x})
  BY <1>1, <1>3, <1>5, UnitsSplit
<1>7. /\ IsFiniteSet(Units(g, R \cup {x}))
      /\ Total(g, R \cup {x}) = Total(g, R) + Total(g, {x})
  BY <1>1, <1>3, <1>4, <1>5, UnitsSplit
<1> QED
  BY <1>1, <1>3, <1>4, <1>5, <1>6, <1>7

-----------------------------------------------------------------------------
(* The walk of grantFromHead()                                             *)

\* The waiters are charged in the order of the list q by the accounts g.
InPrefix(q, g) == \A i, j \in DOMAIN q : i < j /\ g[q[j]] > 0 => g[q[i]] > 0

\* Whom the walk charges: waiters that were not, as many as there are permits for, and
\* nobody behind one it does not charge.
LEMMA ChargedProperties ==
    ASSUME NEW q \in Seq(Coroutines), IsInjective(q), NEW g,
           want \in [Coroutines -> Nat], NEW avail \in Nat
    PROVE  LET D == Charged(avail, q, g)
           IN  /\ D \subseteq ToSet(q)
               /\ \A c \in D : g[c] = 0
               /\ IsFiniteSet(D)
               /\ Total(want, D) \in 0 .. avail
               /\ \A i, j \in DOMAIN q :
                     i < j /\ q[j] \in D /\ g[q[i]] = 0 => q[i] \in D
<1> DEFINE D == Charged(avail, q, g)
           J == {j \in DOMAIN q : g[q[j]] = 0 /\ Total(want, Uncharged(q, g, j)) <= avail}
<1>1. /\ DOMAIN q = 1 .. Len(q) /\ Len(q) \in Nat
      /\ \A i \in DOMAIN q : q[i] \in Coroutines /\ q[i] \in ToSet(q)
  BY LenProperties, ElementOfSeq DEF ToSet
<1>2. D = {q[i] : i \in J} /\ J \subseteq DOMAIN q
  BY DEF Charged
<1>3. \A i, j \in DOMAIN q : q[i] = q[j] => i = j
  BY DEF IsInjective
<1>4. D \subseteq ToSet(q) /\ \A c \in D : g[c] = 0
  BY <1>1, <1>2
<1>5. \A j \in DOMAIN q : q[j] \in D => j \in J
  BY <1>2, <1>3
<1>6. IsFiniteSet(ToSet(q)) /\ ToSet(q) \subseteq Coroutines
  BY ListIsFinite
<1>7. \A T : T \subseteq ToSet(q) =>
          IsFiniteSet(T) /\ IsFiniteSet(Units(want, T)) /\ Total(want, T) \in Nat
  <2> SUFFICES ASSUME NEW T, T \subseteq ToSet(q)
               PROVE  IsFiniteSet(T) /\ IsFiniteSet(Units(want, T)) /\ Total(want, T) \in Nat
    OBVIOUS
  <2>1. IsFiniteSet(T)
    BY <1>6, FS_Subset
  <2>2. \A c \in T : want[c] \in Nat
    BY <1>6
  <2> QED
    BY <2>1, <2>2, UnitsFinite
<1>8. \A j \in DOMAIN q : Uncharged(q, g, j) \subseteq ToSet(q)
  BY <1>1 DEF Uncharged
<1>9. ASSUME NEW i \in DOMAIN q, NEW j \in DOMAIN q, i < j
      PROVE  Total(want, Uncharged(q, g, i)) <= Total(want, Uncharged(q, g, j))
  <2>1. Uncharged(q, g, i) \in SUBSET Uncharged(q, g, j)
    BY <1>1, <1>9 DEF Uncharged
  <2>2. IsFiniteSet(Units(want, Uncharged(q, g, j)))
    BY <1>7, <1>8
  <2> QED
    BY <2>1, <2>2, UnitsPart
<1>10. ASSUME NEW i \in DOMAIN q, NEW j \in DOMAIN q, i < j, q[j] \in D, g[q[i]] = 0
       PROVE  q[i] \in D
  <2>1. Total(want, Uncharged(q, g, j)) <= avail
    BY <1>5, <1>10
  <2>2. Total(want, Uncharged(q, g, i)) <= Total(want, Uncharged(q, g, j))
    BY <1>9, <1>10
  <2>3. /\ Total(want, Uncharged(q, g, i)) \in Nat
        /\ Total(want, Uncharged(q, g, j)) \in Nat
    BY <1>7, <1>8
  <2>4. i \in J
    BY <1>10, <2>1, <2>2, <2>3
  <2> QED
    BY <1>2, <2>4
<1>11. Total(want, D) \in 0 .. avail
  <2>1. Total(want, D) \in Nat
    BY <1>4, <1>7
  <2>2. CASE J = {}
    <3>1. Units(want, D) = {}
      BY <1>2, <2>2 DEF Units
    <3> QED
      BY <3>1, FS_EmptySet DEF Total
  <2>3. CASE J # {}
    <3> DEFINE R == {k \in Nat : Len(q) - k \in J}
    <3>1. PICK k \in R : \A l \in R : k <= l
      <4>1. PICK j \in J : TRUE
        BY <2>3
      <4>2. Len(q) - j \in Nat /\ Len(q) - (Len(q) - j) = j
        BY <1>1, <1>2, <4>1
      <4>3. R # {} /\ R \in SUBSET Nat
        BY <4>1, <4>2
      <4> HIDE DEF R
      <4> QED
        BY <4>3, LeastNumber
    <3> DEFINE m == Len(q) - k
    <3>2. m \in J /\ m \in DOMAIN q /\ m \in Nat
      BY <1>1, <1>2, <3>1
    <3>3. \A j \in J : j <= m
      <4> SUFFICES ASSUME NEW j \in J PROVE j <= m
        OBVIOUS
      <4>1. j \in 1 .. Len(q)
        BY <1>1, <1>2
      <4>2. Len(q) - j \in Nat /\ Len(q) - (Len(q) - j) = j
        BY <1>1, <4>1
      <4>3. Len(q) - j \in R
        BY <4>2
      <4>4. k <= Len(q) - j /\ k \in Nat
        BY <3>1, <4>3
      <4> QED
        BY <1>1, <4>1, <4>4
    <3> HIDE DEF m
    <3>4. D \in SUBSET Uncharged(q, g, m)
      <4>1. \A j \in J : j \in 1 .. m /\ g[q[j]] = 0
        BY <1>1, <1>2, <3>2, <3>3
      <4> QED
        BY <1>2, <4>1 DEF Uncharged
    <3>5. IsFiniteSet(Units(want, Uncharged(q, g, m)))
      BY <1>7, <1>8, <3>2
    <3>6. /\ Total(want, D) <= Total(want, Uncharged(q, g, m))
          /\ Total(want, Uncharged(q, g, m)) \in Nat
      BY <3>4, <3>5, UnitsPart
    <3>7. Total(want, Uncharged(q, g, m)) <= avail
      BY <3>2
    <3> QED
      BY <2>1, <3>6, <3>7
  <2> QED
    BY <2>2, <2>3
<1>12. IsFiniteSet(D)
  BY <1>4, <1>7
<1> QED
  BY <1>4, <1>10, <1>11, <1>12

-----------------------------------------------------------------------------
(* What every state keeps                                                  *)

Entries == Coroutines \cup {Revoked}

\* The waiters are distinct suspended coroutines, who asked for w.
Waiting(q, S, w) ==
    /\ S \in SUBSET Coroutines
    /\ q \in Seq(S) /\ IsInjective(q)
    /\ w \in [Coroutines -> Requests \cup {0}]
    /\ \A c \in S : w[c] \in Requests

\* Who is charged waits, is charged for the whole request, and before those behind.
Accounts(q, g, w) ==
    /\ g \in [Coroutines -> Nat]
    /\ \A c \in Coroutines : g[c] \in {0, w[c]} /\ (g[c] > 0 => c \in ToSet(q))
    /\ InPrefix(q, g)
    /\ IsFiniteSet(Units(g, Coroutines))

\* The tickets in force belong to suspended coroutines, one each, and those of waiters to
\* charged ones; a charged waiter has one, as long as posting never failed.
Tickets(q, g, p, S, failures) ==
    /\ \A i \in DOMAIN p : p[i] = Revoked \/ p[i] \in S
    /\ \A i, j \in DOMAIN p : p[i] = p[j] => i = j \/ p[i] = Revoked
    /\ \A c \in ToSet(q) : c \in ToSet(p) => g[c] > 0
    /\ \A c \in ToSet(q) : g[c] > 0 /\ failures = 0 => c \in ToSet(p)

\* The constants, one at a time.
LEMMA Constants ==
    /\ Capacity \in Nat /\ Requests \subseteq Nat \ {0}
    /\ MaxReleased \in Nat /\ MaxPostFailures \in Nat
    /\ Revoked \notin Coroutines
BY SemaphoreAssumption

\* Charging the members of D, who were not charged, moves what they want into the accounts.
LEMMA ChargesMove ==
    ASSUME NEW g \in [Coroutines -> Nat], IsFiniteSet(Units(g, Coroutines)),
           NEW D \in SUBSET Coroutines, IsFiniteSet(D), \A c \in D : g[c] = 0,
           want \in [Coroutines -> Nat],
           NEW h, h = [c \in Coroutines |-> IF c \in D THEN want[c] ELSE g[c]]
    PROVE  /\ IsFiniteSet(Units(h, Coroutines))
           /\ Total(h, Coroutines) = Total(g, Coroutines) + Total(want, D)
           /\ Total(g, Coroutines) \in Nat /\ Total(want, D) \in Nat
<1> DEFINE R == Coroutines \ D
<1>1. D \cup R = Coroutines /\ D \cap R = {} /\ R \in SUBSET Coroutines
  OBVIOUS
<1>2. (\A c \in D : h[c] = want[c] /\ want[c] \in Nat) /\ (\A c \in R : h[c] = g[c])
  OBVIOUS
<1>3. Units(h, D) = Units(want, D) /\ Total(h, D) = Total(want, D)
  BY <1>2, UnitsSame
<1>4. Units(h, R) = Units(g, R) /\ Total(h, R) = Total(g, R)
  BY <1>2, UnitsSame
<1> HIDE DEF R
<1>5. IsFiniteSet(Units(want, D)) /\ Total(want, D) \in Nat
  BY <1>2, UnitsFinite
<1>6. IsFiniteSet(Units(g, R)) /\ Total(g, R) \in Nat /\ IsFiniteSet(Units(g, D))
  BY <1>1, UnitsPart
<1>7. Total(g, D) = 0
  <2>1. \A c \in D : 1 .. g[c] = {}
    OBVIOUS
  <2>2. \A c \in D : {c} \X (1 .. g[c]) = {}
    BY <2>1
  <2>3. Units(g, D) = {}
    BY <2>2 DEF Units
  <2> QED
    BY <2>3, FS_EmptySet DEF Total
<1>8. /\ IsFiniteSet(Units(h, D \cup R))
      /\ Total(h, D \cup R) = Total(h, D) + Total(h, R)
  BY <1>1, <1>3, <1>4, <1>5, <1>6, UnitsSplit
<1>9. Total(g, D \cup R) = Total(g, D) + Total(g, R)
  BY <1>1, <1>6, UnitsSplit
<1>10. /\ IsFiniteSet(Units(h, Coroutines))
       /\ Total(h, Coroutines) = Total(want, D) + Total(g, R)
  BY <1>1, <1>3, <1>4, <1>8
<1>11. Total(g, Coroutines) = 0 + Total(g, R)
  BY <1>1, <1>7, <1>9
<1> QED
  BY <1>5, <1>6, <1>10, <1>11

\* grantFromHead(): permits move from the free ones into the accounts, in order, and the
\* charged waiters get their tickets unless posting fails.
LEMMA Granting ==
    ASSUME NEW S, NEW q, Waiting(q, S, want),
           NEW g, Accounts(q, g, want),
           NEW avail \in Nat,
           NEW tickets \in Seq(Entries), Tickets(q, g, tickets, S, postFailures),
           postFailures \in 0 .. MaxPostFailures,
           grantFromHead(avail, q, g, tickets)
    PROVE  /\ available' \in 0 .. avail
           /\ queue' = q
           /\ Accounts(q, granted', want)
           /\ posted' \in Seq(Entries)
           /\ postFailures' \in 0 .. MaxPostFailures
           /\ Tickets(q, granted', posted', S, postFailures')
           /\ available' + Total(granted', Coroutines) = avail + Total(g, Coroutines)
<1> DEFINE D == Charged(avail, q, g)
           o == Only(q, D)
<1>1. /\ q \in Seq(Coroutines) /\ q \in Seq(S) /\ IsInjective(q)
      /\ S \in SUBSET Coroutines
      /\ want \in [Coroutines -> Nat] /\ \A c \in S : want[c] \in Nat /\ want[c] > 0
  <2>1. q \in Seq(Coroutines)
    BY SeqMonotonic DEF Waiting
  <2>2. Requests \cup {0} \subseteq Nat /\ \A n \in Requests : n > 0
    BY Constants
  <2>3. want \in [Coroutines -> Nat]
    BY <2>2 DEF Waiting
  <2>4. \A c \in S : want[c] \in Nat /\ want[c] > 0
    BY <2>2, <2>3 DEF Waiting
  <2> QED
    BY <2>1, <2>3, <2>4 DEF Waiting
<1>2. /\ g \in [Coroutines -> Nat] /\ IsFiniteSet(Units(g, Coroutines)) /\ InPrefix(q, g)
      /\ \A c \in Coroutines : g[c] \in {0, want[c]} /\ (g[c] > 0 => c \in ToSet(q))
  BY DEF Accounts
<1>3. /\ D \subseteq ToSet(q)
      /\ \A c \in D : g[c] = 0
      /\ IsFiniteSet(D)
      /\ Total(want, D) \in 0 .. avail
      /\ \A i, j \in DOMAIN q : i < j /\ q[j] \in D /\ g[q[i]] = 0 => q[i] \in D
  BY <1>1, ChargedProperties
<1>4. /\ available' = avail - Total(want, D)
      /\ granted' = [c \in Coroutines |-> IF c \in D THEN want[c] ELSE g[c]]
      /\ queue' = q
      /\ \/ posted' = tickets \o o /\ postFailures' = postFailures
         \/ /\ postFailures < MaxPostFailures
            /\ posted' = tickets /\ postFailures' = postFailures + 1
  BY DEF grantFromHead
<1> HIDE DEF D
<1>5. ToSet(q) \subseteq S /\ D \in SUBSET Coroutines
  <2>1. ToSet(q) \subseteq S
    BY <1>1, ListIsFinite
  <2> QED
    BY <1>1, <1>3, <2>1
<1>6. /\ IsFiniteSet(Units(granted', Coroutines))
      /\ Total(granted', Coroutines) = Total(g, Coroutines) + Total(want, D)
      /\ Total(g, Coroutines) \in Nat /\ Total(want, D) \in Nat
  BY <1>1, <1>2, <1>3, <1>4, <1>5, ChargesMove
<1>7. available' \in 0 .. avail
      /\ available' + Total(granted', Coroutines) = avail + Total(g, Coroutines)
  BY <1>3, <1>4, <1>6
<1>8. /\ \A c \in D : granted'[c] = want[c] /\ granted'[c] > 0
      /\ \A c \in Coroutines \ D : granted'[c] = g[c]
      /\ granted' \in [Coroutines -> Nat]
  BY <1>1, <1>2, <1>3, <1>4, <1>5
<1>9. Accounts(q, granted', want)
  <2>1. ASSUME NEW c \in Coroutines
        PROVE  granted'[c] \in {0, want[c]} /\ (granted'[c] > 0 => c \in ToSet(q))
    BY <1>2, <1>3, <1>8
  <2>2. InPrefix(q, granted')
    <3> SUFFICES ASSUME NEW i \in DOMAIN q, NEW j \in DOMAIN q, i < j, granted'[q[j]] > 0
                 PROVE  granted'[q[i]] > 0
      BY DEF InPrefix
    <3>0. q[i] \in Coroutines /\ q[j] \in Coroutines /\ g[q[i]] \in Nat
      BY <1>1, <1>2, ElementOfSeq, LenProperties
    <3>1. CASE q[j] \in D /\ g[q[i]] = 0
      BY <1>3, <1>8, <3>1
    <3>2. CASE g[q[i]] > 0
      <4>1. q[i] \notin D
        BY <1>3, <3>2
      <4> QED
        BY <1>8, <3>0, <3>2, <4>1
    <3>3. CASE q[j] \notin D
      <4>1. g[q[j]] > 0
        BY <1>8, <3>0, <3>3
      <4>2. g[q[i]] > 0
        BY <1>2, <4>1 DEF InPrefix
      <4> QED
        BY <3>2, <4>2
    <3> QED
      BY <3>0, <3>1, <3>2, <3>3
  <2> QED
    BY <1>6, <1>8, <2>1, <2>2 DEF Accounts
<1>10. /\ \A c \in D : c \notin ToSet(tickets)
       /\ Revoked \notin D
  <2>1. \A c \in D : c \notin ToSet(tickets)
    BY <1>2, <1>3 DEF Tickets
  <2> QED
    BY <1>5, <2>1, Constants
<1>11. ASSUME posted' = tickets, postFailures' = postFailures + 1,
              postFailures < MaxPostFailures
       PROVE  /\ posted' \in Seq(Entries)
              /\ postFailures' \in 0 .. MaxPostFailures
              /\ Tickets(q, granted', posted', S, postFailures')
  <2>1. postFailures' \in 0 .. MaxPostFailures /\ postFailures' # 0
    BY <1>11, Constants
  <2>2. \A c \in ToSet(q) : c \in ToSet(tickets) => granted'[c] > 0
    <3> SUFFICES ASSUME NEW c \in ToSet(q), c \in ToSet(tickets) PROVE granted'[c] > 0
      OBVIOUS
    <3>1. g[c] > 0 /\ c \notin D /\ c \in Coroutines
      BY <1>1, <1>5, <1>10 DEF Tickets
    <3> QED
      BY <1>8, <3>1
  <2>3. /\ \A i \in DOMAIN tickets : tickets[i] = Revoked \/ tickets[i] \in S
        /\ \A i, j \in DOMAIN tickets : tickets[i] = tickets[j] => i = j \/ tickets[i] = Revoked
    BY DEF Tickets
  <2> QED
    BY <1>11, <2>1, <2>2, <2>3 DEF Tickets
<1>12. ASSUME posted' = tickets \o o, postFailures' = postFailures
       PROVE  /\ posted' \in Seq(Entries)
              /\ postFailures' \in 0 .. MaxPostFailures
              /\ Tickets(q, granted', posted', S, postFailures')
  <2> DEFINE m == Len(tickets)
             n == Len(o)
             p == tickets \o o
  <2>1. o \in Seq(S) /\ o \in Seq(Entries) /\ ToSet(o) = D /\ IsInjective(o)
    <3>1. o \in Seq(S) /\ ToSet(o) = ToSet(q) \cap D /\ IsInjective(o)
      BY <1>1, OnlyProperties
    <3>2. S \subseteq Entries
      BY <1>1 DEF Entries
    <3>3. o \in Seq(Entries)
      BY <3>1, <3>2, SeqMonotonic
    <3> QED
      BY <1>3, <3>1, <3>3
  <2> HIDE DEF o
  <2>2. p \in Seq(Entries) /\ ToSet(p) = ToSet(tickets) \cup D
    BY <2>1, ConcatenatedList
  <2>3. /\ DOMAIN p = 1 .. m + n /\ DOMAIN tickets = 1 .. m /\ DOMAIN o = 1 .. n
        /\ m \in Nat /\ n \in Nat
        /\ \A i \in 1 .. m + n : p[i] = IF i <= m THEN tickets[i] ELSE o[i - m]
    BY <2>1, ConcatProperties, LenProperties
  <2> HIDE DEF p, m, n
  <2>4. \A i \in 1 .. m + n : \/ i \in 1 .. m /\ p[i] = tickets[i]
                              \/ i \notin 1 .. m /\ i - m \in 1 .. n /\ p[i] = o[i - m]
    BY <2>3
  <2>5. /\ \A i \in 1 .. m : tickets[i] \in ToSet(tickets)
        /\ \A i \in 1 .. n : o[i] \in D
    <3>1. \A i \in 1 .. n : o[i] \in ToSet(o)
      BY <2>3 DEF ToSet
    <3> QED
      BY <2>1, <2>3, <3>1 DEF ToSet
  <2>6. /\ \A i \in 1 .. m : tickets[i] = Revoked \/ tickets[i] \in S
        /\ \A i, j \in 1 .. m : tickets[i] = tickets[j] => i = j \/ tickets[i] = Revoked
        /\ \A c \in ToSet(q) : c \in ToSet(tickets) => g[c] > 0
        /\ \A c \in ToSet(q) : g[c] > 0 /\ postFailures = 0 => c \in ToSet(tickets)
    BY <2>3 DEF Tickets
  <2>7. \A i \in DOMAIN p : p[i] = Revoked \/ p[i] \in S
    BY <1>3, <1>5, <2>3, <2>4, <2>5, <2>6
  <2>8. ASSUME NEW i \in DOMAIN p, NEW j \in DOMAIN p, p[i] = p[j]
        PROVE  i = j \/ p[i] = Revoked
    <3>1. CASE i \in 1 .. m /\ j \in 1 .. m
      BY <2>3, <2>4, <2>6, <2>8, <3>1
    <3>2. CASE i \in 1 .. m /\ j \notin 1 .. m
      <4>1. tickets[i] = o[j - m] /\ j - m \in 1 .. n
        BY <2>3, <2>4, <2>8, <3>2
      <4> QED
        BY <1>10, <2>5, <3>2, <4>1
    <3>3. CASE i \notin 1 .. m /\ j \in 1 .. m
      <4>1. tickets[j] = o[i - m] /\ i - m \in 1 .. n
        BY <2>3, <2>4, <2>8, <3>3
      <4> QED
        BY <1>10, <2>5, <3>3, <4>1
    <3>4. CASE i \notin 1 .. m /\ j \notin 1 .. m
      <4>1. o[i - m] = o[j - m] /\ i - m \in 1 .. n /\ j - m \in 1 .. n
        BY <2>3, <2>4, <2>8, <3>4
      <4>2. i - m = j - m
        BY <2>1, <2>3, <4>1 DEF IsInjective
      <4> QED
        BY <2>3, <4>2
    <3> QED
      BY <3>1, <3>2, <3>3, <3>4
  <2>9. ASSUME NEW c \in ToSet(q)
        PROVE  /\ c \in ToSet(p) => granted'[c] > 0
               /\ granted'[c] > 0 /\ postFailures' = 0 => c \in ToSet(p)
    <3>1. c \in Coroutines
      BY <1>1, <1>5
    <3>2. CASE c \in D
      BY <1>8, <2>2, <3>2
    <3>3. CASE c \notin D
      <4>1. granted'[c] = g[c] /\ (c \in ToSet(p) <=> c \in ToSet(tickets))
        BY <1>8, <2>2, <3>1, <3>3
      <4> QED
        BY <1>12, <2>6, <4>1
    <3> QED
      BY <3>2, <3>3
  <2>10. posted' = p
    BY <1>12 DEF p
  <2> QED
    BY <1>12, <2>2, <2>7, <2>8, <2>9, <2>10 DEF Tickets
<1> QED
  BY <1>4, <1>7, <1>9, <1>11, <1>12

-----------------------------------------------------------------------------
(* Permit objects                                                          *)

\* How many permits the Permit objects of each size carry.
Amounts(p) == [n \in Requests |-> n * p[n]]

\* A Permit object of n permits more.
LEMMA PermitMade ==
    ASSUME permits \in [Requests -> Nat], NEW n \in Requests, NewPermit(n),
           IsFiniteSet(Units(Amounts(permits), Requests))
    PROVE  /\ permits' \in [Requests -> Nat]
           /\ IsFiniteSet(Units(Amounts(permits'), Requests))
           /\ Total(Amounts(permits'), Requests) = Total(Amounts(permits), Requests) + n
           /\ Total(Amounts(permits), Requests) \in Nat
<1> DEFINE f == Amounts(permits)
           g == Amounts(permits')
<1>1. n \in Nat /\ permits[n] \in Nat /\ Requests \subseteq Nat
  BY Constants
<1>2. permits' \in [Requests -> Nat] /\ permits'[n] = permits[n] + 1
      /\ \A m \in Requests \ {n} : permits'[m] = permits[m]
  BY DEF NewPermit
<1>3. n * (permits[n] + 1) = n * permits[n] + n /\ n * permits[n] \in Nat
  BY <1>1
<1>4. /\ f[n] \in Nat /\ g[n] \in Nat /\ g[n] = f[n] + n
      /\ \A m \in Requests \ {n} : g[m] = f[m]
  BY <1>1, <1>2, <1>3 DEF Amounts
<1> HIDE DEF f, g
<1>5. /\ IsFiniteSet(Units(g, Requests))
      /\ Total(g, Requests) + f[n] = Total(f, Requests) + g[n]
      /\ Total(f, Requests) \in Nat /\ Total(g, Requests) \in Nat
  <2>1. IsFiniteSet(Units(f, Requests))
    BY DEF f
  <2> QED
    BY <1>4, <2>1, TotalChanged
<1>6. Total(g, Requests) = Total(f, Requests) + n
  BY <1>1, <1>4, <1>5
<1> QED
  BY <1>2, <1>5, <1>6 DEF f, g

\* A Permit object of n permits less.
LEMMA PermitGone ==
    ASSUME permits \in [Requests -> Nat], NEW n \in Requests, permits[n] > 0,
           permits' = [permits EXCEPT ![n] = @ - 1],
           IsFiniteSet(Units(Amounts(permits), Requests))
    PROVE  /\ permits' \in [Requests -> Nat]
           /\ IsFiniteSet(Units(Amounts(permits'), Requests))
           /\ Total(Amounts(permits'), Requests) + n = Total(Amounts(permits), Requests)
           /\ Total(Amounts(permits'), Requests) \in Nat
<1> DEFINE f == Amounts(permits)
           g == Amounts(permits')
<1>1. n \in Nat /\ permits[n] \in Nat /\ Requests \subseteq Nat
  BY Constants
<1>2. permits' \in [Requests -> Nat] /\ permits'[n] = permits[n] - 1
      /\ \A m \in Requests \ {n} : permits'[m] = permits[m]
  BY <1>1
<1>3. n * (permits[n] - 1) + n = n * permits[n] /\ n * permits[n] \in Nat
      /\ n * (permits[n] - 1) \in Nat
  <2>1. permits[n] - 1 \in Nat
    BY <1>1
  <2>2. n * (permits[n] - 1) \in Nat /\ n * permits[n] \in Nat
    BY <1>1, <2>1
  <2>3. n * (permits[n] - 1) + n = n * permits[n]
    BY <1>1
  <2> QED
    BY <2>2, <2>3
<1>4. /\ f[n] \in Nat /\ g[n] \in Nat /\ g[n] + n = f[n]
      /\ \A m \in Requests \ {n} : g[m] = f[m]
  BY <1>1, <1>2, <1>3 DEF Amounts
<1> HIDE DEF f, g
<1>5. /\ IsFiniteSet(Units(g, Requests))
      /\ Total(g, Requests) + f[n] = Total(f, Requests) + g[n]
      /\ Total(f, Requests) \in Nat /\ Total(g, Requests) \in Nat
  <2>1. IsFiniteSet(Units(f, Requests))
    BY DEF f
  <2> QED
    BY <1>4, <2>1, TotalChanged
<1>6. Total(g, Requests) + n = Total(f, Requests)
  BY <1>1, <1>4, <1>5
<1> QED
  BY <1>2, <1>5, <1>6 DEF f, g

-----------------------------------------------------------------------------
(* The inductive invariant                                                 *)

\* What is free, charged and carried by Permit objects, against the capacity.
Balance(a, g, p, r) ==
    /\ a + Total(g, Coroutines) + Total(Amounts(p), Requests) <= Capacity + r
    /\ a + Total(g, Coroutines) + Total(Amounts(p), Requests) >= Capacity

Inv ==
    /\ alive \in BOOLEAN
    /\ released \in 0 .. MaxReleased
    /\ available \in 0 .. Capacity
    /\ postFailures \in 0 .. MaxPostFailures
    /\ permits \in [Requests -> Nat]
    /\ posted \in Seq(Entries)
    /\ Waiting(queue, suspended, want)
    /\ Accounts(queue, granted, want)
    /\ Tickets(queue, granted, posted, suspended, postFailures)
    /\ IsFiniteSet(Units(Amounts(permits), Requests))
    /\ ~alive => queue = << >> /\ \A n \in Requests : permits[n] = 0
    /\ alive => Balance(available, granted, permits, released)

\* Lists that hold nothing are empty.
LEMMA EmptyList ==
    ASSUME NEW S, NEW s \in Seq(S)
    PROVE  s = << >> <=> ToSet(s) = {}
<1>1. DOMAIN s = 1 .. Len(s) /\ (s # << >> => Len(s) \in Nat \ {0})
  BY EmptySeq, LenProperties
<1>2. ASSUME s # << >> PROVE ToSet(s) # {}
  <2>1. 1 \in DOMAIN s
    BY <1>1, <1>2
  <2> QED
    BY <2>1 DEF ToSet
<1>3. ToSet(<< >>) = {}
  BY DEF ToSet
<1> QED
  BY <1>2, <1>3

\* A list is one over every set that holds its entries.
LEMMA ListOver ==
    ASSUME NEW S, NEW s \in Seq(S), NEW T, ToSet(s) \subseteq T
    PROVE  s \in Seq(T)
<1>1. DOMAIN s = 1 .. Len(s) /\ Len(s) \in Nat /\ s \in [1 .. Len(s) -> S]
  BY LenProperties
<1>2. \A i \in 1 .. Len(s) : s[i] \in T
  BY <1>1 DEF ToSet
<1>3. s \in [1 .. Len(s) -> T]
  BY <1>1, <1>2
<1> QED
  BY <1>1, <1>3

\* The semaphore starts with all its permits.
LEMMA InitInv == Init => Inv
<1> SUFFICES ASSUME Init PROVE Inv
  OBVIOUS
<1>1. ToSet(<< >>) = {} /\ DOMAIN << >> = {} /\ \A S : << >> \in Seq(S)
  BY DEF ToSet
<1>2. /\ 0 \in 0 .. MaxReleased /\ 0 \in 0 .. MaxPostFailures
      /\ Capacity \in 0 .. Capacity /\ Capacity \in Nat
  BY Constants
<1>3. permits \in [Requests -> Nat] /\ granted \in [Coroutines -> Nat]
      /\ want \in [Coroutines -> Requests \cup {0}]
  BY DEF Init
<1>4. Waiting(queue, suspended, want)
  BY <1>1, <1>3 DEF Init, Waiting, IsInjective
<1>5. Units(granted, Coroutines) = {}
  <2>1. \A c \in Coroutines : {c} \X (1 .. granted[c]) = {}
    BY DEF Init
  <2> QED
    BY <2>1 DEF Units
<1>6. Units(Amounts(permits), Requests) = {}
  <2>1. \A n \in Requests : Amounts(permits)[n] = 0
    BY Constants DEF Init, Amounts
  <2>2. \A n \in Requests : {n} \X (1 .. Amounts(permits)[n]) = {}
    BY <2>1
  <2> QED
    BY <2>2 DEF Units
<1>7. Accounts(queue, granted, want)
  <2>1. \A c \in Coroutines : granted[c] = 0 /\ want[c] = 0
    BY DEF Init
  <2>2. InPrefix(queue, granted)
    BY <1>1 DEF Init, InPrefix
  <2>3. IsFiniteSet(Units(granted, Coroutines))
    BY <1>5, FS_EmptySet
  <2> QED
    BY <1>3, <2>1, <2>2, <2>3 DEF Accounts
<1>8. Tickets(queue, granted, posted, suspended, postFailures)
  BY <1>1 DEF Init, Tickets
<1>9. Total(granted, Coroutines) = 0 /\ Total(Amounts(permits), Requests) = 0
  BY <1>5, <1>6, FS_EmptySet DEF Total
<1>10. Balance(available, granted, permits, released)
  <2>1. available = Capacity /\ released = 0
    BY DEF Init
  <2> QED
    BY <1>2, <1>9, <2>1 DEF Balance
<1> QED
  BY <1>1, <1>2, <1>3, <1>4, <1>6, <1>7, <1>8, <1>10, FS_EmptySet DEF Init, Inv

-----------------------------------------------------------------------------
(* A waiter leaves                                                         *)

\* Taking waiters out leaves the others charged in order.
LEMMA WithoutInPrefix ==
    ASSUME NEW q \in Seq(Coroutines), NEW K, NEW g, NEW h,
           \A c \in ToSet(q) \ K : h[c] = g[c], InPrefix(q, g)
    PROVE  InPrefix(Without(q, K), h)
<1> DEFINE L == ToSet(q) \ K
           o == Only(q, L)
<1>1. PICK m \in [1 .. Len(o) -> Kept(q, L)] :
          /\ \A k \in 1 .. Len(o) : o[k] = q[m[k]]
          /\ \A k, l \in 1 .. Len(o) : k < l => m[k] < m[l]
  BY OnlyEmbeds
<1>2. DOMAIN o = 1 .. Len(o)
  BY OnlyProperties, LenProperties
<1>3. \A i \in Kept(q, L) : i \in DOMAIN q /\ h[q[i]] = g[q[i]]
  BY DEF Kept
<1> HIDE DEF o, L
<1>4. ASSUME NEW k \in DOMAIN o, NEW l \in DOMAIN o, k < l, h[o[l]] > 0
      PROVE  h[o[k]] > 0
  <2>1. m[k] \in Kept(q, L) /\ m[l] \in Kept(q, L) /\ m[k] < m[l]
    BY <1>1, <1>2, <1>4
  <2>2. g[q[m[l]]] > 0
    BY <1>1, <1>2, <1>3, <1>4, <2>1
  <2>3. g[q[m[k]]] > 0
    BY <1>3, <2>1, <2>2 DEF InPrefix
  <2> QED
    BY <1>1, <1>2, <1>3, <2>1, <2>3
<1> QED
  BY <1>4 DEF InPrefix, o, L, Without

\* Revoking the ticket of c keeps the other entries where they are.
LEMMA RevokedEntries ==
    ASSUME NEW c \in Coroutines, posted \in Seq(Entries)
    PROVE  LET p == TicketRevoked(c)
           IN  /\ p \in Seq(Entries) /\ Len(p) = Len(posted) /\ DOMAIN p = DOMAIN posted
               /\ \A i \in DOMAIN posted : p[i] = IF posted[i] = c THEN Revoked ELSE posted[i]
               /\ c \notin ToSet(p)
               /\ \A d \in Coroutines \ {c} : d \in ToSet(p) <=> d \in ToSet(posted)
<1> DEFINE p == TicketRevoked(c)
           n == Len(posted)
<1>1. DOMAIN posted = 1 .. n /\ n \in Nat /\ \A i \in 1 .. n : posted[i] \in Entries
  BY LenProperties, ElementOfSeq
<1>2. p = [i \in 1 .. n |-> IF posted[i] = c THEN Revoked ELSE posted[i]]
  BY <1>1 DEF TicketRevoked
<1> HIDE DEF p, n
<1>3. \A i \in 1 .. n : p[i] \in Entries
  BY <1>1, <1>2 DEF Entries
<1>4. p \in Seq(Entries) /\ Len(p) = n /\ DOMAIN p = 1 .. n
  <2>1. p \in [1 .. n -> Entries]
    BY <1>2, <1>3
  <2>2. p \in Seq(Entries)
    BY <1>1, <2>1
  <2> QED
    BY <1>1, <1>2, <2>2
<1>5. /\ \A d : d \in ToSet(p) <=> \E i \in 1 .. n : d = p[i]
      /\ \A d : d \in ToSet(posted) <=> \E i \in 1 .. n : d = posted[i]
  BY <1>1, <1>4 DEF ToSet
<1>6. c # Revoked /\ \A d \in Coroutines : d # Revoked
  BY Constants
<1>7. c \notin ToSet(p)
  BY <1>2, <1>5, <1>6
<1>8. \A d \in Coroutines \ {c} : d \in ToSet(p) <=> d \in ToSet(posted)
  BY <1>2, <1>5, <1>6
<1> QED
  BY <1>1, <1>2, <1>4, <1>7, <1>8 DEF p, n

\* c leaves: its ticket is revoked, its node unlinked and its account cleared.
LEMMA Leaving ==
    ASSUME Inv, NEW c \in suspended
    PROVE  LET q == Without(queue, {c})
               g == [granted EXCEPT ![c] = 0]
               p == TicketRevoked(c)
               S == suspended \ {c}
           IN  /\ Waiting(q, S, want)
               /\ Accounts(q, g, want)
               /\ p \in Seq(Entries)
               /\ Tickets(q, g, p, S, postFailures)
               /\ Total(g, Coroutines) + granted[c] = Total(granted, Coroutines)
               /\ Total(g, Coroutines) \in Nat
               /\ granted[c] \in Nat /\ (granted[c] > 0 => granted[c] \in Requests)
               /\ ~ (alive /\ granted[c] > 0) => g = granted /\ granted[c] = 0
               /\ queue = << >> => q = << >>
<1> DEFINE q == Without(queue, {c})
           g == [granted EXCEPT ![c] = 0]
           p == TicketRevoked(c)
           S == suspended \ {c}
<1>1. /\ suspended \in SUBSET Coroutines /\ c \in Coroutines
      /\ queue \in Seq(suspended) /\ queue \in Seq(Coroutines) /\ IsInjective(queue)
      /\ ToSet(queue) \subseteq suspended
      /\ want \in [Coroutines -> Requests \cup {0}] /\ \A d \in suspended : want[d] \in Requests
      /\ posted \in Seq(Entries)
  <2>1. queue \in Seq(suspended) /\ suspended \in SUBSET Coroutines
    BY DEF Inv, Waiting
  <2>2. queue \in Seq(Coroutines) /\ ToSet(queue) \subseteq suspended
    BY <2>1, SeqMonotonic, ListIsFinite
  <2> QED
    BY <2>1, <2>2 DEF Inv, Waiting
<1>2. /\ granted \in [Coroutines -> Nat]
      /\ \A d \in Coroutines :
            granted[d] \in {0, want[d]} /\ (granted[d] > 0 => d \in ToSet(queue))
      /\ InPrefix(queue, granted) /\ IsFiniteSet(Units(granted, Coroutines))
  BY DEF Inv, Accounts
<1>3. /\ q \in Seq(Coroutines) /\ ToSet(q) = ToSet(queue) \ {c} /\ IsInjective(q)
  BY <1>1, WithoutProperties
<1>4. Waiting(q, S, want)
  <2>1. q \in Seq(S)
    <3>1. ToSet(q) \subseteq S
      BY <1>1, <1>3
    <3> HIDE DEF q, S
    <3> QED
      BY <1>3, <3>1, ListOver
  <2> HIDE DEF q
  <2> QED
    BY <1>1, <1>3, <2>1 DEF Waiting
<1>5. g \in [Coroutines -> Nat] /\ g[c] = 0 /\ \A d \in Coroutines \ {c} : g[d] = granted[d]
  BY <1>1, <1>2
<1>6. /\ IsFiniteSet(Units(g, Coroutines))
      /\ Total(g, Coroutines) + granted[c] = Total(granted, Coroutines) + g[c]
      /\ Total(granted, Coroutines) \in Nat /\ Total(g, Coroutines) \in Nat
  <2>1. granted[c] \in Nat /\ g[c] \in Nat
    BY <1>1, <1>2, <1>5
  <2> HIDE DEF g
  <2> QED
    BY <1>1, <1>2, <1>5, <2>1, TotalChanged
<1>7. InPrefix(q, g)
  <2>1. \A d \in ToSet(queue) \ {c} : g[d] = granted[d]
    BY <1>1, <1>5
  <2> HIDE DEF g
  <2> QED
    BY <1>1, <1>2, <2>1, WithoutInPrefix
<1>8. Accounts(q, g, want)
  <2>1. ASSUME NEW d \in Coroutines
        PROVE  g[d] \in {0, want[d]} /\ (g[d] > 0 => d \in ToSet(q))
    <3>1. CASE d = c
      BY <1>5, <3>1
    <3>2. CASE d # c
      BY <1>2, <1>3, <1>5, <3>2
    <3> QED
      BY <3>1, <3>2
  <2> HIDE DEF q, g
  <2> QED
    BY <1>5, <1>6, <1>7, <2>1 DEF Accounts
<1>9. /\ p \in Seq(Entries) /\ DOMAIN p = DOMAIN posted
      /\ \A i \in DOMAIN posted : p[i] = IF posted[i] = c THEN Revoked ELSE posted[i]
      /\ c \notin ToSet(p)
      /\ \A d \in Coroutines \ {c} : d \in ToSet(p) <=> d \in ToSet(posted)
  BY <1>1, RevokedEntries
<1>10. Tickets(q, g, p, S, postFailures)
  <2> HIDE DEF q, g, p
  <2>1. /\ \A i \in DOMAIN posted : posted[i] = Revoked \/ posted[i] \in suspended
        /\ \A i, j \in DOMAIN posted : posted[i] = posted[j] => i = j \/ posted[i] = Revoked
        /\ \A d \in ToSet(queue) : d \in ToSet(posted) => granted[d] > 0
        /\ \A d \in ToSet(queue) : granted[d] > 0 /\ postFailures = 0 => d \in ToSet(posted)
    BY DEF Inv, Tickets
  <2>2. \A i \in DOMAIN p : p[i] = Revoked \/ p[i] \in S
    BY <1>9, <2>1
  <2>3. \A i, j \in DOMAIN p : p[i] = p[j] => i = j \/ p[i] = Revoked
    BY <1>9, <2>1
  <2>4. ASSUME NEW d \in ToSet(q)
        PROVE  /\ d \in ToSet(p) => g[d] > 0
               /\ g[d] > 0 /\ postFailures = 0 => d \in ToSet(p)
    <3>1. d \in ToSet(queue) /\ d \in Coroutines \ {c}
      BY <1>1, <1>3
    <3> QED
      BY <1>5, <1>9, <2>1, <3>1
  <2> QED
    BY <2>2, <2>3, <2>4 DEF Tickets
<1>11. granted[c] \in Nat /\ (granted[c] > 0 => granted[c] \in Requests)
  BY <1>1, <1>2
<1>12. ASSUME ~ (alive /\ granted[c] > 0) PROVE g = granted /\ granted[c] = 0
  <2>1. granted[c] = 0
    <3>1. CASE ~alive
      <4>1. ToSet(queue) = {}
        BY <3>1, <1>1, EmptyList DEF Inv
      <4> QED
        BY <1>1, <1>2, <4>1, <1>11
    <3>2. CASE alive
      BY <1>11, <1>12, <3>2
    <3> QED
      BY <3>1, <3>2
  <2> QED
    BY <1>2, <2>1
<1>13. ASSUME queue = << >> PROVE q = << >>
  <2>1. ToSet(q) = {}
    BY <1>1, <1>3, <1>13, EmptyList
  <2> HIDE DEF q
  <2> QED
    BY <1>3, <2>1, EmptyList
<1>14. Total(g, Coroutines) + granted[c] = Total(granted, Coroutines)
  <2> HIDE DEF g
  <2> QED
    BY <1>5, <1>6
<1> HIDE DEF q, g, p, S
<1>15. /\ Waiting(q, S, want)
       /\ Accounts(q, g, want)
       /\ p \in Seq(Entries)
       /\ Tickets(q, g, p, S, postFailures)
       /\ Total(g, Coroutines) + granted[c] = Total(granted, Coroutines)
       /\ Total(g, Coroutines) \in Nat
       /\ granted[c] \in Nat /\ (granted[c] > 0 => granted[c] \in Requests)
       /\ ~ (alive /\ granted[c] > 0) => g = granted /\ granted[c] = 0
       /\ queue = << >> => q = << >>
  BY <1>4, <1>6, <1>8, <1>9, <1>10, <1>11, <1>12, <1>13, <1>14
<1> QED
  BY <1>15 DEF q, g, p, S

\* An entry whose ticket was revoked is taken from the scheduler's queue.
LEMMA TailTickets ==
    ASSUME NEW q, ToSet(q) \subseteq Coroutines, NEW g, NEW S, NEW f,
           NEW p \in Seq(Entries), p # << >>, Head(p) = Revoked, Tickets(q, g, p, S, f)
    PROVE  Tail(p) \in Seq(Entries) /\ Tickets(q, g, Tail(p), S, f)
<1> DEFINE u == Tail(p)
<1>1. /\ DOMAIN p = 1 .. Len(p) /\ Len(p) \in Nat
      /\ u \in Seq(Entries) /\ Len(u) = Len(p) - 1
      /\ \A i \in 1 .. Len(u) : u[i] = p[i + 1]
      /\ ToSet(p) = ToSet(u) \cup {Head(p)}
  BY HeadTailProperties, LenProperties, HeadTaken
<1>2. DOMAIN u = 1 .. Len(u)
  BY <1>1, LenProperties
<1> HIDE DEF u
<1>3. \A i \in DOMAIN u : i + 1 \in DOMAIN p /\ u[i] = p[i + 1] /\ i \in Nat
  BY <1>1, <1>2
<1>4. \A d \in ToSet(q) : d \in ToSet(u) <=> d \in ToSet(p)
  BY <1>1, Constants
<1>5. \A i \in DOMAIN u : u[i] = Revoked \/ u[i] \in S
  BY <1>3 DEF Tickets
<1>6. ASSUME NEW i \in DOMAIN u, NEW j \in DOMAIN u, u[i] = u[j]
      PROVE  i = j \/ u[i] = Revoked
  <2>1. i + 1 = j + 1 \/ p[i + 1] = Revoked
    BY <1>3, <1>6 DEF Tickets
  <2> QED
    BY <1>3, <2>1
<1>7. Tickets(q, g, u, S, f)
  BY <1>4, <1>5, <1>6 DEF Tickets
<1> QED
  BY <1>1, <1>7 DEF u

-----------------------------------------------------------------------------
(* The operations                                                          *)

\* What the parts of the invariant say of the counts.
LEMMA CountTypes ==
    ASSUME Inv
    PROVE  /\ available \in Nat /\ available <= Capacity /\ Capacity \in Nat
           /\ Total(granted, Coroutines) \in Nat
           /\ Total(Amounts(permits), Requests) \in Nat
           /\ released \in Nat
<1>1. IsFiniteSet(Units(granted, Coroutines)) /\ IsFiniteSet(Units(Amounts(permits), Requests))
  BY DEF Inv, Accounts
<1> QED
  BY <1>1, Constants, FS_CardinalityType DEF Inv, Total

\* A Permit of n permits is made out of the free ones: an acquire() that is ready at once,
\* or tryAcquire().
LEMMA TakeKeeps ==
    ASSUME Inv, NEW n \in Requests, alive, n <= available, available' = available - n,
           NewPermit(n),
           UNCHANGED <<alive, queue, suspended, want, granted, posted, released, postFailures>>
    PROVE  Inv'
<1>1. n \in Nat
  BY Constants
<1>2. available' \in 0 .. Capacity
  BY <1>1, CountTypes
<1>3. /\ permits' \in [Requests -> Nat]
      /\ IsFiniteSet(Units(Amounts(permits'), Requests))
      /\ Total(Amounts(permits'), Requests) = Total(Amounts(permits), Requests) + n
  BY PermitMade DEF Inv
<1>4. Balance(available', granted', permits', released')
  <2>1. Balance(available, granted, permits, released)
    BY DEF Inv
  <2>2. granted' = granted /\ released' = released
    OBVIOUS
  <2> QED
    BY <1>1, <1>3, <2>1, <2>2, CountTypes DEF Balance
<1> QED
  BY <1>2, <1>3, <1>4 DEF Inv

\* An acquire() that has to wait.
LEMMA AcquireWaitKeeps ==
    ASSUME Inv, NEW c \in Coroutines, NEW n \in Requests, AcquireWait(c, n)
    PROVE  Inv'
<1>1. /\ queue \in Seq(suspended) /\ IsInjective(queue) /\ suspended \in SUBSET Coroutines
      /\ ToSet(queue) \subseteq suspended
      /\ want \in [Coroutines -> Requests \cup {0}] /\ \A d \in suspended : want[d] \in Requests
  <2>1. queue \in Seq(suspended) /\ suspended \in SUBSET Coroutines
    BY DEF Inv, Waiting
  <2>2. ToSet(queue) \subseteq suspended
    BY <2>1, ListIsFinite
  <2> QED
    BY <2>1, <2>2 DEF Inv, Waiting
<1>2. /\ alive /\ c \notin suspended
      /\ queue' = Append(queue, c) /\ suspended' = suspended \cup {c}
      /\ want' = [want EXCEPT ![c] = n]
      /\ alive' = alive /\ available' = available /\ granted' = granted
      /\ posted' = posted /\ permits' = permits /\ released' = released
      /\ postFailures' = postFailures
  BY DEF AcquireWait
<1>3. /\ queue' \in Seq(suspended') /\ IsInjective(queue')
      /\ ToSet(queue') = ToSet(queue) \cup {c}
  <2>1. queue \in Seq(suspended')
    BY <1>1, <1>2, SeqMonotonic
  <2>2. c \in suspended' /\ c \notin ToSet(queue)
    BY <1>1, <1>2
  <2> QED
    BY <1>1, <1>2, <2>1, <2>2, AppendedList
<1>4. want' \in [Coroutines -> Requests \cup {0}] /\ want'[c] = n
      /\ \A d \in Coroutines \ {c} : want'[d] = want[d]
  BY <1>1, <1>2
<1>5. Waiting(queue', suspended', want')
  BY <1>1, <1>2, <1>3, <1>4 DEF Waiting
<1>6. granted[c] = 0 /\ granted \in [Coroutines -> Nat]
  BY <1>1, <1>2 DEF Inv, Accounts
<1>7. Accounts(queue', granted', want')
  <2>1. ASSUME NEW d \in Coroutines
        PROVE  granted[d] \in {0, want'[d]} /\ (granted[d] > 0 => d \in ToSet(queue'))
    <3>1. CASE d = c
      BY <1>6, <3>1
    <3>2. CASE d # c
      BY <1>3, <1>4, <3>2 DEF Inv, Accounts
    <3> QED
      BY <3>1, <3>2
  <2>2. InPrefix(queue', granted)
    <3>1. /\ Len(queue) \in Nat /\ DOMAIN queue = 1 .. Len(queue)
          /\ DOMAIN queue' = 1 .. Len(queue) + 1
          /\ \A i \in 1 .. Len(queue) : queue'[i] = queue[i]
          /\ queue'[Len(queue) + 1] = c
      <4>1. queue \in Seq(Coroutines)
        BY <1>1, SeqMonotonic
      <4> QED
        BY <1>2, <4>1, AppendProperties, LenProperties
    <3> SUFFICES ASSUME NEW i \in DOMAIN queue', NEW j \in DOMAIN queue', i < j,
                        granted[queue'[j]] > 0
                 PROVE  granted[queue'[i]] > 0
      BY DEF InPrefix
    <3>2. j # Len(queue) + 1
      BY <1>6, <3>1
    <3>3. i \in DOMAIN queue /\ j \in DOMAIN queue
      BY <3>1, <3>2
    <3>4. InPrefix(queue, granted)
      BY DEF Inv, Accounts
    <3> QED
      BY <3>1, <3>3, <3>4 DEF InPrefix
  <2> QED
    BY <1>2, <1>6, <2>1, <2>2 DEF Inv, Accounts
<1>8. Tickets(queue', granted', posted', suspended', postFailures')
  <2>1. /\ \A i \in DOMAIN posted : posted[i] = Revoked \/ posted[i] \in suspended
        /\ \A i, j \in DOMAIN posted : posted[i] = posted[j] => i = j \/ posted[i] = Revoked
        /\ \A d \in ToSet(queue) : d \in ToSet(posted) => granted[d] > 0
        /\ \A d \in ToSet(queue) : granted[d] > 0 /\ postFailures = 0 => d \in ToSet(posted)
    BY DEF Inv, Tickets
  <2>2. c \notin ToSet(posted)
    <3>1. c # Revoked
      BY Constants
    <3> QED
      BY <1>2, <2>1, <3>1 DEF ToSet
  <2> QED
    BY <1>2, <1>3, <1>6, <2>1, <2>2 DEF Tickets
<1> QED
  BY <1>2, <1>5, <1>7, <1>8 DEF Inv

\* A Permit is given back.
LEMMA DropPermitKeeps ==
    ASSUME Inv, NEW n \in Requests, DropPermit(n)
    PROVE  Inv'
<1> DEFINE room == Capacity - available
           more == IF n > room THEN room ELSE n
           G == Total(granted, Coroutines)
           H == Total(granted', Coroutines)
           P == Total(Amounts(permits), Requests)
           Q == Total(Amounts(permits'), Requests)
<1>1. /\ permits[n] > 0 /\ permits' = [permits EXCEPT ![n] = @ - 1]
      /\ grantFromHead(available + more, queue, granted, posted)
      /\ alive' = alive /\ suspended' = suspended /\ want' = want /\ released' = released
  BY DEF DropPermit, returnPermits
<1>2. n \in Nat /\ available \in Nat /\ available <= Capacity /\ Capacity \in Nat
      /\ released \in Nat /\ G \in Nat /\ P \in Nat
  BY Constants, CountTypes
<1>3. more \in Nat /\ more <= n /\ available + more <= Capacity
      /\ (more = n \/ available + more = Capacity)
  BY <1>2
<1>4. alive
  BY <1>1 DEF Inv
<1> HIDE DEF more
<1>5. /\ available' \in 0 .. available + more
      /\ queue' = queue
      /\ Accounts(queue, granted', want)
      /\ posted' \in Seq(Entries)
      /\ postFailures' \in 0 .. MaxPostFailures
      /\ Tickets(queue, granted', posted', suspended, postFailures')
      /\ available' + H = available + more + G
  <2>1. available + more \in Nat
    BY <1>2, <1>3
  <2> QED
    BY <1>1, <2>1, Granting DEF Inv
<1>6. /\ permits' \in [Requests -> Nat]
      /\ IsFiniteSet(Units(Amounts(permits'), Requests))
      /\ Q + n = P /\ Q \in Nat
  BY <1>1, PermitGone DEF Inv
<1>7. available' \in 0 .. Capacity
  BY <1>2, <1>3, <1>5
<1>8. Balance(available', granted', permits', released')
  <2>1. available + G + P <= Capacity + released /\ available + G + P >= Capacity
    BY <1>4 DEF Inv, Balance
  <2>2. H \in Nat
    BY <1>5, FS_CardinalityType DEF Accounts, Total
  <2> HIDE DEF G, H, P, Q
  <2>3. available' \in Nat /\ available' + H = available + more + G
    BY <1>2, <1>5, <1>7
  <2>4. available' + H + Q = available + more + G + Q /\ Q = P - n
    BY <1>2, <1>6, <2>3
  <2>5. available + more + G + Q <= Capacity + released
    BY <1>2, <1>3, <1>6, <2>1, <2>4
  <2>6. available + more + G + Q >= Capacity
    BY <1>2, <1>3, <1>6, <2>1, <2>4
  <2> QED
    BY <1>1, <2>4, <2>5, <2>6 DEF Balance, H, Q
<1> QED
  BY <1>1, <1>4, <1>5, <1>6, <1>7, <1>8 DEF Inv

\* release().
LEMMA releaseKeeps ==
    ASSUME Inv, NEW n \in Requests, release(n)
    PROVE  Inv'
<1> DEFINE G == Total(granted, Coroutines)
           H == Total(granted', Coroutines)
           P == Total(Amounts(permits), Requests)
<1>1. /\ alive /\ n <= Capacity - available /\ released + n <= MaxReleased
      /\ released' = released + n
      /\ grantFromHead(available + n, queue, granted, posted)
      /\ alive' = alive /\ suspended' = suspended /\ want' = want /\ permits' = permits
  BY DEF release
<1>2. n \in Nat /\ available \in Nat /\ available <= Capacity /\ Capacity \in Nat
      /\ released \in Nat /\ G \in Nat /\ P \in Nat /\ MaxReleased \in Nat
  BY Constants, CountTypes
<1>3. /\ available' \in 0 .. available + n
      /\ queue' = queue
      /\ Accounts(queue, granted', want)
      /\ posted' \in Seq(Entries)
      /\ postFailures' \in 0 .. MaxPostFailures
      /\ Tickets(queue, granted', posted', suspended, postFailures')
      /\ available' + H = available + n + G
  <2>1. available + n \in Nat
    BY <1>2
  <2> QED
    BY <1>1, <2>1, Granting DEF Inv
<1>4. available' \in 0 .. Capacity /\ released' \in 0 .. MaxReleased
  BY <1>1, <1>2, <1>3
<1>5. Balance(available', granted', permits', released')
  <2>1. available + G + P <= Capacity + released /\ available + G + P >= Capacity
    BY <1>1 DEF Inv, Balance
  <2>2. H \in Nat
    BY <1>3, FS_CardinalityType DEF Accounts, Total
  <2>3. available' + H + P <= Capacity + released' /\ available' + H + P >= Capacity
    <3> HIDE DEF G, H, P
    <3>1. available' \in Nat /\ available' + H = available + n + G
      BY <1>2, <1>3, <1>4
    <3>2. available' + H + P = available + n + G + P
      BY <1>2, <2>2, <3>1
    <3> QED
      BY <1>1, <1>2, <2>1, <3>2
  <2> QED
    BY <1>1, <2>3 DEF Balance
<1> QED
  BY <1>1, <1>3, <1>4, <1>5 DEF Inv

\* The next ticket is redeemed, or what is left of a revoked one taken away.
LEMMA resumeOnceKeeps ==
    ASSUME Inv, resumeOnce
    PROVE  Inv'
<1> DEFINE c == Head(posted)
<1>1. /\ posted # << >> /\ posted \in Seq(Entries)
      /\ alive' = alive /\ available' = available /\ want' = want
      /\ released' = released /\ postFailures' = postFailures
  BY DEF resumeOnce, Inv
<1>2. /\ queue \in Seq(suspended) /\ suspended \in SUBSET Coroutines
      /\ ToSet(queue) \subseteq Coroutines
  <2>1. queue \in Seq(suspended) /\ suspended \in SUBSET Coroutines
    BY DEF Inv, Waiting
  <2> QED
    BY <2>1, ListIsFinite
<1>3. c = posted[1] /\ 1 \in DOMAIN posted
  BY <1>1, EmptySeq, LenProperties
<1>4. CASE c = Revoked
  <2>1. /\ posted' = Tail(posted) /\ queue' = queue /\ suspended' = suspended
        /\ granted' = granted /\ permits' = permits
    BY <1>4 DEF resumeOnce
  <2>2. Tail(posted) \in Seq(Entries)
        /\ Tickets(queue, granted, Tail(posted), suspended, postFailures)
    BY <1>1, <1>2, <1>4, TailTickets DEF Inv
  <2> QED
    BY <1>1, <2>1, <2>2 DEF Inv
<1>5. CASE c # Revoked
  <2> DEFINE q == Without(queue, {c})
             g == [granted EXCEPT ![c] = 0]
             p == TicketRevoked(c)
             S == suspended \ {c}
             G == Total(granted, Coroutines)
             H == Total(g, Coroutines)
             P == Total(Amounts(permits), Requests)
             k == granted[c]
  <2>0. c \in suspended /\ c \in Coroutines
    BY <1>2, <1>3, <1>5 DEF Inv, Tickets
  <2>1. /\ posted' = Tail(p) /\ suspended' = S /\ queue' = q
        /\ IF alive /\ k > 0 THEN NewPermit(k) /\ granted' = g
                             ELSE permits' = permits /\ granted' = granted
    BY <1>5 DEF resumeOnce
  <2>2. /\ Waiting(q, S, want)
        /\ Accounts(q, g, want)
        /\ p \in Seq(Entries)
        /\ Tickets(q, g, p, S, postFailures)
        /\ H + k = G /\ H \in Nat
        /\ k \in Nat /\ (k > 0 => k \in Requests)
        /\ ~ (alive /\ k > 0) => g = granted /\ k = 0
        /\ queue = << >> => q = << >>
    <3> HIDE DEF c
    <3> QED
      BY <2>0, Leaving
  <2>3. p # << >> /\ Head(p) = Revoked
    <3>1. Len(p) = Len(posted) /\ p[1] = Revoked
      <4> HIDE DEF c
      <4> QED
        BY <1>1, <1>3, <2>0, RevokedEntries
    <3>2. Len(posted) # 0 /\ p # << >>
      BY <1>1, <2>2, <3>1, EmptySeq
    <3> QED
      BY <2>2, <3>1, <3>2
  <2> HIDE DEF c, q, g, p, S
  <2>4. Tail(p) \in Seq(Entries) /\ Tickets(q, g, Tail(p), S, postFailures)
    <3>1. ToSet(q) \subseteq Coroutines
      <4>1. q \in Seq(S) /\ S \in SUBSET Coroutines
        BY <2>2 DEF Waiting
      <4> QED
        BY <4>1, ListIsFinite
    <3> QED
      BY <2>2, <2>3, <3>1, TailTickets
  <2>5. granted' = g
    BY <2>1, <2>2
  <2>6. ~alive => queue' = << >> /\ \A n \in Requests : permits'[n] = 0
    BY <2>1, <2>2 DEF Inv
  <2>7. CASE alive /\ k > 0
    <3>1. /\ permits' \in [Requests -> Nat]
          /\ IsFiniteSet(Units(Amounts(permits'), Requests))
          /\ Total(Amounts(permits'), Requests) = P + k
      <4> HIDE DEF k
      <4> QED
        BY <2>1, <2>2, <2>7, PermitMade DEF Inv
    <3>2. Balance(available', granted', permits', released')
      <4>1. available + G + P <= Capacity + released /\ available + G + P >= Capacity
        BY <2>7 DEF Inv, Balance
      <4>2. available \in Nat /\ G \in Nat /\ P \in Nat /\ Capacity \in Nat /\ released \in Nat
        BY CountTypes
      <4> HIDE DEF k, G, H, P
      <4>3. available + H + (P + k) = available + G + P
        BY <2>2, <4>2
      <4> QED
        BY <1>1, <2>5, <3>1, <4>1, <4>3 DEF Balance, H
    <3> QED
      BY <1>1, <2>1, <2>2, <2>4, <2>5, <2>6, <3>1, <3>2 DEF Inv
  <2>8. CASE ~ (alive /\ k > 0)
    <3>1. permits' = permits /\ granted' = granted
      BY <2>1, <2>8
    <3>2. alive => Balance(available', granted', permits', released')
      BY <1>1, <3>1 DEF Inv
    <3> QED
      BY <1>1, <2>1, <2>2, <2>4, <2>5, <2>6, <3>1, <3>2 DEF Inv
  <2> QED
    BY <2>7, <2>8
<1> QED
  BY <1>4, <1>5

\* A waiting frame is destroyed.
LEMMA AwaiterDiesKeeps ==
    ASSUME Inv, NEW c \in Coroutines, AwaiterDies(c)
    PROVE  Inv'
<1> DEFINE q == Without(queue, {c})
           g == [granted EXCEPT ![c] = 0]
           p == TicketRevoked(c)
           S == suspended \ {c}
           k == granted[c]
           room == Capacity - available
           more == IF k > room THEN room ELSE k
           F == Total(granted, Coroutines)
           G == Total(g, Coroutines)
           H == Total(granted', Coroutines)
           P == Total(Amounts(permits), Requests)
<1>1. /\ c \in suspended /\ suspended' = S
      /\ alive' = alive /\ want' = want /\ permits' = permits /\ released' = released
      /\ IF alive /\ k > 0
         THEN grantFromHead(available + more, q, g, p)
         ELSE /\ queue' = q /\ posted' = p
              /\ available' = available /\ granted' = granted
              /\ postFailures' = postFailures
  BY DEF AwaiterDies, returnPermits
<1>2. /\ Waiting(q, S, want)
      /\ Accounts(q, g, want)
      /\ p \in Seq(Entries)
      /\ Tickets(q, g, p, S, postFailures)
      /\ G + k = F /\ G \in Nat
      /\ k \in Nat /\ (k > 0 => k \in Requests)
      /\ ~ (alive /\ k > 0) => g = granted /\ k = 0
      /\ queue = << >> => q = << >>
  BY <1>1, Leaving
<1>3. /\ available \in Nat /\ available <= Capacity /\ Capacity \in Nat
      /\ released \in Nat /\ F \in Nat /\ P \in Nat
  BY CountTypes
<1>4. /\ more \in Nat /\ more <= k /\ available + more <= Capacity
      /\ (more = k \/ available + more = Capacity)
  <2> HIDE DEF k
  <2> QED
    BY <1>2, <1>3
<1> HIDE DEF q, g, p, S, k, more, F, G, H, P
<1>5. CASE alive /\ k > 0
  <2>1. /\ available' \in 0 .. available + more
        /\ queue' = q
        /\ Accounts(q, granted', want)
        /\ posted' \in Seq(Entries)
        /\ postFailures' \in 0 .. MaxPostFailures
        /\ Tickets(q, granted', posted', S, postFailures')
        /\ available' + H = available + more + G
    <3>1. available + more \in Nat /\ grantFromHead(available + more, q, g, p)
      BY <1>1, <1>3, <1>4, <1>5
    <3> QED
      BY <1>2, <3>1, Granting DEF Inv, G, H
  <2>2. available' \in 0 .. Capacity /\ available' \in Nat
    BY <1>3, <1>4, <2>1
  <2>3. Balance(available', granted', permits', released')
    <3>1. available + F + P <= Capacity + released /\ available + F + P >= Capacity
      BY <1>5 DEF Inv, Balance, F, P
    <3>2. available' + H + P = available + more + G + P
      BY <1>3, <2>1
    <3>3. available + more + G + P <= Capacity + released
      BY <1>2, <1>3, <1>4, <3>1
    <3>4. available + more + G + P >= Capacity
      BY <1>2, <1>3, <1>4, <3>1
    <3> QED
      BY <1>1, <3>2, <3>3, <3>4 DEF Balance, H, P
  <2> QED
    BY <1>1, <1>2, <1>5, <2>1, <2>2, <2>3 DEF Inv
<1>6. CASE ~ (alive /\ k > 0)
  <2>1. /\ queue' = q /\ posted' = p
        /\ available' = available /\ granted' = granted /\ granted' = g
        /\ postFailures' = postFailures
    BY <1>1, <1>2, <1>6
  <2> QED
    BY <1>1, <1>2, <2>1 DEF Inv
<1> QED
  BY <1>5, <1>6

\* The semaphore is destroyed: the waiters stay suspended, with no claim left.
LEMMA SemaphoreDiesKeeps ==
    ASSUME Inv, SemaphoreDies
    PROVE  Inv'
<1>1. /\ alive' = FALSE /\ queue' = << >>
      /\ granted' = [c \in Coroutines |-> 0]
      /\ available' = available /\ suspended' = suspended /\ want' = want
      /\ posted' = posted /\ permits' = permits /\ released' = released
      /\ postFailures' = postFailures
      /\ \A n \in Requests : permits[n] = 0
  BY DEF SemaphoreDies
<1>2. ToSet(<< >>) = {} /\ DOMAIN << >> = {} /\ \A S : << >> \in Seq(S)
  BY DEF ToSet
<1>3. Waiting(queue', suspended', want')
  BY <1>1, <1>2 DEF Inv, Waiting, IsInjective
<1>4. Accounts(queue', granted', want')
  <2>1. granted' \in [Coroutines -> Nat] /\ \A c \in Coroutines : granted'[c] = 0
    BY <1>1
  <2>2. Units(granted', Coroutines) = {}
    <3>1. \A c \in Coroutines : {c} \X (1 .. granted'[c]) = {}
      BY <2>1
    <3> QED
      BY <3>1 DEF Units
  <2>3. InPrefix(queue', granted')
    BY <1>1, <1>2 DEF InPrefix
  <2>4. IsFiniteSet(Units(granted', Coroutines))
    BY <2>2, FS_EmptySet
  <2> QED
    BY <2>1, <2>3, <2>4 DEF Accounts
<1>5. Tickets(queue', granted', posted', suspended', postFailures')
  BY <1>1, <1>2 DEF Inv, Tickets
<1> QED
  BY <1>1, <1>3, <1>4, <1>5 DEF Inv

-----------------------------------------------------------------------------
(* The theorems                                                            *)

\* Every step keeps the invariant.
LEMMA StepKeepsInv ==
    ASSUME Inv, [Next]_vars
    PROVE  Inv'
<1>1. CASE \E c \in Coroutines, n \in Requests : AcquireNow(c, n)
  <2>1. PICK c \in Coroutines, n \in Requests : AcquireNow(c, n)
    BY <1>1
  <2>2. n <= available
    BY <2>1, Constants, CountTypes DEF AcquireNow
  <2> QED
    BY <2>1, <2>2, TakeKeeps DEF AcquireNow
<1>2. CASE \E c \in Coroutines, n \in Requests : AcquireWait(c, n)
  BY <1>2, AcquireWaitKeeps
<1>3. CASE \E n \in Requests : tryAcquire(n)
  BY <1>3, TakeKeeps DEF tryAcquire
<1>4. CASE \E n \in Requests : DropPermit(n)
  BY <1>4, DropPermitKeeps
<1>5. CASE \E n \in Requests : release(n)
  BY <1>5, releaseKeeps
<1>6. CASE resumeOnce
  BY <1>6, resumeOnceKeeps
<1>7. CASE \E c \in Coroutines : AwaiterDies(c)
  BY <1>7, AwaiterDiesKeeps
<1>8. CASE SemaphoreDies
  BY <1>8, SemaphoreDiesKeeps
<1>9. CASE UNCHANGED vars
  BY <1>9 DEF Inv, vars
<1> QED
  BY <1>1, <1>2, <1>3, <1>4, <1>5, <1>6, <1>7, <1>8, <1>9 DEF Next

\* The inductive invariant holds in every reachable state.
THEOREM SemaphoreInvariant == Spec => []Inv
<1>1. Inv /\ [Next]_vars => Inv'
  BY StepKeepsInv
<1> QED
  BY InitInv, <1>1, PTL DEF Spec

\* Types: the count of free permits stays within the capacity, the queue links each
\* suspended coroutine at most once, accounts never exceed requests.
THEOREM SemaphoreTypeCorrect == Spec => []TypeOK
<1>1. Inv => TypeOK
  <2> SUFFICES ASSUME Inv PROVE TypeOK
    OBVIOUS
  <2>1. queue \in Seq(suspended) /\ IsInjective(queue) /\ suspended \subseteq Coroutines
        /\ want \in [Coroutines -> Requests \cup {0}]
    BY DEF Inv, Waiting
  <2>2. \A c \in Coroutines : granted[c] \in {0, want[c]}
    BY DEF Inv, Accounts
  <2> QED
    BY <2>1, <2>2 DEF Inv, TypeOK, Entries
<1> QED
  BY <1>1, SemaphoreInvariant, PTL

\* The books balance (Semaphore.cpp:210): what is free, what waiters are charged with and
\* what Permit objects carry add up to the capacity, whatever dies in which order.  What
\* release() adds may be on top of it, until a clamped return takes it out again.
THEOREM SemaphoreBooksBalance == Spec => []BooksBalance
<1>1. Inv => BooksBalance
  BY DEF Inv, Balance, BooksBalance, PermitsCharged, PermitsOut, Amounts
<1> QED
  BY <1>1, SemaphoreInvariant, PTL

\* Strict request order (Semaphore.h:76-78): charged waiters form a prefix of the queue, so
\* nobody is let in ahead of an earlier and larger request.
THEOREM SemaphoreChargedInOrder == Spec => []ChargedInRequestOrder
<1>1. Inv => ChargedInRequestOrder
  BY DEF Inv, Accounts, InPrefix, ChargedInRequestOrder
<1> QED
  BY <1>1, SemaphoreInvariant, PTL

\* A ticket in force belongs to a frame that is still suspended and is there once; a linked
\* coroutine with a ticket in force is charged; and, as long as postLocal() never threw, a
\* charged waiter has its ticket (Semaphore.cpp:308).
THEOREM SemaphoreTickets == Spec => []TicketsBelongToWaiters
<1>1. Inv => TicketsBelongToWaiters
  <2> SUFFICES ASSUME Inv, NEW c \in Coroutines
               PROVE  /\ Occurrences(c) <= (IF c \in suspended THEN 1 ELSE 0)
                      /\ Contains(queue, c) /\ Occurrences(c) = 1 => granted[c] > 0
                      /\ Contains(queue, c) /\ granted[c] > 0 /\ postFailures = 0
                            => Occurrences(c) = 1
    BY DEF TicketsBelongToWaiters
  <2> DEFINE I == {i \in DOMAIN posted : posted[i] = c}
  <2>1. /\ \A i \in DOMAIN posted : posted[i] = Revoked \/ posted[i] \in suspended
        /\ \A i, j \in DOMAIN posted : posted[i] = posted[j] => i = j \/ posted[i] = Revoked
        /\ \A d \in ToSet(queue) : d \in ToSet(posted) => granted[d] > 0
        /\ \A d \in ToSet(queue) : granted[d] > 0 /\ postFailures = 0 => d \in ToSet(posted)
    BY DEF Inv, Tickets
  <2>2. c # Revoked
    BY Constants
  <2>3. \A i, j \in I : i = j
    BY <2>1, <2>2
  <2>4. CASE I = {}
    <3>1. Occurrences(c) = 0
      BY <2>4, FS_EmptySet DEF Occurrences
    <3>2. c \notin ToSet(posted)
      BY <2>4 DEF ToSet
    <3>3. Contains(queue, c) => c \in ToSet(queue)
      BY DEF Contains, ToSet
    <3> QED
      BY <2>1, <3>1, <3>2, <3>3
  <2>5. CASE I # {}
    <3>1. PICK i \in I : TRUE
      BY <2>5
    <3>2. I = {i}
      BY <2>3, <3>1
    <3>3. Occurrences(c) = 1
      BY <3>2, FS_Singleton DEF Occurrences
    <3>4. c \in ToSet(posted) /\ c \in suspended
      BY <2>1, <2>2, <3>1 DEF ToSet
    <3>5. Contains(queue, c) => c \in ToSet(queue)
      BY DEF Contains, ToSet
    <3> QED
      BY <2>1, <3>3, <3>4, <3>5
  <2> QED
    BY <2>4, <2>5
<1> QED
  BY <1>1, SemaphoreInvariant, PTL
=============================================================================
