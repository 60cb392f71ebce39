---------------------------- MODULE Http2Proofs ----------------------------
(***************************************************************************)
(* What the client of an HTTP/2 connection reports as never processed was  *)
(* never given to a handler, for any number of streams, any sizes and      *)
(* windows, and any handlers and callers.                                  *)
(*                                                                         *)
(* The argument has one notion: the streams that can never be accepted.    *)
(* With A the streams the session has a record of, they are those neither  *)
(* in A nor waiting to be taken by the session that lie below the highest  *)
(* stream used (HEADERS for one are an error, not a request) or beyond the *)
(* last one announced (after the GOAWAY nobody is accepted).  The server   *)
(* tells the client only of such streams, no step makes one acceptable     *)
(* again, and the client reports nobody else.                              *)
(*                                                                         *)
(* The model folds operators over lists of frames and over the streams.  A *)
(* fold is a function of the sets of positions folded so far, and a set    *)
(* closed under the operator holds its result: the rules FeedRule to       *)
(* BatchRule, one for each fold, as an operator can not be a parameter of  *)
(* a lemma here.                                                           *)
(***************************************************************************)
EXTENDS Http2, SubsequencesProofs

\* The largest member of a set of positions, taken off last.
LEMMA LastPosition ==
    ASSUME NEW k \in Nat, NEW s \in SUBSET (1 .. k + 1), k + 1 \in s
    PROVE  Max(s) = k + 1
<1>1. \A y \in s : k + 1 >= y
  OBVIOUS
<1>2. \A x \in s : (\A y \in s : x >= y) => x = k + 1
  OBVIOUS
<1> QED
  BY <1>1, <1>2 DEF Max

\* A set of positions that is not empty has a largest member.
LEMMA LastOfPositions ==
    ASSUME NEW n \in Nat, NEW s \in SUBSET (1 .. n), s # {}
    PROVE  Max(s) \in s
<1> DEFINE T == {m \in Nat : \A t \in SUBSET (1 .. m) : t # {} => Max(t) \in t}
<1>1. 0 \in T
  <2>1. 1 .. 0 = {}
    OBVIOUS
  <2>2. \A t \in SUBSET (1 .. 0) : t = {}
    BY <2>1
  <2> QED
    BY <2>2
<1>2. ASSUME NEW m \in Nat, m \in T PROVE m + 1 \in T
  <2> SUFFICES ASSUME NEW t \in SUBSET (1 .. m + 1), t # {} PROVE Max(t) \in t
    OBVIOUS
  <2>1. CASE m + 1 \in t
    BY <2>1, LastPosition
  <2>2. CASE m + 1 \notin t
    <3>1. t \in SUBSET (1 .. m)
      BY <2>2
    <3> QED
      BY <1>2, <3>1
  <2> QED
    BY <2>1, <2>2
<1> HIDE DEF T
<1>3. n \in T
  BY <1>1, <1>2, SetInduction
<1> QED
  BY <1>3 DEF T

\* j folds G over the positions up to n, the last one last.
FoldsTo(j, b, n, G) == \A s \in SUBSET (1 .. n) :
                          j[s] = IF s = {} THEN b ELSE G[<<Max(s), j[s \ {Max(s)}]>>]

\* A fold over n entries exists as a function of the positions folded so far.
LEMMA FoldExists ==
    ASSUME NEW I, NEW b \in I, NEW n \in Nat, NEW G \in [(1 .. n) \X I -> I]
    PROVE  \E j \in [SUBSET (1 .. n) -> I] : FoldsTo(j, b, n, G)
<1> DEFINE Exists(k) == \E j \in [SUBSET (1 .. k) -> I] : FoldsTo(j, b, k, G)
           T == {k \in Nat : k <= n => Exists(k)}
<1>1. Exists(0)
  <2>1. SUBSET (1 .. 0) = {{}}
    OBVIOUS
  <2>2. [s \in {{}} |-> b] \in [SUBSET (1 .. 0) -> I] /\ FoldsTo([s \in {{}} |-> b], b, 0, G)
    BY <2>1 DEF FoldsTo
  <2> QED
    BY <2>2
<1>2. ASSUME NEW k \in Nat, k + 1 <= n, Exists(k) PROVE Exists(k + 1)
  <2>1. PICK j \in [SUBSET (1 .. k) -> I] : FoldsTo(j, b, k, G)
    BY <1>2
  <2> DEFINE h == [s \in SUBSET (1 .. k + 1) |->
                     IF k + 1 \in s THEN G[<<k + 1, j[s \ {k + 1}]>>] ELSE j[s]]
  <2>2. \A s \in SUBSET (1 .. k + 1) : k + 1 \notin s => s \in SUBSET (1 .. k)
    OBVIOUS
  <2>3. \A s \in SUBSET (1 .. k + 1) : s \ {k + 1} \in SUBSET (1 .. k)
    OBVIOUS
  <2>4. \A s \in SUBSET (1 .. k) : s \in SUBSET (1 .. k + 1) /\ k + 1 \notin s /\ h[s] = j[s]
    OBVIOUS
  <2>5. h \in [SUBSET (1 .. k + 1) -> I]
    <3>1. \A s \in SUBSET (1 .. k + 1) : <<k + 1, j[s \ {k + 1}]>> \in (1 .. n) \X I
      BY <1>2, <2>3
    <3> QED
      BY <2>2, <3>1
  <2>6. ASSUME NEW s \in SUBSET (1 .. k + 1)
        PROVE  h[s] = IF s = {} THEN b ELSE G[<<Max(s), h[s \ {Max(s)}]>>]
    <3>1. CASE k + 1 \in s
      <4>1. Max(s) = k + 1
        BY <3>1, LastPosition
      <4>2. h[s \ {k + 1}] = j[s \ {k + 1}]
        BY <2>3, <2>4
      <4> QED
        BY <3>1, <4>1, <4>2
    <3>2. CASE k + 1 \notin s /\ s # {}
      <4>1. s \in SUBSET (1 .. k) /\ s \ {Max(s)} \in SUBSET (1 .. k)
        BY <2>2, <3>2
      <4>2. h[s] = j[s] /\ h[s \ {Max(s)}] = j[s \ {Max(s)}]
        BY <2>4, <4>1
      <4>3. j[s] = G[<<Max(s), j[s \ {Max(s)}]>>]
        BY <2>1, <3>2, <4>1 DEF FoldsTo
      <4> QED
        BY <3>2, <4>2, <4>3
    <3>3. CASE s = {}
      <4>1. s \in SUBSET (1 .. k) /\ h[s] = j[s]
        BY <2>4, <3>3
      <4> QED
        BY <2>1, <3>3, <4>1 DEF FoldsTo
    <3> QED
      BY <3>1, <3>2, <3>3
  <2> QED
    BY <2>5, <2>6 DEF FoldsTo
<1> HIDE DEF Exists
<1>3. 0 \in T /\ \A k \in Nat : k \in T => k + 1 \in T
  BY <1>1, <1>2
<1>4. n \in T
  BY <1>3, SetInduction
<1>5. Exists(n)
  BY <1>4
<1> QED
  BY <1>5 DEF Exists

\* A fold whose every step stays in I ends in I.
LEMMA FoldInduction ==
    ASSUME NEW I, NEW n \in Nat, NEW j, j[{}] \in I,
           \A s \in SUBSET (1 .. n) : s # {} /\ j[s \ {Max(s)}] \in I => j[s] \in I
    PROVE  j[1 .. n] \in I
<1> DEFINE T == {k \in Nat : k <= n => j[1 .. k] \in I}
<1>1. 0 \in T
  <2>1. 1 .. 0 = {}
    OBVIOUS
  <2> QED
    BY <2>1
<1>2. ASSUME NEW k \in Nat, k + 1 <= n, j[1 .. k] \in I PROVE j[1 .. k + 1] \in I
  <2>1. /\ \A i \in 1 .. k + 1 : i \in 1 .. n
        /\ k + 1 \in 1 .. k + 1
    BY <1>2
  <2>2. Max(1 .. k + 1) = k + 1
    BY <1>2, <2>1, LastPosition
  <2>3. (1 .. k + 1) \ {k + 1} = 1 .. k
    BY <1>2
  <2> QED
    BY <1>2, <2>1, <2>2, <2>3
<1>3. \A k \in Nat : k \in T => k + 1 \in T
  BY <1>2
<1> HIDE DEF T
<1>4. n \in T
  BY <1>1, <1>3, SetInduction
<1> QED
  BY <1>4 DEF T

\* One turn of each of the five loops.
FeedOne(d, f) == IF d.state = "Failed" THEN d ELSE HandleFrame(d, f)
PumpOne(d, s) == IF HasQueue(d, s) THEN PumpSendQueue(d, s) ELSE d
RetireOne(z, s, done) == IF s \in done THEN DiscardBufferedBody(z, s) ELSE z
HandleOne(d, f) == IF IsHealthy(d) THEN ClientHandlesFrame(d, f) ELSE d

RetireAll(x, done) ==
  FoldLeft(LAMBDA z, s : IF s \in done THEN DiscardBufferedBody(z, s) ELSE z,
           x, [s \in Streams |-> s])

\* What every frame fed preserves, feeding them all preserves.
LEMMA FeedRule ==
    ASSUME NEW I, NEW c \in I, NEW F, NEW frames \in Seq(F),
           \A d \in I, f \in F : FeedOne(d, f) \in I
    PROVE  FeedBytes(c, frames) \in I
<1> DEFINE q == frames
           n == Len(frames)
           Folds(j) == j = [s \in SUBSET (1 .. n) |->
                              IF s = {} THEN c ELSE FeedOne(j[s \ {Max(s)}], q[Max(s)])]
           fold == CHOOSE j : Folds(j)
           G == [p \in (1 .. n) \X I |-> FeedOne(p[2], q[p[1]])]
<1>1. n \in Nat /\ DOMAIN q = 1 .. n /\ \A i \in 1 .. n : q[i] \in F
  OBVIOUS
<1>2. FeedBytes(c, frames) = fold[1 .. n]
  BY <1>1 DEF FeedBytes, FeedOne, FoldLeft, MapThenFoldSet
<1> HIDE DEF q
<1>3. G \in [(1 .. n) \X I -> I] /\ \A i \in 1 .. n, d \in I : G[<<i, d>>] = FeedOne(d, q[i])
  BY <1>1
<1> HIDE DEF n, G
<1>4. \E j : Folds(j)
  <2>1. PICK j \in [SUBSET (1 .. n) -> I] : FoldsTo(j, c, n, G)
    BY <1>1, <1>3, FoldExists, Zenon
  <2>2. \A s \in SUBSET (1 .. n) : s # {} => Max(s) \in 1 .. n
    BY <1>1, LastOfPositions
  <2>3. \A s \in SUBSET (1 .. n) : j[s \ {Max(s)}] \in I
    BY <2>1
  <2>4. \A s \in SUBSET (1 .. n) :
            j[s] = IF s = {} THEN c ELSE FeedOne(j[s \ {Max(s)}], q[Max(s)])
    BY <1>3, <2>1, <2>2, <2>3 DEF FoldsTo
  <2>5. Folds(j)
    BY <2>4
  <2> QED
    BY <2>5
<1>5. \A s \in SUBSET (1 .. n) :
          fold[s] = IF s = {} THEN c ELSE FeedOne(fold[s \ {Max(s)}], q[Max(s)])
  <2> HIDE DEF Folds
  <2>1. Folds(fold)
    BY <1>4, Zenon
  <2> HIDE DEF fold
  <2> QED
    BY <2>1 DEF Folds
<1> HIDE DEF fold
<1>6. \A s \in SUBSET (1 .. n) : s # {} /\ fold[s \ {Max(s)}] \in I => fold[s] \in I
  <2>1. \A s \in SUBSET (1 .. n) : s # {} => q[Max(s)] \in F
    BY <1>1, LastOfPositions
  <2> QED
    BY <1>5, <2>1
<1>7. fold[{}] \in I
  BY <1>5
<1>8. fold[1 .. n] \in I
  BY <1>1, <1>6, <1>7, FoldInduction
<1> QED
  BY <1>2, <1>8

\* The same of the send queues, pumped one after the other.
LEMMA PumpRule ==
    ASSUME NEW I, NEW c \in I,
           \A d \in I, f \in Streams : PumpOne(d, f) \in I
    PROVE  PumpAllSendQueues(c) \in I
<1> DEFINE q == [s \in Streams |-> s]
           n == StreamCount
           Folds(j) == j = [s \in SUBSET (1 .. n) |->
                              IF s = {} THEN c ELSE PumpOne(j[s \ {Max(s)}], q[Max(s)])]
           fold == CHOOSE j : Folds(j)
           G == [p \in (1 .. n) \X I |-> PumpOne(p[2], q[p[1]])]
<1>1. n \in Nat /\ DOMAIN q = 1 .. n /\ \A i \in 1 .. n : q[i] \in Streams
  BY StreamCountAssumption DEF Streams
<1>2. PumpAllSendQueues(c) = fold[1 .. n]
  BY <1>1 DEF PumpAllSendQueues, PumpOne, FoldLeft, MapThenFoldSet
<1> HIDE DEF q
<1>3. G \in [(1 .. n) \X I -> I] /\ \A i \in 1 .. n, d \in I : G[<<i, d>>] = PumpOne(d, q[i])
  BY <1>1
<1> HIDE DEF n, G
<1>4. \E j : Folds(j)
  <2>1. PICK j \in [SUBSET (1 .. n) -> I] : FoldsTo(j, c, n, G)
    BY <1>1, <1>3, FoldExists, Zenon
  <2>2. \A s \in SUBSET (1 .. n) : s # {} => Max(s) \in 1 .. n
    BY <1>1, LastOfPositions
  <2>3. \A s \in SUBSET (1 .. n) : j[s \ {Max(s)}] \in I
    BY <2>1
  <2>4. \A s \in SUBSET (1 .. n) :
            j[s] = IF s = {} THEN c ELSE PumpOne(j[s \ {Max(s)}], q[Max(s)])
    BY <1>3, <2>1, <2>2, <2>3 DEF FoldsTo
  <2>5. Folds(j)
    BY <2>4
  <2> QED
    BY <2>5
<1>5. \A s \in SUBSET (1 .. n) :
          fold[s] = IF s = {} THEN c ELSE PumpOne(fold[s \ {Max(s)}], q[Max(s)])
  <2> HIDE DEF Folds
  <2>1. Folds(fold)
    BY <1>4, Zenon
  <2> HIDE DEF fold
  <2> QED
    BY <2>1 DEF Folds
<1> HIDE DEF fold
<1>6. \A s \in SUBSET (1 .. n) : s # {} /\ fold[s \ {Max(s)}] \in I => fold[s] \in I
  <2>1. \A s \in SUBSET (1 .. n) : s # {} => q[Max(s)] \in Streams
    BY <1>1, LastOfPositions
  <2> QED
    BY <1>5, <2>1
<1>7. fold[{}] \in I
  BY <1>5
<1>8. fold[1 .. n] \in I
  BY <1>1, <1>6, <1>7, FoldInduction
<1> QED
  BY <1>2, <1>8

\* The same of the body pieces the connection handed over.
LEMMA AbsorbRule ==
    ASSUME NEW I, NEW x \in I, NEW F, x.conn.received \in Seq(F),
           \A d \in I, f \in F : AbsorbOneReceivedData(d, f) \in I
    PROVE  FoldLeft(AbsorbOneReceivedData, x, x.conn.received) \in I
<1> DEFINE q == x.conn.received
           n == Len(x.conn.received)
           Folds(j) == j = [s \in SUBSET (1 .. n) |->
                              IF s = {} THEN x ELSE AbsorbOneReceivedData(j[s \ {Max(s)}], q[Max(s)])]
           fold == CHOOSE j : Folds(j)
           G == [p \in (1 .. n) \X I |-> AbsorbOneReceivedData(p[2], q[p[1]])]
<1>1. n \in Nat /\ DOMAIN q = 1 .. n /\ \A i \in 1 .. n : q[i] \in F
  OBVIOUS
<1>2. FoldLeft(AbsorbOneReceivedData, x, x.conn.received) = fold[1 .. n]
  BY <1>1 DEF AbsorbReceivedData, FoldLeft, MapThenFoldSet
<1> HIDE DEF q
<1>3. G \in [(1 .. n) \X I -> I] /\ \A i \in 1 .. n, d \in I : G[<<i, d>>] = AbsorbOneReceivedData(d, q[i])
  BY <1>1
<1> HIDE DEF n, G
<1>4. \E j : Folds(j)
  <2>1. PICK j \in [SUBSET (1 .. n) -> I] : FoldsTo(j, x, n, G)
    BY <1>1, <1>3, FoldExists, Zenon
  <2>2. \A s \in SUBSET (1 .. n) : s # {} => Max(s) \in 1 .. n
    BY <1>1, LastOfPositions
  <2>3. \A s \in SUBSET (1 .. n) : j[s \ {Max(s)}] \in I
    BY <2>1
  <2>4. \A s \in SUBSET (1 .. n) :
            j[s] = IF s = {} THEN x ELSE AbsorbOneReceivedData(j[s \ {Max(s)}], q[Max(s)])
    BY <1>3, <2>1, <2>2, <2>3 DEF FoldsTo
  <2>5. Folds(j)
    BY <2>4
  <2> QED
    BY <2>5
<1>5. \A s \in SUBSET (1 .. n) :
          fold[s] = IF s = {} THEN x ELSE AbsorbOneReceivedData(fold[s \ {Max(s)}], q[Max(s)])
  <2> HIDE DEF Folds
  <2>1. Folds(fold)
    BY <1>4, Zenon
  <2> HIDE DEF fold
  <2> QED
    BY <2>1 DEF Folds
<1> HIDE DEF fold
<1>6. \A s \in SUBSET (1 .. n) : s # {} /\ fold[s \ {Max(s)}] \in I => fold[s] \in I
  <2>1. \A s \in SUBSET (1 .. n) : s # {} => q[Max(s)] \in F
    BY <1>1, LastOfPositions
  <2> QED
    BY <1>5, <2>1
<1>7. fold[{}] \in I
  BY <1>5
<1>8. fold[1 .. n] \in I
  BY <1>1, <1>6, <1>7, FoldInduction
<1> QED
  BY <1>2, <1>8

\* The same of the bodies dropped with the finished requests.
LEMMA RetireRule ==
    ASSUME NEW I, NEW x \in I, NEW done,
           \A d \in I, f \in Streams : RetireOne(d, f, done) \in I
    PROVE  RetireAll(x, done) \in I
<1> DEFINE q == [s \in Streams |-> s]
           n == StreamCount
           Folds(j) == j = [s \in SUBSET (1 .. n) |->
                              IF s = {} THEN x ELSE RetireOne(j[s \ {Max(s)}], q[Max(s)], done)]
           fold == CHOOSE j : Folds(j)
           G == [p \in (1 .. n) \X I |-> RetireOne(p[2], q[p[1]], done)]
<1>1. n \in Nat /\ DOMAIN q = 1 .. n /\ \A i \in 1 .. n : q[i] \in Streams
  BY StreamCountAssumption DEF Streams
<1>2. RetireAll(x, done) = fold[1 .. n]
  BY <1>1 DEF RetireAll, RetireOne, FoldLeft, MapThenFoldSet
<1> HIDE DEF q
<1>3. G \in [(1 .. n) \X I -> I] /\ \A i \in 1 .. n, d \in I : G[<<i, d>>] = RetireOne(d, q[i], done)
  BY <1>1
<1> HIDE DEF n, G
<1>4. \E j : Folds(j)
  <2>1. PICK j \in [SUBSET (1 .. n) -> I] : FoldsTo(j, x, n, G)
    BY <1>1, <1>3, FoldExists, Zenon
  <2>2. \A s \in SUBSET (1 .. n) : s # {} => Max(s) \in 1 .. n
    BY <1>1, LastOfPositions
  <2>3. \A s \in SUBSET (1 .. n) : j[s \ {Max(s)}] \in I
    BY <2>1
  <2>4. \A s \in SUBSET (1 .. n) :
            j[s] = IF s = {} THEN x ELSE RetireOne(j[s \ {Max(s)}], q[Max(s)], done)
    BY <1>3, <2>1, <2>2, <2>3 DEF FoldsTo
  <2>5. Folds(j)
    BY <2>4
  <2> QED
    BY <2>5
<1>5. \A s \in SUBSET (1 .. n) :
          fold[s] = IF s = {} THEN x ELSE RetireOne(fold[s \ {Max(s)}], q[Max(s)], done)
  <2> HIDE DEF Folds
  <2>1. Folds(fold)
    BY <1>4, Zenon
  <2> HIDE DEF fold
  <2> QED
    BY <2>1 DEF Folds
<1> HIDE DEF fold
<1>6. \A s \in SUBSET (1 .. n) : s # {} /\ fold[s \ {Max(s)}] \in I => fold[s] \in I
  <2>1. \A s \in SUBSET (1 .. n) : s # {} => q[Max(s)] \in Streams
    BY <1>1, LastOfPositions
  <2> QED
    BY <1>5, <2>1
<1>7. fold[{}] \in I
  BY <1>5
<1>8. fold[1 .. n] \in I
  BY <1>1, <1>6, <1>7, FoldInduction
<1> QED
  BY <1>2, <1>8

\* The same of the frames a client reads at once.
LEMMA BatchRule ==
    ASSUME NEW I, NEW c \in I, NEW F, NEW frames \in Seq(F),
           \A d \in I, f \in F : HandleOne(d, f) \in I
    PROVE  HandleBatch(c, frames) \in I
<1> DEFINE q == frames
           n == Len(frames)
           Folds(j) == j = [s \in SUBSET (1 .. n) |->
                              IF s = {} THEN c ELSE HandleOne(j[s \ {Max(s)}], q[Max(s)])]
           fold == CHOOSE j : Folds(j)
           G == [p \in (1 .. n) \X I |-> HandleOne(p[2], q[p[1]])]
<1>1. n \in Nat /\ DOMAIN q = 1 .. n /\ \A i \in 1 .. n : q[i] \in F
  OBVIOUS
<1>2. HandleBatch(c, frames) = fold[1 .. n]
  BY <1>1 DEF HandleBatch, HandleOne, FoldLeft, MapThenFoldSet
<1> HIDE DEF q
<1>3. G \in [(1 .. n) \X I -> I] /\ \A i \in 1 .. n, d \in I : G[<<i, d>>] = HandleOne(d, q[i])
  BY <1>1
<1> HIDE DEF n, G
<1>4. \E j : Folds(j)
  <2>1. PICK j \in [SUBSET (1 .. n) -> I] : FoldsTo(j, c, n, G)
    BY <1>1, <1>3, FoldExists, Zenon
  <2>2. \A s \in SUBSET (1 .. n) : s # {} => Max(s) \in 1 .. n
    BY <1>1, LastOfPositions
  <2>3. \A s \in SUBSET (1 .. n) : j[s \ {Max(s)}] \in I
    BY <2>1
  <2>4. \A s \in SUBSET (1 .. n) :
            j[s] = IF s = {} THEN c ELSE HandleOne(j[s \ {Max(s)}], q[Max(s)])
    BY <1>3, <2>1, <2>2, <2>3 DEF FoldsTo
  <2>5. Folds(j)
    BY <2>4
  <2> QED
    BY <2>5
<1>5. \A s \in SUBSET (1 .. n) :
          fold[s] = IF s = {} THEN c ELSE HandleOne(fold[s \ {Max(s)}], q[Max(s)])
  <2> HIDE DEF Folds
  <2>1. Folds(fold)
    BY <1>4, Zenon
  <2> HIDE DEF fold
  <2> QED
    BY <2>1 DEF Folds
<1> HIDE DEF fold
<1>6. \A s \in SUBSET (1 .. n) : s # {} /\ fold[s \ {Max(s)}] \in I => fold[s] \in I
  <2>1. \A s \in SUBSET (1 .. n) : s # {} => q[Max(s)] \in F
    BY <1>1, LastOfPositions
  <2> QED
    BY <1>5, <2>1
<1>7. fold[{}] \in I
  BY <1>5
<1>8. fold[1 .. n] \in I
  BY <1>1, <1>6, <1>7, FoldInduction
<1> QED
  BY <1>2, <1>8

\* The error codes the two ends use.
Codes == {"NO_ERROR", "PROTOCOL_ERROR", "FLOW_CONTROL_ERROR", "STREAM_CLOSED", "CANCEL",
          "REFUSED_STREAM"}

\* The frames, by kind.
HeadersFrames == [type : {"HEADERS"}, stream : Streams, end : BOOLEAN, length : Int]
BodyFrames == [type : {"DATA"}, stream : Streams, size : Int, end : BOOLEAN]
ResetFrames == [type : {"RST_STREAM"}, stream : Streams, code : Codes]
CreditFrames == [type : {"WINDOW_UPDATE"}, stream : 0 .. StreamCount, size : Int]
GoAwayFrames == [type : {"GOAWAY"}, stream : {0}, last : Int, code : Codes]

\* All of them.
Frames == HeadersFrames \cup BodyFrames \cup ResetFrames \cup CreditFrames \cup GoAwayFrames

\* What a frame tells the client will never be processed is in U.
Tells(f, U) ==
  /\ f \in GoAwayFrames => \A s \in Streams : s > f.last => s \in U
  /\ f \in ResetFrames /\ f.code = "REFUSED_STREAM" => f.stream \in U

\* The frames that tell the client of nobody outside U.
Telling(U) == {f \in Frames : Tells(f, U)}

\* A row of the stream table.
RowStates == {"idle", "Open", "HalfClosedRemote", "HalfClosedLocal", "Closed"}
Terminations == {"none", "Completed", "ResetByLocal", "ResetByPeer"}

Rows == [state : RowStates, termination : Terminations,
         sendWindow : Int, receiveWindow : Int, credit : Int, pending : Int, ending : BOOLEAN]

\* The connections whose frames to write tell of nobody outside U.
Conns(U) ==
  [state : {"Open", "Closing", "Failed"}, stream : [Streams -> Rows], sendWindow : Int,
   receiveWindow : Int, credit : Int, highest : 0 .. StreamCount, last : 0 .. NoLast,
   terminated : Seq(Streams), evicted : BOOLEAN, requests : Seq(HeadersFrames),
   received : Seq(BodyFrames), out : Seq(Telling(U))]

\* d accepts, and has accepted, whom c does.
Quiet(c, d) == /\ d.state = c.state /\ d.last = c.last
               /\ d.highest = c.highest /\ d.requests = c.requests

\* A frame is of one of the five kinds.
LEMMA FrameKinds ==
    ASSUME NEW f \in Frames
    PROVE  /\ f.type = "HEADERS" => f \in HeadersFrames
           /\ f.type = "DATA" => f \in BodyFrames
           /\ f.type = "RST_STREAM" => f \in ResetFrames
           /\ f.type = "WINDOW_UPDATE" => f \in CreditFrames
           /\ f.type = "GOAWAY" => f \in GoAwayFrames
           /\ f.type \in {"HEADERS", "DATA", "RST_STREAM", "WINDOW_UPDATE", "GOAWAY"}
BY DEF Frames, HeadersFrames, BodyFrames, ResetFrames, CreditFrames, GoAwayFrames

\* Only GOAWAY and a refusal tell anything.
LEMMA HarmlessFrames ==
    ASSUME NEW U
    PROVE  /\ HeadersFrames \cup BodyFrames \cup CreditFrames \subseteq Telling(U)
           /\ \A f \in ResetFrames : f.code # "REFUSED_STREAM" => f \in Telling(U)
BY DEF Frames, HeadersFrames, BodyFrames, ResetFrames, CreditFrames, GoAwayFrames, Telling, Tells

\* The frames the two ends write are frames.
LEMMA BodyFrameMade ==
    ASSUME NEW s \in Streams, NEW n \in Int, NEW end \in BOOLEAN
    PROVE  DataFrame(s, n, end) \in BodyFrames
BY DEF BodyFrames, DataFrame

LEMMA HeadersFrameMade ==
    ASSUME NEW s \in Streams, NEW n \in Int, NEW end \in BOOLEAN
    PROVE  HeadersFrame(s, end, n) \in HeadersFrames
BY DEF HeadersFrames, HeadersFrame

LEMMA CreditFrameMade ==
    ASSUME NEW s \in 0 .. StreamCount, NEW n \in Int
    PROVE  WindowUpdateFrame(s, n) \in CreditFrames
BY DEF CreditFrames, WindowUpdateFrame

\* A reset that refuses nobody tells nothing.
LEMMA ResetFrameMade ==
    ASSUME NEW s \in Streams, NEW code \in Codes, NEW U
    PROVE  /\ RstStreamFrame(s, code) \in ResetFrames
           /\ code # "REFUSED_STREAM" => RstStreamFrame(s, code) \in Telling(U)
<1>1. RstStreamFrame(s, code) \in ResetFrames /\ RstStreamFrame(s, code).code = code
  BY DEF ResetFrames, RstStreamFrame
<1> QED
  BY <1>1, HarmlessFrames

\* Nor do lists of the frames that tell nothing.
LEMMA HarmlessLists ==
    ASSUME NEW U
    PROVE  /\ Seq(BodyFrames) \subseteq Seq(Telling(U))
           /\ Seq(HeadersFrames) \subseteq Seq(Telling(U))
           /\ Seq(CreditFrames) \subseteq Seq(Telling(U))
<1>1. \A S, T : S \subseteq T => Seq(S) \subseteq Seq(T)
  OBVIOUS
<1> QED
  BY <1>1, HarmlessFrames

\* Lists.
LEMMA FunctionIsList ==
    ASSUME NEW S, NEW n \in Nat, NEW f \in [1 .. n -> S]
    PROVE  f \in Seq(S)
OBVIOUS

LEMMA OneEntry ==
    ASSUME NEW S, NEW x \in S
    PROVE  <<x>> \in Seq(S)
OBVIOUS

\* A body split over frames.
LEMMA BodyInFrames ==
    ASSUME NEW s \in Streams, NEW n \in Int, NEW end \in BOOLEAN
    PROVE  DataFrames(s, n, end, maximumFrameSize) \in Seq(BodyFrames)
<1> DEFINE limit == maximumFrameSize
           count == (n + limit - 1) \div limit
<1>1. limit \in Nat \ {0}
  BY WindowAssumption
<1>2. count \in Int
  BY <1>1
<1> HIDE DEF count
<1> DEFINE size(i) == IF i < count THEN limit ELSE n - (count - 1) * limit
<1>3. \A i \in 1 .. count : size(i) \in Int
  BY <1>1, <1>2
<1> HIDE DEF size, limit
<1> DEFINE frame(i) == DataFrame(s, size(i), end /\ i = count)
<1>4. \A i \in 1 .. count : frame(i) \in BodyFrames
  BY <1>3, BodyFrameMade
<1>5. DataFrames(s, n, end, maximumFrameSize) = [i \in 1 .. count |-> frame(i)]
  BY DEF DataFrames, count, size, limit
<1> HIDE DEF frame
<1> DEFINE list == [i \in 1 .. count |-> frame(i)]
<1>6. list \in Seq(BodyFrames)
  <2>1. CASE count \in Nat
    <3>1. list \in [1 .. count -> BodyFrames]
      BY <1>4
    <3> HIDE DEF list
    <3> QED
      BY <2>1, <3>1, FunctionIsList, Zenon
  <2>2. CASE count \notin Nat
    <3>1. 1 .. count = 1 .. 0
      BY <1>2, <2>2
    <3>2. list \in [1 .. 0 -> BodyFrames]
      BY <1>4, <3>1
    <3>3. 0 \in Nat
      OBVIOUS
    <3> HIDE DEF list
    <3> QED
      BY <3>2, <3>3, FunctionIsList, Zenon
  <2> QED
    BY <2>1, <2>2
<1> QED
  BY <1>5, <1>6

\* d is c with other rows, windows, bodies or frames: nothing about who may be accepted.
Still(c, U) == {d \in Conns(U) : Quiet(c, d)}

\* Still is transitive and reflexive.
LEMMA StillAfter ==
    ASSUME NEW U, NEW c \in Conns(U), NEW d \in Still(c, U), NEW e \in Still(d, U)
    PROVE  e \in Still(c, U)
BY DEF Still, Quiet

LEMMA StillItself ==
    ASSUME NEW U, NEW c \in Conns(U)
    PROVE  c \in Still(c, U)
BY DEF Still, Quiet

\* Emit writes frames after the others and changes nothing else.
LEMMA Emitted ==
    ASSUME NEW U, NEW c \in Conns(U), NEW frames \in Seq(Telling(U))
    PROVE  /\ Emit(c, frames) \in Still(c, U)
           /\ Emit(c, frames).stream = c.stream
           /\ Emit(c, frames).sendWindow = c.sendWindow
           /\ Emit(c, frames).receiveWindow = c.receiveWindow
<1>1. c.out \o frames \in Seq(Telling(U))
  BY DEF Conns
<1> QED
  BY <1>1 DEF Emit, Conns, Quiet, Still

\* One frame written.
LEMMA OneEmitted ==
    ASSUME NEW U, NEW c \in Conns(U), NEW f \in Telling(U)
    PROVE  /\ Emit(c, <<f>>) \in Still(c, U)
           /\ Emit(c, <<f>>) \in Conns(U)
BY Emitted, OneEntry DEF Still

\* Numbers of the connection that say nothing about who may be accepted.
LEMMA WindowsChanged ==
    ASSUME NEW U, NEW c \in Conns(U)
    PROVE  /\ \A a \in Int : /\ [c EXCEPT !.credit = a] \in Still(c, U)
                             /\ [c EXCEPT !.sendWindow = a] \in Still(c, U)
                             /\ [c EXCEPT !.receiveWindow = a] \in Still(c, U)
           /\ \A a, b \in Int : [c EXCEPT !.credit = a, !.receiveWindow = b] \in Still(c, U)
BY DEF Conns, Quiet, Still

\* A row of the stream table changes.
LEMMA RowChanged ==
    ASSUME NEW U, NEW c \in Conns(U), NEW s \in Streams, NEW row \in Rows
    PROVE  /\ [c EXCEPT !.stream[s] = row] \in Still(c, U)
           /\ [c EXCEPT !.stream[s] = row] \in Conns(U)
BY DEF Conns, Quiet, Still

LEMMA RowOf ==
    ASSUME NEW U, NEW c \in Conns(U), NEW s \in Streams
    PROVE  c.stream[s] \in Rows
BY DEF Conns

\* Fields of a row.
LEMMA RowFields ==
    ASSUME NEW row \in Rows
    PROVE  /\ \A x \in RowStates : [row EXCEPT !.state = x] \in Rows
           /\ \A x \in Terminations : [row EXCEPT !.termination = x] \in Rows
           /\ \A x \in RowStates, y \in Terminations :
                 [row EXCEPT !.state = x, !.termination = y] \in Rows
           /\ \A a \in Int : /\ [row EXCEPT !.credit = a] \in Rows
                             /\ [row EXCEPT !.receiveWindow = a] \in Rows
                             /\ [row EXCEPT !.sendWindow = a] \in Rows
           /\ \A a, b \in Int : [row EXCEPT !.credit = a, !.receiveWindow = b] \in Rows
           /\ \A a \in Int, e \in BOOLEAN : [row EXCEPT !.pending = a, !.ending = e] \in Rows
           /\ \A a, b \in Int, e \in BOOLEAN :
                 [row EXCEPT !.sendWindow = a, !.pending = b, !.ending = e] \in Rows
BY DEF Rows

\* The rows the connection starts and ends a stream with.
LEMMA NoRecordIsRow == NoRecord \in Rows
BY DEF NoRecord, Rows, RowStates, Terminations

LEMMA ClosedIsRow ==
    ASSUME NEW how \in Terminations
    PROVE  ClosedRecord(how) \in Rows
BY NoRecordIsRow, RowFields DEF ClosedRecord, RowStates

\* A terminated stream is remembered, and the oldest forgotten.
LEMMA Remembered ==
    ASSUME NEW U, NEW c \in Conns(U), NEW s \in Streams
    PROVE  RememberTerminatedStream(c, s) \in Still(c, U)
<1> DEFINE all == Append(c.terminated, s)
           excess == Greater(0, Len(all) - kTerminatedStreamMemoryCount)
           gone == {all[i] : i \in 1 .. excess}
           rows == [t \in Streams |-> IF t \in gone THEN NoRecord ELSE c.stream[t]]
           kept == SubSeq(all, excess + 1, Len(all))
<1>1. all \in Seq(Streams)
  BY DEF Conns
<1>2. excess \in Nat
  BY <1>1, WindowAssumption DEF Greater
<1> HIDE DEF all, excess
<1>3. kept \in Seq(Streams)
  BY <1>1, <1>2
<1>5. rows \in [Streams -> Rows]
  BY NoRecordIsRow DEF Conns
<1>6. (c.evicted \/ gone # {}) \in BOOLEAN
  OBVIOUS
<1>7. RememberTerminatedStream(c, s) =
        [c EXCEPT !.terminated = kept, !.evicted = c.evicted \/ gone # {}, !.stream = rows]
  BY DEF RememberTerminatedStream, all, excess
<1> HIDE DEF kept, rows, gone
<1> QED
  BY <1>3, <1>5, <1>6, <1>7 DEF Conns, Quiet, Still

\* A stream ends.
LEMMA Terminating ==
    ASSUME NEW U, NEW c \in Conns(U), NEW s \in Streams,
           NEW how \in Terminations
    PROVE  TerminateStream(c, s, how) \in Still(c, U)
<1>1. ClosedRecord(how) \in Rows
  BY ClosedIsRow
<1> DEFINE d == [c EXCEPT !.stream[s] = ClosedRecord(how)]
<1>2. d \in Still(c, U) /\ d \in Conns(U)
  BY <1>1, RowChanged
<1> HIDE DEF d
<1>3. RememberTerminatedStream(d, s) \in Still(c, U)
  BY <1>2, Remembered, StillAfter
<1> QED
  BY <1>3, StillItself DEF TerminateStream, d

\* A stream is reset for another reason than a refusal.
LEMMA FailingStream ==
    ASSUME NEW U, NEW c \in Conns(U), NEW s \in Streams,
           NEW code \in Codes \ {"REFUSED_STREAM"}
    PROVE  FailStream(c, s, code) \in Still(c, U)
<1>1. RstStreamFrame(s, code) \in Telling(U)
  BY ResetFrameMade
<1>2. Emit(c, <<RstStreamFrame(s, code)>>) \in Still(c, U)
  BY <1>1, OneEmitted
<1> DEFINE d == Emit(c, <<RstStreamFrame(s, code)>>)
<1> HIDE DEF d
<1>3. TerminateStream(d, s, "ResetByLocal") \in Still(d, U)
  BY <1>2, Terminating DEF d, Still, Terminations
<1> QED
  BY <1>2, <1>3, StillAfter DEF FailStream, d, Still

\* END_STREAM of either side.
LEMMA EndsNoted ==
    ASSUME NEW U, NEW c \in Conns(U), NEW s \in Streams
    PROVE  /\ NoteRemoteEndStream(c, s) \in Still(c, U)
           /\ NoteLocalEndStream(c, s) \in Still(c, U)
<1>1. \A x \in RowStates : [c EXCEPT !.stream[s].state = x] \in Still(c, U)
  <2> TAKE x \in RowStates
  <2>1. [c.stream[s] EXCEPT !.state = x] \in Rows
    BY RowOf, RowFields
  <2>2. [c EXCEPT !.stream[s].state = x] = [c EXCEPT !.stream[s] = [c.stream[s] EXCEPT !.state = x]]
    OBVIOUS
  <2> QED
    BY <2>1, <2>2, RowChanged
<1>2. TerminateStream(c, s, "Completed") \in Still(c, U)
  BY Terminating DEF Terminations
<1> QED
  BY <1>1, <1>2, StillItself DEF NoteRemoteEndStream, NoteLocalEndStream, RowStates

\* Windows given back.
LEMMA ConnectionCredited ==
    ASSUME NEW U, NEW c \in Conns(U), NEW n \in Int
    PROVE  CreditConnectionReceiveWindow(c, n) \in Still(c, U)
<1> DEFINE credit == c.credit + n
           d == Emit(c, <<WindowUpdateFrame(0, credit)>>)
<1>1. credit \in Int
  BY DEF Conns
<1>2. WindowUpdateFrame(0, credit) \in Telling(U)
  BY <1>1, CreditFrameMade, HarmlessFrames, StreamCountAssumption
<1>3. d \in Still(c, U) /\ d \in Conns(U)
  BY <1>2, OneEmitted
<1>4. [c EXCEPT !.credit = credit] \in Still(c, U)
  BY <1>1, WindowsChanged
<1>5. CreditConnectionReceiveWindow(c, n) \in
        {[d EXCEPT !.credit = 0, !.receiveWindow = @ + credit], [c EXCEPT !.credit = credit]}
  BY DEF CreditConnectionReceiveWindow
<1> HIDE DEF d, credit
<1>6. [d EXCEPT !.credit = 0, !.receiveWindow = @ + credit] \in Still(d, U)
  <2>1. d.receiveWindow + credit \in Int
    <3>1. d.receiveWindow \in Int
      BY <1>3 DEF Conns
    <3> QED
      BY <1>1, <3>1
  <2>2. 0 \in Int
    OBVIOUS
  <2> QED
    BY <1>3, <2>1, <2>2, WindowsChanged, Zenon
<1> QED
  BY <1>3, <1>4, <1>5, <1>6, StillAfter

LEMMA StreamCredited ==
    ASSUME NEW U, NEW c \in Conns(U), NEW s \in Streams, NEW n \in Int
    PROVE  CreditStreamReceiveWindow(c, s, n) \in Still(c, U)
<1> DEFINE credit == c.stream[s].credit + n
           d == Emit(c, <<WindowUpdateFrame(s, credit)>>)
<1>1. credit \in Int
  BY DEF Conns, Rows
<1>2. WindowUpdateFrame(s, credit) \in Telling(U)
  BY <1>1, CreditFrameMade, HarmlessFrames DEF Streams
<1>3. d \in Still(c, U) /\ d \in Conns(U)
  BY <1>2, OneEmitted
<1>4. CreditStreamReceiveWindow(c, s, n) \in
        {c, [d EXCEPT !.stream[s].credit = 0, !.stream[s].receiveWindow = @ + credit],
         [c EXCEPT !.stream[s].credit = credit]}
  BY DEF CreditStreamReceiveWindow
<1> HIDE DEF d, credit
<1>5. [c EXCEPT !.stream[s].credit = credit] \in Still(c, U)
  <2>1. [c.stream[s] EXCEPT !.credit = credit] \in Rows
    BY <1>1, RowOf, RowFields
  <2>2. [c EXCEPT !.stream[s].credit = credit]
          = [c EXCEPT !.stream[s] = [c.stream[s] EXCEPT !.credit = credit]]
    OBVIOUS
  <2> QED
    BY <2>1, <2>2, RowChanged
<1>6. [d EXCEPT !.stream[s].credit = 0, !.stream[s].receiveWindow = @ + credit] \in Still(d, U)
  <2> DEFINE row == d.stream[s]
             window == row.receiveWindow + credit
  <2>1. row \in Rows
    BY <1>3, RowOf
  <2>2. window \in Int
    BY <1>1, <2>1 DEF Rows
  <2>3. [d EXCEPT !.stream[s].credit = 0, !.stream[s].receiveWindow = @ + credit]
          = [d EXCEPT !.stream[s] = [row EXCEPT !.credit = 0, !.receiveWindow = window]]
    OBVIOUS
  <2> HIDE DEF row, window
  <2>4. [row EXCEPT !.credit = 0, !.receiveWindow = window] \in Rows
    <3>1. 0 \in Int
      OBVIOUS
    <3> QED
      BY <2>1, <2>2, <3>1, RowFields, Zenon
  <2> QED
    BY <1>3, <2>3, <2>4, RowChanged
<1> QED
  BY <1>3, <1>4, <1>5, <1>6, StillAfter, StillItself

LEMMA DataCredited ==
    ASSUME NEW U, NEW c \in Conns(U), NEW s \in Streams, NEW n \in Int
    PROVE  CreditReceivedData(c, s, n) \in Still(c, U)
<1>1. CreditConnectionReceiveWindow(c, n) \in Still(c, U)
  BY ConnectionCredited
<1>2. CreditStreamReceiveWindow(CreditConnectionReceiveWindow(c, n), s, n) \in Still(c, U)
  BY <1>1, StreamCredited, StillAfter DEF Still
<1> QED
  BY <1>2, StillItself DEF CreditReceivedData

\* A send queue is pumped.
LEMMA Pumped ==
    ASSUME NEW U, NEW c \in Conns(U), NEW s \in Streams
    PROVE  PumpSendQueue(c, s) \in Still(c, U)
<1> DEFINE r == c.stream[s]
           n == Lesser(r.pending, Lesser(r.sendWindow, c.sendWindow))
           isEnd == n = r.pending /\ r.ending
           frames == IF n = 0 /\ isEnd THEN <<DataFrame(s, 0, TRUE)>>
                     ELSE DataFrames(s, n, isEnd, maximumFrameSize)
           d == Emit(c, frames)
           pumped == [d EXCEPT !.sendWindow = @ - n,
                               !.stream[s].sendWindow = @ - n,
                               !.stream[s].pending = @ - n,
                               !.stream[s].ending = @ /\ ~isEnd]
<1>1. n \in Int
  BY DEF Conns, Rows, Lesser
<1>2. isEnd \in BOOLEAN
  OBVIOUS
<1>3. PumpSendQueue(c, s) = IF isEnd THEN NoteLocalEndStream(pumped, s) ELSE pumped
  BY DEF PumpSendQueue
<1> HIDE DEF n, isEnd
<1>4. frames \in Seq(BodyFrames)
  <2>1. <<DataFrame(s, 0, TRUE)>> \in Seq(BodyFrames)
    <3>1. DataFrame(s, 0, TRUE) \in BodyFrames
      BY DEF DataFrame, BodyFrames
    <3> QED
      BY <3>1, OneEntry
  <2>2. DataFrames(s, n, isEnd, maximumFrameSize) \in Seq(BodyFrames)
    BY <1>1, <1>2, BodyInFrames
  <2> QED
    BY <2>1, <2>2
<1> HIDE DEF frames
<1>5. frames \in Seq(Telling(U))
  BY <1>4, HarmlessLists
<1>6. d \in Still(c, U) /\ d \in Conns(U)
  BY <1>5, Emitted DEF Still
<1> HIDE DEF d
<1>7. pumped \in Still(d, U)
  <2> DEFINE row == d.stream[s]
             e == [d EXCEPT !.sendWindow = d.sendWindow - n]
             after == [row EXCEPT !.sendWindow = row.sendWindow - n, !.pending = row.pending - n,
                                  !.ending = row.ending /\ ~isEnd]
  <2>1. row \in Rows
    BY <1>6, RowOf
  <2>2. /\ row.sendWindow - n \in Int /\ row.pending - n \in Int
        /\ (row.ending /\ ~isEnd) \in BOOLEAN
    BY <1>1, <2>1 DEF Rows
  <2>3. d.sendWindow - n \in Int
    <3>1. d.sendWindow \in Int
      BY <1>6 DEF Conns
    <3> QED
      BY <1>1, <3>1
  <2>4. after \in Rows
    BY <2>1, <2>2, RowFields
  <2>5. e \in Still(d, U) /\ e \in Conns(U)
    BY <1>6, <2>3, WindowsChanged DEF Still
  <2>6. pumped = [e EXCEPT !.stream[s] = after]
    BY ZenonT(60)
  <2> HIDE DEF e, after, pumped
  <2> QED
    BY <1>6, <2>4, <2>5, <2>6, RowChanged, StillAfter
<1> HIDE DEF pumped
<1>8. pumped \in Still(c, U) /\ pumped \in Conns(U)
  BY <1>6, <1>7, StillAfter DEF Still
<1> QED
  BY <1>3, <1>8, EndsNoted, StillAfter

\* The streams whose request waits to be taken by the session.
Asked(c) == {c.requests[i].stream : i \in DOMAIN c.requests}

\* A are the streams the session has a record of. These will never be accepted: they are not, and
\* they lie below the highest stream used or beyond the last one announced.
Never(c, A) == {s \in Streams : /\ s \notin A /\ s \notin Asked(c)
                                /\ s <= c.highest \/ s > c.last}

\* Who was accepted had been seen, and is covered by the GOAWAY, after which nobody is.
Ordered(c, A) == /\ c.last # NoLast => c.state # "Open"
                 /\ \A s \in A \cup Asked(c) : s <= c.highest /\ s <= c.last

\* The connections that tell the truth: whom they refuse they never accept.
Honest(A) == {c \in Conns(Streams) : c \in Conns(Never(c, A)) /\ Ordered(c, A)}

\* Who cannot be accepted any more after c still cannot after d.
After(c, A) == {d \in Honest(A) : Never(c, A) \subseteq Never(d, A)}

\* What tells of nobody outside U tells of nobody outside a larger set.
LEMMA ListsGrow ==
    ASSUME NEW S, NEW T, S \subseteq T
    PROVE  Seq(S) \subseteq Seq(T)
OBVIOUS

LEMMA TellingGrows ==
    ASSUME NEW U, NEW V, U \subseteq V
    PROVE  Telling(U) \subseteq Telling(V) /\ Seq(Telling(U)) \subseteq Seq(Telling(V))
<1>1. Telling(U) \subseteq Telling(V)
  BY DEF Telling, Tells
<1> QED
  BY <1>1, ListsGrow

LEMMA ConnsGrow ==
    ASSUME NEW U, NEW V, U \subseteq V, NEW c \in Conns(U)
    PROVE  c \in Conns(V)
BY TellingGrows DEF Conns

\* Members of Honest and After.
LEMMA HonestConn ==
    ASSUME NEW A, NEW c, c \in Conns(Never(c, A)), Ordered(c, A)
    PROVE  c \in Honest(A)
<1>1. Never(c, A) \subseteq Streams
  BY DEF Never
<1> QED
  BY <1>1, ConnsGrow DEF Honest

LEMMA HonestIs ==
    ASSUME NEW A, NEW c \in Honest(A)
    PROVE  c \in Conns(Never(c, A)) /\ Ordered(c, A) /\ c \in After(c, A)
BY DEF Honest, After

LEMMA AfterAfter ==
    ASSUME NEW A, NEW c, NEW d \in After(c, A), NEW e \in After(d, A)
    PROVE  e \in After(c, A)
BY DEF After

LEMMA AfterIsHonest ==
    ASSUME NEW A, NEW c, NEW d \in After(c, A)
    PROVE  d \in Honest(A)
BY DEF After

\* Steps that say nothing about who may be accepted.
LEMMA StillIsAfter ==
    ASSUME NEW A, NEW c \in Honest(A), NEW d \in Still(c, Never(c, A))
    PROVE  d \in After(c, A)
<1>1. Asked(d) = Asked(c)
  BY DEF Still, Quiet, Asked
<1>2. Never(d, A) = Never(c, A)
  BY <1>1 DEF Still, Quiet, Never
<1>3. Ordered(d, A)
  BY <1>1, HonestIs DEF Still, Quiet, Ordered
<1>4. d \in Conns(Never(d, A))
  BY <1>2 DEF Still
<1> QED
  BY <1>2, <1>3, <1>4, HonestConn DEF After

\* The numbers of an honest connection.
LEMMA Numbers ==
    ASSUME NEW A, NEW c \in Honest(A)
    PROVE  /\ c.highest \in 0 .. StreamCount /\ c.last \in 0 .. NoLast
           /\ StreamCount \in Nat \ {0} /\ NoLast = StreamCount + 1
           /\ Streams = 1 .. StreamCount
           /\ \A s \in Streams : s \in Int /\ s < NoLast
           /\ Asked(c) \subseteq Streams
<1>1. Asked(c) \subseteq Streams
  <2>1. c.requests \in Seq(HeadersFrames)
    BY DEF Honest, Conns
  <2>2. \A i \in DOMAIN c.requests : c.requests[i] \in HeadersFrames
    BY <2>1
  <2> QED
    BY <2>2 DEF Asked, HeadersFrames
<1> QED
  BY <1>1, StreamCountAssumption DEF Honest, Conns, Streams, NoLast

\* The last stream is announced, and from then on nobody is accepted.
LEMMA Announced ==
    ASSUME NEW A \in SUBSET Streams, NEW c \in Honest(A), NEW code \in Codes,
           NEW next \in {"Closing", "Failed"}
    PROVE  [AnnounceLast(c, code) EXCEPT !.state = next] \in After(c, A)
<1> DEFINE last == Lesser(c.last, c.highest)
           f == GoAwayFrame(last, code)
           d == [AnnounceLast(c, code) EXCEPT !.state = next]
           U == Never(c, A)
           V == Never(d, A)
<1>1. /\ c \in Conns(U) /\ Ordered(c, A)
      /\ last \in 0 .. NoLast /\ last <= c.last /\ last <= c.highest
      /\ last = c.last \/ last = c.highest
  BY Numbers, HonestIs DEF Lesser
<1>2. /\ d.last = last /\ d.state = next /\ d.highest = c.highest /\ d.requests = c.requests
      /\ d.out = c.out \o <<f>>
  BY <1>1 DEF AnnounceLast, Emit, GoAwayLastStreamId, Conns
<1>3. Asked(d) = Asked(c)
  BY <1>2 DEF Asked
<1> HIDE DEF last
<1>4. U \subseteq V
  BY <1>1, <1>2, <1>3, Numbers DEF Never
<1>5. f \in Telling(V)
  <2>1. f \in GoAwayFrames /\ f.last = last
    BY <1>1 DEF GoAwayFrame, GoAwayFrames
  <2>2. ASSUME NEW s \in Streams, s > last PROVE s \in V
    <3>1. s \notin A \cup Asked(c)
      BY <1>1, <2>2, Numbers DEF Ordered
    <3> QED
      BY <1>2, <1>3, <2>2, <3>1 DEF Never
  <2>3. f \notin ResetFrames
    BY DEF GoAwayFrame, ResetFrames
  <2> QED
    BY <2>1, <2>2, <2>3 DEF Telling, Tells, Frames
<1>6. c.out \o <<f>> \in Seq(Telling(V))
  <2> HIDE DEF U, V, f
  <2>1. c.out \in Seq(Telling(V))
    BY <1>1, <1>4, TellingGrows DEF Conns
  <2>2. <<f>> \in Seq(Telling(V))
    BY <1>5, OneEntry
  <2> QED
    BY <2>1, <2>2
<1>7. d \in Conns(V)
  <2>1. d = [c EXCEPT !.out = c.out \o <<f>>, !.last = last, !.state = next]
    BY <1>1 DEF AnnounceLast, Emit, GoAwayLastStreamId, Conns, last
  <2> DEFINE out == c.out \o <<f>>
  <2> HIDE DEF V, d, f, out
  <2>2. out \in Seq(Telling(V)) /\ d = [c EXCEPT !.out = out, !.last = last, !.state = next]
    BY <1>6, <2>1 DEF out
  <2> QED
    BY <1>1, <2>2 DEF Conns
<1>8. Ordered(d, A)
  BY <1>1, <1>2, <1>3, Numbers DEF Ordered
<1>9. d \in After(c, A)
  <2> HIDE DEF d
  <2> QED
    BY <1>4, <1>7, <1>8, HonestConn DEF After
<1> QED
  BY <1>9

\* The connection fails.
LEMMA Failing ==
    ASSUME NEW A \in SUBSET Streams, NEW c \in Honest(A), NEW code \in Codes
    PROVE  Fail(c, code) \in After(c, A)
BY Announced, HonestIs DEF Fail

\* GOAWAY is sent.
LEMMA SayingGoAway ==
    ASSUME NEW A \in SUBSET Streams, NEW c \in Honest(A)
    PROVE  SendGoAway(c) \in After(c, A)
<1>1. [AnnounceLast(c, "NO_ERROR") EXCEPT !.state = "Closing"] \in After(c, A)
  BY Announced DEF Codes
<1> QED
  BY <1>1, HonestIs DEF SendGoAway

\* A stream that is refused was not accepted, and will not be.
LEMMA Refusing ==
    ASSUME NEW A \in SUBSET Streams, NEW c \in Honest(A), NEW s \in Streams, s > c.highest
    PROVE  RefuseNewStream(c, s) \in After(c, A)
<1> DEFINE f == RstStreamFrame(s, "REFUSED_STREAM")
           d == [Emit(c, <<f>>) EXCEPT !.highest = s, !.stream[s] = ClosedRecord("ResetByLocal")]
           U == Never(c, A)
           V == Never(d, A)
<1>1. c \in Conns(U) /\ Ordered(c, A)
  BY HonestIs
<1>2. /\ d.last = c.last /\ d.state = c.state /\ d.highest = s /\ d.requests = c.requests
  BY <1>1 DEF Emit, Conns
<1>3. Asked(d) = Asked(c)
  BY <1>2 DEF Asked
<1>4. U \subseteq V
  BY <1>2, <1>3, Numbers DEF Never
<1>5. s \in V
  BY <1>1, <1>2, <1>3, Numbers DEF Never, Ordered
<1>6. f \in Telling(V)
  <2>1. f \in ResetFrames /\ f.stream = s
    BY DEF RstStreamFrame, ResetFrames, Codes
  <2>2. f \notin GoAwayFrames
    BY DEF RstStreamFrame, GoAwayFrames
  <2> QED
    BY <1>5, <2>1, <2>2 DEF Telling, Tells, Frames
<1>7. c.out \o <<f>> \in Seq(Telling(V))
  <2> HIDE DEF U, V, f
  <2>1. c.out \in Seq(Telling(V))
    BY <1>1, <1>4, TellingGrows DEF Conns
  <2>2. <<f>> \in Seq(Telling(V))
    BY <1>6, OneEntry
  <2> QED
    BY <2>1, <2>2
<1>8. d \in Conns(V)
  <2> DEFINE out == c.out \o <<f>>
             rows == [c.stream EXCEPT ![s] = ClosedRecord("ResetByLocal")]
  <2>1. d = [c EXCEPT !.out = out, !.highest = s, !.stream = rows]
    BY <1>1 DEF Emit, Conns
  <2>2. rows \in [Streams -> Rows]
    <3>1. ClosedRecord("ResetByLocal") \in Rows
      BY ClosedIsRow DEF Terminations
    <3> QED
      BY <1>1, <3>1 DEF Conns
  <2>3. out \in Seq(Telling(V))
    BY <1>7
  <2>4. s \in 0 .. StreamCount
    BY DEF Streams
  <2> HIDE DEF V, d, f, out, rows
  <2> QED
    BY <1>1, <2>1, <2>2, <2>3, <2>4 DEF Conns
<1>9. Ordered(d, A)
  BY <1>1, <1>2, <1>3, Numbers DEF Ordered
<1>10. RefuseNewStream(c, s) = RememberTerminatedStream(d, s)
  BY DEF RefuseNewStream
<1> HIDE DEF d
<1>11. d \in After(c, A) /\ d \in Honest(A)
  BY <1>4, <1>8, <1>9, HonestConn DEF After
<1>12. RememberTerminatedStream(d, s) \in After(d, A)
  BY <1>8, <1>11, Remembered, StillIsAfter
<1> QED
  BY <1>10, <1>11, <1>12, AfterAfter

\* A stream is accepted only above every stream seen, and only before the last is announced.
LEMMA Accepting ==
    ASSUME NEW A \in SUBSET Streams, NEW c \in Honest(A), NEW f \in HeadersFrames,
           f.stream > c.highest, c.state = "Open"
    PROVE  [OpenStream(c, f.stream) EXCEPT !.requests = Append(@, f)] \in After(c, A)
<1> DEFINE s == f.stream
           asked == Append(c.requests, f)
           rows == [c.stream EXCEPT ![s] = OpenRecord]
           d == [OpenStream(c, s) EXCEPT !.requests = Append(@, f)]
           U == Never(c, A)
           V == Never(d, A)
<1>1. c \in Conns(U) /\ Ordered(c, A) /\ s \in Streams
  BY HonestIs DEF HeadersFrames
<1>2. c.last = NoLast
  BY <1>1 DEF Ordered
<1>3. /\ d.last = c.last /\ d.state = c.state /\ d.highest = s /\ d.requests = asked
      /\ d = [c EXCEPT !.requests = asked, !.highest = s, !.stream = rows]
  BY <1>1 DEF OpenStream, Conns
<1>4. asked \in Seq(HeadersFrames) /\ Asked(d) = Asked(c) \cup {s}
  <2>1. c.requests \in Seq(HeadersFrames)
    BY <1>1 DEF Conns
  <2>2. /\ asked \in Seq(HeadersFrames)
        /\ DOMAIN asked = 1 .. Len(c.requests) + 1
        /\ DOMAIN c.requests = 1 .. Len(c.requests) /\ Len(c.requests) \in Nat
        /\ \A i \in 1 .. Len(c.requests) : asked[i] = c.requests[i]
        /\ asked[Len(c.requests) + 1] = f
    BY <2>1
  <2> HIDE DEF asked
  <2>3. Asked(d) = {asked[i].stream : i \in DOMAIN asked}
    BY <1>3 DEF Asked
  <2>4. Asked(c) = {asked[i].stream : i \in 1 .. Len(c.requests)}
    BY <2>2 DEF Asked
  <2>5. DOMAIN asked = (1 .. Len(c.requests)) \cup {Len(c.requests) + 1}
    BY <2>2
  <2> HIDE DEF d
  <2> QED
    BY <2>2, <2>3, <2>4, <2>5
<1> HIDE DEF asked, d
<1>5. U \subseteq V
  <2> SUFFICES ASSUME NEW t \in U PROVE t \in V
    OBVIOUS
  <2>1. t \in Streams /\ t \notin A /\ t \notin Asked(c) /\ t <= c.highest
    BY <1>2, Numbers DEF Never
  <2>2. t # s /\ t <= s
    BY <1>1, <2>1, Numbers
  <2> QED
    BY <1>3, <1>4, <2>1, <2>2 DEF Never
<1>6. rows \in [Streams -> Rows]
  <2>1. OpenRecord \in Rows
    <3>1. peerInitialWindowSize \in Int /\ initialWindowSize \in Int
      BY WindowAssumption
    <3> QED
      BY <3>1, NoRecordIsRow DEF OpenRecord, Rows, RowStates
  <2> QED
    BY <1>1, <2>1 DEF Conns
<1>7. s \in 0 .. StreamCount
  BY <1>1 DEF Streams
<1>8. c \in Conns(V)
  BY <1>1, <1>5, ConnsGrow
<1>9. d \in Conns(V)
  <2> HIDE DEF V, rows, s
  <2> QED
    BY <1>3, <1>4, <1>6, <1>7, <1>8 DEF Conns
<1>10. Ordered(d, A)
  BY <1>1, <1>2, <1>3, <1>4, Numbers DEF Ordered
<1>11. d \in After(c, A)
  BY <1>5, <1>9, <1>10, HonestConn DEF After
<1> QED
  BY <1>11 DEF d

\* All send queues are pumped.
LEMMA AllPumped ==
    ASSUME NEW U, NEW c \in Conns(U)
    PROVE  PumpAllSendQueues(c) \in Still(c, U)
<1>1. \A d \in Still(c, U), s \in Streams : PumpOne(d, s) \in Still(c, U)
  <2> SUFFICES ASSUME NEW d \in Still(c, U), NEW s \in Streams
               PROVE  PumpOne(d, s) \in Still(c, U)
    OBVIOUS
  <2>1. d \in Conns(U)
    BY DEF Still
  <2> QED
    BY <2>1, Pumped, StillAfter DEF PumpOne
<1>2. c \in Still(c, U)
  BY StillItself
<1> QED
  BY <1>1, <1>2, PumpRule

\* The parts of an answer are written.
LEMMA HeadSent ==
    ASSUME NEW U, NEW c \in Conns(U), NEW s \in Streams, NEW end \in BOOLEAN, NEW length \in Int
    PROVE  SendResponseHeaders(c, s, end, length) \in Still(c, U)
<1> DEFINE d == Emit(c, <<HeadersFrame(s, end, length)>>)
<1>1. HeadersFrame(s, end, length) \in Telling(U)
  BY HeadersFrameMade, HarmlessFrames
<1>2. d \in Still(c, U) /\ d \in Conns(U)
  BY <1>1, OneEmitted
<1> HIDE DEF d
<1>3. NoteLocalEndStream(d, s) \in Still(c, U)
  BY <1>2, EndsNoted, StillAfter
<1> QED
  BY <1>2, <1>3 DEF SendResponseHeaders, d

LEMMA TrailersSent ==
    ASSUME NEW U, NEW c \in Conns(U), NEW s \in Streams
    PROVE  SendResponseTrailers(c, s) \in Still(c, U)
<1> DEFINE d == Emit(c, <<HeadersFrame(s, TRUE, Undeclared)>>)
<1>1. HeadersFrame(s, TRUE, Undeclared) \in Telling(U)
  <2>1. HeadersFrame(s, TRUE, Undeclared) \in HeadersFrames
    BY DEF HeadersFrame, HeadersFrames, Undeclared
  <2> QED
    BY <2>1, HarmlessFrames
<1>2. d \in Still(c, U) /\ d \in Conns(U)
  BY <1>1, OneEmitted
<1> HIDE DEF d
<1>3. NoteLocalEndStream(d, s) \in Still(c, U)
  BY <1>2, EndsNoted, StillAfter
<1> QED
  BY <1>3 DEF SendResponseTrailers, d

LEMMA BodySent ==
    ASSUME NEW U, NEW c \in Conns(U), NEW s \in Streams, NEW n \in Int, NEW end \in BOOLEAN
    PROVE  SendResponseData(c, s, n, end) \in Still(c, U)
<1> DEFINE d == Emit(c, <<DataFrame(s, n, end)>>)
           sent == [d EXCEPT !.sendWindow = @ - n, !.stream[s].sendWindow = @ - n]
           queued == [c EXCEPT !.stream[s].pending = @ + n, !.stream[s].ending = @ \/ end]
<1>1. DataFrame(s, n, end) \in Telling(U)
  BY BodyFrameMade, HarmlessFrames
<1>2. d \in Still(c, U) /\ d \in Conns(U)
  BY <1>1, OneEmitted
<1>3. SendResponseData(c, s, n, end) \in
        {c, sent, NoteLocalEndStream(sent, s), PumpSendQueue(queued, s)}
  BY DEF SendResponseData
<1> HIDE DEF d
<1>4. sent \in Still(d, U)
  <2> DEFINE row == d.stream[s]
             e == [d EXCEPT !.sendWindow = d.sendWindow - n]
             after == [row EXCEPT !.sendWindow = row.sendWindow - n]
  <2>1. row \in Rows
    BY <1>2, RowOf
  <2>2. row.sendWindow - n \in Int
    BY <2>1 DEF Rows
  <2>3. d.sendWindow - n \in Int
    <3>1. d.sendWindow \in Int
      BY <1>2 DEF Conns
    <3> QED
      BY <3>1
  <2>4. after \in Rows
    BY <2>1, <2>2, RowFields
  <2>5. e \in Still(d, U) /\ e \in Conns(U)
    BY <1>2, <2>3, WindowsChanged DEF Still
  <2>6. sent = [e EXCEPT !.stream[s] = after]
    OBVIOUS
  <2> HIDE DEF e, after, sent
  <2> QED
    BY <1>2, <2>4, <2>5, <2>6, RowChanged, StillAfter
<1>5. queued \in Still(c, U)
  <2> DEFINE row == c.stream[s]
             after == [row EXCEPT !.pending = row.pending + n, !.ending = row.ending \/ end]
  <2>1. row \in Rows
    BY RowOf
  <2>2. row.pending + n \in Int /\ (row.ending \/ end) \in BOOLEAN
    BY <2>1 DEF Rows
  <2>3. after \in Rows
    BY <2>1, <2>2, RowFields
  <2>4. queued = [c EXCEPT !.stream[s] = after]
    OBVIOUS
  <2> HIDE DEF after, queued
  <2> QED
    BY <2>3, <2>4, RowChanged
<1> HIDE DEF sent, queued
<1>6. sent \in Still(c, U) /\ sent \in Conns(U) /\ queued \in Conns(U)
  BY <1>2, <1>4, <1>5, StillAfter DEF Still
<1>7. NoteLocalEndStream(sent, s) \in Still(c, U) /\ PumpSendQueue(queued, s) \in Still(c, U)
  BY <1>5, <1>6, EndsNoted, Pumped, StillAfter
<1> QED
  BY <1>3, <1>6, <1>7, StillItself

\* A stream is aborted by the session.
LEMMA Aborted ==
    ASSUME NEW U, NEW c \in Conns(U), NEW s \in Streams, NEW code \in Codes \ {"REFUSED_STREAM"}
    PROVE  AbortStream(c, s, code) \in Still(c, U)
BY FailingStream, StillItself DEF AbortStream

-----------------------------------------------------------------------------
(* A frame of the client.                                                  *)

\* A frame for a stream that is over.
LEMMA LateFrameAnswered ==
    ASSUME NEW A \in SUBSET Streams, NEW c \in Honest(A), NEW s \in Streams
    PROVE  AnswerLateFrame(c, s) \in After(c, A)
<1> DEFINE U == Never(c, A)
           d == Emit(c, <<RstStreamFrame(s, "STREAM_CLOSED")>>)
           e == [d EXCEPT !.stream[s].termination = "ResetByLocal"]
<1>1. c \in Conns(U)
  BY HonestIs
<1>2. RstStreamFrame(s, "STREAM_CLOSED") \in Telling(U)
  <2>1. "STREAM_CLOSED" \in Codes /\ "STREAM_CLOSED" # "REFUSED_STREAM"
    BY DEF Codes
  <2> QED
    BY <2>1, ResetFrameMade
<1>3. d \in Still(c, U) /\ d \in Conns(U)
  BY <1>1, <1>2, OneEmitted
<1>4. AnswerLateFrame(c, s) \in {c, e, Fail(c, "STREAM_CLOSED")}
  BY DEF AnswerLateFrame
<1> HIDE DEF d
<1>5. e \in Still(d, U)
  <2> DEFINE after == [d.stream[s] EXCEPT !.termination = "ResetByLocal"]
  <2>1. after \in Rows
    BY <1>3, RowOf, RowFields DEF Terminations
  <2>2. e = [d EXCEPT !.stream[s] = after]
    OBVIOUS
  <2> HIDE DEF after, e
  <2> QED
    BY <1>3, <2>1, <2>2, RowChanged
<1> HIDE DEF e
<1>6. e \in After(c, A)
  BY <1>1, <1>3, <1>5, StillAfter, StillIsAfter
<1>7. Fail(c, "STREAM_CLOSED") \in After(c, A)
  BY Failing DEF Codes
<1> QED
  BY <1>4, <1>6, <1>7, HonestIs

\* A step that is quiet, then one that need not be.
LEMMA DataHandled ==
    ASSUME NEW A \in SUBSET Streams, NEW c \in Honest(A), NEW f \in BodyFrames
    PROVE  HandleDataFrame(c, f) \in After(c, A)
<1> DEFINE U == Never(c, A)
           s == f.stream
           d == [c EXCEPT !.receiveWindow = @ - f.size]
           e == [d EXCEPT !.stream[s].receiveWindow = @ - f.size]
           taken == [e EXCEPT !.received = Append(@, f)]
           credited == CreditConnectionReceiveWindow(d, f.size)
<1>1. c \in Conns(U) /\ s \in Streams /\ f.size \in Int
  BY HonestIs DEF BodyFrames
<1>2. HandleDataFrame(c, f) \in
        {Fail(d, "FLOW_CONTROL_ERROR"), credited, Fail(d, "PROTOCOL_ERROR"), AnswerLateFrame(d, s),
         AnswerLateFrame(credited, s), Fail(e, "FLOW_CONTROL_ERROR"),
         FailStream(e, s, "STREAM_CLOSED"), NoteRemoteEndStream(taken, s), taken}
  BY DEF HandleDataFrame
<1>3. d \in Still(c, U)
  <2>1. c.receiveWindow - f.size \in Int
    BY <1>1 DEF Conns
  <2> QED
    BY <1>1, <2>1, WindowsChanged
<1> HIDE DEF d
<1>4. d \in Conns(U) /\ d \in After(c, A) /\ d \in Honest(A)
  BY <1>3, StillIsAfter, AfterIsHonest DEF Still
<1>5. e \in Still(d, U)
  <2> DEFINE row == d.stream[s]
             after == [row EXCEPT !.receiveWindow = row.receiveWindow - f.size]
  <2>1. row \in Rows
    BY <1>1, <1>4, RowOf
  <2>2. row.receiveWindow - f.size \in Int
    BY <1>1, <2>1 DEF Rows
  <2>3. after \in Rows
    BY <2>1, <2>2, RowFields
  <2>4. e = [d EXCEPT !.stream[s] = after]
    OBVIOUS
  <2> HIDE DEF after, e
  <2> QED
    BY <1>1, <1>4, <2>3, <2>4, RowChanged
<1> HIDE DEF e
<1>6. e \in Still(c, U) /\ e \in Conns(U) /\ e \in After(c, A) /\ e \in Honest(A)
  BY <1>1, <1>3, <1>5, StillAfter, StillIsAfter, AfterIsHonest DEF Still
<1>7. taken \in Still(e, U)
  <2> DEFINE pieces == Append(e.received, f)
  <2>1. pieces \in Seq(BodyFrames)
    BY <1>6 DEF Conns
  <2> HIDE DEF pieces
  <2>2. taken = [e EXCEPT !.received = pieces]
    BY DEF pieces
  <2> QED
    BY <1>6, <2>1, <2>2 DEF Conns, Still, Quiet
<1> HIDE DEF taken
<1>8. taken \in Still(c, U) /\ taken \in Conns(U)
  BY <1>1, <1>6, <1>7, StillAfter DEF Still
<1>9. credited \in Still(c, U)
  BY <1>1, <1>3, <1>4, ConnectionCredited, StillAfter
<1> HIDE DEF credited
<1>10. credited \in After(c, A) /\ credited \in Honest(A)
  BY <1>9, StillIsAfter, AfterIsHonest
<1>11. Fail(d, "FLOW_CONTROL_ERROR") \in After(d, A) /\ Fail(d, "PROTOCOL_ERROR") \in After(d, A)
  BY <1>4, Failing DEF Codes
<1>12. AnswerLateFrame(d, s) \in After(d, A) /\ AnswerLateFrame(credited, s) \in After(credited, A)
  BY <1>1, <1>4, <1>10, LateFrameAnswered
<1>13. Fail(e, "FLOW_CONTROL_ERROR") \in After(e, A)
  BY <1>6, Failing DEF Codes
<1>14. FailStream(e, s, "STREAM_CLOSED") \in Still(c, U)
  <2>1. "STREAM_CLOSED" \in Codes \ {"REFUSED_STREAM"}
    BY DEF Codes
  <2> QED
    BY <1>1, <1>6, <2>1, FailingStream, StillAfter
<1>15. NoteRemoteEndStream(taken, s) \in Still(c, U)
  BY <1>1, <1>8, EndsNoted, StillAfter
<1>16. /\ FailStream(e, s, "STREAM_CLOSED") \in After(c, A)
       /\ NoteRemoteEndStream(taken, s) \in After(c, A) /\ taken \in After(c, A)
  BY <1>8, <1>14, <1>15, StillIsAfter
<1>17. /\ Fail(d, "FLOW_CONTROL_ERROR") \in After(c, A) /\ Fail(d, "PROTOCOL_ERROR") \in After(c, A)
       /\ AnswerLateFrame(d, s) \in After(c, A)
  BY <1>4, <1>11, <1>12, AfterAfter
<1>18. AnswerLateFrame(credited, s) \in After(c, A) /\ Fail(e, "FLOW_CONTROL_ERROR") \in After(c, A)
  BY <1>6, <1>10, <1>12, <1>13, AfterAfter
<1> QED
  BY <1>2, <1>10, <1>16, <1>17, <1>18

\* HEADERS: a request is accepted or refused, or a known stream gets its trailers.
LEMMA HeadersHandled ==
    ASSUME NEW A \in SUBSET Streams, NEW c \in Honest(A), NEW f \in HeadersFrames, c.state # "Failed"
    PROVE  HandleHeadersFrame(c, f) \in After(c, A)
<1> DEFINE U == Never(c, A)
           s == f.stream
           opened == [OpenStream(c, s) EXCEPT !.requests = Append(@, f)]
           trailers == [c EXCEPT !.received = Append(@, DataFrame(s, 0, TRUE))]
<1>1. c \in Conns(U) /\ s \in Streams
  BY HonestIs DEF HeadersFrames
<1>2. c.state \in {"Open", "Closing"}
  BY <1>1 DEF Conns
<1>3. CASE HasRecord(c, s)
  <2>1. HandleHeadersFrame(c, f) \in
          {AnswerLateFrame(c, s), FailStream(c, s, "STREAM_CLOSED"), FailStream(c, s, "PROTOCOL_ERROR"),
           NoteRemoteEndStream(trailers, s)}
    BY <1>3 DEF HandleHeadersFrame
  <2>2. trailers \in Still(c, U)
    <3> DEFINE piece == DataFrame(s, 0, TRUE)
               pieces == Append(c.received, piece)
    <3>1. piece \in BodyFrames
      BY <1>1 DEF DataFrame, BodyFrames
    <3> HIDE DEF piece
    <3>2. pieces \in Seq(BodyFrames)
      <4>1. c.received \in Seq(BodyFrames)
        BY <1>1 DEF Conns
      <4> QED
        BY <3>1, <4>1
    <3> HIDE DEF pieces
    <3>3. trailers = [c EXCEPT !.received = pieces]
      BY DEF pieces, piece
    <3> QED
      BY <1>1, <3>2, <3>3 DEF Conns, Still, Quiet
  <2> HIDE DEF trailers
  <2>3. NoteRemoteEndStream(trailers, s) \in Still(c, U)
    BY <1>1, <2>2, EndsNoted, StillAfter DEF Still
  <2>4. FailStream(c, s, "STREAM_CLOSED") \in Still(c, U) /\ FailStream(c, s, "PROTOCOL_ERROR") \in Still(c, U)
    <3>1. "STREAM_CLOSED" \in Codes \ {"REFUSED_STREAM"} /\ "PROTOCOL_ERROR" \in Codes \ {"REFUSED_STREAM"}
      BY DEF Codes
    <3> QED
      BY <1>1, <3>1, FailingStream
  <2> QED
    BY <1>1, <2>1, <2>3, <2>4, LateFrameAnswered, StillIsAfter
<1>4. CASE ~HasRecord(c, s) /\ s <= c.highest
  <2>1. HandleHeadersFrame(c, f) = Fail(c, "PROTOCOL_ERROR")
    BY <1>4 DEF HandleHeadersFrame
  <2> QED
    BY <2>1, Failing DEF Codes
<1>5. CASE ~HasRecord(c, s) /\ ~(s <= c.highest)
  <2>1. s > c.highest
    BY <1>1, <1>5, Numbers
  <2>2. /\ c.state = "Closing" => HandleHeadersFrame(c, f) = RefuseNewStream(c, s)
        /\ c.state = "Open" =>
             HandleHeadersFrame(c, f) \in
               {RefuseNewStream(c, s), opened, NoteRemoteEndStream(opened, s)}
    BY <1>5 DEF HandleHeadersFrame
  <2>3. RefuseNewStream(c, s) \in After(c, A)
    BY <1>1, <2>1, Refusing
  <2>4. c.state = "Open" => opened \in After(c, A)
    BY <2>1, Accepting
  <2> HIDE DEF opened
  <2>5. c.state = "Open" => NoteRemoteEndStream(opened, s) \in After(opened, A)
    <3>1. c.state = "Open" => opened \in Honest(A) /\ opened \in Conns(Never(opened, A))
      BY <2>4, AfterIsHonest, HonestIs
    <3> QED
      BY <1>1, <3>1, EndsNoted, StillIsAfter
  <2>6. c.state = "Open" => NoteRemoteEndStream(opened, s) \in After(c, A)
    BY <2>4, <2>5, AfterAfter
  <2> QED
    BY <1>2, <2>2, <2>3, <2>4, <2>6
<1> QED
  BY <1>3, <1>4, <1>5

\* RST_STREAM.
LEMMA ResetHandled ==
    ASSUME NEW A \in SUBSET Streams, NEW c \in Honest(A), NEW f \in ResetFrames
    PROVE  HandleRstStreamFrame(c, f) \in After(c, A)
<1>1. c \in Conns(Never(c, A)) /\ f.stream \in Streams
  BY HonestIs DEF ResetFrames
<1>2. TerminateStream(c, f.stream, "ResetByPeer") \in After(c, A)
  BY <1>1, Terminating, StillIsAfter DEF Terminations
<1>3. Fail(c, "PROTOCOL_ERROR") \in After(c, A)
  BY Failing DEF Codes
<1> QED
  BY <1>2, <1>3, HonestIs DEF HandleRstStreamFrame

\* GOAWAY of the client: no more requests are accepted.
LEMMA GoAwayHandled ==
    ASSUME NEW A \in SUBSET Streams, NEW c \in Honest(A), NEW f
    PROVE  HandleGoAwayFrame(c, f) \in After(c, A)
<1> DEFINE d == HandleGoAwayFrame(c, f)
           U == Never(c, A)
<1>1. c \in Conns(U) /\ Ordered(c, A)
  BY HonestIs
<1>2. /\ d \in Conns(U) /\ d.highest = c.highest /\ d.last = c.last /\ d.requests = c.requests
      /\ d.state = "Open" => c.state = "Open"
  BY <1>1 DEF HandleGoAwayFrame, Conns
<1> HIDE DEF d
<1>3. Asked(d) = Asked(c)
  BY <1>2 DEF Asked
<1>4. Never(d, A) = U
  BY <1>2, <1>3 DEF Never
<1>5. Ordered(d, A)
  BY <1>1, <1>2, <1>3 DEF Ordered
<1>6. d \in After(c, A)
  BY <1>2, <1>4, <1>5, HonestConn DEF After
<1> QED
  BY <1>6 DEF d

\* WINDOW_UPDATE.
LEMMA CreditHandled ==
    ASSUME NEW A \in SUBSET Streams, NEW c \in Honest(A), NEW f \in CreditFrames
    PROVE  HandleWindowUpdateFrame(c, f) \in After(c, A)
<1> DEFINE U == Never(c, A)
           s == f.stream
           grown == [c EXCEPT !.sendWindow = @ + f.size]
           widened == [c EXCEPT !.stream[s].sendWindow = @ + f.size]
<1>1. c \in Conns(U) /\ s \in 0 .. StreamCount /\ f.size \in Int
  BY HonestIs DEF CreditFrames
<1>2. Fail(c, "FLOW_CONTROL_ERROR") \in After(c, A) /\ Fail(c, "PROTOCOL_ERROR") \in After(c, A)
  BY Failing DEF Codes
<1>3. CASE s = 0
  <2>1. HandleWindowUpdateFrame(c, f) \in {Fail(c, "FLOW_CONTROL_ERROR"), PumpAllSendQueues(grown)}
    BY <1>3 DEF HandleWindowUpdateFrame
  <2>2. grown \in Still(c, U)
    <3>1. c.sendWindow + f.size \in Int
      BY <1>1 DEF Conns
    <3> QED
      BY <1>1, <3>1, WindowsChanged
  <2> HIDE DEF grown
  <2>3. PumpAllSendQueues(grown) \in After(c, A)
    BY <1>1, <2>2, AllPumped, StillAfter, StillIsAfter DEF Still
  <2> QED
    BY <1>2, <2>1, <2>3
<1>4. CASE s # 0
  <2>1. s \in Streams
    BY <1>1, <1>4, StreamCountAssumption DEF Streams
  <2>2. HandleWindowUpdateFrame(c, f) \in
          {c, Fail(c, "PROTOCOL_ERROR"), FailStream(c, s, "FLOW_CONTROL_ERROR"), PumpSendQueue(widened, s)}
    BY <1>4 DEF HandleWindowUpdateFrame
  <2>3. widened \in Still(c, U)
    <3> DEFINE row == c.stream[s]
               after == [row EXCEPT !.sendWindow = row.sendWindow + f.size]
    <3>1. row \in Rows
      BY <1>1, <2>1, RowOf
    <3>2. row.sendWindow + f.size \in Int
      BY <1>1, <3>1 DEF Rows
    <3>3. after \in Rows
      BY <3>1, <3>2, RowFields
    <3>4. widened = [c EXCEPT !.stream[s] = after]
      OBVIOUS
    <3> HIDE DEF after, widened
    <3> QED
      BY <1>1, <2>1, <3>3, <3>4, RowChanged
  <2> HIDE DEF widened
  <2>4. PumpSendQueue(widened, s) \in After(c, A)
    BY <1>1, <2>1, <2>3, Pumped, StillAfter, StillIsAfter DEF Still
  <2>5. FailStream(c, s, "FLOW_CONTROL_ERROR") \in After(c, A)
    <3>1. "FLOW_CONTROL_ERROR" \in Codes \ {"REFUSED_STREAM"}
      BY DEF Codes
    <3> QED
      BY <1>1, <2>1, <3>1, FailingStream, StillIsAfter
  <2> QED
    BY <1>2, <2>2, <2>4, <2>5, HonestIs
<1> QED
  BY <1>3, <1>4

\* Any frame.
LEMMA FrameHandled ==
    ASSUME NEW A \in SUBSET Streams, NEW c \in Honest(A), NEW f \in Frames, c.state # "Failed"
    PROVE  HandleFrame(c, f) \in After(c, A)
<1>1. CASE f.type = "HEADERS"
  BY <1>1, FrameKinds, HeadersHandled DEF HandleFrame
<1>2. CASE f.type = "DATA"
  BY <1>2, FrameKinds, DataHandled DEF HandleFrame
<1>3. CASE f.type = "RST_STREAM"
  BY <1>3, FrameKinds, ResetHandled DEF HandleFrame
<1>4. CASE f.type = "WINDOW_UPDATE"
  BY <1>4, FrameKinds, CreditHandled DEF HandleFrame
<1>5. CASE f.type = "GOAWAY"
  BY <1>5, FrameKinds, GoAwayHandled DEF HandleFrame
<1> QED
  BY <1>1, <1>2, <1>3, <1>4, <1>5, FrameKinds

\* However many frames the server is fed, whom it has given up stays given up.
LEMMA FramesFed ==
    ASSUME NEW A \in SUBSET Streams, NEW c \in Honest(A), NEW frames \in Seq(Frames)
    PROVE  FeedBytes(c, frames) \in After(c, A)
<1>1. ASSUME NEW d \in After(c, A), NEW f \in Frames PROVE FeedOne(d, f) \in After(c, A)
  <2>1. CASE d.state = "Failed"
    BY <2>1 DEF FeedOne
  <2>2. CASE d.state # "Failed"
    <3>1. HandleFrame(d, f) \in After(d, A)
      BY <2>2, AfterIsHonest, FrameHandled
    <3> QED
      BY <2>2, <3>1, AfterAfter DEF FeedOne
  <2> QED
    BY <2>1, <2>2
<1>2. c \in After(c, A)
  BY HonestIs
<1> QED
  BY <1>1, <1>2, FeedRule

(***************************************************************************)
(* The session: the pair x of the connection and the requests' records.    *)
(***************************************************************************)

\* A request's record.
Phases == {"none", "pending", "woken", "waiting", "busy", "answering", "ending", "flushing",
           "finished", "gone"}

\* What came of a request.
Outcomes == {"none", "served", "cancelled", "unusable", "rejected"}

\* A handler is called only for a request the session has a record of.
Records == {t \in [phase : Phases, ended : BOOLEAN, broken : BOOLEAN, tooLarge : BOOLEAN,
                   buffered : Int, flow : Int, held : BOOLEAN, received : Int, handed : Int,
                   segments : Int, handled : BOOLEAN, outcome : Outcomes] :
              t.handled => t.phase # "none"}

\* The pairs of a connection and the records.
Sessions(U) == [conn : Conns(U), task : [Streams -> Records]]

\* The streams the session has, or had, a record of.
Begun(records) == {s \in Streams : records[s].phase # "none"}

\* Who will never be given to a handler.
Unseen(x) == Never(x.conn, Begun(x.task))

\* The sessions whose connection tells the truth about their records.
Valid == {x \in Sessions(Streams) : x.conn \in Honest(Begun(x.task))}

\* Who will never be given to a handler after x will not after y.
Later(x) == {y \in Valid : Unseen(x) \subseteq Unseen(y)}

\* The same requests, and nothing said about who may be accepted.
Settled(x, U) == {y \in Sessions(U) : y.conn \in Still(x.conn, U) /\ Begun(y.task) = Begun(x.task)}

\* What a valid session is.
LEMMA ValidIs ==
    ASSUME NEW x \in Valid
    PROVE  /\ x \in Sessions(Unseen(x)) /\ x \in Later(x) /\ x \in Settled(x, Unseen(x))
           /\ x.conn \in Honest(Begun(x.task)) /\ Begun(x.task) \in SUBSET Streams
           /\ x.conn \in Conns(Unseen(x)) /\ x.task \in [Streams -> Records]
<1>1. x.conn \in Conns(Unseen(x))
  BY HonestIs DEF Valid, Unseen
<1>2. x \in Sessions(Unseen(x))
  BY <1>1 DEF Valid, Sessions
<1> QED
  BY <1>1, <1>2, StillItself DEF Valid, Later, Settled, Begun, Sessions

\* Later and Settled are transitive.
LEMMA LaterLater ==
    ASSUME NEW x, NEW y \in Later(x), NEW z \in Later(y)
    PROVE  z \in Later(x)
BY DEF Later

LEMMA SettledThen ==
    ASSUME NEW U, NEW x \in Sessions(U), NEW y \in Settled(x, U), NEW z \in Settled(y, U)
    PROVE  z \in Settled(x, U)
<1>1. x.conn \in Conns(U) /\ y.conn \in Still(x.conn, U) /\ z.conn \in Still(y.conn, U)
  BY DEF Sessions, Settled
<1>2. z.conn \in Still(x.conn, U)
  BY <1>1, StillAfter
<1> QED
  BY <1>2 DEF Settled

\* A valid session that settles is a later valid one.
LEMMA SettledIsLater ==
    ASSUME NEW x \in Valid, NEW y \in Settled(x, Unseen(x))
    PROVE  y \in Later(x)
<1>1. y.conn \in After(x.conn, Begun(x.task))
  BY ValidIs, StillIsAfter DEF Settled, Unseen
<1>2. y.conn \in Honest(Begun(y.task)) /\ Unseen(x) \subseteq Unseen(y)
  BY <1>1 DEF After, Settled, Unseen
<1>3. y \in Sessions(Streams)
  <2>1. y.conn \in Conns(Streams)
    BY <1>2 DEF Honest
  <2> QED
    BY <2>1 DEF Settled, Sessions
<1> QED
  BY <1>2, <1>3 DEF Later, Valid

\* The connection alone moves on.
LEMMA ConnIsLater ==
    ASSUME NEW x \in Valid, NEW d \in After(x.conn, Begun(x.task))
    PROVE  [x EXCEPT !.conn = d] \in Later(x)
<1>1. d \in Honest(Begun(x.task)) /\ d \in Conns(Streams)
  BY DEF After, Honest
<1> DEFINE y == [x EXCEPT !.conn = d]
<1>2. y.conn = d /\ y.task = x.task /\ y \in Sessions(Streams)
  BY <1>1 DEF Valid, Sessions
<1> HIDE DEF y
<1>3. y \in Later(x)
  BY <1>1, <1>2 DEF Later, Valid, Unseen, After
<1> QED
  BY <1>3 DEF y

\* The connection, all records or one of them change.
LEMMA ConnSettles ==
    ASSUME NEW U, NEW x \in Sessions(U), NEW d \in Still(x.conn, U)
    PROVE  /\ [x EXCEPT !.conn = d] \in Settled(x, U)
           /\ [x EXCEPT !.conn = d].task = x.task
<1>1. d \in Conns(U)
  BY DEF Still
<1> QED
  BY <1>1 DEF Sessions, Settled

LEMMA RecordsSettle ==
    ASSUME NEW U, NEW x \in Sessions(U), NEW records \in [Streams -> Records],
           Begun(records) = Begun(x.task)
    PROVE  [x EXCEPT !.task = records] \in Settled(x, U)
<1>1. x.conn \in Still(x.conn, U)
  BY StillItself DEF Sessions
<1> QED
  BY <1>1 DEF Sessions, Settled

LEMMA RecordSettles ==
    ASSUME NEW U, NEW x \in Sessions(U), NEW s \in Streams, NEW t \in Records,
           t.phase = "none" <=> x.task[s].phase = "none"
    PROVE  [x EXCEPT !.task[s] = t] \in Settled(x, U)
<1> DEFINE records == [x.task EXCEPT ![s] = t]
<1>1. records \in [Streams -> Records]
  BY DEF Sessions
<1>2. Begun(records) = Begun(x.task)
  BY DEF Begun, Sessions
<1>3. [x EXCEPT !.task[s] = t] = [x EXCEPT !.task = records]
  OBVIOUS
<1> HIDE DEF records
<1> QED
  BY <1>1, <1>2, <1>3, RecordsSettle

\* The record of a request that has not arrived.
LEMMA NoTaskIsRecord == NoTask \in Records
BY DEF NoTask, Records, Phases, Outcomes

\* Changes of a record's fields.
LEMMA RecordFields ==
    ASSUME NEW t \in Records
    PROVE  /\ \A p \in Phases \ {"none"} : [t EXCEPT !.phase = p] \in Records
           /\ \A p \in Phases \ {"none"}, o \in Outcomes :
                 [t EXCEPT !.phase = p, !.outcome = o] \in Records
           /\ [t EXCEPT !.flow = 0, !.buffered = 0, !.held = FALSE] \in Records
           /\ \A n \in Int : [t EXCEPT !.handed = n, !.held = TRUE] \in Records
           /\ \A n \in Int : [t EXCEPT !.segments = n] \in Records
           /\ t.phase # "none" => [t EXCEPT !.handled = TRUE] \in Records
           /\ t.phase \in Phases /\ t.flow \in Int /\ t.buffered \in Int /\ t.received \in Int
           /\ t.handed \in Int /\ t.segments \in Int
<1>1. \A p \in Phases \ {"none"} : [t EXCEPT !.phase = p] \in Records
  BY DEF Records
<1>2. \A p \in Phases \ {"none"}, o \in Outcomes : [t EXCEPT !.phase = p, !.outcome = o] \in Records
  BY DEF Records
<1>3. [t EXCEPT !.flow = 0, !.buffered = 0, !.held = FALSE] \in Records
  <2>1. \A a \in Int, b \in BOOLEAN : [t EXCEPT !.flow = a, !.buffered = a, !.held = b] \in Records
    BY DEF Records
  <2>2. 0 \in Int /\ FALSE \in BOOLEAN
    OBVIOUS
  <2> QED
    BY <2>1, <2>2, Zenon
<1>4. \A n \in Int : [t EXCEPT !.handed = n, !.held = TRUE] \in Records
  BY DEF Records
<1>5. \A n \in Int : [t EXCEPT !.segments = n] \in Records
  BY DEF Records
<1>6. t.phase # "none" => [t EXCEPT !.handled = TRUE] \in Records
  BY DEF Records
<1>7. /\ t.phase \in Phases /\ t.flow \in Int /\ t.buffered \in Int /\ t.received \in Int
      /\ t.handed \in Int /\ t.segments \in Int
  BY DEF Records
<1> QED
  BY <1>1, <1>2, <1>3, <1>4, <1>5, <1>6, <1>7

\* The pair of another connection and another record of one request.
LEMMA PairSettles ==
    ASSUME NEW U, NEW x \in Sessions(U), NEW d \in Still(x.conn, U), NEW s \in Streams,
           NEW t \in Records, t.phase = "none" <=> x.task[s].phase = "none"
    PROVE  [conn |-> d, task |-> [x.task EXCEPT ![s] = t]] \in Settled(x, U)
<1> DEFINE records == [x.task EXCEPT ![s] = t]
<1>1. records \in [Streams -> Records]
  BY DEF Sessions
<1>2. Begun(records) = Begun(x.task)
  BY DEF Begun, Sessions
<1>3. d \in Conns(U)
  BY DEF Still
<1> HIDE DEF records
<1>4. [conn |-> d, task |-> records] \in Settled(x, U)
  BY <1>1, <1>2, <1>3 DEF Sessions, Settled
<1> QED
  BY <1>4 DEF records

\* A body is discarded, and its windows given back.
LEMMA BodyDiscarded ==
    ASSUME NEW U, NEW x \in Sessions(U), NEW s \in Streams
    PROVE  DiscardBufferedBody(x, s) \in Settled(x, U)
<1> DEFINE t == x.task[s]
           emptied == [t EXCEPT !.flow = 0, !.buffered = 0, !.held = FALSE]
           d == CreditReceivedData(x.conn, s, t.flow)
<1>1. t \in Records
  BY DEF Sessions
<1>2. t.flow \in Int /\ emptied \in Records /\ emptied.phase = t.phase
  <2> HIDE DEF t
  <2>1. t.flow \in Int
    BY <1>1 DEF Records
  <2>2. \A m, n \in Int, b \in BOOLEAN :
          LET u == [t EXCEPT !.flow = m, !.buffered = n, !.held = b]
          IN  u \in Records /\ u.phase = t.phase
    BY <1>1 DEF Records
  <2>3. 0 \in Int /\ FALSE \in BOOLEAN
    OBVIOUS
  <2> QED
    BY <2>1, <2>2, <2>3, Zenon
<1>3. d \in Still(x.conn, U)
  BY <1>2, DataCredited DEF Sessions
<1>4. DiscardBufferedBody(x, s) = [conn |-> d, task |-> [x.task EXCEPT ![s] = emptied]]
  BY DEF DiscardBufferedBody
<1> HIDE DEF d, emptied
<1> QED
  BY <1>2, <1>3, <1>4, PairSettles

\* One piece of a body: for nobody, for a handler that reads, or for one that waits for all.
LEMMA PieceAbsorbed ==
    ASSUME NEW U, NEW x \in Sessions(U), NEW f \in BodyFrames
    PROVE  AbsorbOneReceivedData(x, f) \in Settled(x, U)
<1> DEFINE s == f.stream
           t == x.task[s]
           exceeds == /\ maximumBodySize # 0
                      /\ t.received + f.size > maximumBodySize
           refused == [t EXCEPT !.tooLarge = TRUE, !.broken = TRUE]
           streamed == IF exceeds THEN refused ELSE AppendBody(t, f)
           whole == [t EXCEPT !.tooLarge = @ \/ exceeds, !.ended = @ \/ f.end,
                              !.received = IF exceeds THEN @ ELSE @ + f.size]
           wake(r) == [r EXCEPT !.phase = IF @ = "waiting" THEN "woken" ELSE @]
           credited == CreditReceivedData(x.conn, s, f.size)
<1>1. s \in Streams /\ f.size \in Int /\ f.end \in BOOLEAN
  BY DEF BodyFrames
<1>2. t \in Records
  BY <1>1 DEF Sessions
<1>3. credited \in Still(x.conn, U)
  BY <1>1, DataCredited DEF Sessions
<1>4. streamed \in Records /\ streamed.phase = t.phase
  <2>1. t.buffered + f.size \in Int /\ t.flow + f.size \in Int /\ t.received + f.size \in Int
    BY <1>1, <1>2 DEF Records
  <2>2. (t.ended \/ f.end) \in BOOLEAN
    OBVIOUS
  <2>3. refused \in Records /\ refused.phase = t.phase
    BY <1>2 DEF Records
  <2>4. AppendBody(t, f) \in Records /\ AppendBody(t, f).phase = t.phase
    BY <1>2, <2>1, <2>2 DEF Records, AppendBody
  <2> QED
    BY <2>3, <2>4
<1>5. whole \in Records /\ whole.phase = t.phase
  <2> DEFINE large == t.tooLarge \/ exceeds
             over == t.ended \/ f.end
             count == IF exceeds THEN t.received ELSE t.received + f.size
  <2>1. large \in BOOLEAN /\ over \in BOOLEAN
    OBVIOUS
  <2>2. count \in Int
    BY <1>1, <1>2 DEF Records
  <2>3. whole = [t EXCEPT !.tooLarge = large, !.ended = over, !.received = count]
    OBVIOUS
  <2> HIDE DEF large, over, count, t, whole
  <2> QED
    BY <1>2, <2>1, <2>2, <2>3 DEF Records
<1>6. /\ wake(streamed) \in Records
      /\ wake(streamed).phase = "none" <=> t.phase = "none"
  <2> HIDE DEF streamed
  <2>1. streamed.phase = "waiting" => wake(streamed) = [streamed EXCEPT !.phase = "woken"]
    OBVIOUS
  <2>2. streamed.phase # "waiting" => wake(streamed) = streamed
    BY <1>4 DEF Records
  <2>3. [streamed EXCEPT !.phase = "woken"] \in Records
    BY <1>4, RecordFields DEF Phases
  <2> QED
    BY <1>4, <2>1, <2>2, <2>3 DEF Records
<1> DEFINE awake == wake(streamed)
           woken(d) == [conn |-> d, task |-> [x.task EXCEPT ![s] = awake]]
           waits == [conn |-> credited, task |-> [x.task EXCEPT ![s] = whole]]
<1>7. AbsorbOneReceivedData(x, f) \in
        {[x EXCEPT !.conn = credited], woken(credited), woken(x.conn), waits}
  <2>1. (IF streamed.tooLarge THEN credited ELSE x.conn) \in {credited, x.conn}
    OBVIOUS
  <2> QED
    BY <2>1 DEF AbsorbOneReceivedData
<1>8. [x EXCEPT !.conn = credited] \in Settled(x, U)
  BY <1>3, ConnSettles
<1>9. x.conn \in Still(x.conn, U)
  BY StillItself DEF Sessions
<1> HIDE DEF credited, awake, whole
<1>10. woken(credited) \in Settled(x, U) /\ woken(x.conn) \in Settled(x, U)
  BY <1>1, <1>3, <1>6, <1>9, PairSettles DEF awake
<1>11. waits \in Settled(x, U)
  BY <1>1, <1>3, <1>5, PairSettles
<1> HIDE DEF woken, waits
<1> QED
  BY <1>7, <1>8, <1>10, <1>11

\* The empty list.
LEMMA NoEntries ==
    ASSUME NEW S
    PROVE  <<>> \in Seq(S)
OBVIOUS

\* The session takes what the connection has for it.
LEMMA ListsTaken ==
    ASSUME NEW U, NEW c \in Conns(U)
    PROVE  /\ [c EXCEPT !.received = <<>>] \in Still(c, U)
           /\ [c EXCEPT !.out = <<>>] \in Still(c, U)
           /\ [c EXCEPT !.requests = <<>>] \in Conns(U)
<1>1. \A q \in Seq(BodyFrames) : [c EXCEPT !.received = q] \in Still(c, U)
  BY DEF Conns, Still, Quiet
<1>2. \A q \in Seq(Telling(U)) : [c EXCEPT !.out = q] \in Still(c, U)
  BY DEF Conns, Still, Quiet
<1>3. \A q \in Seq(HeadersFrames) : [c EXCEPT !.requests = q] \in Conns(U)
  BY DEF Conns
<1> QED
  BY <1>1, <1>2, <1>3, NoEntries, Zenon

\* All pieces that were recognised.
LEMMA DataAbsorbed ==
    ASSUME NEW U, NEW x \in Sessions(U)
    PROVE  AbsorbReceivedData(x) \in Settled(x, U)
<1> DEFINE y == FoldLeft(AbsorbOneReceivedData, x, x.conn.received)
           d == [y.conn EXCEPT !.received = <<>>]
<1>1. x \in Settled(x, U)
  BY StillItself DEF Settled, Sessions
<1>2. x.conn.received \in Seq(BodyFrames)
  BY DEF Sessions, Conns
<1>3. ASSUME NEW z \in Settled(x, U), NEW f \in BodyFrames
      PROVE  AbsorbOneReceivedData(z, f) \in Settled(x, U)
  <2>1. z \in Sessions(U)
    BY DEF Settled
  <2> QED
    BY <2>1, PieceAbsorbed, SettledThen
<1>4. y \in Settled(x, U)
  BY <1>1, <1>2, <1>3, AbsorbRule
<1>5. AbsorbReceivedData(x) = [y EXCEPT !.conn = d]
  BY DEF AbsorbReceivedData
<1> HIDE DEF y
<1>6. y \in Sessions(U)
  BY <1>4 DEF Settled
<1>7. d \in Still(y.conn, U)
  BY <1>6, ListsTaken DEF Sessions
<1> HIDE DEF d
<1>8. [y EXCEPT !.conn = d] \in Settled(y, U)
  BY <1>6, <1>7, ConnSettles
<1> QED
  BY <1>4, <1>5, <1>8, SettledThen

\* Taking the requests makes their streams begun and no longer asked for: the others are as before.
LEMMA RequestsAbsorbed ==
    ASSUME NEW x \in Valid
    PROVE  AbsorbPendingRequests(x) \in Later(x)
<1> DEFINE c == x.conn
           asked == c.requests
           new(s) == {i \in 1 .. Len(asked) : asked[i].stream = s}
           begins(s) == [NoTask EXCEPT !.phase = "pending", !.ended = \E i \in new(s) : asked[i].end]
           records == [s \in Streams |-> IF new(s) = {} THEN x.task[s] ELSE begins(s)]
           d == [c EXCEPT !.requests = <<>>]
           B == Begun(x.task)
           y == [conn |-> d, task |-> records]
<1>1. c \in Conns(Unseen(x)) /\ c \in Honest(B) /\ Ordered(c, B) /\ x.task \in [Streams -> Records]
  BY ValidIs, HonestIs
<1>2. \A s \in Streams : begins(s) \in Records /\ begins(s).phase # "none"
  <2> TAKE s \in Streams
  <2> DEFINE over == \E i \in new(s) : asked[i].end
  <2>1. over \in BOOLEAN
    OBVIOUS
  <2> HIDE DEF over
  <2>2. [NoTask EXCEPT !.phase = "pending", !.ended = over] \in Records
    <3>1. \A t \in Records, b \in BOOLEAN : [t EXCEPT !.phase = "pending", !.ended = b] \in Records
      BY DEF Records, Phases
    <3> QED
      BY <2>1, <3>1, NoTaskIsRecord
  <2>3. [NoTask EXCEPT !.phase = "pending", !.ended = over].phase = "pending"
    BY DEF NoTask
  <2> QED
    BY <2>2, <2>3 DEF over
<1> HIDE DEF begins
<1>3. records \in [Streams -> Records]
  BY <1>1, <1>2
<1>4. Asked(c) \subseteq Streams /\ \A s \in Streams : new(s) # {} <=> s \in Asked(c)
  <2>1. asked \in Seq(HeadersFrames)
    BY <1>1 DEF Conns
  <2>2. DOMAIN asked = 1 .. Len(asked)
    BY <2>1
  <2>3. Asked(c) \subseteq Streams
    BY <1>1, Numbers
  <2> QED
    BY <2>2, <2>3 DEF Asked
<1> HIDE DEF new
<1>5. Begun(records) = B \cup Asked(c)
  BY <1>1, <1>2, <1>4 DEF Begun
<1>6. /\ d.requests = <<>> /\ d.state = c.state /\ d.highest = c.highest /\ d.last = c.last
      /\ d \in Conns(Unseen(x))
  BY <1>1, ListsTaken DEF Conns
<1> HIDE DEF d, records
<1>7. Asked(d) = {}
  BY <1>6 DEF Asked
<1>8. Never(d, Begun(records)) = Unseen(x)
  BY <1>5, <1>6, <1>7 DEF Never, Unseen
<1>9. Ordered(d, Begun(records))
  BY <1>1, <1>5, <1>6, <1>7 DEF Ordered
<1>10. d \in Honest(Begun(records)) /\ d \in Conns(Streams)
  BY <1>6, <1>8, <1>9, HonestConn DEF Honest
<1>11. y.conn = d /\ y.task = records /\ y \in Sessions(Streams)
  BY <1>3, <1>10 DEF Sessions
<1>12. AbsorbPendingRequests(x) = y
  BY DEF AbsorbPendingRequests, y, d, records, begins, new
<1> HIDE DEF y
<1> QED
  BY <1>8, <1>10, <1>11, <1>12 DEF Later, Valid, Unseen

\* A body broken under a handler that may wait for it.
LEMMA Roused ==
    ASSUME NEW t \in Records, t.phase # "none"
    PROVE  /\ [t EXCEPT !.broken = TRUE, !.phase = IF @ = "waiting" THEN "woken" ELSE @] \in Records
           /\ [t EXCEPT !.broken = TRUE, !.phase = IF @ = "waiting" THEN "woken" ELSE @].phase # "none"
<1> DEFINE p == IF t.phase = "waiting" THEN "woken" ELSE t.phase
<1>1. p \in Phases /\ p # "none"
  BY DEF Phases, Records
<1> HIDE DEF p
<1>2. [t EXCEPT !.broken = TRUE, !.phase = p] \in Records
  BY <1>1 DEF Records
<1>3. [t EXCEPT !.broken = TRUE, !.phase = p].phase # "none"
  BY <1>1 DEF Records
<1> QED
  BY <1>2, <1>3 DEF p

\* The bodies of cancelled streams, and of all of them when the loop is left, are broken.
LEMMA StreamsCancelled ==
    ASSUME NEW U, NEW x \in Sessions(U)
    PROVE  /\ NoteCancelledStreams(x) \in Settled(x, U)
           /\ DrainInFlightServes(x) \in Settled(x, U)
<1> DEFINE roused(t) == [t EXCEPT !.broken = TRUE, !.phase = IF @ = "waiting" THEN "woken" ELSE @]
           noted == [s \in Streams |-> IF IsServing(x.task[s]) /\ ~IsActive(x.conn, s)
                                       THEN roused(x.task[s]) ELSE x.task[s]]
           drained == [s \in Streams |-> IF IsServing(x.task[s]) THEN roused(x.task[s])
                                         ELSE x.task[s]]
<1>1. \A t \in Records : IsServing(t) => t.phase # "none"
  BY DEF IsServing, IsClaimed
<1>2. \A t \in Records : t.phase # "none" => roused(t) \in Records /\ roused(t).phase # "none"
  BY Roused
<1>3. x.task \in [Streams -> Records]
  BY DEF Sessions
<1>4. NoteCancelledStreams(x) = [x EXCEPT !.task = noted]
  BY DEF NoteCancelledStreams
<1>5. DrainInFlightServes(x) = [x EXCEPT !.task = drained]
  BY DEF DrainInFlightServes
<1> HIDE DEF roused
<1>6. noted \in [Streams -> Records] /\ Begun(noted) = Begun(x.task)
  BY <1>1, <1>2, <1>3 DEF Begun
<1>7. drained \in [Streams -> Records] /\ Begun(drained) = Begun(x.task)
  BY <1>1, <1>2, <1>3 DEF Begun
<1> HIDE DEF noted, drained
<1> QED
  BY <1>4, <1>5, <1>6, <1>7, RecordsSettle

\* The requests that are ready are started.
LEMMA TasksStarted ==
    ASSUME NEW U, NEW x \in Sessions(U)
    PROVE  StartReadyRequestTasks(x) \in Settled(x, U)
<1> DEFINE starts(s) == LET t == x.task[s]
                        IN  CASE t.phase # "pending" -> t
                              [] t.phase = "pending" /\ IsReadyToServe(t, s) ->
                                   [t EXCEPT !.phase = "woken"]
                              [] t.phase = "pending" /\ ~IsReadyToServe(t, s) /\ ~IsActive(x.conn, s) ->
                                   [t EXCEPT !.phase = "gone"]
                              [] OTHER -> t
           records == [s \in Streams |-> starts(s)]
<1>1. \A s \in Streams : starts(s) \in Records /\ (starts(s).phase = "none" <=> x.task[s].phase = "none")
  <2> TAKE s \in Streams
  <2> DEFINE t == x.task[s]
  <2>1. t \in Records
    BY DEF Sessions
  <2>2. /\ [t EXCEPT !.phase = "woken"] \in Records
        /\ [t EXCEPT !.phase = "gone"] \in Records
    BY <2>1, RecordFields DEF Phases
  <2>3. [t EXCEPT !.phase = "woken"].phase = "woken" /\ [t EXCEPT !.phase = "gone"].phase = "gone"
    BY <2>1 DEF Records
  <2>4. starts(s) \in {t, [t EXCEPT !.phase = "woken"], [t EXCEPT !.phase = "gone"]}
        /\ (t.phase # "pending" => starts(s) = t)
    OBVIOUS
  <2> HIDE DEF starts
  <2> QED
    BY <2>1, <2>2, <2>3, <2>4
<1>2. StartReadyRequestTasks(x) = [x EXCEPT !.task = records]
  BY DEF StartReadyRequestTasks
<1> HIDE DEF starts
<1>3. records \in [Streams -> Records] /\ Begun(records) = Begun(x.task)
  BY <1>1 DEF Begun
<1> HIDE DEF records
<1> QED
  BY <1>2, <1>3, RecordsSettle

\* The records of the finished handlers go.
LEMMA TasksRetired ==
    ASSUME NEW U, NEW x \in Sessions(U)
    PROVE  RetireFinishedRequestTasks(x) \in Settled(x, U)
<1> DEFINE finished == {s \in Streams : x.task[s].phase = "finished"}
           y == RetireAll(x, finished)
           records == [s \in Streams |-> IF s \in finished THEN [y.task[s] EXCEPT !.phase = "gone"]
                                         ELSE y.task[s]]
<1>1. RetireFinishedRequestTasks(x) = [y EXCEPT !.task = records]
  BY DEF RetireFinishedRequestTasks, RetireAll
<1>2. x \in Settled(x, U)
  BY StillItself DEF Settled, Sessions
<1>3. ASSUME NEW z \in Settled(x, U), NEW s \in Streams
      PROVE  RetireOne(z, s, finished) \in Settled(x, U)
  <2>1. z \in Sessions(U)
    BY DEF Settled
  <2> QED
    BY <2>1, BodyDiscarded, SettledThen DEF RetireOne
<1> HIDE DEF finished
<1>4. y \in Settled(x, U)
  BY <1>2, <1>3, RetireRule
<1> HIDE DEF y
<1>5. y \in Sessions(U) /\ y.task \in [Streams -> Records] /\ Begun(y.task) = Begun(x.task)
  BY <1>4 DEF Settled, Sessions
<1>6. \A s \in finished : y.task[s].phase # "none"
  <2>1. finished \subseteq Begun(x.task)
    BY DEF finished, Begun
  <2> QED
    BY <1>5, <2>1 DEF Begun
<1>7. \A t \in Records : [t EXCEPT !.phase = "gone"] \in Records /\ [t EXCEPT !.phase = "gone"].phase # "none"
  <2> TAKE t \in Records
  <2>1. "gone" \in Phases \ {"none"}
    BY DEF Phases
  <2> QED
    BY <2>1, RecordFields DEF Records
<1>8. records \in [Streams -> Records] /\ Begun(records) = Begun(y.task)
  BY <1>5, <1>6, <1>7 DEF Begun
<1> HIDE DEF records
<1>9. [y EXCEPT !.task = records] \in Settled(y, U)
  BY <1>5, <1>8, RecordsSettle
<1> QED
  BY <1>1, <1>4, <1>9, SettledThen

(***************************************************************************)
(* The steps of the session.  What it has written and nobody has read yet  *)
(* tells of nobody who may still be accepted.                              *)
(***************************************************************************)
Session == [conn |-> conn, task |-> task]

\* The session is valid and nothing untrue is on its way to the client.
Truthful == Session \in Valid /\ toClient \in Seq(Telling(Unseen(Session)))

\* A step of the session.
Moved == Session' \in Later(Session) /\ toClient' \in Seq(Telling(Unseen(Session')))

\* A session is the pair of its two parts.
LEMMA PairIs ==
    ASSUME NEW U, NEW y \in Sessions(U)
    PROVE  y = [conn |-> y.conn, task |-> y.task]
BY DEF Sessions

LEMMA Begins ==
    ASSUME Session \in Valid
    PROVE  /\ Session.conn = conn /\ Session.task = task
           /\ task \in [Streams -> Records] /\ Session \in Later(Session)
BY ValidIs DEF Session

\* The session becomes y and writes nothing.
LEMMA Unwritten ==
    ASSUME Truthful, NEW y \in Later(Session), conn' = y.conn, task' = y.task, toClient' = toClient
    PROVE  Moved
<1>1. y \in Sessions(Streams)
  BY DEF Later, Valid
<1>2. Session' = y
  BY <1>1, PairIs DEF Session
<1>3. Unseen(Session) \subseteq Unseen(y)
  BY DEF Later
<1> QED
  BY <1>2, <1>3, TellingGrows DEF Moved, Truthful

\* Lists joined.
LEMMA ListsJoined ==
    ASSUME NEW S, NEW q \in Seq(S), NEW r \in Seq(S)
    PROVE  q \o r \in Seq(S)
OBVIOUS

\* The session becomes y and writes what y has to write.
LEMMA Written ==
    ASSUME Truthful, NEW y \in Later(Session), FlushOutgoingBytes(y.conn), task' = y.task
    PROVE  Moved
<1> DEFINE d == [y.conn EXCEPT !.out = <<>>]
           z == [y EXCEPT !.conn = d]
<1>1. y \in Valid /\ Unseen(Session) \subseteq Unseen(y)
  BY DEF Later
<1>2. y \in Sessions(Unseen(y)) /\ y.conn \in Conns(Unseen(y))
  BY <1>1, ValidIs
<1>3. z \in Settled(y, Unseen(y)) /\ z.task = y.task
  BY <1>2, ListsTaken, ConnSettles
<1>4. z.conn = d
  BY <1>2 DEF Sessions
<1>5. z \in Later(y)
  BY <1>1, <1>3, SettledIsLater
<1>6. Session' = z
  <2>1. conn' = d
    BY DEF FlushOutgoingBytes
  <2>2. z = [conn |-> z.conn, task |-> z.task]
    BY <1>3, PairIs DEF Settled
  <2> QED
    BY <1>3, <1>4, <2>1, <2>2 DEF Session
<1>7. toClient' \in Seq(Telling(Unseen(z)))
  <2>1. Unseen(y) \subseteq Unseen(z)
    BY <1>5 DEF Later
  <2> HIDE DEF z
  <2>2. toClient \in Seq(Telling(Unseen(z)))
    BY <1>1, <2>1, TellingGrows DEF Truthful
  <2>3. y.conn.out \in Seq(Telling(Unseen(z)))
    BY <1>2, <2>1, TellingGrows DEF Conns
  <2>4. toClient' \in {toClient \o y.conn.out, toClient}
    BY DEF FlushOutgoingBytes
  <2>5. toClient \o y.conn.out \in Seq(Telling(Unseen(z)))
    BY <2>2, <2>3, ListsJoined
  <2> QED
    BY <2>2, <2>4, <2>5
<1> HIDE DEF z
<1>8. z \in Later(Session)
  BY <1>5, LaterLater
<1> QED
  BY <1>6, <1>7, <1>8 DEF Moved

\* A whole answer is written.
LEMMA ResponseSent ==
    ASSUME NEW U, NEW c \in Conns(U), NEW s \in Streams, NEW hasTrailers \in BOOLEAN
    PROVE  SendResponse(c, s, hasTrailers) \in Still(c, U)
<1> DEFINE n == responseSize[s]
           isAll == n = 0 /\ ~hasTrailers
           head == SendResponseHeaders(c, s, isAll, n)
           isEnd == ~hasTrailers
           body == IF n = 0 THEN head ELSE SendResponseData(head, s, n, isEnd)
<1>1. n \in Int /\ isAll \in BOOLEAN /\ isEnd \in BOOLEAN
  BY ServerAssumption
<1>2. SendResponse(c, s, hasTrailers) = IF hasTrailers THEN SendResponseTrailers(body, s) ELSE body
  BY DEF SendResponse
<1> HIDE DEF n, isAll, isEnd
<1>3. head \in Still(c, U)
  BY <1>1, HeadSent
<1> HIDE DEF head
<1>4. SendResponseData(head, s, n, isEnd) \in Still(c, U)
  <2>1. head \in Conns(U)
    BY <1>3 DEF Still
  <2> QED
    BY <1>1, <1>3, <2>1, BodySent, StillAfter
<1>5. body \in Still(c, U) /\ body \in Conns(U)
  BY <1>3, <1>4 DEF Still
<1> HIDE DEF body
<1> QED
  BY <1>2, <1>5, TrailersSent, StillAfter

\* A session later than this one that has a record of the request.
Serving(s) == {x \in Later(Session) : x.task[s].phase # "none"}

\* A request's record changes.
LEMMA RecordMoves ==
    ASSUME NEW s \in Streams, NEW x \in Serving(s), NEW t \in Records, t.phase # "none"
    PROVE  /\ [x EXCEPT !.task[s] = t] \in Serving(s)
           /\ [x EXCEPT !.task[s] = t].conn = x.conn
           /\ [x EXCEPT !.task[s] = t].task = [x.task EXCEPT ![s] = t]
<1> DEFINE y == [x EXCEPT !.task[s] = t]
<1>1. x \in Valid /\ x \in Later(Session) /\ x.task[s].phase # "none"
  BY DEF Serving, Later
<1>2. x \in Sessions(Unseen(x)) /\ x.task \in [Streams -> Records]
  BY <1>1, ValidIs
<1>3. y.conn = x.conn /\ y.task = [x.task EXCEPT ![s] = t] /\ y.task[s] = t
  BY <1>2 DEF Sessions
<1>4. y \in Settled(x, Unseen(x))
  BY <1>1, <1>2, RecordSettles
<1> HIDE DEF y
<1>5. y \in Later(Session)
  BY <1>1, <1>4, SettledIsLater, LaterLater
<1>6. y \in Serving(s) /\ y.conn = x.conn /\ y.task = [x.task EXCEPT ![s] = t]
  BY <1>3, <1>5 DEF Serving
<1> QED
  BY <1>6 DEF y

\* The connection changes and nobody is told anything.
LEMMA ConnMoves ==
    ASSUME NEW s \in Streams, NEW x \in Serving(s), NEW d \in Still(x.conn, Unseen(x))
    PROVE  /\ [x EXCEPT !.conn = d] \in Serving(s)
           /\ [x EXCEPT !.conn = d].conn = d /\ [x EXCEPT !.conn = d].task = x.task
<1> DEFINE y == [x EXCEPT !.conn = d]
<1>1. x \in Valid /\ x \in Later(Session) /\ x.task[s].phase # "none"
  BY DEF Serving, Later
<1>2. x \in Sessions(Unseen(x))
  BY <1>1, ValidIs
<1>3. y.conn = d /\ y.task = x.task
  BY <1>2 DEF Sessions
<1>4. y \in Settled(x, Unseen(x))
  BY <1>2, ConnSettles
<1> HIDE DEF y
<1>5. y \in Later(Session)
  BY <1>1, <1>4, SettledIsLater, LaterLater
<1>6. y \in Serving(s) /\ y.conn = d /\ y.task = x.task
  BY <1>1, <1>3, <1>5 DEF Serving
<1> QED
  BY <1>6 DEF y

\* What such a session is.
LEMMA ServingIs ==
    ASSUME NEW s \in Streams, NEW x \in Serving(s)
    PROVE  /\ x \in Later(Session) /\ x \in Valid /\ x \in Sessions(Unseen(x))
           /\ x.conn \in Conns(Unseen(x)) /\ x.task \in [Streams -> Records]
           /\ x.task[s] \in Records /\ x.task[s].phase # "none"
BY ValidIs DEF Serving, Later

\* A body discarded under a handler.
LEMMA DiscardMoves ==
    ASSUME NEW s \in Streams, NEW x \in Serving(s)
    PROVE  DiscardBufferedBody(x, s) \in Serving(s)
<1> DEFINE y == DiscardBufferedBody(x, s)
<1>1. y \in Settled(x, Unseen(x))
  BY ServingIs, BodyDiscarded
<1> HIDE DEF y
<1>2. y \in Later(Session)
  BY <1>1, ServingIs, SettledIsLater, LaterLater
<1>3. y.task[s].phase # "none"
  <2>1. Begun(y.task) = Begun(x.task) /\ s \in Begun(x.task)
    BY <1>1, ServingIs DEF Settled, Begun
  <2> QED
    BY <2>1 DEF Begun
<1>4. y \in Serving(s)
  BY <1>2, <1>3 DEF Serving
<1> QED
  BY <1>4 DEF y

\* The handler reads no more.
LEMMA BodyFinished ==
    ASSUME NEW s \in Streams, NEW x \in Serving(s)
    PROVE  FinishStreamingRequestBody(x, s) \in Serving(s)
<1> DEFINE y == DiscardBufferedBody(x, s)
           d == AbortStream(y.conn, s, "NO_ERROR")
<1>1. y \in Serving(s)
  BY DiscardMoves
<1>2. FinishStreamingRequestBody(x, s) \in {y, [y EXCEPT !.conn = d]}
  BY DEF FinishStreamingRequestBody
<1> HIDE DEF y
<1>3. "NO_ERROR" \in Codes \ {"REFUSED_STREAM"}
  BY DEF Codes
<1>4. d \in Still(y.conn, Unseen(y))
  BY <1>1, <1>3, ServingIs, Aborted
<1> HIDE DEF d
<1> QED
  BY <1>1, <1>2, <1>4, ConnMoves

\* The record of a request in its last write.
LEMMA FlushingRecord ==
    ASSUME NEW t \in Records, NEW outcome \in Outcomes
    PROVE  /\ [t EXCEPT !.phase = "flushing", !.outcome = outcome] \in Records
           /\ [t EXCEPT !.phase = "flushing", !.outcome = outcome].phase = "flushing"
<1>1. "flushing" \in Phases \ {"none"}
  BY DEF Phases
<1>2. [t EXCEPT !.phase = "flushing", !.outcome = outcome] \in Records
  BY <1>1, RecordFields, Zenon
<1>3. [t EXCEPT !.phase = "flushing", !.outcome = outcome].phase = "flushing"
  BY DEF Records
<1> QED
  BY <1>2, <1>3

\* The outcome is recorded and the rest written.
LEMMA Concluded ==
    ASSUME Truthful, NEW s \in Streams, NEW x \in Serving(s), NEW outcome \in Outcomes,
           Conclude(x, s, outcome)
    PROVE  Moved
<1> DEFINE t == [x.task[s] EXCEPT !.phase = "flushing", !.outcome = outcome]
           y == [x EXCEPT !.task[s] = t]
<1>1. t \in Records /\ t.phase = "flushing"
  BY ServingIs, FlushingRecord
<1>2. FlushOutgoingBytes(x.conn) /\ task' = [x.task EXCEPT ![s] = t]
  BY DEF Conclude
<1> HIDE DEF t
<1>3. y \in Serving(s) /\ y.conn = x.conn /\ y.task = [x.task EXCEPT ![s] = t]
  BY <1>1, RecordMoves
<1> HIDE DEF y
<1>4. y \in Later(Session) /\ FlushOutgoingBytes(y.conn) /\ task' = y.task
  BY <1>2, <1>3, ServingIs
<1> QED
  BY <1>4, Written

\* The same after an answer, with the GOAWAY of the last request a connection serves.
LEMMA ServedConcluded ==
    ASSUME Truthful, NEW s \in Streams, NEW x \in Serving(s), ConcludeServed(x, s)
    PROVE  Moved
<1> DEFINE y == IF s \in Streaming THEN FinishStreamingRequestBody(x, s) ELSE x
           t == [y.task[s] EXCEPT !.phase = "flushing", !.outcome = "served"]
           z == [y EXCEPT !.task[s] = t]
           w == [z EXCEPT !.conn = SendGoAway(z.conn)]
<1>1. y \in Serving(s)
  BY BodyFinished
<1>2. /\ task' = [y.task EXCEPT ![s] = t]
      /\ FlushOutgoingBytes(y.conn) \/ FlushOutgoingBytes(SendGoAway(y.conn))
  BY DEF ConcludeServed
<1> HIDE DEF y
<1>3. t \in Records /\ t.phase = "flushing"
  <2>1. "served" \in Outcomes
    BY DEF Outcomes
  <2> QED
    BY <1>1, <2>1, ServingIs, FlushingRecord
<1> HIDE DEF t
<1>4. z \in Serving(s) /\ z.conn = y.conn /\ z.task = [y.task EXCEPT ![s] = t]
  BY <1>1, <1>3, RecordMoves
<1> HIDE DEF z
<1>5. z \in Later(Session) /\ z \in Valid
  BY <1>4, ServingIs
<1>6. w \in Later(z) /\ w.conn = SendGoAway(z.conn) /\ w.task = z.task
  <2>1. SendGoAway(z.conn) \in After(z.conn, Begun(z.task))
    BY <1>5, ValidIs, SayingGoAway
  <2> QED
    BY <1>5, <2>1, ValidIs, ConnIsLater DEF Sessions
<1> HIDE DEF w
<1>7. w \in Later(Session)
  BY <1>5, <1>6, LaterLater
<1> QED
  BY <1>2, <1>4, <1>5, <1>6, <1>7, Written

\* A handler suspends, having written nothing, or what the connection has to write.
LEMMA PhaseChanges ==
    ASSUME Truthful, NEW s \in Streams, NEW x \in Serving(s), NEW p \in Phases \ {"none"},
           task' = [x.task EXCEPT ![s].phase = p],
           FlushOutgoingBytes(x.conn) \/ (conn' = x.conn /\ toClient' = toClient)
    PROVE  Moved
<1> DEFINE t == [x.task[s] EXCEPT !.phase = p]
           y == [x EXCEPT !.task[s] = t]
<1>1. t \in Records /\ t.phase # "none"
  <2> DEFINE r == x.task[s]
  <2>1. r \in Records
    BY ServingIs
  <2> HIDE DEF r
  <2>2. [r EXCEPT !.phase = p] \in Records /\ [r EXCEPT !.phase = p].phase = p
    BY <2>1 DEF Records
  <2> QED
    BY <2>2 DEF r
<1>2. task' = [x.task EXCEPT ![s] = t]
  OBVIOUS
<1> HIDE DEF t
<1>3. y \in Serving(s) /\ y.conn = x.conn /\ y.task = [x.task EXCEPT ![s] = t]
  BY <1>1, RecordMoves
<1> HIDE DEF y
<1>4. y \in Later(Session) /\ task' = y.task
  BY <1>2, <1>3, ServingIs
<1> QED
  BY <1>3, <1>4, Written, Unwritten

\* The outcome of a request without an answer.
LEMMA OutcomeOfNobody ==
    ASSUME NEW c
    PROVE  NotServed(c) \in Outcomes
BY DEF NotServed, Outcomes

\* The handler has returned.
LEMMA Answered ==
    ASSUME Truthful, NEW s \in Streams, NEW x \in Serving(s), Answer(x, s)
    PROVE  Moved
<1> DEFINE d == SendResponseHeaders(x.conn, s, FALSE, Undeclared)
           hasTrailers == s \in Trailered /\ ~x.task[s].tooLarge
           e == SendResponse(x.conn, s, hasTrailers)
           y == [x EXCEPT !.conn = d]
           z == [x EXCEPT !.conn = e]
<1>1. \/ Conclude(x, s, NotServed(x.conn))
      \/ FlushOutgoingBytes(d) /\ task' = [x.task EXCEPT ![s].phase = "answering"]
      \/ ConcludeServed(z, s)
  BY DEF Answer
<1>2. d \in Still(x.conn, Unseen(x))
  <2>1. FALSE \in BOOLEAN /\ Undeclared \in Int
    BY DEF Undeclared
  <2> QED
    BY <2>1, ServingIs, HeadSent, Zenon
<1>3. e \in Still(x.conn, Unseen(x))
  <2>1. hasTrailers \in BOOLEAN
    OBVIOUS
  <2> HIDE DEF hasTrailers
  <2> QED
    BY <2>1, ServingIs, ResponseSent
<1> HIDE DEF d, e
<1>4. z \in Serving(s)
  BY <1>3, ConnMoves
<1>5. y \in Serving(s) /\ y.conn = d /\ y.task = x.task
  BY <1>2, ConnMoves
<1> HIDE DEF y, z
<1>6. CASE Conclude(x, s, NotServed(x.conn))
  BY <1>6, OutcomeOfNobody, Concluded
<1>7. CASE FlushOutgoingBytes(d) /\ task' = [x.task EXCEPT ![s].phase = "answering"]
  <2>1. "answering" \in Phases \ {"none"}
    BY DEF Phases
  <2> QED
    BY <1>5, <1>7, <2>1, PhaseChanges
<1>8. CASE ConcludeServed(z, s)
  BY <1>4, <1>8, ServedConcluded
<1> QED
  BY <1>1, <1>6, <1>7, <1>8

\* A body over the limit is answered.
LEMMA Rejected ==
    ASSUME Truthful, NEW s \in Streams, NEW x \in Serving(s), RejectRequest(x, s)
    PROVE  Moved
<1> DEFINE d == SendResponse(x.conn, s, FALSE)
           e == AbortStream(d, s, "NO_ERROR")
           y == [x EXCEPT !.conn = e]
<1>1. Conclude(x, s, NotServed(x.conn)) \/ Conclude(y, s, "rejected")
  BY DEF RejectRequest
<1>2. d \in Still(x.conn, Unseen(x))
  <2>1. FALSE \in BOOLEAN
    OBVIOUS
  <2> QED
    BY <2>1, ServingIs, ResponseSent, Zenon
<1> HIDE DEF d
<1>3. e \in Still(d, Unseen(x))
  <2>1. "NO_ERROR" \in Codes \ {"REFUSED_STREAM"} /\ d \in Conns(Unseen(x))
    BY <1>2 DEF Codes, Still
  <2> QED
    BY <2>1, Aborted
<1> HIDE DEF e
<1>4. e \in Still(x.conn, Unseen(x))
  BY <1>2, <1>3, ServingIs, StillAfter
<1>5. y \in Serving(s)
  BY <1>4, ConnMoves
<1> HIDE DEF y
<1>6. "rejected" \in Outcomes
  BY DEF Outcomes
<1> QED
  BY <1>1, <1>5, <1>6, OutcomeOfNobody, Concluded

\* A handler that runs has a record, and may be noted as called.
LEMMA HandlerHasRecord ==
    ASSUME Truthful, NEW s \in Streams, NEW phases, "none" \notin phases, MayRun(s, phases)
    PROVE  /\ Session \in Serving(s) /\ Handled(Session, s) \in Serving(s)
           /\ Session.conn = conn /\ Session.task = task
<1>1. task[s].phase # "none"
  BY DEF MayRun
<1>2. Session \in Serving(s) /\ Session.conn = conn /\ Session.task = task
  BY <1>1, Begins DEF Serving, Truthful
<1> DEFINE t == [Session.task[s] EXCEPT !.handled = TRUE]
<1>3. t \in Records /\ t.phase # "none"
  <2> DEFINE r == Session.task[s]
  <2>1. r \in Records /\ r.phase # "none"
    BY <1>2, ServingIs
  <2> HIDE DEF r
  <2>2. [r EXCEPT !.handled = TRUE] \in Records /\ [r EXCEPT !.handled = TRUE].phase = r.phase
    BY <2>1 DEF Records
  <2> QED
    BY <2>1, <2>2 DEF r
<1>4. Handled(Session, s) = [Session EXCEPT !.task[s] = t]
  BY DEF Handled
<1> HIDE DEF t
<1> QED
  BY <1>2, <1>3, <1>4, RecordMoves

\* The handlers' steps.
LEMMA HandlerRunsMoves ==
    ASSUME Truthful, NEW s \in Streams, HandlerRuns(s)
    PROVE  Moved
<1> DEFINE x == Handled(Session, s)
           phases == {"woken", "busy"}
<1>1. Session \in Serving(s) /\ x \in Serving(s)
  BY HandlerHasRecord DEF HandlerRuns
<1>2. \/ RejectRequest(Session, s)
      \/ task' = [x.task EXCEPT ![s].phase = "busy"] /\ conn' = conn /\ toClient' = toClient
      \/ Answer(x, s)
  BY DEF HandlerRuns, Session
<1>3. x.conn = conn
  BY HandlerHasRecord DEF Handled, Session
<1> HIDE DEF x
<1>4. "busy" \in Phases \ {"none"}
  BY DEF Phases
<1> QED
  BY <1>1, <1>2, <1>3, <1>4, Rejected, PhaseChanges, Answered

LEMMA HandlerReadsMoves ==
    ASSUME Truthful, NEW s \in Streams, HandlerReads(s)
    PROVE  Moved
<1> DEFINE x == Handled(Session, s)
           y == IF task[s].held THEN DiscardBufferedBody(x, s) ELSE x
           t == y.task[s]
           taken == [t EXCEPT !.handed = @ + t.buffered, !.held = TRUE]
           shown == [y EXCEPT !.task[s] = taken]
           z == IF t.buffered > 0 THEN DiscardBufferedBody(shown, s) ELSE y
<1>1. x \in Serving(s)
  BY HandlerHasRecord DEF HandlerReads
<1>2. \/ Answer(y, s)
      \/ conn' = shown.conn /\ task' = [shown.task EXCEPT ![s].phase = "busy"] /\ toClient' = toClient
      \/ Answer(z, s)
      \/ conn' = z.conn /\ task' = [z.task EXCEPT ![s].phase = "waiting"] /\ toClient' = toClient
  BY DEF HandlerReads, Session
<1> HIDE DEF x
<1>3. y \in Serving(s)
  BY <1>1, DiscardMoves
<1> HIDE DEF y
<1>4. taken \in Records /\ taken.phase # "none"
  <2>1. t \in Records /\ t.phase # "none"
    BY <1>3, ServingIs
  <2> HIDE DEF t
  <2>2. t.handed + t.buffered \in Int
    BY <2>1 DEF Records
  <2> QED
    BY <2>1, <2>2, RecordFields DEF Records
<1> HIDE DEF taken
<1>5. shown \in Serving(s)
  BY <1>3, <1>4, RecordMoves
<1> HIDE DEF shown
<1>6. z \in Serving(s)
  BY <1>3, <1>5, DiscardMoves
<1> HIDE DEF z
<1>7. {"busy", "waiting"} \subseteq Phases \ {"none"}
  BY DEF Phases
<1> QED
  BY <1>2, <1>3, <1>5, <1>6, <1>7, PhaseChanges, Answered

LEMMA HandlerAnswersEarlyMoves ==
    ASSUME Truthful, NEW s \in Streams, HandlerAnswersEarly(s)
    PROVE  Moved
<1>1. Handled(Session, s) \in Serving(s)
  BY HandlerHasRecord DEF HandlerAnswersEarly
<1>2. Answer(Handled(Session, s), s)
  BY DEF HandlerAnswersEarly, Session
<1> QED
  BY <1>1, <1>2, Answered

LEMMA HandlerWritesMoves ==
    ASSUME Truthful, NEW s \in Streams, HandlerWrites(s)
    PROVE  Moved
<1> DEFINE trailers == SendResponseTrailers(conn, s)
           last == SendResponseData(conn, s, 0, TRUE)
           segment == SendResponseData(conn, s, 1, FALSE)
           count == task[s].segments + 1
<1>1. Session \in Serving(s) /\ Session.conn = conn /\ Session.task = task
  BY HandlerHasRecord DEF HandlerWrites
<1>2. \/ Conclude(Session, s, "unusable")
      \/ FlushOutgoingBytes(segment) /\ task' = [task EXCEPT ![s].segments = count]
      \/ Conclude(Session, s, NotServed(conn))
      \/ /\ FlushOutgoingBytes(trailers) \/ FlushOutgoingBytes(last)
         /\ task' = [task EXCEPT ![s].phase = "ending"]
  BY DEF HandlerWrites, Session
<1>3. conn \in Conns(Unseen(Session)) /\ task[s] \in Records /\ task[s].phase # "none"
  BY <1>1, ServingIs
<1>4. {trailers, last, segment} \subseteq Still(conn, Unseen(Session))
  <2>1. 0 \in Int /\ 1 \in Int /\ TRUE \in BOOLEAN /\ FALSE \in BOOLEAN
    OBVIOUS
  <2>2. last \in Still(conn, Unseen(Session)) /\ segment \in Still(conn, Unseen(Session))
    BY <1>3, <2>1, BodySent, Zenon
  <2>3. trailers \in Still(conn, Unseen(Session))
    BY <1>3, TrailersSent
  <2> QED
    BY <2>2, <2>3
<1> HIDE DEF trailers, last, segment
<1>5. \A d \in {trailers, last, segment} :
         /\ [Session EXCEPT !.conn = d] \in Serving(s)
         /\ [Session EXCEPT !.conn = d].conn = d /\ [Session EXCEPT !.conn = d].task = task
  BY <1>1, <1>4, ConnMoves
<1>6. CASE Conclude(Session, s, "unusable") \/ Conclude(Session, s, NotServed(conn))
  <2>1. "unusable" \in Outcomes
    BY DEF Outcomes
  <2> QED
    BY <1>1, <1>6, <2>1, OutcomeOfNobody, Concluded
<1>7. CASE FlushOutgoingBytes(segment) /\ task' = [task EXCEPT ![s].segments = count]
  <2> DEFINE y == [Session EXCEPT !.conn = segment]
             t == [task[s] EXCEPT !.segments = count]
             z == [y EXCEPT !.task[s] = t]
  <2>1. y \in Serving(s) /\ y.conn = segment /\ y.task = task
    BY <1>5
  <2> HIDE DEF y
  <2>2. t \in Records /\ t.phase # "none"
    <3>1. count \in Int
      BY <1>3 DEF Records
    <3> HIDE DEF count
    <3> QED
      BY <1>3, <3>1, RecordFields DEF Records
  <2>3. task' = [task EXCEPT ![s] = t]
    BY <1>7
  <2> HIDE DEF t
  <2>4. z \in Serving(s) /\ z.conn = segment /\ z.task = [task EXCEPT ![s] = t]
    BY <2>1, <2>2, RecordMoves
  <2> HIDE DEF z
  <2> QED
    BY <1>7, <2>3, <2>4, ServingIs, Written
<1>8. CASE /\ FlushOutgoingBytes(trailers) \/ FlushOutgoingBytes(last)
           /\ task' = [task EXCEPT ![s].phase = "ending"]
  <2>1. "ending" \in Phases \ {"none"}
    BY DEF Phases
  <2>2. PICK d \in {trailers, last} : FlushOutgoingBytes(d)
    BY <1>8
  <2> DEFINE y == [Session EXCEPT !.conn = d]
  <2>3. y \in Serving(s) /\ y.conn = d /\ y.task = task
    BY <1>5
  <2> HIDE DEF y
  <2> QED
    BY <1>8, <2>1, <2>2, <2>3, PhaseChanges
<1> QED
  BY <1>2, <1>6, <1>7, <1>8

LEMMA HandlerEndsAnswerMoves ==
    ASSUME Truthful, NEW s \in Streams, HandlerEndsAnswer(s)
    PROVE  Moved
<1>1. Session \in Serving(s)
  BY HandlerHasRecord DEF HandlerEndsAnswer
<1>2. Conclude(Session, s, "unusable") \/ ConcludeServed(Session, s)
  BY DEF HandlerEndsAnswer, Session
<1>3. "unusable" \in Outcomes
  BY DEF Outcomes
<1> QED
  BY <1>1, <1>2, <1>3, Concluded, ServedConcluded

LEMMA HandlerFinishesMoves ==
    ASSUME Truthful, NEW s \in Streams, HandlerFinishes(s)
    PROVE  Moved
<1>1. Session \in Serving(s) /\ Session.conn = conn /\ Session.task = task
  BY HandlerHasRecord DEF HandlerFinishes
<1>2. conn' = conn /\ toClient' = toClient /\ task' = [task EXCEPT ![s].phase = "finished"]
  BY DEF HandlerFinishes, wireVars
<1>3. "finished" \in Phases \ {"none"}
  BY DEF Phases
<1> QED
  BY <1>1, <1>2, <1>3, PhaseChanges

(***************************************************************************)
(* The main loop.                                                          *)
(***************************************************************************)

\* From the bytes fed to the handlers woken.
LEMMA Absorbed ==
    ASSUME Truthful, NEW x \in Later(Session), x.task = task, Absorb(x.conn), toClient' = toClient
    PROVE  Moved
<1> DEFINE v == AbsorbPendingRequests(x)
           w == AbsorbReceivedData(v)
           noted == NoteCancelledStreams(w)
           y == IF x.conn.state = "Failed" THEN DrainInFlightServes(w)
                ELSE StartReadyRequestTasks(noted)
<1>1. x \in Valid /\ x = [conn |-> x.conn, task |-> task]
  BY PairIs DEF Later, Valid
<1>2. conn' = y.conn /\ task' = y.task
  BY <1>1 DEF Absorb
<1>3. v \in Later(x)
  BY <1>1, RequestsAbsorbed
<1> HIDE DEF v
<1>4. w \in Later(v)
  BY <1>3, ValidIs, DataAbsorbed, SettledIsLater DEF Later
<1> HIDE DEF w
<1>5. w \in Valid /\ w \in Sessions(Unseen(w))
  BY <1>4, ValidIs DEF Later
<1>6. noted \in Settled(w, Unseen(w)) /\ DrainInFlightServes(w) \in Settled(w, Unseen(w))
  BY <1>5, StreamsCancelled
<1> HIDE DEF noted
<1>7. StartReadyRequestTasks(noted) \in Settled(w, Unseen(w))
  BY <1>5, <1>6, TasksStarted, SettledThen DEF Settled
<1>8. y \in Later(w)
  BY <1>5, <1>6, <1>7, SettledIsLater
<1> HIDE DEF y
<1>9. y \in Later(Session)
  BY <1>3, <1>4, <1>8, LaterLater
<1> QED
  BY <1>2, <1>9, Unwritten

\* Bytes are read and fed.
LEMMA ServerReceivesMoves ==
    ASSUME Truthful, toServer \in Seq(Frames), ServerReceives
    PROVE  Moved /\ toServer' \in Seq(Frames)
<1>1. PICK k \in 1 .. Len(toServer) : ReceiveSome(k)
  BY DEF ServerReceives
<1> DEFINE frames == SubSeq(toServer, 1, k)
           fed == FeedBytes(conn, frames)
           x == [Session EXCEPT !.conn = fed]
<1>2. frames \in Seq(Frames)
  OBVIOUS
<1>3. toServer' \in Seq(Frames)
  <2>1. SubSeq(toServer, k + 1, Len(toServer)) \in Seq(Frames)
    OBVIOUS
  <2> QED
    BY <1>1, <2>1 DEF ReceiveSome
<1>4. \/ Absorb(fed) /\ toClient' = toClient
      \/ FlushOutgoingBytes(fed) /\ task' = task
  BY <1>1 DEF ReceiveSome
<1> HIDE DEF frames
<1>5. fed \in After(conn, Begun(task))
  BY <1>2, ValidIs, Begins, FramesFed DEF Truthful
<1> HIDE DEF fed
<1>6. x \in Later(Session) /\ x.conn = fed /\ x.task = task
  BY <1>5, Begins, ConnIsLater DEF Truthful, Session
<1> HIDE DEF x
<1> QED
  BY <1>3, <1>4, <1>6, Absorbed, Written

\* The main loop is left: nobody waits for a body any more.
LEMMA LoopLeft ==
    ASSUME Session \in Valid, LeaveLoop
    PROVE  \E x \in Later(Session) : x.conn = conn /\ x.task = task'
<1> DEFINE x == DrainInFlightServes(Session)
<1>1. x \in Later(Session)
  BY ValidIs, StreamsCancelled, SettledIsLater
<1>2. x.conn = conn /\ x.task = task'
  BY DEF LeaveLoop, DrainInFlightServes, Session
<1> QED
  BY <1>1, <1>2

\* The write that followed them returns.
LEMMA ServerAbsorbsMoves ==
    ASSUME Truthful, ServerAbsorbs
    PROVE  Moved
<1>1. toClient' = toClient
  BY DEF ServerAbsorbs, wireVars
<1>2. CASE unusable
  <2>1. PICK x \in Later(Session) : x.conn = conn /\ x.task = task'
    BY <1>2, LoopLeft DEF ServerAbsorbs, Truthful
  <2> QED
    BY <1>1, <1>2, <2>1, Unwritten DEF ServerAbsorbs
<1>3. CASE ~unusable
  BY <1>1, <1>3, Begins, Absorbed DEF ServerAbsorbs, Truthful
<1> QED
  BY <1>2, <1>3

\* Nothing more can be read.
LEMMA ServerReadsEndMoves ==
    ASSUME Truthful, ServerReadsEnd
    PROVE  Moved
<1>1. toClient' = toClient /\ conn' = conn
  BY DEF ServerReadsEnd, wireVars
<1>2. PICK x \in Later(Session) : x.conn = conn /\ x.task = task'
  BY LoopLeft DEF ServerReadsEnd, Truthful
<1> QED
  BY <1>1, <1>2, Unwritten

\* The end of a round.
LEMMA ServerEndsRoundMoves ==
    ASSUME Truthful, ServerEndsRound
    PROVE  Moved
<1> DEFINE x == RetireFinishedRequestTasks(Session)
           drained == DrainInFlightServes(x)
<1>1. FlushOutgoingBytes(x.conn) /\ task' \in {drained.task, x.task}
  BY DEF ServerEndsRound, Session
<1>2. x \in Settled(Session, Unseen(Session))
  BY ValidIs, TasksRetired DEF Truthful
<1> HIDE DEF x
<1>3. x \in Later(Session)
  BY <1>2, SettledIsLater DEF Truthful
<1>4. x \in Valid
  BY <1>3 DEF Later
<1>5. drained \in Later(x)
  BY <1>4, ValidIs, StreamsCancelled, SettledIsLater
<1>6. drained.conn = x.conn
  BY <1>4 DEF DrainInFlightServes, Valid, Sessions
<1> HIDE DEF drained
<1> QED
  BY <1>1, <1>3, <1>5, <1>6, LaterLater, Written

\* The server is asked to stop.
LEMMA GracefulShutdownMoves ==
    ASSUME Truthful, GracefulShutdown
    PROVE  Moved
<1>1. PICK x \in Later(Session) : x.conn = conn /\ x.task = task'
  BY LoopLeft DEF GracefulShutdown, Truthful
<1>2. x \in Valid
  BY DEF Later
<1> DEFINE d == SendGoAway(x.conn)
           y == [x EXCEPT !.conn = d]
<1>3. d \in After(x.conn, Begun(x.task))
  BY <1>2, ValidIs, SayingGoAway
<1>4. FlushOutgoingBytes(d)
  BY <1>1 DEF GracefulShutdown
<1> HIDE DEF d
<1>5. y \in Later(x) /\ y.conn = d /\ y.task = x.task
  BY <1>2, <1>3, ConnIsLater DEF Valid, Sessions
<1> HIDE DEF y
<1>6. y \in Later(Session)
  BY <1>1, <1>5, LaterLater
<1> QED
  BY <1>1, <1>4, <1>5, <1>6, Written

\* Every step of the server keeps what it has told the client true.
LEMMA ServerMoves ==
    ASSUME Truthful, toServer \in Seq(Frames), Server
    PROVE  Moved /\ toServer' \in Seq(Frames)
<1>1. CASE ServerReceives
  BY <1>1, ServerReceivesMoves
<1>2. CASE ServerAbsorbs
  BY <1>2, ServerAbsorbsMoves DEF ServerAbsorbs, wireVars
<1>3. CASE ServerReadsEnd
  BY <1>3, ServerReadsEndMoves DEF ServerReadsEnd, wireVars
<1>4. CASE ServerEndsRound
  BY <1>4, ServerEndsRoundMoves DEF ServerEndsRound
<1>5. CASE ServerCloses
  <2>1. conn' = conn /\ task' = task /\ toClient' = toClient /\ toServer' = toServer
    BY <1>5 DEF ServerCloses
  <2> QED
    BY <2>1, Begins, Unwritten DEF Truthful
<1>6. CASE GracefulShutdown
  BY <1>6, GracefulShutdownMoves DEF GracefulShutdown
<1>7. ASSUME NEW s \in Streams, HandlerStep(s) PROVE Moved /\ toServer' \in Seq(Frames)
  <2>1. CASE HandlerRuns(s)
    BY <2>1, HandlerRunsMoves DEF HandlerRuns
  <2>2. CASE HandlerReads(s)
    BY <2>2, HandlerReadsMoves DEF HandlerReads
  <2>3. CASE HandlerAnswersEarly(s)
    BY <2>3, HandlerAnswersEarlyMoves DEF HandlerAnswersEarly
  <2>4. CASE HandlerWrites(s)
    BY <2>4, HandlerWritesMoves DEF HandlerWrites
  <2>5. CASE HandlerEndsAnswer(s)
    BY <2>5, HandlerEndsAnswerMoves DEF HandlerEndsAnswer
  <2>6. CASE HandlerFinishes(s)
    BY <2>6, HandlerFinishesMoves DEF HandlerFinishes, wireVars
  <2> QED
    BY <1>7, <2>1, <2>2, <2>3, <2>4, <2>5, <2>6 DEF HandlerStep
<1> QED
  BY <1>1, <1>2, <1>3, <1>4, <1>5, <1>6, <1>7 DEF Server, ServerStep

(***************************************************************************)
(* The client: it reports nobody unprocessed but who is in U, where the    *)
(* server has told so.                                                     *)
(***************************************************************************)

\* Where a request may be suspended.
Pcs == {"idle", "flushHead", "flushBody", "flushEnd", "flushCredit", "flushRefusal", "pumpedSend",
        "pumpedLoop", "readSend", "readLoop", "waitSend", "waitLoop", "wokenSend", "wokenLoop",
        "delivering", "done"}

\* A request.
Requests == [pc : Pcs, sent : Int, booked : BOOLEAN, isReset : BOOLEAN, complete : BOOLEAN,
             final : BOOLEAN, any : BOOLEAN, unprocessed : BOOLEAN, error : BOOLEAN, length : Int,
             received : Int, undelivered : Int, batch : Int, lastGiven : BOOLEAN,
             sendWindow : Int, cancelled : BOOLEAN, unsent : BOOLEAN, ok : BOOLEAN]

\* A request of stream s that is not reported unprocessed unless s is in U.
Fair(s, U) == {r \in Requests : r.unprocessed => s \in U}

\* The clients that report nobody unprocessed outside U.
Clients(U) == {c \in [healthy : BOOLEAN, goAway : BOOLEAN, accused : BOOLEAN, hung : BOOLEAN,
                      lease : BOOLEAN, opened : Int, sendWindow : Int,
                      request : [Streams -> Requests], out : Seq(Frames)] :
                 \A s \in Streams : c.request[s].unprocessed => s \in U}

\* Clients, their requests, and changes of a request.
LEMMA ClientsGrow ==
    ASSUME NEW U, NEW V, U \subseteq V, NEW c \in Clients(U)
    PROVE  c \in Clients(V)
BY DEF Clients

LEMMA RequestOf ==
    ASSUME NEW U, NEW c \in Clients(U), NEW s \in Streams
    PROVE  c.request[s] \in Fair(s, U)
BY DEF Clients, Fair

LEMMA RequestChanged ==
    ASSUME NEW U, NEW c \in Clients(U), NEW s \in Streams, NEW r \in Fair(s, U)
    PROVE  [c EXCEPT !.request[s] = r] \in Clients(U)
BY DEF Clients, Fair

LEMMA RequestsChanged ==
    ASSUME NEW U, NEW c \in Clients(U), NEW rows \in [Streams -> Requests],
           \A s \in Streams : rows[s] \in Fair(s, U)
    PROVE  [c EXCEPT !.request = rows] \in Clients(U)
BY DEF Clients, Fair

\* Fields of the client that say nothing of who was processed.
LEMMA ClientChanged ==
    ASSUME NEW U, NEW c \in Clients(U)
    PROVE  /\ \A b \in BOOLEAN : /\ [c EXCEPT !.healthy = b] \in Clients(U)
                                 /\ [c EXCEPT !.goAway = b] \in Clients(U)
                                 /\ [c EXCEPT !.hung = b] \in Clients(U)
                                 /\ [c EXCEPT !.lease = b] \in Clients(U)
                                 /\ [c EXCEPT !.accused = b] \in Clients(U)
           /\ \A n \in Int : /\ [c EXCEPT !.sendWindow = n] \in Clients(U)
                             /\ [c EXCEPT !.opened = n] \in Clients(U)
           /\ \A q \in Seq(Frames) : [c EXCEPT !.out = q] \in Clients(U)
<1>1. \A b \in BOOLEAN : /\ [c EXCEPT !.healthy = b] \in Clients(U)
                         /\ [c EXCEPT !.goAway = b] \in Clients(U)
                         /\ [c EXCEPT !.hung = b] \in Clients(U)
                         /\ [c EXCEPT !.lease = b] \in Clients(U)
                         /\ [c EXCEPT !.accused = b] \in Clients(U)
  BY DEF Clients
<1>2. \A n \in Int : /\ [c EXCEPT !.sendWindow = n] \in Clients(U)
                     /\ [c EXCEPT !.opened = n] \in Clients(U)
  BY DEF Clients
<1>3. \A q \in Seq(Frames) : [c EXCEPT !.out = q] \in Clients(U)
  BY DEF Clients
<1> QED
  BY <1>1, <1>2, <1>3

\* Frames are written.
LEMMA ClientEmits ==
    ASSUME NEW U, NEW c \in Clients(U), NEW frames \in Seq(Frames)
    PROVE  /\ Emit(c, frames) \in Clients(U)
           /\ Emit(c, frames).request = c.request
           /\ Emit(c, frames).sendWindow = c.sendWindow
           /\ Emit(c, frames).opened = c.opened
<1> DEFINE out == c.out \o frames
<1>1. out \in Seq(Frames)
  BY DEF Clients
<1>2. Emit(c, frames) = [c EXCEPT !.out = out]
  BY DEF Emit
<1> HIDE DEF out
<1>3. [c EXCEPT !.out = out] \in Clients(U)
  BY <1>1 DEF Clients
<1>4. /\ [c EXCEPT !.out = out].request = c.request
      /\ [c EXCEPT !.out = out].sendWindow = c.sendWindow
      /\ [c EXCEPT !.out = out].opened = c.opened
  BY DEF Clients
<1> QED
  BY <1>2, <1>3, <1>4

\* The five kinds are frames.
LEMMA FramesAre ==
    HeadersFrames \cup BodyFrames \cup ResetFrames \cup CreditFrames \cup GoAwayFrames \subseteq Frames
BY DEF Frames

\* The connection is given up.
LEMMA ConnectionFailed ==
    ASSUME NEW U, NEW c \in Clients(U), NEW code \in Codes
    PROVE  FailConnection(c, code) \in Clients(U)
<1> DEFINE f == GoAwayFrame(c.opened, code)
           accused == c.accused \/ code # "NO_ERROR"
           out == IF c.healthy THEN Append(c.out, f) ELSE c.out
<1>1. f \in Frames
  <2>1. c.opened \in Int
    BY DEF Clients
  <2>2. f \in GoAwayFrames
    BY <2>1 DEF GoAwayFrame, GoAwayFrames
  <2> QED
    BY <2>2, FramesAre
<1>2. FailConnection(c, code) = [c EXCEPT !.healthy = FALSE, !.accused = accused, !.out = out]
  BY DEF FailConnection
<1> HIDE DEF f
<1>3. out \in Seq(Frames)
  BY <1>1 DEF Clients
<1>4. accused \in BOOLEAN
  OBVIOUS
<1> HIDE DEF accused, out
<1> QED
  BY <1>2, <1>3, <1>4 DEF Clients

\* Windows are given back.
LEMMA ClientCredits ==
    ASSUME NEW U, NEW c \in Clients(U), NEW s \in Streams, NEW n \in Int
    PROVE  CreditConnectionWindow(c, n) \in Clients(U) /\ CreditWindow(c, s, n) \in Clients(U)
<1> DEFINE f == WindowUpdateFrame(0, n)
           g == WindowUpdateFrame(s, n)
<1>1. f \in Frames /\ g \in Frames
  <2>1. s \in 0 .. StreamCount /\ 0 \in 0 .. StreamCount
    BY StreamCountAssumption DEF Streams
  <2> QED
    BY <2>1, CreditFrameMade, FramesAre, Zenon
<1>2. /\ CreditConnectionWindow(c, n) \in {c, Emit(c, <<f>>)}
      /\ CreditWindow(c, s, n) \in {c, Emit(c, <<g, f>>)}
  BY DEF CreditConnectionWindow, CreditWindow
<1> HIDE DEF f, g
<1>3. <<f>> \in Seq(Frames) /\ <<g, f>> \in Seq(Frames)
  BY <1>1
<1> QED
  BY <1>2, <1>3, ClientEmits

\* A stream is given up.
LEMMA StreamRejected ==
    ASSUME NEW U, NEW c \in Clients(U), NEW s \in Streams, NEW code \in Codes
    PROVE  RejectStream(c, s, code) \in Clients(U)
<1> DEFINE f == RstStreamFrame(s, code)
           d == Emit(c, <<f>>)
           r == [d.request[s] EXCEPT !.isReset = TRUE, !.error = TRUE]
<1>1. RejectStream(c, s, code) = [d EXCEPT !.request[s] = r]
  BY DEF RejectStream
<1>2. f \in Frames
  BY ResetFrameMade, FramesAre
<1> HIDE DEF f
<1>3. d \in Clients(U)
  BY <1>2, OneEntry, ClientEmits
<1> HIDE DEF d
<1>4. r \in Fair(s, U)
  <2>1. \A t \in Fair(s, U) : [t EXCEPT !.isReset = TRUE, !.error = TRUE] \in Fair(s, U)
    BY DEF Fair, Requests
  <2> QED
    BY <1>3, <2>1, RequestOf
<1> HIDE DEF r
<1> QED
  BY <1>1, <1>3, <1>4, RequestChanged

\* END_STREAM.
LEMMA ResponseEnded ==
    ASSUME NEW U, NEW c \in Clients(U), NEW s \in Streams
    PROVE  EndResponse(c, s) \in Clients(U)
<1> DEFINE r == [c.request[s] EXCEPT !.complete = TRUE]
<1>1. r \in Fair(s, U)
  <2>1. \A t \in Fair(s, U) : [t EXCEPT !.complete = TRUE] \in Fair(s, U)
    BY DEF Fair, Requests
  <2> QED
    BY <2>1, RequestOf
<1>2. EndResponse(c, s) \in {[c EXCEPT !.request[s] = r], RejectStream(c, s, "PROTOCOL_ERROR")}
  BY DEF EndResponse
<1> HIDE DEF r
<1>3. "PROTOCOL_ERROR" \in Codes
  BY DEF Codes
<1> QED
  BY <1>1, <1>2, <1>3, RequestChanged, StreamRejected

\* Fields of a request that say nothing of whether it was processed.
LEMMA FairFields ==
    ASSUME NEW s, NEW U, NEW r \in Fair(s, U)
    PROVE  /\ \A n \in Int : [r EXCEPT !.any = TRUE, !.final = TRUE, !.length = n] \in Fair(s, U)
           /\ \A n \in Int : [r EXCEPT !.any = TRUE, !.received = n] \in Fair(s, U)
           /\ \A n \in Int : [r EXCEPT !.undelivered = n] \in Fair(s, U)
           /\ \A n \in Int : [r EXCEPT !.sendWindow = n] \in Fair(s, U)
           /\ \A n \in Int : [r EXCEPT !.batch = n] \in Fair(s, U)
           /\ \A p \in Pcs : [r EXCEPT !.pc = p] \in Fair(s, U)
           /\ \A p \in Pcs : [r EXCEPT !.isReset = TRUE, !.pc = p] \in Fair(s, U)
           /\ [r EXCEPT !.unsent = TRUE] \in Fair(s, U)
           /\ [r EXCEPT !.cancelled = TRUE] \in Fair(s, U)
<1>1. \A n \in Int : [r EXCEPT !.any = TRUE, !.final = TRUE, !.length = n] \in Fair(s, U)
  BY DEF Fair, Requests
<1>2. \A n \in Int : [r EXCEPT !.any = TRUE, !.received = n] \in Fair(s, U)
  BY DEF Fair, Requests
<1>3. \A n \in Int : [r EXCEPT !.undelivered = n] \in Fair(s, U)
  BY DEF Fair, Requests
<1>4. \A n \in Int : [r EXCEPT !.sendWindow = n] \in Fair(s, U)
  BY DEF Fair, Requests
<1>5. \A n \in Int : [r EXCEPT !.batch = n] \in Fair(s, U)
  BY DEF Fair, Requests
<1>6. \A p \in Pcs : [r EXCEPT !.pc = p] \in Fair(s, U)
  BY DEF Fair, Requests
<1>7. \A p \in Pcs : [r EXCEPT !.isReset = TRUE, !.pc = p] \in Fair(s, U)
  BY DEF Fair, Requests
<1>8. [r EXCEPT !.unsent = TRUE] \in Fair(s, U)
  BY DEF Fair, Requests
<1>9. [r EXCEPT !.cancelled = TRUE] \in Fair(s, U)
  BY DEF Fair, Requests
<1> QED
  BY <1>1, <1>2, <1>3, <1>4, <1>5, <1>6, <1>7, <1>8, <1>9

\* HEADERS.
LEMMA ClientHeaders ==
    ASSUME NEW U, NEW c \in Clients(U), NEW f \in HeadersFrames
    PROVE  ClientHandlesHeaders(c, f) \in Clients(U)
<1> DEFINE s == f.stream
           r == c.request[s]
           length == IF r.final THEN r.length ELSE f.length
           t == [r EXCEPT !.any = TRUE, !.final = TRUE, !.length = length]
           noted == [c EXCEPT !.request[s] = t]
<1>1. s \in Streams /\ f.length \in Int
  BY DEF HeadersFrames
<1>2. r \in Fair(s, U)
  BY <1>1, RequestOf
<1>3. ClientHandlesHeaders(c, f) \in
        {c, FailConnection(c, "STREAM_CLOSED"), RejectStream(noted, s, "PROTOCOL_ERROR"),
         EndResponse(noted, s), noted}
  BY DEF ClientHandlesHeaders
<1>4. length \in Int
  BY <1>1, <1>2 DEF Fair, Requests
<1> HIDE DEF length
<1>5. t \in Fair(s, U)
  <2> HIDE DEF r
  <2> QED
    BY <1>2, <1>4, FairFields
<1> HIDE DEF t
<1>6. noted \in Clients(U)
  BY <1>1, <1>5, RequestChanged
<1> HIDE DEF noted
<1>7. "STREAM_CLOSED" \in Codes /\ "PROTOCOL_ERROR" \in Codes
  BY DEF Codes
<1>8. /\ FailConnection(c, "STREAM_CLOSED") \in Clients(U)
      /\ RejectStream(noted, s, "PROTOCOL_ERROR") \in Clients(U)
      /\ EndResponse(noted, s) \in Clients(U)
  BY <1>1, <1>6, <1>7, ConnectionFailed, StreamRejected, ResponseEnded
<1> QED
  BY <1>3, <1>6, <1>8

\* DATA.
LEMMA ClientData ==
    ASSUME NEW U, NEW c \in Clients(U), NEW f \in BodyFrames
    PROVE  ClientHandlesData(c, f) \in Clients(U)
<1> DEFINE s == f.stream
           r == c.request[s]
           total == r.received + f.size
           t == [r EXCEPT !.any = TRUE, !.received = total]
           noted == [c EXCEPT !.request[s] = t]
           exceeds == maximumResponseBodyBytes # 0 /\ total > maximumResponseBodyBytes
           cut == CreditConnectionWindow(RejectStream(noted, s, "CANCEL"), f.size)
           later == [noted EXCEPT !.request[s].undelivered = @ + f.size]
           given == CreditWindow(noted, s, f.size)
           kept == CASE exceeds -> cut
                     [] ~exceeds /\ s \in Receiver -> later
                     [] OTHER -> given
           unread == CreditConnectionWindow(c, f.size)
<1>1. s \in Streams /\ f.size \in Int
  BY DEF BodyFrames
<1>2. r \in Fair(s, U) /\ r.received \in Int
  BY <1>1, RequestOf DEF Fair, Requests
<1>3. ClientHandlesData(c, f) \in
        {unread, FailConnection(c, "STREAM_CLOSED"), EndResponse(kept, s), kept}
  BY DEF ClientHandlesData
<1>4. kept \in {cut, later, given}
  <2> HIDE DEF exceeds, cut, later, given
  <2> QED
    OBVIOUS
<1>5. total \in Int
  BY <1>1, <1>2
<1> HIDE DEF kept, exceeds, total
<1>6. t \in Fair(s, U)
  <2> HIDE DEF r
  <2> QED
    BY <1>2, <1>5, FairFields
<1> HIDE DEF t
<1>7. noted \in Clients(U)
  BY <1>1, <1>6, RequestChanged
<1> HIDE DEF noted
<1>8. cut \in Clients(U)
  <2>1. "CANCEL" \in Codes
    BY DEF Codes
  <2>2. RejectStream(noted, s, "CANCEL") \in Clients(U)
    BY <1>1, <1>7, <2>1, StreamRejected
  <2> QED
    BY <1>1, <2>2, ClientCredits
<1>9. later \in Clients(U)
  <2> DEFINE o == noted.request[s]
             n == o.undelivered + f.size
             w == [o EXCEPT !.undelivered = n]
  <2>1. o \in Fair(s, U) /\ o.undelivered \in Int
    BY <1>1, <1>7, RequestOf DEF Fair, Requests
  <2>2. later = [noted EXCEPT !.request[s] = w]
    OBVIOUS
  <2>3. n \in Int
    BY <1>1, <2>1
  <2> HIDE DEF n, o
  <2>4. w \in Fair(s, U)
    BY <2>1, <2>3, FairFields
  <2> HIDE DEF w
  <2> QED
    BY <1>1, <1>7, <2>2, <2>4, RequestChanged
<1>10. given \in Clients(U) /\ unread \in Clients(U)
  BY <1>1, <1>7, ClientCredits
<1>11. kept \in Clients(U)
  BY <1>4, <1>8, <1>9, <1>10
<1>12. EndResponse(kept, s) \in Clients(U) /\ FailConnection(c, "STREAM_CLOSED") \in Clients(U)
  <2>1. "STREAM_CLOSED" \in Codes
    BY DEF Codes
  <2> QED
    BY <1>1, <1>11, <2>1, ResponseEnded, ConnectionFailed
<1> QED
  BY <1>3, <1>10, <1>11, <1>12

\* WINDOW_UPDATE.
LEMMA ClientCredit ==
    ASSUME NEW U, NEW c \in Clients(U), NEW f \in CreditFrames
    PROVE  ClientHandlesWindowUpdate(c, f) \in Clients(U)
<1> DEFINE s == f.stream
           total == c.sendWindow + f.size
           grown == [c EXCEPT !.sendWindow = total]
           sum == c.request[s].sendWindow + f.size
           t == [c.request[s] EXCEPT !.sendWindow = sum]
           widened == [c EXCEPT !.request[s] = t]
<1>1. f.size \in Int /\ s \in 0 .. StreamCount
  BY DEF CreditFrames
<1>2. "FLOW_CONTROL_ERROR" \in Codes
  BY DEF Codes
<1>3. total \in Int
  BY <1>1 DEF Clients
<1>4. /\ s = 0 => ClientHandlesWindowUpdate(c, f) \in {FailConnection(grown, "FLOW_CONTROL_ERROR"), grown}
      /\ s # 0 => ClientHandlesWindowUpdate(c, f) \in
                    {c, RejectStream(widened, s, "FLOW_CONTROL_ERROR"), widened}
  <2>1. grown.sendWindow = total
    BY DEF Clients
  <2>2. total > kHttp2MaximumWindowSize \/ total <= kHttp2MaximumWindowSize
    BY <1>3, WindowAssumption
  <2>3. widened = [c EXCEPT !.request[s].sendWindow = c.request[s].sendWindow + f.size]
    OBVIOUS
  <2> QED
    BY <2>1, <2>2, <2>3 DEF ClientHandlesWindowUpdate
<1> HIDE DEF total
<1>5. grown \in Clients(U)
  BY <1>3, ClientChanged
<1> HIDE DEF grown
<1>6. CASE s = 0
  BY <1>2, <1>4, <1>5, <1>6, ConnectionFailed
<1>7. CASE s # 0
  <2>1. s \in Streams
    BY <1>1, <1>7, StreamCountAssumption DEF Streams
  <2>2. c.request[s] \in Fair(s, U) /\ c.request[s].sendWindow \in Int
    BY <2>1, RequestOf DEF Fair, Requests
  <2>3. sum \in Int
    BY <1>1, <2>2
  <2> HIDE DEF sum
  <2>4. t \in Fair(s, U)
    BY <2>2, <2>3, FairFields
  <2> HIDE DEF t
  <2>5. widened \in Clients(U)
    BY <2>1, <2>4, RequestChanged
  <2> HIDE DEF widened
  <2> QED
    BY <1>2, <1>4, <1>7, <2>1, <2>5, StreamRejected
<1> QED
  BY <1>6, <1>7

\* GOAWAY: who is beyond the last stream it tells of was never accepted.
LEMMA ClientGoAway ==
    ASSUME NEW U, NEW c \in Clients(U), NEW f \in GoAwayFrames, Tells(f, U)
    PROVE  ClientHandlesGoAway(c, f) \in Clients(U)
<1> DEFINE over(r) == [r EXCEPT !.isReset = TRUE, !.error = TRUE, !.unprocessed = ~r.any]
           rows == [s \in Streams |-> IF c.request[s].booked /\ s > f.last THEN over(c.request[s])
                                      ELSE c.request[s]]
           d == [c EXCEPT !.goAway = TRUE]
<1>1. \A s \in Streams : s > f.last => s \in U
  BY DEF Tells
<1>2. \A r \in Requests : over(r) \in Requests
  <2> TAKE r \in Requests
  <2> DEFINE b == ~r.any
  <2>1. b \in BOOLEAN
    OBVIOUS
  <2> HIDE DEF b
  <2>2. [r EXCEPT !.isReset = TRUE, !.error = TRUE, !.unprocessed = b] \in Requests
    BY <2>1 DEF Requests
  <2> QED
    BY <2>2 DEF b
<1>3. ClientHandlesGoAway(c, f) = [d EXCEPT !.request = rows]
  BY DEF ClientHandlesGoAway, Clients
<1> HIDE DEF over
<1>4. \A s \in Streams : c.request[s] \in Requests /\ c.request[s] \in Fair(s, U)
  BY RequestOf DEF Fair
<1>5. \A s \in Streams : rows[s] \in Fair(s, U)
  BY <1>1, <1>2, <1>4 DEF Fair
<1>6. rows \in [Streams -> Requests]
  BY <1>2, <1>4
<1>7. d \in Clients(U)
  <2>1. TRUE \in BOOLEAN
    OBVIOUS
  <2> QED
    BY <2>1, ClientChanged
<1> HIDE DEF rows, d
<1> QED
  BY <1>3, <1>5, <1>6, <1>7, RequestsChanged

\* RST_STREAM: who is refused was never accepted.
LEMMA ClientReset ==
    ASSUME NEW U, NEW c \in Clients(U), NEW f \in ResetFrames, Tells(f, U)
    PROVE  ClientHandlesRstStream(c, f) \in Clients(U)
<1> DEFINE s == f.stream
           r == c.request[s]
           isRefused == f.code = "REFUSED_STREAM" /\ ~r.any
           known == r.any \/ ~isRefused
           t == [r EXCEPT !.any = known, !.unprocessed = isRefused, !.isReset = TRUE, !.error = TRUE]
<1>1. s \in Streams /\ (f.code = "REFUSED_STREAM" => s \in U)
  BY DEF ResetFrames, Tells
<1>2. r \in Requests
  BY <1>1 DEF Clients
<1>3. isRefused \in BOOLEAN /\ known \in BOOLEAN
  OBVIOUS
<1>4. isRefused => s \in U
  BY <1>1
<1>5. ClientHandlesRstStream(c, f) \in {c, [c EXCEPT !.request[s] = t]}
  BY DEF ClientHandlesRstStream
<1> HIDE DEF isRefused, known, r
<1>6. t \in Fair(s, U)
  BY <1>2, <1>3, <1>4 DEF Fair, Requests
<1> HIDE DEF t
<1> QED
  BY <1>1, <1>5, <1>6, RequestChanged

\* A batch of frames that tell of nobody outside U.
LEMMA BatchHandled ==
    ASSUME NEW U, NEW c \in Clients(U), NEW frames \in Seq(Telling(U))
    PROVE  HandleBatch(c, frames) \in Clients(U)
<1>1. ASSUME NEW d \in Clients(U), NEW f \in Telling(U) PROVE HandleOne(d, f) \in Clients(U)
  <2>1. f \in Frames /\ Tells(f, U)
    BY DEF Telling
  <2>2. ClientHandlesFrame(d, f) \in Clients(U)
    <3>1. CASE f.type = "HEADERS"
      BY <2>1, <3>1, FrameKinds, ClientHeaders DEF ClientHandlesFrame
    <3>2. CASE f.type = "DATA"
      BY <2>1, <3>2, FrameKinds, ClientData DEF ClientHandlesFrame
    <3>3. CASE f.type = "WINDOW_UPDATE"
      BY <2>1, <3>3, FrameKinds, ClientCredit DEF ClientHandlesFrame
    <3>4. CASE f.type = "GOAWAY"
      BY <2>1, <3>4, FrameKinds, ClientGoAway DEF ClientHandlesFrame
    <3>5. CASE f.type = "RST_STREAM"
      BY <2>1, <3>5, FrameKinds, ClientReset DEF ClientHandlesFrame
    <3> QED
      BY <2>1, <3>1, <3>2, <3>3, <3>4, <3>5, FrameKinds
  <2> QED
    BY <2>2 DEF HandleOne
<1> QED
  BY <1>1, BatchRule

\* The lease is given back, and the waiters scheduled.
LEMMA WaitersWoken ==
    ASSUME NEW U, NEW c \in Clients(U)
    PROVE  WakeWaitingStreams(c) \in Clients(U) /\ ReleasePumpLease(c) \in Clients(U)
<1> DEFINE next(p) == CASE p = "waitSend" -> "wokenSend"
                        [] p = "waitLoop" -> "wokenLoop"
                        [] OTHER -> p
<1>1. \A p \in Pcs : next(p) \in Pcs
  BY DEF Pcs
<1>2. ASSUME NEW d \in Clients(U) PROVE WakeWaitingStreams(d) \in Clients(U)
  <2> DEFINE rows == [s \in Streams |-> [d.request[s] EXCEPT !.pc = next(d.request[s].pc)]]
  <2>1. WakeWaitingStreams(d) = [d EXCEPT !.request = rows]
    BY DEF WakeWaitingStreams
  <2> HIDE DEF next
  <2>2. \A s \in Streams : rows[s] \in Fair(s, U)
    <3> TAKE s \in Streams
    <3> DEFINE r == d.request[s]
               p == next(r.pc)
    <3>1. r \in Fair(s, U) /\ r.pc \in Pcs
      BY RequestOf DEF Fair, Requests
    <3>2. p \in Pcs
      BY <1>1, <3>1
    <3>3. rows[s] = [r EXCEPT !.pc = p]
      OBVIOUS
    <3> HIDE DEF p, r
    <3> QED
      BY <3>1, <3>2, <3>3, FairFields
  <2>3. rows \in [Streams -> Requests]
    BY <2>2 DEF Fair
  <2> HIDE DEF rows
  <2> QED
    BY <2>1, <2>2, <2>3, RequestsChanged
<1>3. [c EXCEPT !.lease = FALSE] \in Clients(U)
  <2>1. FALSE \in BOOLEAN
    OBVIOUS
  <2> QED
    BY <2>1, ClientChanged
<1> QED
  BY <1>2, <1>3 DEF ReleasePumpLease

\* A request's pc alone changes.
LEMMA PcChanged ==
    ASSUME NEW U, NEW c \in Clients(U), NEW s \in Streams, NEW p \in Pcs
    PROVE  [c EXCEPT !.request[s].pc = p] \in Clients(U)
<1> DEFINE r == c.request[s]
           t == [r EXCEPT !.pc = p]
<1>1. [c EXCEPT !.request[s].pc = p] = [c EXCEPT !.request[s] = t]
  OBVIOUS
<1>2. r \in Fair(s, U)
  BY RequestOf
<1> HIDE DEF r
<1>3. t \in Fair(s, U)
  BY <1>2, FairFields
<1> HIDE DEF t
<1> QED
  BY <1>1, <1>3, RequestChanged

\* The lease is taken.
LEMMA LeaseTaken ==
    ASSUME NEW U, NEW c \in Clients(U), NEW s \in Streams, NEW p \in Pcs
    PROVE  TakeLease(c, s, p) \in Clients(U)
<1> DEFINE d == [c EXCEPT !.lease = TRUE]
<1>1. TakeLease(c, s, p) = [d EXCEPT !.request[s].pc = p]
  BY DEF TakeLease, Clients
<1>2. d \in Clients(U)
  <2>1. TRUE \in BOOLEAN
    OBVIOUS
  <2> QED
    BY <2>1, ClientChanged
<1> HIDE DEF d
<1> QED
  BY <1>1, <1>2, PcChanged

\* A request that has not been made.
LEMMA NoRequestIsFair ==
    ASSUME NEW s, NEW U
    PROVE  NoRequest \in Fair(s, U)
<1>1. NoRequest \in Requests
  BY DEF NoRequest, Requests, Pcs, Undeclared
<1>2. NoRequest.unprocessed = FALSE
  BY DEF NoRequest
<1> QED
  BY <1>1, <1>2 DEF Fair

\* A request is done: only what was unprocessed is reported so.
LEMMA RequestFinished ==
    ASSUME NEW U, NEW c \in Clients(U), NEW s \in Streams
    PROVE  /\ \A ok \in BOOLEAN : Finish(c, s, ok) \in Clients(U)
           /\ FinishRequest(c, s) \in Clients(U)
           /\ FinishUnsent(c, s) \in Clients(U)
<1>1. ASSUME NEW d \in Clients(U), NEW ok \in BOOLEAN PROVE Finish(d, s, ok) \in Clients(U)
  <2> DEFINE r == d.request[s]
             done == [NoRequest EXCEPT !.pc = "done", !.ok = ok, !.sent = r.sent,
                                       !.received = r.received, !.undelivered = r.undelivered,
                                       !.unsent = r.unsent, !.unprocessed = r.unprocessed]
             e == [d EXCEPT !.request[s] = done]
  <2>1. r \in Fair(s, U)
    BY RequestOf
  <2>2. Finish(d, s, ok) \in {e, FailConnection(e, "NO_ERROR")}
    BY DEF Finish, RetireIfStreamBudgetSpent
  <2> HIDE DEF r
  <2>3. done \in Fair(s, U)
    <3>1. "done" \in Pcs
      BY DEF Pcs
    <3>2. /\ r.sent \in Int /\ r.received \in Int /\ r.undelivered \in Int
          /\ r.unsent \in BOOLEAN /\ r.unprocessed \in BOOLEAN /\ (r.unprocessed => s \in U)
      BY <2>1 DEF Fair, Requests
    <3>3. NoRequest \in Fair(s, U)
      BY NoRequestIsFair
    <3> DEFINE first == [NoRequest EXCEPT !.pc = "done", !.ok = ok, !.sent = r.sent,
                                          !.received = r.received]
               u == r.unprocessed
    <3>4. first \in Fair(s, U)
      <4>1. \A q \in Fair(s, U), p \in Pcs, m, n \in Int :
              [q EXCEPT !.pc = p, !.ok = ok, !.sent = m, !.received = n] \in Fair(s, U)
        BY ZenonT(60) DEF Fair, Requests
      <4> QED
        BY <3>1, <3>2, <3>3, <4>1
    <3>5. done = [first EXCEPT !.undelivered = r.undelivered, !.unsent = r.unsent, !.unprocessed = u]
      OBVIOUS
    <3> HIDE DEF first, u
    <3>6. \A n \in Int, b \in BOOLEAN :
            [first EXCEPT !.undelivered = n, !.unsent = b, !.unprocessed = u] \in Fair(s, U)
      <4>1. u \in BOOLEAN /\ (u => s \in U)
        BY <3>2 DEF u
      <4> QED
        BY <3>4, <4>1, ZenonT(60) DEF Fair, Requests
    <3> QED
      BY <3>2, <3>5, <3>6
  <2> HIDE DEF done
  <2>4. e \in Clients(U)
    BY <2>3, RequestChanged
  <2> HIDE DEF e
  <2>5. "NO_ERROR" \in Codes
    BY DEF Codes
  <2> QED
    BY <2>2, <2>4, <2>5, ConnectionFailed
<1>2. FinishRequest(c, s) \in Clients(U)
  <2> DEFINE r == c.request[s]
             ok == r.final /\ ~r.error /\ (r.complete \/ r.isReset)
  <2>1. ok \in BOOLEAN
    OBVIOUS
  <2>2. FinishRequest(c, s) = Finish(c, s, ok)
    BY DEF FinishRequest
  <2> HIDE DEF ok
  <2> QED
    BY <1>1, <2>1, <2>2
<1>3. FinishUnsent(c, s) \in Clients(U)
  <2> DEFINE r == c.request[s]
             t == [r EXCEPT !.unsent = TRUE]
             d == [c EXCEPT !.request[s] = t]
             ok == r.final /\ ~r.error
  <2>1. ok \in BOOLEAN
    OBVIOUS
  <2>2. FinishUnsent(c, s) = Finish(d, s, ok)
    BY DEF FinishUnsent
  <2> HIDE DEF ok
  <2>3. t \in Fair(s, U)
    BY RequestOf, FairFields
  <2> HIDE DEF t
  <2>4. d \in Clients(U)
    BY <2>3, RequestChanged
  <2> HIDE DEF d
  <2> QED
    BY <1>1, <2>1, <2>2, <2>4
<1> QED
  BY <1>1, <1>2, <1>3

\* A batch is handed to the receiver.
LEMMA BatchTaken ==
    ASSUME NEW U, NEW c \in Clients(U), NEW s \in Streams
    PROVE  TakeBatch(c, s) \in Clients(U)
<1> DEFINE r == c.request[s]
           given == r.lastGiven \/ r.complete
           t == [r EXCEPT !.pc = "delivering", !.undelivered = 0, !.batch = r.undelivered,
                          !.lastGiven = given]
<1>1. r \in Fair(s, U)
  BY RequestOf
<1>2. given \in BOOLEAN
  OBVIOUS
<1>3. TakeBatch(c, s) = [c EXCEPT !.request[s] = t]
  BY DEF TakeBatch
<1> HIDE DEF given, r
<1>4. t \in Fair(s, U)
  <2>1. "delivering" \in Pcs /\ r.undelivered \in Int /\ 0 \in Int
    BY <1>1 DEF Pcs, Fair, Requests
  <2>2. \A p \in Pcs, a, b \in Int, g \in BOOLEAN :
          [r EXCEPT !.pc = p, !.undelivered = a, !.batch = b, !.lastGiven = g] \in Fair(s, U)
    BY <1>1, ZenonT(60) DEF Fair, Requests
  <2> QED
    BY <1>2, <2>1, <2>2, Zenon
<1> HIDE DEF t
<1> QED
  BY <1>3, <1>4, RequestChanged

\* The answer is awaited.
LEMMA AnswerAwaited ==
    ASSUME NEW U, NEW c \in Clients(U), NEW s \in Streams
    PROVE  AfterDelivery(c, s) \in Clients(U) /\ AwaitResponse(c, s) \in Clients(U)
<1>1. {"readLoop", "waitLoop"} \subseteq Pcs
  BY DEF Pcs
<1>2. AfterDelivery(c, s) \in {FinishRequest(c, s), TakeLease(c, s, "readLoop"),
                               [c EXCEPT !.request[s].pc = "waitLoop"], TakeBatch(c, s)}
  BY DEF AfterDelivery
<1>3. AfterDelivery(c, s) \in Clients(U)
  BY <1>1, <1>2, RequestFinished, LeaseTaken, PcChanged, BatchTaken
<1>4. AwaitResponse(c, s) \in {FinishRequest(c, s), TakeBatch(c, s), AfterDelivery(c, s)}
  BY DEF AwaitResponse
<1> QED
  BY <1>3, <1>4, RequestFinished, BatchTaken

\* A window is awaited.
LEMMA WindowAwaited ==
    ASSUME NEW U, NEW c \in Clients(U), NEW s \in Streams
    PROVE  AwaitWindow(c, s) \in Clients(U)
<1>1. {"readSend", "waitSend"} \subseteq Pcs
  BY DEF Pcs
<1>2. AwaitWindow(c, s) \in {TakeLease(c, s, "readSend"), [c EXCEPT !.hung = TRUE],
                             [c EXCEPT !.request[s].pc = "waitSend"]}
  BY DEF AwaitWindow
<1>3. [c EXCEPT !.hung = TRUE] \in Clients(U)
  <2>1. TRUE \in BOOLEAN
    OBVIOUS
  <2> QED
    BY <2>1, ClientChanged
<1>4. TakeLease(c, s, "readSend") \in Clients(U)
  BY <1>1, LeaseTaken
<1>5. [c EXCEPT !.request[s].pc = "waitSend"] \in Clients(U)
  BY <1>1, PcChanged
<1> QED
  BY <1>2, <1>3, <1>4, <1>5

\* A piece of the body is sent.
LEMMA BodyGoesOut ==
    ASSUME NEW U, NEW c \in Clients(U), NEW s \in Streams
    PROVE  SendBody(c, s) \in Clients(U)
<1> DEFINE r == c.request[s]
           window == Lesser(c.sendWindow, r.sendWindow)
           n == Lesser(Lesser(window, maximumFrameSize), requestSize[s] - r.sent)
           isLast == s \notin Streamed /\ r.sent + n = requestSize[s]
           f == DataFrame(s, n, isLast)
           d == Emit(c, <<f>>)
           left == c.sendWindow - n
           e == [d EXCEPT !.sendWindow = left]
           rest == r.sendWindow - n
           sent == r.sent + n
           t == [r EXCEPT !.sendWindow = rest, !.sent = sent, !.pc = "flushBody"]
           sends == [d EXCEPT !.sendWindow = d.sendWindow - n, !.request[s] = t]
<1>1. r \in Fair(s, U) /\ c.sendWindow \in Int /\ r.sendWindow \in Int /\ r.sent \in Int
  BY RequestOf DEF Clients, Fair, Requests
<1>2. SendBody(c, s) \in {AwaitWindow(c, s), FinishUnsent(c, s), sends}
  BY DEF SendBody
<1>3. n \in Int
  <2>1. window \in Int /\ maximumFrameSize \in Int /\ requestSize[s] \in Int
    BY <1>1, WindowAssumption, ClientAssumption DEF Lesser
  <2> HIDE DEF window
  <2> QED
    BY <1>1, <2>1 DEF Lesser
<1> HIDE DEF n, window
<1>4. left \in Int /\ rest \in Int /\ sent \in Int
  BY <1>1, <1>3
<1>5. f \in Frames
  <2>1. isLast \in BOOLEAN
    OBVIOUS
  <2> HIDE DEF isLast
  <2> QED
    BY <1>3, <2>1, BodyFrameMade, FramesAre
<1> HIDE DEF f, isLast
<1>6. d \in Clients(U) /\ d.sendWindow = c.sendWindow
  BY <1>5, OneEntry, ClientEmits
<1> HIDE DEF d, r
<1>7. t \in Fair(s, U)
  <2>1. "flushBody" \in Pcs
    BY DEF Pcs
  <2> HIDE DEF rest, sent
  <2> QED
    BY <1>1, <1>4, <2>1 DEF Fair, Requests
<1> HIDE DEF t
<1>8. sends = [e EXCEPT !.request[s] = t]
  BY <1>6 DEF Clients
<1> HIDE DEF left
<1>9. e \in Clients(U)
  BY <1>4, <1>6, ClientChanged
<1> HIDE DEF e, sends
<1>10. sends \in Clients(U)
  BY <1>7, <1>8, <1>9, RequestChanged
<1> QED
  BY <1>2, <1>10, WindowAwaited, RequestFinished

\* The request is sent on.
LEMMA SendingGoesOn ==
    ASSUME NEW U, NEW c \in Clients(U), NEW s \in Streams
    PROVE  GoOnSending(c, s) \in Clients(U)
<1> DEFINE f == DataFrame(s, 0, TRUE)
           d == Emit(c, <<f>>)
<1>1. f \in BodyFrames
  BY DEF DataFrame, BodyFrames
<1>2. EndBody(c, s) \in {FinishUnsent(c, s), [d EXCEPT !.request[s].pc = "flushEnd"]}
  BY DEF EndBody
<1> HIDE DEF f
<1>3. d \in Clients(U)
  BY <1>1, FramesAre, OneEntry, ClientEmits
<1> HIDE DEF d
<1>4. EndBody(c, s) \in Clients(U)
  <2>1. "flushEnd" \in Pcs
    BY DEF Pcs
  <2> QED
    BY <1>2, <1>3, <2>1, PcChanged, RequestFinished
<1>5. GoOnSending(c, s) \in {SendBody(c, s), EndBody(c, s), AwaitResponse(c, s)}
  BY DEF GoOnSending
<1> QED
  BY <1>4, <1>5, BodyGoesOut, AnswerAwaited

\* A request is opened.
LEMMA RequestOpened ==
    ASSUME NEW U, NEW c \in Clients(U), NEW s \in Streams
    PROVE  OpenRequest(c, s) \in Clients(U)
<1> DEFINE isAll == requestSize[s] = 0 /\ s \notin Streamed
           f == HeadersFrame(s, isAll, Undeclared)
           d == Emit(c, <<f>>)
           count == d.opened + 1
           e == [d EXCEPT !.opened = count]
           t == [d.request[s] EXCEPT !.pc = "flushHead", !.booked = TRUE,
                                     !.sendWindow = initialWindowSize]
<1>1. OpenRequest(c, s) = [d EXCEPT !.opened = count, !.request[s] = t]
  BY DEF OpenRequest
<1>2. f \in Frames
  <2>1. isAll \in BOOLEAN /\ Undeclared \in Int
    BY DEF Undeclared
  <2> HIDE DEF isAll
  <2> QED
    BY <2>1, HeadersFrameMade, FramesAre
<1> HIDE DEF f
<1>3. d \in Clients(U)
  BY <1>2, OneEntry, ClientEmits
<1> HIDE DEF d
<1>4. count \in Int
  BY <1>3 DEF Clients
<1>5. t \in Fair(s, U)
  <2> DEFINE r == d.request[s]
  <2>1. r \in Fair(s, U)
    BY <1>3, RequestOf
  <2>2. "flushHead" \in Pcs /\ initialWindowSize \in Int
    BY WindowAssumption DEF Pcs
  <2> HIDE DEF r
  <2>3. [r EXCEPT !.pc = "flushHead", !.booked = TRUE, !.sendWindow = initialWindowSize] \in Fair(s, U)
    BY <2>1, <2>2 DEF Fair, Requests
  <2> QED
    BY <2>3 DEF r
<1> HIDE DEF t
<1>6. [d EXCEPT !.opened = count, !.request[s] = t] = [e EXCEPT !.request[s] = t]
  BY <1>3 DEF Clients
<1> HIDE DEF count
<1>7. e \in Clients(U)
  BY <1>3, <1>4, ClientChanged
<1> HIDE DEF e
<1> QED
  BY <1>1, <1>5, <1>6, <1>7, RequestChanged

\* A read ends.
LEMMA PumpEnded ==
    ASSUME NEW U, NEW c \in Clients(U), NEW s \in Streams
    PROVE  AfterPump(c, s) \in Clients(U)
<1> DEFINE r == ReleasePumpLease(c)
<1>1. AfterPump(c, s) \in {GoOnSending(r, s), AwaitResponse(r, s), FinishUnsent(r, s),
                           FinishRequest(r, s)}
  BY DEF AfterPump
<1>2. r \in Clients(U)
  BY WaitersWoken
<1> HIDE DEF r
<1> QED
  BY <1>1, <1>2, SendingGoesOn, AnswerAwaited, RequestFinished

\* The receiver returns.
LEMMA BatchReceived ==
    ASSUME NEW U, NEW c \in Clients(U), NEW s \in Streams, NEW accepts \in BOOLEAN
    PROVE  AfterReceiver(c, s, accepts) \in Clients(U)
<1> DEFINE r == c.request[s]
           n == r.batch
           t == [r EXCEPT !.batch = 0]
           given == [c EXCEPT !.request[s] = t]
           f == RstStreamFrame(s, "CANCEL")
           d == Emit(given, <<f>>)
           u == [d.request[s] EXCEPT !.isReset = TRUE, !.pc = "flushRefusal"]
           refused == [d EXCEPT !.request[s] = u]
           credited == CreditWindow(given, s, n)
<1>1. AfterReceiver(c, s, accepts) \in
        {CreditConnectionWindow(refused, n), [credited EXCEPT !.request[s].pc = "flushCredit"],
         AfterDelivery(given, s)}
  BY DEF AfterReceiver
<1>2. r \in Fair(s, U) /\ n \in Int
  BY RequestOf DEF Fair, Requests
<1> HIDE DEF n
<1>3. t \in Fair(s, U)
  <2> HIDE DEF r
  <2>1. 0 \in Int
    OBVIOUS
  <2> QED
    BY <1>2, <2>1, FairFields, Zenon
<1> HIDE DEF t
<1>4. given \in Clients(U)
  BY <1>3, RequestChanged
<1> HIDE DEF given
<1>5. f \in Frames
  <2>1. "CANCEL" \in Codes
    BY DEF Codes
  <2> QED
    BY <2>1, ResetFrameMade, FramesAre
<1> HIDE DEF f
<1>6. d \in Clients(U)
  BY <1>4, <1>5, OneEntry, ClientEmits
<1> HIDE DEF d
<1>7. {"flushRefusal", "flushCredit"} \subseteq Pcs
  BY DEF Pcs
<1>8. u \in Fair(s, U)
  BY <1>6, <1>7, RequestOf, FairFields
<1> HIDE DEF u
<1>9. refused \in Clients(U)
  BY <1>6, <1>8, RequestChanged
<1> HIDE DEF refused
<1>10. credited \in Clients(U) /\ CreditConnectionWindow(refused, n) \in Clients(U)
  BY <1>2, <1>4, <1>9, ClientCredits
<1> HIDE DEF credited
<1>11. [credited EXCEPT !.request[s].pc = "flushCredit"] \in Clients(U)
  BY <1>7, <1>10, PcChanged
<1> QED
  BY <1>1, <1>4, <1>10, <1>11, AnswerAwaited

(***************************************************************************)
(* The client's steps, for a set U that what is on its way to it tells     *)
(* nothing beyond.                                                         *)
(***************************************************************************)
LEMMA ClientBecame ==
    ASSUME NEW U, NEW c \in Clients(U), toServer \in Seq(Frames), ClientBecomes(c)
    PROVE  client' \in Clients(U) /\ toServer' \in Seq(Frames)
<1>1. [c EXCEPT !.out = <<>>] \in Clients(U)
  <2>1. \A q \in Seq(Frames) : [c EXCEPT !.out = q] \in Clients(U)
    BY ClientChanged
  <2> QED
    BY <2>1, NoEntries, Zenon
<1>2. toServer \o c.out \in Seq(Frames)
  BY ListsJoined DEF Clients
<1> QED
  BY <1>1, <1>2 DEF ClientBecomes

\* The driver's receive returns.
LEMMA ClientReadsKeeps ==
    ASSUME NEW U, client \in Clients(U), toServer \in Seq(Frames), toClient \in Seq(Telling(U)),
           NEW s \in Streams, ClientReads(s)
    PROVE  /\ client' \in Clients(U) /\ toServer' \in Seq(Frames)
           /\ toClient' \in Seq(Telling(U))
<1>1. PICK k \in 1 .. Len(toClient) : ReadSome(s, k)
  BY DEF ClientReads
<1> DEFINE frames == SubSeq(toClient, 1, k)
           c == HandleBatch(client, frames)
           p == IF c.request[s].pc = "readSend" THEN "pumpedSend" ELSE "pumpedLoop"
           pumped == [c EXCEPT !.request[s].pc = p]
<1>2. frames \in Seq(Telling(U))
  OBVIOUS
<1>3. toClient' \in Seq(Telling(U))
  <2>1. SubSeq(toClient, k + 1, Len(toClient)) \in Seq(Telling(U))
    OBVIOUS
  <2> QED
    BY <1>1, <2>1 DEF ReadSome
<1>4. ClientBecomes(IF c.out = <<>> THEN AfterPump(c, s) ELSE pumped)
  BY <1>1 DEF ReadSome
<1> HIDE DEF frames
<1>5. c \in Clients(U)
  BY <1>2, BatchHandled
<1> HIDE DEF c
<1>6. AfterPump(c, s) \in Clients(U)
  BY <1>5, PumpEnded
<1>7. pumped \in Clients(U)
  <2>1. p \in Pcs
    BY DEF Pcs
  <2> HIDE DEF p
  <2> QED
    BY <1>5, <2>1, PcChanged
<1> HIDE DEF pumped
<1> QED
  BY <1>3, <1>4, <1>6, <1>7, ClientBecame

\* The caller cancels.
LEMMA CancelRequestKeeps ==
    ASSUME NEW U, client \in Clients(U), toServer \in Seq(Frames), NEW s \in Streams,
           CancelRequest(s)
    PROVE  client' \in Clients(U) /\ toServer' \in Seq(Frames)
<1> DEFINE t == [client.request[s] EXCEPT !.cancelled = TRUE]
           marked == [client EXCEPT !.request[s] = t]
           rejected == RejectStream(marked, s, "CANCEL")
           woken == WakeWaitingStreams(rejected)
<1>1. ClientBecomes(marked) \/ ClientBecomes(woken)
  BY DEF CancelRequest
<1>2. t \in Fair(s, U)
  BY RequestOf, FairFields
<1> HIDE DEF t
<1>3. marked \in Clients(U)
  BY <1>2, RequestChanged
<1> HIDE DEF marked
<1>4. rejected \in Clients(U)
  BY <1>3, StreamRejected DEF Codes
<1> HIDE DEF rejected
<1>5. woken \in Clients(U)
  BY <1>4, WaitersWoken
<1> HIDE DEF woken
<1> QED
  BY <1>1, <1>3, <1>5, ClientBecame

\* Every step of the client.
LEMMA ClientMoves ==
    ASSUME NEW U, client \in Clients(U), toServer \in Seq(Frames), toClient \in Seq(Telling(U)),
           Client
    PROVE  /\ client' \in Clients(U) /\ toServer' \in Seq(Frames)
           /\ toClient' \in Seq(Telling(U))
<1> DEFINE Keeps == client' \in Clients(U) /\ toServer' \in Seq(Frames)
<1>1. \A b \in BOOLEAN : [client EXCEPT !.healthy = b] \in Clients(U)
  BY ClientChanged
<1>2. FailTransport(client) \in Clients(U)
  <2>1. FALSE \in BOOLEAN
    OBVIOUS
  <2> QED
    BY <1>1, <2>1, Zenon DEF FailTransport
<1>3. \A c \in Clients(U) : ClientBecomes(c) => Keeps
  BY ClientBecame
<1> HIDE DEF Keeps
<1>4. ASSUME NEW s \in Streams, RequestStarts(s) PROVE Keeps /\ toClient' = toClient
  <2>1. ClientBecomes(Finish(client, s, FALSE)) \/ ClientBecomes(OpenRequest(client, s))
    BY <1>4 DEF RequestStarts
  <2>2. FALSE \in BOOLEAN
    OBVIOUS
  <2>3. Finish(client, s, FALSE) \in Clients(U)
    BY <2>2, RequestFinished, Zenon
  <2> QED
    BY <1>3, <1>4, <2>1, <2>3, RequestOpened DEF RequestStarts
<1>5. ASSUME NEW s \in Streams, FlushReturns(s) PROVE Keeps /\ toClient' = toClient
  <2>1. \/ ClientBecomes(GoOnSending(client, s)) \/ ClientBecomes(FinishUnsent(client, s))
        \/ ClientBecomes(AwaitResponse(client, s)) \/ ClientBecomes(AfterPump(client, s))
        \/ ClientBecomes(AfterDelivery(client, s)) \/ ClientBecomes(FinishRequest(client, s))
    BY <1>5 DEF FlushReturns
  <2>2. {GoOnSending(client, s), FinishUnsent(client, s), AwaitResponse(client, s),
         AfterPump(client, s), AfterDelivery(client, s), FinishRequest(client, s)} \subseteq Clients(U)
    BY SendingGoesOn, RequestFinished, AnswerAwaited, PumpEnded
  <2> QED
    BY <1>3, <1>5, <2>1, <2>2 DEF FlushReturns
<1>6. ASSUME NEW s \in Streams, WaiterResumes(s) PROVE Keeps /\ toClient' = toClient
  BY <1>3, <1>6, SendingGoesOn, AnswerAwaited DEF WaiterResumes
<1>7. ASSUME NEW s \in Streams, ClientReadsEnd(s) PROVE Keeps /\ toClient' = toClient
  BY <1>2, <1>3, <1>7, PumpEnded DEF ClientReadsEnd
<1>8. ASSUME NEW s \in Streams, ReceiverReturns(s) PROVE Keeps /\ toClient' = toClient
  <2>1. TRUE \in BOOLEAN /\ FALSE \in BOOLEAN
    OBVIOUS
  <2>2. AfterReceiver(client, s, TRUE) \in Clients(U) /\ AfterReceiver(client, s, FALSE) \in Clients(U)
    BY <2>1, BatchReceived, Zenon
  <2> QED
    BY <1>3, <1>8, <2>2 DEF ReceiverReturns
<1>9. ASSUME NEW s \in Streams, CancelledReadReturns(s) PROVE Keeps /\ toClient' = toClient
  <2>1. ReleasePumpLease(client) \in Clients(U)
    BY WaitersWoken
  <2> QED
    BY <1>3, <1>9, <2>1, AnswerAwaited DEF CancelledReadReturns
<1>10. ASSUME NEW s \in Streams, CancelRequest(s) PROVE Keeps /\ toClient' = toClient
  BY <1>10, CancelRequestKeeps DEF CancelRequest, Keeps
<1>11. CASE DeadlinePasses \/ ClientCloses
  BY <1>2, <1>11 DEF DeadlinePasses, ClientCloses, CloseClient
<1>12. ASSUME NEW s \in Streams, ClientReads(s) PROVE Keeps /\ toClient' \in Seq(Telling(U))
  BY <1>12, ClientReadsKeeps DEF Keeps
<1> QED
  BY <1>4, <1>5, <1>6, <1>7, <1>8, <1>9, <1>10, <1>11, <1>12 DEF Client, RequestStep, Keeps

(***************************************************************************)
(* The two ends together.                                                  *)
(***************************************************************************)
Inv == /\ Truthful
       /\ toServer \in Seq(Frames)
       /\ client \in Clients(Unseen(Session))

\* Initially nobody has begun and nothing was said.
LEMMA InitInv == Init => Inv
<1> SUFFICES ASSUME Init PROVE Inv
  OBVIOUS
<1> DEFINE rows == [s \in Streams |-> NoRecord]
           records == [s \in Streams |-> NoTask]
           requests == [s \in Streams |-> NoRequest]
           U == Never(Connected, {})
<1>1. conn = Connected /\ task = records /\ toServer = <<>> /\ toClient = <<>>
  BY DEF Init, ServerInit, WireInit
<1>2. rows \in [Streams -> Rows]
  BY NoRecordIsRow
<1>3. records \in [Streams -> Records] /\ Begun(records) = {}
  BY NoTaskIsRecord DEF Begun, NoTask
<1>4. /\ Connected.requests = <<>> /\ Connected.last = NoLast /\ Connected.stream = rows
      /\ Connected.out = <<>>
  BY DEF Connected
<1>5. Asked(Connected) = {}
  BY <1>4 DEF Asked
<1>6. \A V : Connected \in Conns(V)
  <2> TAKE V
  <2>1. /\ kHttp2InitialWindowSize \in Int /\ 0 \in 0 .. StreamCount /\ NoLast \in 0 .. NoLast
        /\ 0 \in Int
    BY WindowAssumption, StreamCountAssumption DEF NoLast
  <2>2. /\ <<>> \in Seq(Streams) /\ <<>> \in Seq(HeadersFrames) /\ <<>> \in Seq(BodyFrames)
        /\ <<>> \in Seq(Telling(V))
    BY NoEntries
  <2>3. Connected = [state |-> "Open", stream |-> rows, sendWindow |-> kHttp2InitialWindowSize,
                     receiveWindow |-> kHttp2InitialWindowSize, credit |-> 0, highest |-> 0,
                     last |-> NoLast, terminated |-> <<>>, evicted |-> FALSE, requests |-> <<>>,
                     received |-> <<>>, out |-> <<>>]
    BY DEF Connected
  <2> HIDE DEF rows
  <2> QED
    BY <1>2, <2>1, <2>2, <2>3 DEF Conns
<1>7. Ordered(Connected, {})
  BY <1>4, <1>5 DEF Ordered
<1>8. Connected \in Honest({})
  BY <1>6, <1>7, HonestConn
<1> HIDE DEF rows, records
<1>9. Session \in Valid
  <2>1. Session.conn = Connected /\ Session.task = records /\ Session \in Sessions(Streams)
    BY <1>1, <1>3, <1>6 DEF Session, Sessions
  <2> QED
    BY <1>3, <1>8, <2>1 DEF Valid
<1>10. toServer \in Seq(Frames) /\ toClient \in Seq(Telling(Unseen(Session)))
  BY <1>1, NoEntries
<1>11. client \in Clients(Unseen(Session))
  <2>1. kHttp2InitialWindowSize \in Int /\ 0 \in Int /\ <<>> \in Seq(Frames)
    BY WindowAssumption, NoEntries
  <2>2. /\ requests \in [Streams -> Requests]
        /\ \A s \in Streams : requests[s].unprocessed = FALSE
    <3>1. NoRequest \in Requests /\ NoRequest.unprocessed = FALSE
      BY NoRequestIsFair DEF Fair, NoRequest
    <3> QED
      BY <3>1
  <2>3. client = [healthy |-> TRUE, goAway |-> FALSE, accused |-> FALSE, hung |-> FALSE,
                  lease |-> FALSE, opened |-> 0, sendWindow |-> kHttp2InitialWindowSize,
                  request |-> requests, out |-> <<>>]
    BY DEF Init, ClientInit
  <2> HIDE DEF requests
  <2> QED
    BY <2>1, <2>2, <2>3 DEF Clients
<1> QED
  BY <1>9, <1>10, <1>11 DEF Inv, Truthful

\* One step: what could not be processed any more still cannot.
LEMMA StepInv ==
    ASSUME Inv, [Next]_vars
    PROVE  Inv' /\ Unseen(Session) \subseteq Unseen(Session')
<1>1. Session \in Valid /\ toClient \in Seq(Telling(Unseen(Session)))
  BY DEF Inv, Truthful
<1>2. CASE Server
  <2>1. Moved /\ toServer' \in Seq(Frames)
    BY <1>2, ServerMoves DEF Inv
  <2>2. Session' \in Valid /\ Unseen(Session) \subseteq Unseen(Session')
    BY <2>1 DEF Moved, Later
  <2>3. client' = client
    BY <1>2 DEF Server
  <2>4. client' \in Clients(Unseen(Session'))
    BY <2>2, <2>3, ClientsGrow DEF Inv
  <2>5. Truthful'
    BY <2>1, <2>2 DEF Moved, Truthful
  <2> QED
    BY <2>1, <2>2, <2>4, <2>5 DEF Inv
<1>3. CASE Client
  <2>1. conn' = conn /\ task' = task
    BY <1>3 DEF Client, serverVars
  <2>2. Session' = Session
    BY <2>1 DEF Session
  <2>3. /\ client' \in Clients(Unseen(Session)) /\ toServer' \in Seq(Frames)
        /\ toClient' \in Seq(Telling(Unseen(Session)))
    BY <1>1, <1>3, ClientMoves DEF Inv
  <2> QED
    BY <1>1, <2>2, <2>3 DEF Inv, Truthful
<1>4. CASE UNCHANGED vars
  BY <1>4 DEF Inv, Truthful, Session, vars, serverVars, wireVars
<1> QED
  BY <1>2, <1>3, <1>4 DEF Next, Spins, Terminated

(***************************************************************************)
(* On both ends of the connection and on the wire between them, nothing    *)
(* tells the client that a request was not processed unless its stream can *)
(* never be accepted any more (Http2ClientConnection.cpp's handlers of     *)
(* GOAWAY and RST_STREAM, Http2Connection.cpp's refusals and GOAWAY, and   *)
(* the session that takes what the connection accepted).                   *)
(***************************************************************************)
THEOREM Http2Invariant == Spec => []Inv
<1>1. Inv /\ [Next]_vars => Inv'
  BY StepInv
<1> QED
  BY <1>1, InitInv, PTL DEF Spec

(***************************************************************************)
(* isGuaranteedUnprocessed is a guarantee: a request that the client       *)
(* reports as never processed was not given to a handler, whatever the     *)
(* order in which refusals, GOAWAY, resets, cancellations and the closing  *)
(* of either socket cross.                                                 *)
(***************************************************************************)
THEOREM Http2SafeToRetry == Spec => []SafeToRetry
<1>1. Inv => SafeToRetry
  <2> SUFFICES ASSUME Inv, NEW s \in Streams, client.request[s].unprocessed PROVE ~task[s].handled
    BY DEF SafeToRetry
  <2>1. s \in Unseen(Session)
    BY DEF Inv, Clients
  <2>2. Session.task = task /\ task[s] \in Records
    BY Begins DEF Inv, Truthful
  <2>3. task[s].phase = "none"
    BY <2>1, <2>2 DEF Unseen, Never, Begun
  <2> QED
    BY <2>2, <2>3 DEF Records
<1> QED
  BY <1>1, Http2Invariant, PTL

(***************************************************************************)
(* And it never will be: a stream that the server can no longer accept, as *)
(* it lies below the highest one used or beyond the last one announced     *)
(* without having been accepted, can not be accepted after any step.       *)
(***************************************************************************)
THEOREM Http2RefusalIsFinal == Spec => [][Unseen(Session) \subseteq Unseen(Session')]_vars
<1>1. Inv /\ [Next]_vars => [Unseen(Session) \subseteq Unseen(Session')]_vars
  BY StepInv
<1> QED
  BY <1>1, Http2Invariant, PTL DEF Spec
=============================================================================
