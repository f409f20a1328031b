--------------------------- MODULE ChannelOpsProofs ---------------------------
(* What the operators of ChannelOps do, for any finite set of indices and any *)
(* payloads: the first missing index exists, a finite set of indices is       *)
(* listed in ascending order, draining stops there, and delivering or         *)
(* abandoning an index keeps a channel healthy and loses nothing it holds.    *)
EXTENDS ChannelOps, NatLemmas, SequenceTheorems

\* The loop of advance_ordering ends: among the first Cardinality(W) + 1
\* indices from e on, one is missing from W, and the first such is what
\* FirstMissing chooses.
LEMMA FirstMissingIsFirst ==
  ASSUME NEW W \in SUBSET Nat, IsFiniteSet(W), NEW e \in Nat
  PROVE  /\ FirstMissing(W, e) \in Nat
         /\ FirstMissing(W, e) >= e
         /\ FirstMissing(W, e) \notin W
         /\ (e .. (FirstMissing(W, e) - 1)) \subseteq W
<1> DEFINE c == Cardinality(W)
           G == {k \in e .. (e + c) : k \notin W}
<1>1. c \in Nat
  BY FS_CardinalityType
<1>2. G # {}
  <2>1. SUFFICES ASSUME e .. (e + c) \subseteq W
                 PROVE  FALSE
    OBVIOUS
  <2>2. Cardinality(e .. (e + c)) = c + 1
    <3>. HIDE DEF c
    <3>. QED BY <1>1, FS_Interval
  <2>3. Cardinality(e .. (e + c)) <= c
    BY <2>1, FS_Subset
  <2>. QED BY <1>1, <2>2, <2>3
<1>3. PICK m \in G : \A n \in G : m <= n
  <2>1. G \in SUBSET Nat
    BY <1>1
  <2>. QED BY <1>2, <2>1, NatLeast
<1>4. (e .. (m - 1)) \subseteq W
  <2>. HIDE DEF c
  <2>. QED BY <1>1, <1>3
<1>5. \E k \in e .. (e + c) : k \notin W /\ (e .. (k - 1)) \subseteq W
  BY <1>3, <1>4
<1>6. /\ FirstMissing(W, e) \in e .. (e + c)
      /\ FirstMissing(W, e) \notin W
      /\ (e .. (FirstMissing(W, e) - 1)) \subseteq W
  BY <1>5 DEF FirstMissing
<1>. QED
  <2>. HIDE DEF c
  <2>. QED BY <1>1, <1>6

\* Every finite set of indices can be listed in ascending order.
LEMMA AscendingExists ==
  ASSUME NEW D \in SUBSET Nat, IsFiniteSet(D)
  PROVE  \E s \in [1 .. Cardinality(D) -> D] :
             \A i, j \in 1 .. Cardinality(D) : i < j => s[i] < s[j]
<1> DEFINE Listed(S, n) == \E s \in [1 .. n -> S] : \A i, j \in 1 .. n : i < j => s[i] < s[j]
           Bad == {n \in Nat : \E S \in SUBSET Nat :
                       IsFiniteSet(S) /\ Cardinality(S) = n /\ ~ Listed(S, n)}
<1>1. Bad = {}
  <2>1. SUFFICES ASSUME Bad # {}
                 PROVE  FALSE
    OBVIOUS
  <2>2. PICK n \in Bad : \A k \in Bad : n <= k
    <3>1. Bad \in SUBSET Nat
      OBVIOUS
    <3>. QED BY <2>1, <3>1, NatLeast
  <2>3. PICK S \in SUBSET Nat : IsFiniteSet(S) /\ Cardinality(S) = n /\ ~ Listed(S, n)
    OBVIOUS
  <2>4. n \in Nat
    OBVIOUS
  <2>5. S # {}
    <3>1. ASSUME S = {}
          PROVE  FALSE
      <4>1. n = 0
        BY <2>3, <3>1, FS_EmptySet
      <4>2. [x \in 1 .. n |-> x] \in [1 .. n -> S]
        BY <4>1
      <4>3. Listed(S, n)
        BY <4>1, <4>2
      <4>. QED BY <4>3, <2>3
    <3>. QED BY <3>1
  <2>6. PICK m \in S : \A x \in S : x <= m
    BY <2>3, <2>5, FiniteNatGreatest
  <2> DEFINE E == S \ {m}
  <2>7. IsFiniteSet(E) /\ Cardinality(E) = n - 1 /\ n - 1 \in Nat
    <3>1. IsFiniteSet(E) /\ Cardinality(E) = n - 1
      BY <2>3, <2>6, FS_RemoveElement
    <3>. QED BY <3>1, FS_CardinalityType
  <2>8. n - 1 \notin Bad
    <3>. HIDE DEF Bad
    <3>. QED BY <2>2, <2>4
  <2>9. Listed(E, n - 1)
    <3>1. E \in SUBSET Nat
      OBVIOUS
    <3>. HIDE DEF E, Listed
    <3>. QED BY <2>7, <2>8, <3>1
  <2>10. PICK s \in [1 .. (n - 1) -> E] :
             \A i, j \in 1 .. (n - 1) : i < j => s[i] < s[j]
    BY <2>9
  <2> DEFINE t == [i \in 1 .. n |-> IF i = n THEN m ELSE s[i]]
  <2>11. \A i \in 1 .. n : i # n => i \in 1 .. (n - 1)
    BY <2>4
  <2>12. t \in [1 .. n -> S]
    <3>1. \A i \in 1 .. n : i # n => s[i] \in E
      BY <2>10, <2>11
    <3>. QED BY <3>1
  <2>13. \A i, j \in 1 .. n : i < j => t[i] < t[j]
    <3>1. SUFFICES ASSUME NEW i \in 1 .. n, NEW j \in 1 .. n, i < j
                   PROVE  t[i] < t[j]
      OBVIOUS
    <3>2. i \in 1 .. (n - 1) /\ t[i] = s[i] /\ s[i] \in E
      BY <2>4, <2>10, <2>11, <3>1
    <3>3. CASE j = n
      <4>1. t[j] = m /\ s[i] \in Nat /\ m \in Nat
        BY <3>2, <3>3
      <4>. QED BY <3>2, <4>1, <2>6
    <3>4. CASE j # n
      <4>1. j \in 1 .. (n - 1) /\ t[j] = s[j]
        BY <2>11, <3>4
      <4>. QED BY <2>10, <3>1, <3>2, <4>1
    <3>. QED BY <3>3, <3>4
  <2>14. Listed(S, n)
    <3>. HIDE DEF t
    <3>. QED BY <2>12, <2>13
  <2>. QED BY <2>3, <2>14
<1>2. Cardinality(D) \in Nat
  BY FS_CardinalityType
<1>3. Listed(D, Cardinality(D))
  <2>. HIDE DEF Listed
  <2>. QED BY <1>1, <1>2
<1>. QED BY <1>3

\* Ascending lists each member once, in order.
LEMMA AscendingLists ==
  ASSUME NEW D \in SUBSET Nat, IsFiniteSet(D)
  PROVE  /\ Cardinality(D) \in Nat
         /\ Ascending(D) \in [1 .. Cardinality(D) -> D]
         /\ \A i, j \in 1 .. Cardinality(D) : i < j => Ascending(D)[i] < Ascending(D)[j]
         /\ \A d \in D : \E n \in 1 .. Cardinality(D) : Ascending(D)[n] = d
<1> DEFINE c == Cardinality(D)
           s == Ascending(D)
<1>1. c \in Nat
  BY FS_CardinalityType
<1>2. /\ s \in [1 .. c -> D]
      /\ \A i, j \in 1 .. c : i < j => s[i] < s[j]
  BY AscendingExists DEF Ascending
<1>3. s \in Injection(1 .. c, D)
  <2>1. ASSUME NEW i \in 1 .. c, NEW j \in 1 .. c, s[i] = s[j]
        PROVE  i = j
    <3>. HIDE DEF c, s
    <3>1. i \in Nat /\ j \in Nat
      BY <1>1
    <3>2. s[i] \in Nat /\ s[j] \in Nat
      BY <1>2
    <3>3. ~(i < j) /\ ~(j < i)
      BY <1>2, <2>1, <3>1, <3>2
    <3>. QED BY <3>1, <3>3
  <2>. HIDE DEF c, s
  <2>. QED BY <1>2, <2>1 DEF Injection, IsInjective
<1>4. IsFiniteSet(1 .. c) /\ Cardinality(1 .. c) = c
  <2>. HIDE DEF c
  <2>. QED BY <1>1, FS_Interval
<1>5. s \in Surjection(1 .. c, D)
  <2>1. Cardinality(1 .. c) = Cardinality(D)
    BY <1>4
  <2>. HIDE DEF c, s
  <2>. QED BY <1>3, <2>1, FS_Injection
<1>6. \A d \in D : \E n \in 1 .. c : s[n] = d
  <2>. HIDE DEF c, s
  <2>. QED BY <1>5 DEF Surjection
<1>. QED BY <1>1, <1>2, <1>6

-----------------------------------------------------------------------------
(* Draining.  The indices are those of I, the payloads those of P.           *)

Indices(I) == I \subseteq Nat /\ IsFiniteSet(I)

MessageOf(I, P) == I \X P

ChannelOf(I, P) == [expected  : Nat,
                    heap      : UNION {[D -> P] : D \in SUBSET I},
                    abandoned : SUBSET I,
                    log       : Seq(MessageOf(I, P))]

\* The channel has passed i, or holds it.
Placed(ch, i) == i < ch.expected \/ i \in DOMAIN ch.heap \cup ch.abandoned

\* Every buffered index of d was buffered in ch, with the same payload, and
\* lies outside the indices from e to d's frontier.
KeepsBuffer(ch, e, d) ==
    \A i \in DOMAIN d.heap :
        /\ i \in DOMAIN ch.heap
        /\ d.heap[i] = ch.heap[i]
        /\ (i < e \/ i > d.expected)

\* The log of d extends the log of ch.
KeepsLog(ch, d) == /\ Len(d.log) >= Len(ch.log)
                   /\ \A n \in 1 .. Len(ch.log) : d.log[n] = ch.log[n]

\* The positions of d's log that ch's log does not have.
NewPositions(ch, d) == (Len(ch.log) + 1) .. Len(d.log)

\* What d's log adds was buffered in ch and lies between e and the frontier.
LogsBuffered(ch, e, d) ==
    \A n \in NewPositions(ch, d) :
        /\ d.log[n][1] \in DOMAIN ch.heap
        /\ d.log[n] = <<d.log[n][1], ch.heap[d.log[n][1]]>>
        /\ e <= d.log[n][1] /\ d.log[n][1] < d.expected

\* What d's log adds is in ascending order.
LogsAscending(ch, d) ==
    \A m, n \in NewPositions(ch, d) : m < n => d.log[m][1] < d.log[n][1]

\* Every index d passed from e on is logged with its buffered payload or was
\* abandoned.
ExplainsPassed(ch, e, d) ==
    \A i \in e .. (d.expected - 1) :
        \/ i \in ch.abandoned
        \/ i \in DOMAIN ch.heap /\ \E n \in DOMAIN d.log : d.log[n] = <<i, ch.heap[i]>>

\* What advance_ordering does to a channel, index by index: it stops at the
\* first index e or later that is neither buffered nor abandoned, appends the
\* buffered payloads it passed in ascending order, and touches nothing else.
LEMMA DrainProperties ==
  ASSUME NEW I, Indices(I), NEW P, NEW ch \in ChannelOf(I, P), NEW e \in Nat,
         NEW d, d = Drain(ch, e)
  PROVE  /\ d \in ChannelOf(I, P)
         /\ d.expected >= e
         /\ d.expected \notin DOMAIN d.heap \cup d.abandoned
         /\ d.abandoned \subseteq ch.abandoned
         /\ KeepsBuffer(ch, e, d)
         /\ KeepsLog(ch, d)
         /\ LogsBuffered(ch, e, d)
         /\ LogsAscending(ch, d)
         /\ ExplainsPassed(ch, e, d)
         /\ \A i \in DOMAIN ch.heap \cup ch.abandoned : Placed(d, i)
<1> DEFINE buffered == DOMAIN ch.heap
           waiting  == buffered \cup ch.abandoned
           stop     == FirstMissing(waiting, e)
           passed   == e .. (stop - 1)
           D        == passed \cap buffered
           run      == Ascending(D)
           c        == Cardinality(D)
           new      == [n \in DOMAIN run |-> <<run[n], ch.heap[run[n]]>>]
<1>1. /\ buffered \subseteq I
      /\ ch.heap \in [buffered -> P]
      /\ ch.abandoned \subseteq I
      /\ ch.log \in Seq(MessageOf(I, P))
      /\ ch.expected \in Nat
  BY DEF ChannelOf
<1>2. I \subseteq Nat /\ IsFiniteSet(I)
  BY DEF Indices
<1>3. /\ stop \in Nat
      /\ stop >= e
      /\ stop \notin waiting
      /\ passed \subseteq waiting
  <2>1. waiting \in SUBSET I
    BY <1>1
  <2>2. waiting \in SUBSET Nat /\ IsFiniteSet(waiting)
    <3>. HIDE DEF waiting
    <3>. QED BY <1>2, <2>1, FS_Subset
  <2>. HIDE DEF waiting
  <2>. QED BY <2>2, FirstMissingIsFirst
<1>4. /\ c \in Nat
      /\ run \in [1 .. c -> D]
      /\ \A i, j \in 1 .. c : i < j => run[i] < run[j]
      /\ \A i \in D : \E n \in 1 .. c : run[n] = i
  <2>1. D \in SUBSET I
    BY <1>1
  <2>2. D \in SUBSET Nat /\ IsFiniteSet(D)
    <3>. HIDE DEF D
    <3>. QED BY <1>2, <2>1, FS_Subset
  <2>. HIDE DEF D
  <2>. QED BY <2>2, AscendingLists
<1>5. /\ new \in Seq(MessageOf(I, P))
      /\ Len(new) = c
      /\ \A n \in 1 .. c : new[n] = <<run[n], ch.heap[run[n]]>>
  <2>1. DOMAIN run = 1 .. c
    <3>. HIDE DEF run, c
    <3>. QED BY <1>4
  <2>2. \A n \in 1 .. c : run[n] \in buffered
    <3>. HIDE DEF run, c, buffered, passed
    <3>. QED BY <1>4
  <2>3. \A n \in 1 .. c : <<run[n], ch.heap[run[n]]>> \in MessageOf(I, P)
    <3>. HIDE DEF run, c, buffered
    <3>. QED BY <1>1, <2>2 DEF MessageOf
  <2>4. new = [n \in 1 .. c |-> <<run[n], ch.heap[run[n]]>>]
    BY <2>1, SMTT(30)
  <2>. HIDE DEF run, c, new
  <2>. QED BY <1>4, <2>3, <2>4
<1>6. /\ d.expected = stop
      /\ d.heap = [i \in buffered \ passed |-> ch.heap[i]]
      /\ d.abandoned = ch.abandoned \ (passed \ buffered)
      /\ d.log = ch.log \o new
      /\ d = [expected |-> d.expected, heap |-> d.heap,
              abandoned |-> d.abandoned, log |-> d.log]
  BY DEF Drain
<1>7. /\ d.log \in Seq(MessageOf(I, P))
      /\ Len(d.log) = Len(ch.log) + c
      /\ \A n \in 1 .. Len(ch.log) : d.log[n] = ch.log[n]
      /\ \A n \in (Len(ch.log) + 1) .. Len(d.log) :
            /\ n - Len(ch.log) \in 1 .. c
            /\ d.log[n] = new[n - Len(ch.log)]
  <2>. HIDE DEF new, c
  <2>. QED BY <1>1, <1>4, <1>5, <1>6, SMTT(30)
<1>. HIDE DEF new, c, run, stop
<1>8. d \in ChannelOf(I, P)
  <2>1. d.heap \in [buffered \ passed -> P] /\ buffered \ passed \subseteq I
    BY <1>1, <1>6
  <2>2. d.abandoned \subseteq I
    BY <1>1, <1>6
  <2>3. d.expected \in Nat
    BY <1>3, <1>6
  <2>. HIDE DEF buffered, passed
  <2>. QED BY <1>6, <1>7, <2>1, <2>2, <2>3 DEF ChannelOf
<1>9. d.expected >= e /\ d.expected \notin DOMAIN d.heap \cup d.abandoned
  BY <1>3, <1>6
<1>10. KeepsBuffer(ch, e, d)
  <2>1. SUFFICES ASSUME NEW i \in DOMAIN d.heap
                 PROVE  /\ i \in DOMAIN ch.heap
                        /\ d.heap[i] = ch.heap[i]
                        /\ (i < e \/ i > d.expected)
    BY DEF KeepsBuffer
  <2>2. i \in buffered \ passed /\ d.heap[i] = ch.heap[i]
    BY <1>6
  <2>3. i \in Nat /\ i # stop
    BY <1>1, <1>2, <1>3, <2>2
  <2>. QED BY <1>3, <1>6, <2>2, <2>3
<1>11. d.abandoned \subseteq ch.abandoned
  BY <1>6
<1>12. LogsBuffered(ch, e, d)
  <2>1. SUFFICES ASSUME NEW n \in NewPositions(ch, d)
                 PROVE  /\ d.log[n][1] \in DOMAIN ch.heap
                        /\ d.log[n] = <<d.log[n][1], ch.heap[d.log[n][1]]>>
                        /\ e <= d.log[n][1] /\ d.log[n][1] < d.expected
    BY DEF LogsBuffered
  <2>2. PICK k \in 1 .. c : d.log[n] = <<run[k], ch.heap[run[k]]>>
    BY <1>5, <1>7 DEF NewPositions
  <2>3. run[k] \in D
    <3>. HIDE DEF D
    <3>. QED BY <1>4
  <2>4. run[k] \in buffered /\ e <= run[k] /\ run[k] < stop
    BY <1>3, <2>3
  <2>. QED BY <1>6, <2>2, <2>4
<1>13. LogsAscending(ch, d)
  <2>1. SUFFICES ASSUME NEW m \in NewPositions(ch, d), NEW n \in NewPositions(ch, d), m < n
                 PROVE  d.log[m][1] < d.log[n][1]
    BY DEF LogsAscending
  <2>2. /\ m - Len(ch.log) \in 1 .. c /\ n - Len(ch.log) \in 1 .. c
        /\ m - Len(ch.log) < n - Len(ch.log)
    BY <1>1, <1>7, <2>1 DEF NewPositions
  <2>3. /\ d.log[m] = new[m - Len(ch.log)]
        /\ d.log[n] = new[n - Len(ch.log)]
    BY <1>7 DEF NewPositions
  <2>4. /\ d.log[m][1] = run[m - Len(ch.log)]
        /\ d.log[n][1] = run[n - Len(ch.log)]
    BY <1>5, <2>2, <2>3
  <2>. HIDE DEF D
  <2>. QED BY <1>4, <2>2, <2>4
<1>14. ExplainsPassed(ch, e, d)
  <2>1. SUFFICES ASSUME NEW i \in e .. (d.expected - 1), i \notin ch.abandoned
                 PROVE  i \in DOMAIN ch.heap /\ \E n \in DOMAIN d.log : d.log[n] = <<i, ch.heap[i]>>
    BY DEF ExplainsPassed
  <2>2. i \in D
    BY <1>3, <1>6, <2>1
  <2>3. PICK k \in 1 .. c : run[k] = i
    <3>. HIDE DEF D
    <3>. QED BY <1>4, <2>2
  <2> DEFINE n == Len(ch.log) + k
  <2>4. /\ Len(ch.log) \in Nat /\ k \in Nat
        /\ n \in (Len(ch.log) + 1) .. Len(d.log)
        /\ n \in DOMAIN d.log
        /\ n - Len(ch.log) = k
    BY <1>1, <1>4, <1>7
  <2>5. d.log[n] = <<i, ch.heap[i]>>
    <3>. HIDE DEF n
    <3>. QED BY <1>5, <1>7, <2>3, <2>4
  <2>. QED BY <2>2, <2>4, <2>5
<1>15. KeepsLog(ch, d)
  BY <1>1, <1>4, <1>7 DEF KeepsLog
<1>16. \A i \in DOMAIN ch.heap \cup ch.abandoned : Placed(d, i)
  <2>1. SUFFICES ASSUME NEW i \in buffered \cup ch.abandoned, ~(i < stop)
                 PROVE  i \in DOMAIN d.heap \cup d.abandoned
    BY <1>6 DEF Placed
  <2>2. i \notin passed
    BY <1>1, <1>2, <1>3, <2>1
  <2>. HIDE DEF buffered, passed
  <2>. QED BY <1>6, <2>1, <2>2
<1>. QED BY <1>8, <1>9, <1>10, <1>11, <1>12, <1>13, <1>14, <1>15, <1>16

-----------------------------------------------------------------------------
(* What holds of a channel that was offered the messages of off and told to   *)
(* give up the indices of gu.  The parts speak of one whose indices below e   *)
(* are decided, so that they can also be stated between the moment deliver    *)
(* pushes the expected message and the moment the drain stops.                *)

LogAscends(ch) == \A m, n \in DOMAIN ch.log : m < n => ch.log[m][1] < ch.log[n][1]
LogBelow(ch, e) == \A n \in DOMAIN ch.log : ch.log[n][1] < e
LogOffered(ch, off) == \A n \in DOMAIN ch.log : ch.log[n] \in off
HeapOffered(ch, off) == \A i \in DOMAIN ch.heap : <<i, ch.heap[i]>> \in off
AbandonedGivenUp(ch, gu) == ch.abandoned \subseteq gu
Explained(ch, e, off, gu) ==
    \A i \in 0 .. (e - 1) :
        i \in gu \/ \E n \in DOMAIN ch.log : ch.log[n][1] = i /\ ch.log[n] \in off
HeapReach(ch, e) == \A i \in DOMAIN ch.heap : i <= e + OrderWindow

Sound(ch, e, off, gu) ==
    /\ LogAscends(ch)
    /\ LogBelow(ch, e)
    /\ LogOffered(ch, off)
    /\ HeapOffered(ch, off)
    /\ AbandonedGivenUp(ch, gu)
    /\ Explained(ch, e, off, gu)
    /\ HeapReach(ch, e)

Healthy(ch, I, P, off, gu) ==
    /\ ch \in ChannelOf(I, P)
    /\ Sound(ch, ch.expected, off, gu)
    /\ \A i \in DOMAIN ch.heap : InWindow(ch, i)
    /\ ch.expected \notin DOMAIN ch.heap \cup ch.abandoned

\* Draining keeps a channel sound, and leaves nothing deliverable behind.
\* Draining keeps a channel sound, and leaves nothing deliverable behind.
LEMMA DrainSound ==
  ASSUME NEW I, Indices(I), NEW P, NEW off, NEW gu,
         NEW ch \in ChannelOf(I, P), NEW e \in Nat,
         NEW d, d = Drain(ch, e),
         Sound(ch, e, off, gu), ch.expected <= e,
         \A i \in DOMAIN ch.heap : i >= e
  PROVE  /\ Healthy(d, I, P, off, gu)
         /\ d.expected >= e
         /\ \A i \in Nat : Placed(ch, i) \/ i < e => Placed(d, i)
<1>1. /\ d \in ChannelOf(I, P)
      /\ d.expected >= e
      /\ d.expected \notin DOMAIN d.heap \cup d.abandoned
      /\ d.abandoned \subseteq ch.abandoned
      /\ KeepsBuffer(ch, e, d)
      /\ KeepsLog(ch, d)
      /\ LogsBuffered(ch, e, d)
      /\ LogsAscending(ch, d)
      /\ ExplainsPassed(ch, e, d)
      /\ \A i \in DOMAIN ch.heap \cup ch.abandoned : Placed(d, i)
  BY DrainProperties
<1>2. /\ ch.log \in Seq(MessageOf(I, P)) /\ d.log \in Seq(MessageOf(I, P))
      /\ d.expected \in Nat
      /\ \A n \in DOMAIN ch.log : ch.log[n][1] \in Nat
      /\ \A n \in DOMAIN d.log : d.log[n][1] \in Nat
      /\ \A i \in DOMAIN ch.heap : i \in Nat
      /\ \A i \in DOMAIN d.heap : i \in Nat
  <2>1. /\ ch.log \in Seq(MessageOf(I, P)) /\ d.log \in Seq(MessageOf(I, P))
        /\ d.expected \in Nat
        /\ DOMAIN ch.heap \subseteq I /\ DOMAIN d.heap \subseteq I
    BY <1>1 DEF ChannelOf
  <2>2. I \subseteq Nat /\ \A msg \in MessageOf(I, P) : msg[1] \in Nat
    BY DEF Indices, MessageOf
  <2>3. /\ \A n \in DOMAIN ch.log : ch.log[n] \in MessageOf(I, P)
        /\ \A n \in DOMAIN d.log : d.log[n] \in MessageOf(I, P)
    BY <2>1, ElementOfSeq, LenProperties
  <2>. QED BY <2>1, <2>2, <2>3
<1>3. /\ DOMAIN ch.log = 1 .. Len(ch.log) /\ Len(ch.log) \in Nat
      /\ DOMAIN d.log = 1 .. Len(d.log) /\ Len(d.log) \in Nat
  BY <1>2, LenProperties
<1>4. \A n \in DOMAIN d.log : \/ n \in DOMAIN ch.log /\ d.log[n] = ch.log[n]
                              \/ n \in NewPositions(ch, d) /\ n \notin DOMAIN ch.log
  BY <1>1, <1>3 DEF KeepsLog, NewPositions
<1>5. LogBelow(d, d.expected)
  <2>1. SUFFICES ASSUME NEW n \in DOMAIN d.log
                 PROVE  d.log[n][1] < d.expected
    BY DEF LogBelow
  <2>2. CASE n \in DOMAIN ch.log /\ d.log[n] = ch.log[n]
    BY <1>1, <1>2, <2>2 DEF Sound, LogBelow
  <2>3. CASE n \in NewPositions(ch, d)
    BY <1>1, <2>3 DEF LogsBuffered
  <2>. QED BY <1>4, <2>2, <2>3
<1>6. LogAscends(d)
  <2>1. SUFFICES ASSUME NEW m \in DOMAIN d.log, NEW n \in DOMAIN d.log, m < n
                 PROVE  d.log[m][1] < d.log[n][1]
    BY DEF LogAscends
  <2>2. CASE n \in DOMAIN ch.log /\ d.log[n] = ch.log[n]
    <3>1. m \in DOMAIN ch.log /\ d.log[m] = ch.log[m]
      BY <1>3, <1>4, <2>1, <2>2 DEF NewPositions
    <3>. QED BY <2>1, <2>2, <3>1 DEF Sound, LogAscends
  <2>3. CASE n \in NewPositions(ch, d)
    <3>1. e <= d.log[n][1]
      BY <1>1, <2>3 DEF LogsBuffered
    <3>2. CASE m \in DOMAIN ch.log /\ d.log[m] = ch.log[m]
      <4>1. d.log[m][1] < e
        BY <3>2 DEF Sound, LogBelow
      <4>. QED BY <1>2, <3>1, <4>1
    <3>3. CASE m \in NewPositions(ch, d)
      BY <1>1, <2>1, <2>3, <3>3 DEF LogsAscending
    <3>. QED BY <1>4, <3>2, <3>3
  <2>. QED BY <1>4, <2>2, <2>3
<1>7. LogOffered(d, off)
  <2>1. SUFFICES ASSUME NEW n \in DOMAIN d.log
                 PROVE  d.log[n] \in off
    BY DEF LogOffered
  <2>2. CASE n \in DOMAIN ch.log /\ d.log[n] = ch.log[n]
    BY <2>2 DEF Sound, LogOffered
  <2>3. CASE n \in NewPositions(ch, d)
    BY <1>1, <2>3 DEF LogsBuffered, Sound, HeapOffered
  <2>. QED BY <1>4, <2>2, <2>3
<1>8. HeapOffered(d, off)
  BY <1>1 DEF KeepsBuffer, Sound, HeapOffered
<1>9. AbandonedGivenUp(d, gu)
  BY <1>1 DEF Sound, AbandonedGivenUp
<1>10. Explained(d, d.expected, off, gu)
  <2>1. SUFFICES ASSUME NEW i \in 0 .. (d.expected - 1), i \notin gu
                 PROVE  \E n \in DOMAIN d.log : d.log[n][1] = i /\ d.log[n] \in off
    BY DEF Explained
  <2>2. CASE i < e
    <3>1. PICK n \in DOMAIN ch.log : ch.log[n][1] = i /\ ch.log[n] \in off
      BY <1>2, <2>1, <2>2 DEF Sound, Explained
    <3>2. n \in DOMAIN d.log /\ d.log[n] = ch.log[n]
      BY <1>1, <1>3 DEF KeepsLog
    <3>. QED BY <3>1, <3>2
  <2>3. CASE i >= e
    <3>1. i \in e .. (d.expected - 1)
      BY <1>2, <2>1, <2>3
    <3>2. i \notin ch.abandoned
      BY <2>1 DEF Sound, AbandonedGivenUp
    <3>3. PICK n \in DOMAIN d.log : d.log[n] = <<i, ch.heap[i]>>
      BY <1>1, <3>1, <3>2 DEF ExplainsPassed
    <3>4. d.log[n] \in off
      BY <1>7 DEF LogOffered
    <3>. QED BY <3>3, <3>4
  <2>. QED BY <1>2, <2>1, <2>2, <2>3
<1>11. HeapReach(d, d.expected) /\ \A i \in DOMAIN d.heap : InWindow(d, i)
  <2>1. SUFFICES ASSUME NEW i \in DOMAIN d.heap
                 PROVE  i > d.expected /\ i <= d.expected + OrderWindow
    BY DEF HeapReach, InWindow
  <2>2. i \in DOMAIN ch.heap /\ (i < e \/ i > d.expected)
    BY <1>1 DEF KeepsBuffer
  <2>3. i >= e /\ i <= e + OrderWindow /\ i \in Nat
    BY <1>2, <2>2 DEF Sound, HeapReach
  <2>. QED BY <1>1, <1>2, <2>2, <2>3, OrderWindowAssumption
<1>12. Sound(d, d.expected, off, gu)
  BY <1>5, <1>6, <1>7, <1>8, <1>9, <1>10, <1>11 DEF Sound
<1>13. ASSUME NEW i \in Nat, Placed(ch, i) \/ i < e
       PROVE  Placed(d, i)
  <2>1. ch.expected <= e
    OBVIOUS
  <2>2. CASE i < e
    BY <1>1, <1>2, <2>2 DEF Placed
  <2>3. CASE i \in DOMAIN ch.heap \cup ch.abandoned
    BY <1>1, <2>3
  <2>4. CASE i < ch.expected
    <3>1. ch.expected \in Nat
      BY DEF ChannelOf
    <3>2. i < e
      BY <2>1, <2>4, <3>1
    <3>. QED BY <2>2, <3>2
  <2>. QED BY <1>13, <2>2, <2>3, <2>4 DEF Placed
<1>. QED BY <1>1, <1>11, <1>12, <1>13 DEF Healthy

Push(ch, p) == [ch EXCEPT !.log = Append(@, <<ch.expected, p>>)]

\* Pushing the expected message keeps the channel sound once its index counts
\* as decided.
LEMMA PushSound ==
  ASSUME NEW I, Indices(I), NEW P, NEW off, NEW gu,
         NEW ch, Healthy(ch, I, P, off, gu), NEW p \in P,
         ch.expected \in I, <<ch.expected, p>> \in off,
         NEW e, e = ch.expected + 1,
         NEW c1, c1 = Push(ch, p)
  PROVE  /\ c1 \in ChannelOf(I, P)
         /\ Sound(c1, e, off, gu)
         /\ \A i \in DOMAIN c1.heap : i >= e
<1> DEFINE m == <<ch.expected, p>>
<1>0. /\ ch \in ChannelOf(I, P)
      /\ Sound(ch, ch.expected, off, gu)
      /\ \A i \in DOMAIN ch.heap : InWindow(ch, i)
  BY DEF Healthy
<1>1. /\ ch.expected \in Nat
      /\ ch.log \in Seq(MessageOf(I, P))
      /\ DOMAIN ch.heap \subseteq I
      /\ I \subseteq Nat
      /\ \A n \in DOMAIN ch.log : ch.log[n][1] \in Nat
  <2>1. ch.expected \in Nat /\ ch.log \in Seq(MessageOf(I, P)) /\ DOMAIN ch.heap \subseteq I
    BY <1>0 DEF ChannelOf
  <2>2. I \subseteq Nat /\ \A msg \in MessageOf(I, P) : msg[1] \in Nat
    BY DEF Indices, MessageOf
  <2>3. \A n \in DOMAIN ch.log : ch.log[n] \in MessageOf(I, P)
    BY <2>1, ElementOfSeq, LenProperties
  <2>. QED BY <2>1, <2>2, <2>3
<1>2. /\ c1.expected = ch.expected
      /\ c1.heap = ch.heap
      /\ c1.abandoned = ch.abandoned
      /\ c1.log = Append(ch.log, m)
      /\ c1 \in ChannelOf(I, P)
  <2>1. m \in MessageOf(I, P)
    BY DEF MessageOf
  <2>2. Append(ch.log, m) \in Seq(MessageOf(I, P))
    <3>. HIDE DEF m
    <3>. QED BY <1>1, <2>1
  <2>. QED BY <1>0, <2>2 DEF ChannelOf, Push
<1>3. /\ DOMAIN ch.log = 1 .. Len(ch.log) /\ Len(ch.log) \in Nat
      /\ DOMAIN c1.log = 1 .. (Len(ch.log) + 1)
      /\ \A n \in DOMAIN ch.log : c1.log[n] = ch.log[n]
      /\ c1.log[Len(ch.log) + 1] = m
  <2>1. m \in MessageOf(I, P)
    BY DEF MessageOf
  <2>. HIDE DEF m
  <2>. QED BY <1>1, <1>2, <2>1
<1>4. \A n \in DOMAIN c1.log :
          \/ n \in DOMAIN ch.log /\ c1.log[n] = ch.log[n]
          \/ n = Len(ch.log) + 1 /\ c1.log[n] = m
  <2>. HIDE DEF m
  <2>. QED BY <1>3
<1>5. LogBelow(c1, ch.expected + 1)
  <2>1. SUFFICES ASSUME NEW n \in DOMAIN c1.log
                 PROVE  c1.log[n][1] < ch.expected + 1
    BY DEF LogBelow
  <2>2. CASE n \in DOMAIN ch.log /\ c1.log[n] = ch.log[n]
    BY <1>0, <1>1, <2>2 DEF Sound, LogBelow
  <2>3. CASE c1.log[n] = m
    BY <1>1, <2>3
  <2>. QED BY <1>4, <2>2, <2>3
<1>6. LogAscends(c1)
  <2>1. SUFFICES ASSUME NEW j \in DOMAIN c1.log, NEW n \in DOMAIN c1.log, j < n
                 PROVE  c1.log[j][1] < c1.log[n][1]
    BY DEF LogAscends
  <2>2. j \in DOMAIN ch.log /\ c1.log[j] = ch.log[j]
    BY <1>3, <2>1
  <2>3. CASE n \in DOMAIN ch.log /\ c1.log[n] = ch.log[n]
    BY <1>0, <2>1, <2>2, <2>3 DEF Sound, LogAscends
  <2>4. CASE c1.log[n] = m
    BY <1>0, <2>2, <2>4 DEF Sound, LogBelow
  <2>. QED BY <1>4, <2>3, <2>4
<1>7. LogOffered(c1, off)
  BY <1>0, <1>4 DEF Sound, LogOffered
<1>8. HeapOffered(c1, off) /\ AbandonedGivenUp(c1, gu)
  BY <1>0, <1>2 DEF Sound, HeapOffered, AbandonedGivenUp
<1>9. Explained(c1, ch.expected + 1, off, gu)
  <2>1. SUFFICES ASSUME NEW k \in 0 .. ((ch.expected + 1) - 1), k \notin gu
                 PROVE  \E n \in DOMAIN c1.log : c1.log[n][1] = k /\ c1.log[n] \in off
    BY DEF Explained
  <2>2. CASE k = ch.expected
    <3>1. Len(ch.log) + 1 \in DOMAIN c1.log /\ c1.log[Len(ch.log) + 1][1] = k
      BY <1>3, <2>2
    <3>. QED BY <1>7, <3>1 DEF LogOffered
  <2>3. CASE k # ch.expected
    <3>1. k \in 0 .. (ch.expected - 1)
      BY <1>1, <2>1, <2>3
    <3>2. PICK n \in DOMAIN ch.log : ch.log[n][1] = k /\ ch.log[n] \in off
      BY <1>0, <2>1, <3>1 DEF Sound, Explained
    <3>. QED BY <1>3, <3>2
  <2>. QED BY <2>2, <2>3
<1>10. HeapReach(c1, ch.expected + 1) /\ \A k \in DOMAIN c1.heap : k >= ch.expected + 1
  <2>1. SUFFICES ASSUME NEW k \in DOMAIN c1.heap
                 PROVE  k <= (ch.expected + 1) + OrderWindow /\ k >= ch.expected + 1
    BY DEF HeapReach
  <2>2. k \in Nat /\ k > ch.expected /\ k <= ch.expected + OrderWindow
    BY <1>0, <1>1, <1>2 DEF InWindow
  <2>. QED BY <1>1, <2>2, OrderWindowAssumption
<1>. QED BY <1>2, <1>5, <1>6, <1>7, <1>8, <1>9, <1>10 DEF Sound

-----------------------------------------------------------------------------
(* The two operations.                                                       *)

\* More offers, and more that was given up, leave a channel healthy.
LEMMA HealthyMore ==
  ASSUME NEW I, NEW P, NEW off, NEW gu, NEW ch, Healthy(ch, I, P, off, gu),
         NEW off2, off \subseteq off2, NEW gu2, gu \subseteq gu2
  PROVE  Healthy(ch, I, P, off2, gu2)
<1>1. Sound(ch, ch.expected, off2, gu2)
  <2>1. Sound(ch, ch.expected, off, gu)
    BY DEF Healthy
  <2>2. LogOffered(ch, off2) /\ HeapOffered(ch, off2) /\ AbandonedGivenUp(ch, gu2)
    BY <2>1 DEF Sound, LogOffered, HeapOffered, AbandonedGivenUp
  <2>3. Explained(ch, ch.expected, off2, gu2)
    BY <2>1 DEF Sound, Explained
  <2>. QED BY <2>1, <2>2, <2>3 DEF Sound
<1>. QED BY <1>1 DEF Healthy

LEMMA EmptyIsHealthy ==
  ASSUME NEW I, NEW P, NEW off, NEW gu
  PROVE  Healthy(EmptyChannel, I, P, off, gu)
<1>1. /\ EmptyChannel.expected = 0 /\ EmptyChannel.heap = << >>
      /\ EmptyChannel.abandoned = {} /\ EmptyChannel.log = << >>
  BY DEF EmptyChannel
<1>2. DOMAIN EmptyChannel.heap = {} /\ DOMAIN EmptyChannel.log = {}
  BY <1>1
<1>3. EmptyChannel \in ChannelOf(I, P)
  <2>1. << >> \in [{} -> P] /\ << >> \in Seq(MessageOf(I, P))
    OBVIOUS
  <2>2. << >> \in UNION {[D -> P] : D \in SUBSET I}
    BY <2>1
  <2>. QED BY <2>1, <2>2 DEF EmptyChannel, ChannelOf
<1>4. Sound(EmptyChannel, EmptyChannel.expected, off, gu)
  BY <1>1, <1>2 DEF Sound, LogAscends, LogBelow, LogOffered, HeapOffered,
                    AbandonedGivenUp, Explained, HeapReach
<1>. QED BY <1>1, <1>2, <1>3, <1>4 DEF Healthy

\* d holds all that ch holds, and i too if it is not too far ahead.
Takes(ch, d, i) ==
    /\ d.expected >= ch.expected
    /\ \A j \in Nat : Placed(ch, j) => Placed(d, j)
    /\ i <= ch.expected + OrderWindow => Placed(d, i)

\* A message that was offered may be delivered, at any time and again.
LEMMA DeliverHealthy ==
  ASSUME NEW I, Indices(I), NEW P, NEW off, NEW gu, NEW ch, Healthy(ch, I, P, off, gu),
         NEW i \in I, NEW p \in P, <<i, p>> \in off,
         NEW d, d = DeliverOrdered(ch, i, p)
  PROVE  Healthy(d, I, P, off, gu) /\ Takes(ch, d, i)
<1>1. /\ ch \in ChannelOf(I, P) /\ ch.expected \in Nat /\ i \in Nat
      /\ DOMAIN ch.heap \subseteq I /\ DOMAIN ch.heap \subseteq Nat
      /\ Sound(ch, ch.expected, off, gu)
      /\ \A k \in DOMAIN ch.heap : InWindow(ch, k)
      /\ ch.expected \notin DOMAIN ch.heap \cup ch.abandoned
  BY DEF Healthy, ChannelOf, Indices
<1>2. CASE i = ch.expected
  <2> DEFINE c1 == Push(ch, p)
             e == ch.expected + 1
  <2>1. d = Drain(c1, e)
    BY <1>2 DEF DeliverOrdered, Push
  <2>2. /\ c1 \in ChannelOf(I, P)
        /\ Sound(c1, e, off, gu)
        /\ \A k \in DOMAIN c1.heap : k >= e
    <3>1. c1 = Push(ch, p) /\ e = ch.expected + 1
      OBVIOUS
    <3>2. ch.expected \in I /\ <<ch.expected, p>> \in off
      BY <1>2
    <3>. HIDE DEF c1, e
    <3>. QED BY <3>1, <3>2, PushSound
  <2>3. c1.expected = ch.expected /\ c1.heap = ch.heap /\ c1.abandoned = ch.abandoned
    BY <1>1 DEF ChannelOf, Push
  <2>. HIDE DEF c1
  <2>4. /\ Healthy(d, I, P, off, gu)
        /\ d.expected >= e
        /\ \A j \in Nat : Placed(c1, j) \/ j < e => Placed(d, j)
    <3>1. e \in Nat /\ c1.expected <= e
      BY <1>1, <2>3
    <3>. HIDE DEF e
    <3>. QED BY <2>1, <2>2, <3>1, DrainSound
  <2>5. d.expected \in Nat
    BY <2>4 DEF Healthy, ChannelOf
  <2>6. d.expected >= ch.expected /\ i < e
    BY <1>1, <1>2, <2>4, <2>5
  <2>7. Placed(d, i) /\ \A j \in Nat : Placed(ch, j) => Placed(d, j)
    BY <1>1, <2>3, <2>4, <2>6 DEF Placed
  <2>. QED BY <2>4, <2>6, <2>7 DEF Takes
<1>3. CASE i # ch.expected /\ InWindow(ch, i)
  <2> DEFINE h == [j \in DOMAIN ch.heap \cup {i} |-> IF j = i THEN p ELSE ch.heap[j]]
  <2>1. d = [ch EXCEPT !.heap = h]
    BY <1>3 DEF DeliverOrdered
  <2>2. /\ d.expected = ch.expected
        /\ d.log = ch.log
        /\ d.abandoned = ch.abandoned
        /\ d.heap = h
        /\ DOMAIN h = DOMAIN ch.heap \cup {i}
    BY <1>1, <2>1 DEF ChannelOf
  <2>3. d \in ChannelOf(I, P)
    <3>1. h \in [DOMAIN ch.heap \cup {i} -> P] /\ DOMAIN ch.heap \cup {i} \subseteq I
      BY <1>1 DEF ChannelOf
    <3>. HIDE DEF h
    <3>. QED BY <1>1, <2>1, <3>1, ZenonT(40) DEF ChannelOf
  <2>4. /\ LogAscends(d) /\ LogBelow(d, d.expected)
        /\ LogOffered(d, off) /\ AbandonedGivenUp(d, gu)
    BY <1>1, <2>2 DEF Sound, LogAscends, LogBelow, LogOffered, AbandonedGivenUp
  <2>5. HeapOffered(d, off)
    BY <1>1, <2>2 DEF Sound, HeapOffered
  <2>. HIDE DEF h
  <2>6. Explained(d, d.expected, off, gu)
    BY <1>1, <2>2 DEF Sound, Explained
  <2>7. /\ HeapReach(d, d.expected)
        /\ \A k \in DOMAIN d.heap : InWindow(d, k)
        /\ d.expected \notin DOMAIN d.heap \cup d.abandoned
    BY <1>1, <1>3, <2>2 DEF InWindow, HeapReach
  <2>8. Takes(ch, d, i)
    BY <1>1, <2>2 DEF Takes, Placed
  <2>. QED BY <2>3, <2>4, <2>5, <2>6, <2>7, <2>8 DEF Sound, Healthy
<1>4. CASE i # ch.expected /\ ~ InWindow(ch, i)
  <2>1. d = ch
    BY <1>4 DEF DeliverOrdered
  <2>2. Takes(ch, d, i)
    BY <1>1, <1>4, <2>1 DEF Takes, Placed, InWindow
  <2>. QED BY <2>1, <2>2
<1>. QED BY <1>2, <1>3, <1>4

\* So may an index that was given up be abandoned.
LEMMA AbandonHealthy ==
  ASSUME NEW I, Indices(I), NEW P, NEW off, NEW gu, NEW ch, Healthy(ch, I, P, off, gu),
         NEW i \in I, i \in gu, NEW d, d = AbandonOrdered(ch, i)
  PROVE  Healthy(d, I, P, off, gu) /\ Takes(ch, d, i)
<1>1. /\ ch \in ChannelOf(I, P) /\ ch.expected \in Nat /\ i \in Nat
      /\ ch.log \in Seq(MessageOf(I, P))
      /\ DOMAIN ch.heap \subseteq Nat
      /\ Sound(ch, ch.expected, off, gu)
      /\ \A k \in DOMAIN ch.heap : InWindow(ch, k)
      /\ ch.expected \notin DOMAIN ch.heap \cup ch.abandoned
  BY DEF Healthy, ChannelOf, Indices
<1>2. CASE i = ch.expected
  <2> DEFINE e == ch.expected + 1
  <2>1. d = Drain(ch, e)
    BY <1>2 DEF AbandonOrdered
  <2>2. Explained(ch, e, off, gu)
    <3>1. \A k \in 0 .. (e - 1) : k # i => k \in 0 .. (ch.expected - 1)
      BY <1>1, <1>2
    <3>. QED BY <1>1, <3>1 DEF Sound, Explained
  <2>3. LogBelow(ch, e)
    <3>1. \A n \in DOMAIN ch.log : ch.log[n][1] \in Nat
      <4>1. \A msg \in MessageOf(I, P) : msg[1] \in Nat
        BY DEF MessageOf, Indices
      <4>. QED BY <1>1, <4>1, ElementOfSeq, LenProperties
    <3>. QED BY <1>1, <3>1 DEF Sound, LogBelow
  <2>4. HeapReach(ch, e) /\ \A k \in DOMAIN ch.heap : k >= e
    <3>1. SUFFICES ASSUME NEW k \in DOMAIN ch.heap
                   PROVE  k <= e + OrderWindow /\ k >= e
      BY DEF HeapReach
    <3>2. k \in Nat /\ k > ch.expected /\ k <= ch.expected + OrderWindow
      BY <1>1 DEF InWindow
    <3>. QED BY <1>1, <3>2, OrderWindowAssumption
  <2>5. Sound(ch, e, off, gu)
    BY <1>1, <2>2, <2>3, <2>4 DEF Sound
  <2>6. /\ Healthy(d, I, P, off, gu)
        /\ d.expected >= e
        /\ \A j \in Nat : Placed(ch, j) \/ j < e => Placed(d, j)
    <3>1. e \in Nat /\ ch.expected <= e
      BY <1>1
    <3>. HIDE DEF e
    <3>. QED BY <1>1, <2>1, <2>4, <2>5, <3>1, DrainSound
  <2>7. d.expected \in Nat
    BY <2>6 DEF Healthy, ChannelOf
  <2>8. d.expected >= ch.expected /\ i < e
    BY <1>1, <1>2, <2>6, <2>7
  <2>. QED BY <1>1, <2>6, <2>8 DEF Takes
<1>3. CASE i # ch.expected /\ InWindow(ch, i)
  <2>1. d = [ch EXCEPT !.abandoned = ch.abandoned \cup {i}]
    BY <1>3 DEF AbandonOrdered
  <2>2. /\ d.expected = ch.expected
        /\ d.log = ch.log
        /\ d.heap = ch.heap
        /\ d.abandoned = ch.abandoned \cup {i}
        /\ d \in ChannelOf(I, P)
    BY <1>1, <2>1 DEF ChannelOf
  <2>3. Explained(d, d.expected, off, gu)
    BY <1>1, <2>2 DEF Sound, Explained
  <2>4. AbandonedGivenUp(d, gu)
    BY <1>1, <2>2 DEF Sound, AbandonedGivenUp
  <2>5. Sound(d, d.expected, off, gu)
    BY <1>1, <2>2, <2>3, <2>4
       DEF Sound, LogAscends, LogBelow, LogOffered, HeapOffered, HeapReach
  <2>6. /\ \A k \in DOMAIN d.heap : InWindow(d, k)
        /\ d.expected \notin DOMAIN d.heap \cup d.abandoned
    BY <1>1, <1>3, <2>2 DEF InWindow
  <2>7. Takes(ch, d, i)
    BY <1>1, <2>2 DEF Takes, Placed
  <2>. QED BY <2>2, <2>5, <2>6, <2>7 DEF Healthy
<1>4. CASE i # ch.expected /\ ~ InWindow(ch, i)
  <2>1. d = ch
    BY <1>4 DEF AbandonOrdered
  <2>2. Takes(ch, d, i)
    BY <1>1, <1>4, <2>1 DEF Takes, Placed, InWindow
  <2>. QED BY <2>1, <2>2
<1>. QED BY <1>2, <1>3, <1>4
=============================================================================
