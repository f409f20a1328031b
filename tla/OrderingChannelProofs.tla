------------------------ MODULE OrderingChannelProofs ------------------------
(* Proofs about OrderingChannel: that the channel is in order, complete and   *)
(* prompt for every window, payload set and index bound, and that it          *)
(* implements the abstract ordered stream.                                    *)
EXTENDS OrderingChannel, ChannelOpsProofs

-----------------------------------------------------------------------------
(* The inductive invariant: the channel is healthy for what was offered and   *)
(* given up.                                                                  *)

IInv == TypeOK /\ Healthy(chan, Index, Payload, offered, givenUp)

LEMMA TheIndices == Indices(Index)
  BY MaxIndexAssumption, FS_Interval DEF Indices, Index

LEMMA TheChannels == Channel = ChannelOf(Index, Payload) /\ Message = MessageOf(Index, Payload)
  BY DEF Channel, ChannelOf, Message, MessageOf

\* deliver preserves the invariant.
LEMMA DeliverPreserves ==
  ASSUME IInv, NEW i \in Index, NEW p \in Payload, Deliver(i, p)
  PROVE  IInv'
<1>1. /\ chan' = DeliverOrdered(chan, i, p)
      /\ offered' = offered \cup {<<i, p>>}
      /\ givenUp' = givenUp
  BY DEF Deliver
<1>2. Healthy(chan, Index, Payload, offered', givenUp')
  BY <1>1, HealthyMore DEF IInv
<1>3. Healthy(chan', Index, Payload, offered', givenUp')
  <2>1. <<i, p>> \in offered'
    BY <1>1
  <2>. QED BY <1>1, <1>2, <2>1, TheIndices, DeliverHealthy
<1>4. chan' \in Channel
  BY <1>3, TheChannels DEF Healthy
<1>5. offered' \in SUBSET Message /\ givenUp' \in SUBSET Index
  BY <1>1 DEF IInv, TypeOK, Message
<1>. QED BY <1>3, <1>4, <1>5 DEF IInv, TypeOK

\* abandon_ordered preserves the invariant.
LEMMA AbandonPreserves ==
  ASSUME IInv, NEW i \in Index, Abandon(i)
  PROVE  IInv'
<1>1. /\ chan' = AbandonOrdered(chan, i)
      /\ offered' = offered
      /\ givenUp' = givenUp \cup {i}
  BY DEF Abandon
<1>2. Healthy(chan, Index, Payload, offered', givenUp')
  BY <1>1, HealthyMore DEF IInv
<1>3. Healthy(chan', Index, Payload, offered', givenUp')
  <2>1. i \in givenUp'
    BY <1>1
  <2>. QED BY <1>1, <1>2, <2>1, TheIndices, AbandonHealthy
<1>4. chan' \in Channel
  BY <1>3, TheChannels DEF Healthy
<1>5. offered' \in SUBSET Message /\ givenUp' \in SUBSET Index
  BY <1>1 DEF IInv, TypeOK
<1>. QED BY <1>3, <1>4, <1>5 DEF IInv, TypeOK

\* The invariant holds throughout.
LEMMA InvariantHolds == Spec => []IInv
<1>1. Init => IInv
  <2>1. SUFFICES ASSUME Init
                 PROVE  IInv
    OBVIOUS
  <2>2. chan = EmptyChannel /\ offered = {} /\ givenUp = {}
    BY <2>1 DEF Init
  <2>3. Healthy(chan, Index, Payload, offered, givenUp)
    BY <2>2, EmptyIsHealthy
  <2>. QED BY <2>2, <2>3, TheChannels DEF IInv, TypeOK, Healthy
<1>2. IInv /\ [Next]_vars => IInv'
  <2>1. SUFFICES ASSUME IInv, [Next]_vars
                 PROVE  IInv'
    OBVIOUS
  <2>2. ASSUME NEW i \in Index, NEW p \in Payload, Deliver(i, p)
        PROVE  IInv'
    BY <2>1, <2>2, DeliverPreserves
  <2>3. ASSUME NEW i \in Index, Abandon(i)
        PROVE  IInv'
    BY <2>1, <2>3, AbandonPreserves
  <2>4. CASE UNCHANGED vars
    BY <2>1, <2>4 DEF vars, IInv, TypeOK
  <2>. QED BY <2>1, <2>2, <2>3, <2>4 DEF Next, Index
<1>. QED BY <1>1, <1>2, PTL DEF Spec

-----------------------------------------------------------------------------
(* The theorems.                                                             *)

\* The channel record, its heap, marks and log stay well-typed.
THEOREM TypeCorrect == Spec => []TypeOK
<1>1. IInv => TypeOK
  BY DEF IInv
<1>. QED BY <1>1, InvariantHolds, PTL

\* For every window, payload set and number of messages, and whatever the
\* order and repetition of arrivals, the application sees each index at most
\* once and in ascending order.
THEOREM OrderedDelivery == Spec => []InOrderAtMostOnce
<1>1. IInv => InOrderAtMostOnce
  BY DEF IInv, Healthy, Sound, LogAscends, InOrderAtMostOnce
<1>. QED BY <1>1, InvariantHolds, PTL

\* The channel never moves past an index silently.
THEOREM NoSilentGap == Spec => []PassedIsExplained
<1>1. IInv => PassedIsExplained
  BY DEF IInv, Healthy, Sound, Explained, PassedIsExplained
<1>. QED BY <1>1, InvariantHolds, PTL

\* A message that can be delivered is delivered in the step that made it so,
\* and what waits is within the window.
THEOREM PromptDelivery == Spec => [](NothingDeliverableWaits /\ HeapInWindow)
<1>1. IInv => NothingDeliverableWaits /\ HeapInWindow
  BY DEF IInv, Healthy, NothingDeliverableWaits, HeapInWindow
<1>. QED BY <1>1, InvariantHolds, PTL

-----------------------------------------------------------------------------
(* Refinement.                                                               *)

\* A drain that starts one past the frontier, after at most the expected
\* message was pushed, is a step of the abstract stream.
LEMMA DrainAdvances ==
  ASSUME NEW ch \in Channel, NEW c1 \in Channel, NEW d, d = Drain(c1, ch.expected + 1),
         \/ c1.log = ch.log
         \/ \E m \in Message : m[1] = ch.expected /\ c1.log = Append(ch.log, m)
  PROVE  /\ d.expected \in Nat /\ d.expected > ch.expected
         /\ d.log \in Seq(Message)
         /\ Len(d.log) >= Len(ch.log)
         /\ SubSeq(d.log, 1, Len(ch.log)) = ch.log
         /\ Stream!AscendingBetween(Stream!Added(ch.log, d.log), ch.expected, d.expected)
<1> DEFINE e == ch.expected + 1
           L == Len(ch.log)
           N == Len(d.log)
<1>1. /\ ch.expected \in Nat /\ e \in Nat
      /\ ch.log \in Seq(Message) /\ c1.log \in Seq(Message)
  BY DEF Channel
<1>2. /\ d \in Channel
      /\ d.expected >= e
      /\ KeepsLog(c1, d)
      /\ LogsBuffered(c1, e, d)
      /\ LogsAscending(c1, d)
  <2>1. d = Drain(c1, e)
    OBVIOUS
  <2>. HIDE DEF e
  <2>. QED BY <1>1, <2>1, TheIndices, TheChannels, DrainProperties
<1>3. d.expected \in Nat /\ d.log \in Seq(Message) /\ d.expected > ch.expected
  BY <1>1, <1>2 DEF Channel
<1>4. /\ L \in Nat /\ N \in Nat /\ Len(c1.log) \in Nat
      /\ DOMAIN d.log = 1 .. N
  BY <1>1, <1>3, LenProperties
<1>5. /\ Len(c1.log) >= L
      /\ \A n \in 1 .. L : c1.log[n] = ch.log[n]
      /\ \A n \in (L + 1) .. Len(c1.log) : n = Len(c1.log) /\ c1.log[n][1] = ch.expected
  <2>1. CASE c1.log = ch.log
    BY <1>4, <2>1
  <2>2. ASSUME NEW m \in Message, m[1] = ch.expected, c1.log = Append(ch.log, m)
        PROVE  /\ Len(c1.log) = L + 1
               /\ \A n \in 1 .. L : c1.log[n] = ch.log[n]
               /\ c1.log[L + 1] = m
    BY <1>1, <2>2
  <2>. QED BY <1>4, <2>1, <2>2
<1>6. N >= L /\ \A n \in 1 .. L : d.log[n] = ch.log[n]
  BY <1>2, <1>4, <1>5 DEF KeepsLog
<1>7. SubSeq(d.log, 1, L) = ch.log
  <2>1. \A n \in 1 .. L : d.log[n] \in Message
    BY <1>1, <1>6, ElementOfSeq
  <2>2. /\ SubSeq(d.log, 1, L) \in Seq(Message)
        /\ Len(SubSeq(d.log, 1, L)) = L
        /\ \A n \in 1 .. L : SubSeq(d.log, 1, L)[n] = d.log[n]
    <3>. HIDE DEF L
    <3>. QED BY <1>4, <2>1, SubSeqProperties
  <2>. QED BY <1>1, <1>4, <1>6, <2>2, SeqEqual
<1>8. \A n \in (L + 1) .. N :
          /\ ch.expected <= d.log[n][1] /\ d.log[n][1] < d.expected
          /\ \A m \in (L + 1) .. N : m < n => d.log[m][1] < d.log[n][1]
  <2>1. SUFFICES ASSUME NEW n \in (L + 1) .. N
                 PROVE  /\ ch.expected <= d.log[n][1] /\ d.log[n][1] < d.expected
                        /\ \A m \in (L + 1) .. N : m < n => d.log[m][1] < d.log[n][1]
    OBVIOUS
  <2>2. \A m \in (L + 1) .. N : \/ m = Len(c1.log) /\ d.log[m][1] = ch.expected
                                \/ m \in NewPositions(c1, d) /\ m > Len(c1.log)
    BY <1>2, <1>4, <1>5 DEF KeepsLog, NewPositions
  <2>3. \A m \in NewPositions(c1, d) : /\ d.log[m][1] \in DOMAIN c1.heap
                                       /\ e <= d.log[m][1] /\ d.log[m][1] < d.expected
    BY <1>2 DEF LogsBuffered
  <2>4. DOMAIN c1.heap \subseteq Nat
    <3>1. DOMAIN c1.heap \subseteq Index
      BY DEF Channel
    <3>. QED BY <3>1, MaxIndexAssumption DEF Index
  <2>5. CASE n = Len(c1.log) /\ d.log[n][1] = ch.expected
    BY <1>3, <1>1, <1>4, <2>2, <2>5
  <2>6. CASE n \in NewPositions(c1, d) /\ n > Len(c1.log)
    <3>1. /\ ch.expected < d.log[n][1] /\ d.log[n][1] < d.expected
          /\ ch.expected <= d.log[n][1]
      BY <1>1, <2>3, <2>4, <2>6, SMTT(30)
    <3>2. ASSUME NEW m \in (L + 1) .. N, m < n
          PROVE  d.log[m][1] < d.log[n][1]
      <4>1. CASE d.log[m][1] = ch.expected
        BY <3>1, <4>1
      <4>2. CASE m \in NewPositions(c1, d)
        BY <1>2, <2>6, <3>2, <4>2 DEF LogsAscending
      <4>. QED BY <2>2, <4>1, <4>2
    <3>. QED BY <3>1, <3>2
  <2>. QED BY <2>2, <2>5, <2>6
<1>9. Stream!AscendingBetween(Stream!Added(ch.log, d.log), ch.expected, d.expected)
  <2> DEFINE new == SubSeq(d.log, L + 1, N)
  <2>1. \A n \in (L + 1) .. N : d.log[n] \in Message
    BY <1>3, <1>4, ElementOfSeq
  <2>2. /\ new \in Seq(Message)
        /\ Len(new) = IF L + 1 <= N THEN N - (L + 1) + 1 ELSE 0
        /\ \A n \in 1 .. (N - (L + 1) + 1) : new[n] = d.log[(L + 1) + n - 1]
    <3>. HIDE DEF L, N
    <3>. QED BY <1>4, <2>1, SubSeqProperties
  <2>3. DOMAIN new = 1 .. (N - L)
    <3>. HIDE DEF L, N, new
    <3>. QED BY <1>4, <1>6, <2>2, LenProperties
  <2>4. \A n \in DOMAIN new : new[n] = d.log[L + n] /\ L + n \in (L + 1) .. N /\ n \in Nat
    <3>. HIDE DEF L, N, new
    <3>. QED BY <1>4, <1>6, <2>2, <2>3
  <2>5. \A n \in DOMAIN new : ch.expected <= new[n][1] /\ new[n][1] < d.expected
    <3>. HIDE DEF L, N, new
    <3>. QED BY <1>8, <2>4
  <2>6. \A m, n \in DOMAIN new : m < n => new[m][1] < new[n][1]
    <3>. HIDE DEF L, N, new
    <3>. QED BY <1>4, <1>8, <2>4, SMTT(30)
  <2>. HIDE DEF new
  <2>7. Stream!Added(ch.log, d.log) = new
    BY DEF Stream!Added, new
  <2>. QED BY <2>5, <2>6, <2>7 DEF Stream!AscendingBetween
<1>. QED BY <1>3, <1>6, <1>7, <1>9

\* The channel implements the abstract stream: every step moves the frontier
\* and extends the log as the stream may, or leaves both alone.
THEOREM Refinement == Spec => ImplementsStream
<1>1. Init => Stream!Init
  BY DEF Init, EmptyChannel, Stream!Init
<1>2. IInv /\ [Next]_vars => [Stream!Advance]_<<chan.expected, chan.log>>
  <2>1. SUFFICES ASSUME IInv, [Next]_vars
                 PROVE  Stream!Advance \/ UNCHANGED <<chan.expected, chan.log>>
    OBVIOUS
  <2>2. chan \in Channel
    BY <2>1 DEF IInv, TypeOK
  <2>3. ASSUME NEW i \in Index, NEW p \in Payload, Deliver(i, p)
        PROVE  Stream!Advance \/ UNCHANGED <<chan.expected, chan.log>>
    <3>1. CASE i = chan.expected
      <4> DEFINE c1 == [chan EXCEPT !.log = Append(@, <<i, p>>)]
      <4>1. chan' = Drain(c1, chan.expected + 1)
        BY <2>3, <3>1 DEF Deliver, DeliverOrdered
      <4>2. <<i, p>> \in Message
        BY DEF Message
      <4>3. c1 \in Channel /\ c1.log = Append(chan.log, <<i, p>>)
        <5>1. Append(chan.log, <<i, p>>) \in Seq(Message)
          <6>1. chan.log \in Seq(Message)
            BY <2>2 DEF Channel
          <6>. QED BY <4>2, <6>1
        <5>. QED BY <2>2, <5>1 DEF Channel
      <4>4. \E m \in Message : m[1] = chan.expected /\ c1.log = Append(chan.log, m)
        <5>. HIDE DEF c1
        <5>. QED BY <3>1, <4>2, <4>3
      <4>. HIDE DEF c1
      <4>. QED BY <2>2, <4>1, <4>3, <4>4, DrainAdvances DEF Stream!Advance
    <3>2. CASE i # chan.expected
      BY <2>2, <2>3, <3>2 DEF Deliver, DeliverOrdered, Channel
    <3>. QED BY <3>1, <3>2
  <2>4. ASSUME NEW i \in Index, Abandon(i)
        PROVE  Stream!Advance \/ UNCHANGED <<chan.expected, chan.log>>
    <3>1. CASE i = chan.expected
      <4>1. chan' = Drain(chan, chan.expected + 1)
        BY <2>4, <3>1 DEF Abandon, AbandonOrdered
      <4>. QED BY <2>2, <4>1, DrainAdvances DEF Stream!Advance
    <3>2. CASE i # chan.expected
      BY <2>2, <2>4, <3>2 DEF Abandon, AbandonOrdered, Channel
    <3>. QED BY <3>1, <3>2
  <2>5. CASE UNCHANGED vars
    BY <2>5 DEF vars
  <2>. QED BY <2>1, <2>3, <2>4, <2>5 DEF Next, Index
<1>. QED BY <1>1, <1>2, InvariantHolds, PTL DEF Spec, ImplementsStream, Stream!Spec, Stream!vars
=============================================================================
