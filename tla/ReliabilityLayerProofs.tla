------------------------ MODULE ReliabilityLayerProofs ------------------------
(* Proofs about ReliabilityLayer, for every window, limit, message set and    *)
(* bound: its type; that no acknowledgement frees a packet the receiver did   *)
(* not take; that channels skip nothing; and, while split ids do not repeat,  *)
(* that payloads arrive intact, at most once unless plain Reliable, sequenced *)
(* ones never stale, and that what a channel waits for is on its way.         *)
EXTENDS ReliabilityLayer, ChannelOpsProofs

\* What is tracked under a number is what was sent under it.
ResendMatchesData == \A n \in DOMAIN resend : resend[n].packet = data[n]

\* The receiver has answered for a number: it accepted the packet or refused
\* it as too old.
Answered(n) == n \in processed \/ TooOld(n)

\* Only answered numbers are acknowledged.
AcksAnswered == /\ \A n \in ack_queue : Answered(n)
                /\ \A numbers \in acks : \A n \in numbers : Answered(n)

\* The inductive invariant.  AckedWasAccepted alone is not inductive: an
\* acknowledgement in flight must name answered numbers, and the entry it
\* frees must hold the packet of its number.
IInv == /\ TypeOK
        /\ ResendMatchesData
        /\ AcksAnswered
        /\ AckedWasAccepted

-----------------------------------------------------------------------------
\* The packets of one message are packets.
LEMMA OutPacketsType ==
  ASSUME TypeOK, Len(sent) < MaxMessages,
         NEW o \in Outgoing, NEW index \in Nat
  PROVE  OutPackets(Len(sent) + 1, o, index) \in Seq(Packet)
<1>1. /\ o.reliability \in Reliability /\ o.channel \in Channels
      /\ o.chunks \in Nat
  BY OutgoingAssumption
<1>2. Len(sent) + 1 \in 1 .. MaxMessages
  BY BoundsAssumption DEF TypeOK
<1>3. split_id_counter \in Nat
  BY DEF TypeOK
<1>4. ASSUME NEW f \in 1 .. o.chunks
      PROVE  [chunk |-> <<Len(sent) + 1, f>>, reliability |-> o.reliability,
              channel |-> o.channel, index |-> index, id |-> split_id_counter,
              count |-> o.chunks] \in Packet
  BY <1>1, <1>2, <1>3 DEF Packet, Chunk
<1>. QED BY <1>1, <1>4 DEF OutPackets

\* Enqueuing keeps the invariant.
LEMMA EnqueuePreserves ==
  ASSUME IInv, NEW o \in Outgoing, Enqueue(o)
  PROVE  IInv'
<1> DEFINE index == IF IsOrdered(o.reliability) THEN send_ordering_index[o.channel]
                    ELSE IF IsSequenced(o.reliability) THEN send_sequenced_index[o.channel]
                    ELSE 0
<1>1. /\ Len(sent) < MaxMessages
      /\ sent' = Append(sent, [message |-> o, index |-> index])
      /\ send_queue' = send_queue \o OutPackets(Len(sent) + 1, o, index)
      /\ split_id_counter' = IF o.chunks = 1 THEN split_id_counter
                             ELSE (split_id_counter + 1) % SplitIdMod
      /\ UNCHANGED <<resend, next_message_number, network, receiver>>
  BY DEF Enqueue
<1>2. o.channel \in Channels
  BY OutgoingAssumption
<1>3. index \in Nat
  BY <1>2 DEF IInv, TypeOK
<1>4. /\ send_ordering_index' \in [Channels -> Nat]
      /\ send_sequenced_index' \in [Channels -> Nat]
  BY <1>2, SMTT(30) DEF IInv, TypeOK, Enqueue
<1>. HIDE DEF index
<1>5. send_queue' \in Seq(Packet)
  <2>1. OutPackets(Len(sent) + 1, o, index) \in Seq(Packet)
    BY <1>1, <1>3, OutPacketsType DEF IInv
  <2>. QED BY <1>1, <2>1 DEF IInv, TypeOK
<1>6. sent' \in Seq([message : Outgoing, index : Nat])
  BY <1>1, <1>3 DEF IInv, TypeOK
<1>7. split_id_counter' \in Nat
  BY <1>1, LimitsAssumption DEF IInv, TypeOK
<1>8. TypeOK'
  BY <1>1, <1>4, <1>5, <1>6, <1>7 DEF IInv, TypeOK, network, receiver
<1>. QED BY <1>1, <1>8 DEF IInv, ResendMatchesData, AcksAnswered, Answered, TooOld,
                           AckedWasAccepted, network, receiver

-----------------------------------------------------------------------------
\* A burst is the send queue and then the overdue packets.
LEMMA BurstHolds ==
  ASSUME TypeOK, NEW due \in SUBSET DOMAIN resend
  PROVE  /\ Burst(due) \in Seq(Packet)
         /\ Len(send_queue) \in 0 .. Len(Burst(due))
         /\ \A i \in 1 .. Len(Burst(due)) :
               IF i <= Len(send_queue) THEN Burst(due)[i] = send_queue[i]
               ELSE \E k \in due : Burst(due)[i] = resend[k].packet
         /\ \A i \in 1 .. Len(send_queue) : Burst(due)[i] = send_queue[i]
         /\ \A k \in due : \E i \in 1 .. Len(Burst(due)) : Burst(due)[i] = resend[k].packet
<1> DEFINE c == Cardinality(due)
           s == Ascending(due)
           again == [i \in 1 .. c |-> resend[s[i]].packet]
<1>1. due \in SUBSET Nat /\ IsFiniteSet(due)
  <2>1. /\ next_message_number \in Nat
        /\ due \subseteq 0 .. (next_message_number - 1)
    BY BoundsAssumption DEF TypeOK
  <2>2. IsFiniteSet(0 .. (next_message_number - 1))
    BY <2>1, FS_Interval
  <2>. QED BY <2>1, <2>2, FS_Subset
<1>2. /\ c \in Nat
      /\ s \in [1 .. c -> due]
      /\ \A k \in due : \E i \in 1 .. c : s[i] = k
  BY <1>1, AscendingLists
<1>3. Burst(due) = send_queue \o again
  BY DEF Burst
<1>4. send_queue \in Seq(Packet)
  BY DEF TypeOK
<1>. HIDE DEF c, s
<1>5. again \in Seq(Packet) /\ Len(again) = c
  <2>1. \A i \in 1 .. c : resend[s[i]].packet \in Packet
    BY <1>2 DEF TypeOK
  <2>. QED BY <1>2, <2>1
<1>6. \A i \in 1 .. c : again[i] = resend[s[i]].packet /\ s[i] \in due
  BY <1>2
<1>. HIDE DEF again
<1>7. /\ Burst(due) \in Seq(Packet) /\ Len(send_queue) \in Nat
      /\ Len(Burst(due)) = Len(send_queue) + c
      /\ \A i \in 1 .. Len(send_queue) : Burst(due)[i] = send_queue[i]
      /\ \A i \in 1 .. c : Burst(due)[Len(send_queue) + i] = again[i]
  <2> DEFINE b == Burst(due)
  <2>1. b = send_queue \o again
    BY <1>3
  <2>. HIDE DEF b
  <2>2. b \in Seq(Packet) /\ Len(send_queue) \in Nat /\ Len(b) = Len(send_queue) + c
    <3>1. again \in Seq(Packet) /\ Len(again) = c
      BY <1>5
    <3>2. /\ send_queue \o again \in Seq(Packet)
          /\ Len(send_queue \o again) = Len(send_queue) + Len(again)
      BY <1>4, <3>1, ConcatProperties
    <3>. QED BY <1>4, <2>1, <3>1, <3>2, LenProperties
  <2>3. \A i \in 1 .. Len(send_queue) : b[i] = send_queue[i]
    BY <1>2, <1>4, <1>5, <2>1
  <2>4. \A i \in 1 .. c : b[Len(send_queue) + i] = again[i]
    BY <1>2, <1>4, <1>5, <2>1
  <2>. QED BY <2>2, <2>3, <2>4 DEF b
<1>8. ASSUME NEW k \in due
      PROVE  \E i \in 1 .. Len(Burst(due)) : Burst(due)[i] = resend[k].packet
  <2>1. PICK i \in 1 .. c : s[i] = k
    BY <1>2
  <2>2. Len(send_queue) + i \in 1 .. Len(Burst(due))
    BY <1>2, <1>7
  <2>. QED BY <1>6, <1>7, <2>1, <2>2
<1>9. ASSUME NEW i \in 1 .. Len(Burst(due)), ~(i <= Len(send_queue))
      PROVE  \E k \in due : Burst(due)[i] = resend[k].packet
  <2>1. /\ i - Len(send_queue) \in 1 .. c
        /\ i = Len(send_queue) + (i - Len(send_queue))
    BY <1>2, <1>7, <1>9
  <2>2. Burst(due)[i] = again[i - Len(send_queue)]
    BY <1>7, <2>1
  <2>. QED BY <1>6, <2>1, <2>2
<1>10. \A i \in 1 .. Len(Burst(due)) : i <= Len(send_queue) => i \in 1 .. Len(send_queue)
  BY <1>7
<1>11. Len(send_queue) \in 0 .. Len(Burst(due))
  BY <1>2, <1>7
<1>. QED BY <1>7, <1>8, <1>9, <1>10, <1>11

\* An update sends the burst under the numbers that follow those in use, and
\* tracks those of its packets that are reliable instead of the overdue ones.
Updates(due, burst) ==
    LET next == next_message_number
        N    == Len(burst)
    IN  /\ due \in SUBSET DOMAIN resend /\ burst \in Seq(Packet)
        /\ Len(send_queue) \in 0 .. N
        /\ \A i \in 1 .. N : IF i <= Len(send_queue) THEN burst[i] = send_queue[i]
                             ELSE \E k \in due : burst[i] = resend[k].packet
        /\ \A i \in 1 .. Len(send_queue) : burst[i] = send_queue[i]
        /\ \A k \in due : \E i \in 1 .. N : burst[i] = resend[k].packet
        /\ next + N \in 0 .. MaxNumbers /\ next_message_number' = next + N
        /\ send_queue' = << >>
        /\ DOMAIN data = 0 .. (next - 1) /\ DOMAIN data' = 0 .. (next + N - 1)
        /\ \A n \in DOMAIN data : n \in DOMAIN data' /\ data'[n] = data[n]
        /\ \A i \in 1 .. N : /\ next + i - 1 \in DOMAIN data' \ DOMAIN data
                             /\ data'[next + i - 1] = burst[i]
        /\ \A n \in DOMAIN data' \ DOMAIN data : \E i \in 1 .. N : n = next + i - 1
        /\ DOMAIN resend' = (DOMAIN resend \ due) \cup
                {n \in DOMAIN data' \ DOMAIN data : IsReliable(data'[n].reliability)}
        /\ \A n \in DOMAIN resend \ due : resend'[n] = resend[n]
        /\ \A n \in DOMAIN resend' \ DOMAIN resend :
                resend'[n] = [packet |-> data'[n], last_sent |-> next]
        /\ UNCHANGED <<sent, send_ordering_index, send_sequenced_index,
                       split_id_counter, acks, lost, receiver>>

\* Every update of the sender is one of some due entries and their burst.
LEMMA SenderUpdates ==
  ASSUME TypeOK, SenderUpdate
  PROVE  \E due, burst : Updates(due, burst)
<1>1. PICK due \in SUBSET DOMAIN resend :
        LET burst == Burst(due)
            fresh == next_message_number .. (next_message_number + Len(burst) - 1)
            Sent(n) == burst[n - next_message_number + 1]
            tracked == {n \in fresh : IsReliable(Sent(n).reliability)}
        IN  /\ next_message_number + Len(burst) <= MaxNumbers
            /\ next_message_number' = next_message_number + Len(burst)
            /\ send_queue' = << >>
            /\ resend' = [n \in (DOMAIN resend \ due) \cup tracked |->
                             IF n \in fresh
                             THEN [packet |-> Sent(n), last_sent |-> next_message_number]
                             ELSE resend[n]]
            /\ data' = [n \in DOMAIN data \cup fresh |->
                             IF n \in fresh THEN Sent(n) ELSE data[n]]
            /\ UNCHANGED <<sent, send_ordering_index, send_sequenced_index,
                           split_id_counter, acks, lost, receiver>>
  BY DEF SenderUpdate
<1> DEFINE burst == Burst(due)
           next  == next_message_number
           fresh == next .. (next + Len(burst) - 1)
           Sent(n) == burst[n - next + 1]
           tracked == {n \in fresh : IsReliable(Sent(n).reliability)}
<1>2. /\ burst \in Seq(Packet)
      /\ Len(send_queue) \in 0 .. Len(burst)
      /\ \A i \in 1 .. Len(burst) : IF i <= Len(send_queue) THEN burst[i] = send_queue[i]
                                    ELSE \E k \in due : burst[i] = resend[k].packet
      /\ \A i \in 1 .. Len(send_queue) : burst[i] = send_queue[i]
      /\ \A k \in due : \E i \in 1 .. Len(burst) : burst[i] = resend[k].packet
  BY BurstHolds
<1>3. /\ next \in Nat /\ Len(burst) \in Nat
      /\ next + Len(burst) \in 0 .. MaxNumbers
      /\ next' = next + Len(burst)
      /\ send_queue' = << >>
      /\ UNCHANGED <<sent, send_ordering_index, send_sequenced_index,
                     split_id_counter, acks, lost, receiver>>
  BY <1>1, <1>2, BoundsAssumption DEF TypeOK
<1>4. /\ DOMAIN data = 0 .. (next - 1)
      /\ DOMAIN data' = DOMAIN data \cup fresh
      /\ \A n \in fresh : data'[n] = Sent(n)
      /\ \A n \in DOMAIN data : n \notin fresh /\ data'[n] = data[n]
  <2>1. DOMAIN data = 0 .. (next - 1)
    BY DEF TypeOK
  <2>2. data' = [n \in DOMAIN data \cup fresh |-> IF n \in fresh THEN Sent(n) ELSE data[n]]
    BY <1>1
  <2>3. \A n \in DOMAIN data : n \notin fresh
    BY <1>3, <2>1
  <2>. HIDE DEF fresh, Sent
  <2>. QED BY <2>1, <2>2, <2>3
<1>5. /\ DOMAIN resend' = (DOMAIN resend \ due) \cup tracked
      /\ \A n \in tracked : resend'[n] = [packet |-> Sent(n), last_sent |-> next]
      /\ \A n \in DOMAIN resend \ due : resend'[n] = resend[n]
  <2>1. resend' = [n \in (DOMAIN resend \ due) \cup tracked |->
                       IF n \in fresh THEN [packet |-> Sent(n), last_sent |-> next]
                       ELSE resend[n]]
    BY <1>1
  <2>2. \A n \in DOMAIN resend : n \notin fresh
    BY <1>4 DEF TypeOK
  <2>3. tracked \subseteq fresh
    OBVIOUS
  <2>. HIDE DEF fresh, Sent, tracked
  <2>. QED BY <2>1, <2>2, <2>3
<1>6. \A i \in 1 .. Len(burst) : next + i - 1 \in fresh /\ Sent(next + i - 1) = burst[i]
  <2>1. SUFFICES ASSUME NEW i \in 1 .. Len(burst)
                 PROVE  next + i - 1 \in fresh /\ Sent(next + i - 1) = burst[i]
    OBVIOUS
  <2>2. next + i - 1 \in fresh /\ (next + i - 1) - next + 1 = i
    <3>. HIDE DEF burst
    <3>. QED BY <1>3
  <2>. QED BY <2>2
<1>7. \A n \in fresh : \E i \in 1 .. Len(burst) : n = next + i - 1
  <2>1. SUFFICES ASSUME NEW n \in fresh
                 PROVE  n - next + 1 \in 1 .. Len(burst) /\ n = next + (n - next + 1) - 1
    OBVIOUS
  <2>. HIDE DEF burst
  <2>. QED BY <1>3
<1>8. DOMAIN data' = 0 .. (next + Len(burst) - 1)
  <2>. HIDE DEF burst
  <2>. QED BY <1>3, <1>4
<1>9. /\ DOMAIN data' \ DOMAIN data = fresh
      /\ tracked = {n \in fresh : IsReliable(data'[n].reliability)}
      /\ DOMAIN resend' \ DOMAIN resend \subseteq tracked
      /\ tracked \subseteq fresh
  <2>1. fresh \cap DOMAIN data = {}
    BY <1>4
  <2>2. tracked = {n \in fresh : IsReliable(data'[n].reliability)}
    BY <1>4
  <2>. HIDE DEF fresh, Sent, tracked
  <2>. QED BY <1>4, <1>5, <2>1, <2>2
<1>. HIDE DEF burst, fresh, Sent, tracked
<1>10. \A n \in DOMAIN resend' \ DOMAIN resend :
          resend'[n] = [packet |-> data'[n], last_sent |-> next]
  BY <1>4, <1>5, <1>9
<1>11. \A i \in 1 .. Len(burst) : /\ next + i - 1 \in DOMAIN data' \ DOMAIN data
                                  /\ data'[next + i - 1] = burst[i]
  BY <1>4, <1>6, <1>9
<1>12. \A n \in DOMAIN data : n \in DOMAIN data' /\ data'[n] = data[n]
  BY <1>4
<1>13. \A n \in DOMAIN data' \ DOMAIN data : \E i \in 1 .. Len(burst) : n = next + i - 1
  BY <1>7, <1>9
<1>14. DOMAIN resend' = (DOMAIN resend \ due) \cup
            {n \in DOMAIN data' \ DOMAIN data : IsReliable(data'[n].reliability)}
  BY <1>5, <1>9
<1>15. Updates(due, burst)
  BY <1>2, <1>3, <1>4, <1>5, <1>8, <1>10, <1>11, <1>12, <1>13, <1>14 DEF Updates
<1>. QED BY <1>15

\* So does the sender's update.
LEMMA SenderUpdatePreserves ==
  ASSUME IInv, SenderUpdate
  PROVE  IInv'
<1>0. PICK due, burst : Updates(due, burst)
  BY SenderUpdates DEF IInv
<1> DEFINE next == next_message_number
<1>1. /\ due \in SUBSET DOMAIN resend /\ burst \in Seq(Packet)
      /\ next \in Nat /\ next' \in 0 .. MaxNumbers
      /\ send_queue' = << >>
      /\ DOMAIN data' = 0 .. (next' - 1)
      /\ \A k \in due : \E i \in 1 .. Len(burst) : burst[i] = resend[k].packet
      /\ UNCHANGED <<sent, send_ordering_index, send_sequenced_index,
                     split_id_counter, acks, lost, receiver>>
  <2>1. /\ next \in Nat /\ next + Len(burst) \in 0 .. MaxNumbers
        /\ next' = next + Len(burst)
        /\ DOMAIN data' = 0 .. (next + Len(burst) - 1)
    BY <1>0, BoundsAssumption DEF Updates, IInv, TypeOK
  <2>2. /\ next' \in 0 .. MaxNumbers /\ DOMAIN data' = 0 .. (next' - 1)
    <3>. HIDE DEF next
    <3>. QED BY <2>1
  <2>. QED BY <1>0, <2>1, <2>2 DEF Updates
<1>2. /\ \A n \in DOMAIN data : n \in DOMAIN data' /\ data'[n] = data[n]
      /\ \A i \in 1 .. Len(burst) : /\ next + i - 1 \in DOMAIN data' \ DOMAIN data
                                    /\ data'[next + i - 1] = burst[i]
      /\ \A n \in DOMAIN data' \ DOMAIN data : \E i \in 1 .. Len(burst) : n = next + i - 1
  BY <1>0 DEF Updates
<1>3. /\ DOMAIN resend' = (DOMAIN resend \ due) \cup
               {n \in DOMAIN data' \ DOMAIN data : IsReliable(data'[n].reliability)}
      /\ \A n \in DOMAIN resend \ due : resend'[n] = resend[n]
      /\ \A n \in DOMAIN resend' \ DOMAIN resend :
               resend'[n] = [packet |-> data'[n], last_sent |-> next]
  BY <1>0 DEF Updates
<1>4. /\ DOMAIN resend \subseteq DOMAIN data
      /\ DOMAIN resend' \subseteq DOMAIN data'
      /\ \A n \in DOMAIN resend' : \/ n \in DOMAIN resend \ due
                                   \/ n \in DOMAIN resend' \ DOMAIN resend
  BY <1>2, <1>3 DEF IInv, TypeOK
<1>5. \A n \in DOMAIN data' : data'[n] \in Packet
  <2>1. \A i \in 1 .. Len(burst) : burst[i] \in Packet
    BY <1>1
  <2>2. \A n \in DOMAIN data : data[n] \in Packet
    BY DEF IInv, TypeOK
  <2>3. \A n \in DOMAIN data' \ DOMAIN data : data'[n] \in Packet
    BY <1>2, <2>1
  <2>. HIDE DEF next
  <2>. QED BY <1>2, <2>2, <2>3
<1>6. TypeOK'
  <2>1. \A n \in DOMAIN resend' : /\ resend'[n].packet \in Packet
                                  /\ resend'[n].last_sent \in Nat
    <3>1. SUFFICES ASSUME NEW n \in DOMAIN resend'
                   PROVE  resend'[n].packet \in Packet /\ resend'[n].last_sent \in Nat
      OBVIOUS
    <3>2. CASE n \in DOMAIN resend \ due
      BY <1>3, <3>2 DEF IInv, TypeOK
    <3>3. CASE n \in DOMAIN resend' \ DOMAIN resend
      <4>1. /\ resend'[n] = [packet |-> data'[n], last_sent |-> next]
            /\ data'[n] \in Packet /\ next \in Nat
        BY <1>1, <1>3, <1>4, <1>5, <3>3
      <4>. HIDE DEF next
      <4>. QED BY <4>1
    <3>. QED BY <1>4, <3>2, <3>3
  <2>2. DOMAIN data \subseteq DOMAIN data'
    BY <1>2
  <2>3. send_queue' \in Seq(Packet)
    BY <1>1
  <2>4. /\ UNCHANGED <<sent, send_ordering_index, send_sequenced_index, split_id_counter>>
        /\ UNCHANGED <<acks, lost, ack_queue, received_messages, processed, highest_received>>
    BY <1>1 DEF receiver
  <2>. QED BY <1>1, <1>4, <1>5, <2>1, <2>2, <2>3, <2>4 DEF IInv, TypeOK
<1>7. ResendMatchesData'
  <2>1. SUFFICES ASSUME NEW n \in DOMAIN resend'
                 PROVE  resend'[n].packet = data'[n]
    BY DEF ResendMatchesData
  <2>2. CASE n \in DOMAIN resend \ due
    BY <1>2, <1>3, <1>4, <2>2 DEF IInv, ResendMatchesData
  <2>3. CASE n \in DOMAIN resend' \ DOMAIN resend
    <3>1. resend'[n] = [packet |-> data'[n], last_sent |-> next]
      BY <1>3, <2>3
    <3>. HIDE DEF next
    <3>. QED BY <3>1
  <2>. QED BY <1>4, <2>2, <2>3
<1>8. AcksAnswered'
  BY <1>1 DEF IInv, AcksAnswered, Answered, TooOld, receiver
<1>9. AckedWasAccepted'
  <2>1. SUFFICES ASSUME NEW n \in DOMAIN data', IsReliable(data'[n].reliability)
                 PROVE  \/ \E k \in DOMAIN resend' : resend'[k].packet = data'[n]
                        \/ \E k \in DOMAIN data' :
                              data'[k] = data'[n] /\ (k \in processed' \/ TooOld(k)')
    BY DEF AckedWasAccepted
  <2>2. CASE n \notin DOMAIN data
    BY <1>3, <1>4, <1>7, <2>1, <2>2 DEF ResendMatchesData
  <2>3. CASE n \in DOMAIN data
    <3>1. data'[n] = data[n]
      BY <1>2, <2>3
    <3>2. \/ \E k \in DOMAIN resend : resend[k].packet = data[n]
          \/ \E k \in DOMAIN data : data[k] = data[n] /\ (k \in processed \/ TooOld(k))
      BY <2>1, <2>3, <3>1 DEF IInv, AckedWasAccepted
    <3>3. CASE \E k \in DOMAIN data : data[k] = data[n] /\ (k \in processed \/ TooOld(k))
      BY <1>1, <1>2, <3>1, <3>3 DEF TooOld, receiver
    <3>4. ASSUME NEW k \in DOMAIN resend, resend[k].packet = data[n]
          PROVE  \E j \in DOMAIN resend' : resend'[j].packet = data'[n]
      <4>1. CASE k \notin due
        BY <1>3, <3>1, <3>4, <4>1
      <4>2. CASE k \in due
        <5>1. PICK i \in 1 .. Len(burst) : burst[i] = resend[k].packet
          BY <1>1, <4>2
        <5>2. /\ next + i - 1 \in DOMAIN data' \ DOMAIN data
              /\ data'[next + i - 1] = data'[n]
          BY <1>2, <3>1, <3>4, <5>1
        <5>. HIDE DEF next
        <5>3. next + i - 1 \in DOMAIN resend'
          BY <1>3, <2>1, <5>2
        <5>. QED BY <1>7, <5>2, <5>3 DEF ResendMatchesData
      <4>. QED BY <4>1, <4>2
    <3>. QED BY <3>2, <3>3, <3>4
  <2>. QED BY <2>2, <2>3
<1>. QED BY <1>6, <1>7, <1>8, <1>9 DEF IInv

-----------------------------------------------------------------------------
\* An acknowledgement frees what its numbers answer for.
LEMMA ReceiveAckPreserves ==
  ASSUME IInv, NEW numbers \in acks, ReceiveAck(numbers)
  PROVE  IInv'
<1>1. /\ DOMAIN resend' = DOMAIN resend \ Applied(numbers)
      /\ \A k \in DOMAIN resend' : resend'[k] = resend[k]
      /\ acks' = acks \ {numbers}
      /\ UNCHANGED <<sent, send_ordering_index, send_sequenced_index, split_id_counter,
                     send_queue, next_message_number, data, lost, receiver>>
  BY DEF ReceiveAck
<1>2. Applied(numbers) \subseteq numbers
  BY DEF Applied
<1>3. \A n \in numbers : Answered(n) /\ n \in DOMAIN data
  BY DEF IInv, AcksAnswered, TypeOK
<1>4. TypeOK'
  BY <1>1 DEF IInv, TypeOK, receiver
<1>5. ResendMatchesData' /\ AcksAnswered'
  BY <1>1 DEF IInv, ResendMatchesData, AcksAnswered, Answered, TooOld, receiver
<1>6. AckedWasAccepted'
  <2>1. SUFFICES ASSUME NEW n \in DOMAIN data, IsReliable(data[n].reliability)
                 PROVE  \/ \E k \in DOMAIN resend' : resend'[k].packet = data[n]
                        \/ \E k \in DOMAIN data : data[k] = data[n] /\ Answered(k)
    BY <1>1 DEF AckedWasAccepted, Answered, TooOld, receiver
  <2>2. ASSUME NEW k \in DOMAIN resend, resend[k].packet = data[n]
        PROVE  \/ \E j \in DOMAIN resend' : resend'[j].packet = data[n]
               \/ \E j \in DOMAIN data : data[j] = data[n] /\ Answered(j)
    <3>1. CASE k \in Applied(numbers)
      BY <1>2, <1>3, <2>2, <3>1 DEF IInv, ResendMatchesData
    <3>2. CASE k \notin Applied(numbers)
      BY <1>1, <2>2, <3>2
    <3>. QED BY <3>1, <3>2
  <2>. QED BY <2>1, <2>2 DEF IInv, AckedWasAccepted, Answered
<1>. QED BY <1>4, <1>5, <1>6 DEF IInv

\* A datagram's number is answered for when it is to be acknowledged.
LEMMA ReceiveDataPreserves ==
  ASSUME IInv, NEW n \in DOMAIN data, ReceiveData(n)
  PROVE  IInv'
<1>1. /\ ack_queue' = ack_queue \cup {n}
      /\ UNCHANGED <<sender, network>>
  BY DEF ReceiveData
<1>2. /\ processed \subseteq processed'
      /\ processed' \subseteq DOMAIN data
      /\ received_messages' \subseteq processed'
      /\ highest_received' \in {None} \cup DOMAIN data
      /\ highest_received' >= highest_received
      /\ (n \in processed' \/ TooOld(n)')
  <2>1. /\ n \in Nat
        /\ highest_received \in {None} \cup DOMAIN data
        /\ highest_received \in Int
        /\ received_messages \subseteq processed
        /\ processed \subseteq DOMAIN data
    BY BoundsAssumption DEF IInv, TypeOK, None
  <2>2. CASE IsDuplicate(n) /\ UNCHANGED <<received_messages, highest_received, processed, rx>>
    BY <2>1, <2>2 DEF IsDuplicate, TooOld
  <2>3. CASE /\ highest_received' = IF n > highest_received THEN n ELSE highest_received
             /\ received_messages' =
                   {k \in received_messages \cup {n} : k + DedupWindow >= highest_received'}
             /\ processed' = processed \cup {n}
    <3>1. received_messages' \subseteq processed'
      BY <2>1, <2>3
    <3>2. highest_received' \in {None} \cup DOMAIN data /\ highest_received' >= highest_received
      BY <2>1, <2>3
    <3>. QED BY <2>1, <2>3, <3>1, <3>2
  <2>. QED BY <2>2, <2>3 DEF ReceiveData
<1>3. \A k \in DOMAIN data : Answered(k) => Answered(k)'
  <2>1. SUFFICES ASSUME NEW k \in DOMAIN data, Answered(k)
                 PROVE  Answered(k)'
    OBVIOUS
  <2>2. /\ k \in Nat /\ highest_received \in Int /\ highest_received' \in Int
        /\ DedupWindow \in Nat
    BY <1>2, LimitsAssumption DEF IInv, TypeOK, None
  <2>. QED BY <1>2, <2>1, <2>2 DEF Answered, TooOld
<1>4. Answered(n)'
  BY <1>2 DEF Answered
<1>5. TypeOK'
  BY <1>1, <1>2 DEF IInv, TypeOK, sender, network
<1>6. AcksAnswered'
  <2>1. /\ \A k \in ack_queue : Answered(k)'
        /\ \A numbers \in acks : \A k \in numbers : Answered(k)'
    BY <1>3 DEF IInv, TypeOK, AcksAnswered
  <2>2. acks' = acks
    BY <1>1 DEF network
  <2>. QED BY <1>1, <1>4, <2>1, <2>2 DEF AcksAnswered
<1>7. ResendMatchesData'
  BY <1>1 DEF IInv, ResendMatchesData, sender, network
<1>8. AckedWasAccepted'
  <2>1. UNCHANGED <<resend, data>>
    BY <1>1 DEF sender, network
  <2>. QED BY <1>3, <2>1 DEF IInv, AckedWasAccepted, Answered
<1>. QED BY <1>5, <1>6, <1>7, <1>8 DEF IInv

\* The receiver's update and the losses move or drop acknowledgements.
LEMMA NetworkPreserves ==
  ASSUME IInv,
         \/ ReceiverUpdate
         \/ \E numbers \in acks : LoseAck(numbers)
         \/ \E n \in DOMAIN data : LoseData(n)
  PROVE  IInv'
<1>1. CASE ReceiverUpdate
  BY <1>1 DEF ReceiverUpdate, IInv, TypeOK, ResendMatchesData, AcksAnswered, Answered,
              TooOld, AckedWasAccepted, sender
<1>2. CASE \E numbers \in acks : LoseAck(numbers)
  BY <1>2, SMTT(30) DEF LoseAck, IInv, TypeOK, ResendMatchesData, AcksAnswered, Answered,
              TooOld, AckedWasAccepted, sender, receiver
<1>3. CASE \E n \in DOMAIN data : LoseData(n)
  <2>1. /\ lost' \subseteq DOMAIN data
        /\ UNCHANGED <<sender, data, acks, receiver>>
    BY <1>3 DEF LoseData, IInv, TypeOK
  <2>2. TypeOK'
    BY <2>1 DEF IInv, TypeOK, sender, receiver
  <2>. QED BY <2>1, <2>2 DEF IInv, ResendMatchesData, AcksAnswered, Answered, TooOld,
                             AckedWasAccepted, sender, receiver
<1>. QED BY <1>1, <1>2, <1>3

\* The invariant holds throughout.
LEMMA InvariantHolds == Spec => []IInv
<1>1. Init => IInv
  <2>1. SUFFICES ASSUME Init
                 PROVE  IInv
    OBVIOUS
  <2>2. DOMAIN data = {} /\ DOMAIN resend = {}
    BY <2>1 DEF Init
  <2>3. 0 .. (next_message_number - 1) = {}
    BY <2>1 DEF Init
  <2>4. /\ send_ordering_index \in [Channels -> Nat]
        /\ send_sequenced_index \in [Channels -> Nat]
        /\ split_id_counter \in Nat /\ next_message_number \in 0 .. MaxNumbers
    BY <2>1, BoundsAssumption DEF Init
  <2>5. /\ sent \in Seq([message : Outgoing, index : Nat])
        /\ send_queue \in Seq(Packet)
    BY <2>1 DEF Init
  <2>6. TypeOK
    BY <2>1, <2>2, <2>3, <2>4, <2>5 DEF Init, TypeOK
  <2>. QED BY <2>1, <2>2, <2>6 DEF Init, IInv, ResendMatchesData, AcksAnswered, AckedWasAccepted
<1>2. IInv /\ [Next]_vars => IInv'
  <2>1. SUFFICES ASSUME IInv, [Next]_vars
                 PROVE  IInv'
    OBVIOUS
  <2>2. ASSUME NEW o \in Outgoing, Enqueue(o)
        PROVE  IInv'
    BY <2>1, <2>2, EnqueuePreserves
  <2>3. CASE SenderUpdate
    BY <2>1, <2>3, SenderUpdatePreserves
  <2>4. ASSUME NEW numbers \in acks, ReceiveAck(numbers)
        PROVE  IInv'
    BY <2>1, <2>4, ReceiveAckPreserves
  <2>5. ASSUME NEW n \in DOMAIN data, ReceiveData(n)
        PROVE  IInv'
    BY <2>1, <2>5, ReceiveDataPreserves
  <2>6. CASE \/ ReceiverUpdate
             \/ \E numbers \in acks : LoseAck(numbers)
             \/ \E n \in DOMAIN data : LoseData(n)
    BY <2>1, <2>6, NetworkPreserves
  <2>7. CASE UNCHANGED vars
    BY <2>1, <2>7 DEF vars, sender, network, receiver, IInv, TypeOK, ResendMatchesData,
                      AcksAnswered, Answered, TooOld, AckedWasAccepted
  <2>. QED BY <2>1, <2>2, <2>3, <2>4, <2>5, <2>6, <2>7 DEF Next
<1>. QED BY <1>1, <1>2, PTL DEF Spec

-----------------------------------------------------------------------------
(* What the sending half has made of the messages.                           *)

\* Indices on a channel: fewer than the messages.
Index == 0 .. MaxMessages

\* No two messages share a split id: the counter does not come round.
IdsSuffice == MaxMessages <= SplitIdMod

\* The packets there are, waiting to be sent or sent.
Known == {send_queue[i] : i \in DOMAIN send_queue} \cup {data[n] : n \in DOMAIN data}

\* A packet is one chunk of a message that was enqueued, and says so.
Genuine(p) ==
    LET m == p.chunk[1]
    IN  /\ m \in Messages /\ p.chunk[2] \in 1 .. sent[m].message.chunks
        /\ p.reliability = Kind(m) /\ On(m, p.channel) /\ p.index = sent[m].index
        /\ p.count = sent[m].message.chunks

AllGenuine == \A p \in Known : Genuine(p)

\* The chunks of a message travel under one split id ...
Siblings == \A p, q \in Known : p.chunk[1] = q.chunk[1] => p.id = q.id

\* ... that is no other message's while ids last.
OwnIds ==
    IdsSuffice =>
        /\ Len(sent) < SplitIdMod =>
              /\ split_id_counter <= Len(sent)
              /\ \A p \in Known : p.count > 1 => p.id < split_id_counter
        /\ \A p, q \in Known :
              p.count > 1 /\ q.count > 1 /\ p.id = q.id => p.chunk[1] = q.chunk[1]

\* Indices follow the order of enqueuing.
Numbered ==
    /\ Len(sent) <= MaxMessages
    /\ \A c \in Channels : /\ send_ordering_index[c] <= Len(sent)
                           /\ send_sequenced_index[c] <= Len(sent)
    /\ \A m \in Messages :
          /\ sent[m].index < Len(sent)
          /\ IsSequenced(Kind(m)) =>
                sent[m].index < send_sequenced_index[sent[m].message.channel]
    /\ \A m, k \in Messages :
          (IsSequenced(Kind(m)) /\ IsSequenced(Kind(k)) /\ On(m, sent[k].message.channel) /\ m < k)
              => sent[m].index < sent[k].index

\* A chunk waits once, and not any more once it is sent; only reliable packets
\* are sent again.
Once ==
    /\ \A i, j \in DOMAIN send_queue : send_queue[i].chunk = send_queue[j].chunk => i = j
    /\ \A i \in DOMAIN send_queue, n \in DOMAIN data : send_queue[i].chunk # data[n].chunk
    /\ \A n, k \in DOMAIN data :
          data[n].chunk = data[k].chunk /\ ~ IsReliable(data[n].reliability) => n = k
    /\ \A n \in DOMAIN resend : IsReliable(resend[n].packet.reliability)

\* Every chunk of every message is there.
Covered ==
    \A m \in Messages : \A f \in 1 .. sent[m].message.chunks :
        \E p \in Known : p.chunk = <<m, f>>

SentInv == /\ Numbered
           /\ AllGenuine
           /\ Siblings
           /\ OwnIds
           /\ Once
           /\ Covered

\* The packet of chunk f of the message enqueued next.
NewPacket(o, index, f) ==
    [chunk |-> <<Len(sent) + 1, f>>, reliability |-> o.reliability, channel |-> o.channel,
     index |-> index, id |-> split_id_counter, count |-> o.chunks]

\* What enqueuing o does: one message and its packets more.
Enqueues(o, index) ==
    LET M == Len(sent) + 1
    IN  /\ Len(sent) \in Nat /\ Len(sent) < MaxMessages /\ index \in Nat
        /\ Len(sent') = M
        /\ \A m \in Messages : sent'[m] = sent[m]
        /\ sent'[M] = [message |-> o, index |-> index]
        /\ DOMAIN send_queue \subseteq DOMAIN send_queue'
        /\ \A i \in DOMAIN send_queue : send_queue'[i] = send_queue[i]
        /\ \A i \in DOMAIN send_queue' \ DOMAIN send_queue :
              \E f \in 1 .. o.chunks : /\ i = Len(send_queue) + f
                                       /\ send_queue'[i] = NewPacket(o, index, f)
        /\ \A f \in 1 .. o.chunks : \E i \in DOMAIN send_queue' :
              send_queue'[i] = NewPacket(o, index, f)
        /\ UNCHANGED <<resend, next_message_number, network, receiver>>

\* Every Enqueue is such a step, with the index of the message's class.
LEMMA EnqueueAdds ==
  ASSUME TypeOK, NEW o \in Outgoing, Enqueue(o)
  PROVE  \E index :
            /\ Enqueues(o, index)
            /\ index = IF IsOrdered(o.reliability) THEN send_ordering_index[o.channel]
                       ELSE IF IsSequenced(o.reliability) THEN send_sequenced_index[o.channel]
                       ELSE 0
<1> DEFINE index == IF IsOrdered(o.reliability) THEN send_ordering_index[o.channel]
                    ELSE IF IsSequenced(o.reliability) THEN send_sequenced_index[o.channel]
                    ELSE 0
           New == OutPackets(Len(sent) + 1, o, index)
           M == Len(sent) + 1
<1>1. /\ Len(sent) < MaxMessages
      /\ sent' = Append(sent, [message |-> o, index |-> index])
      /\ send_queue' = send_queue \o New
      /\ UNCHANGED <<resend, next_message_number, network, receiver>>
  BY DEF Enqueue
<1>2. o.channel \in Channels /\ o.chunks \in Nat
  BY OutgoingAssumption
<1>3. index \in Nat
  BY <1>2 DEF TypeOK
<1>. HIDE DEF index
<1>4. /\ New \in Seq(Packet) /\ Len(New) = o.chunks
      /\ \A f \in 1 .. o.chunks : New[f] = NewPacket(o, index, f)
  <2>1. New \in Seq(Packet)
    BY <1>1, <1>3, OutPacketsType
  <2>2. New = [f \in 1 .. o.chunks |-> NewPacket(o, index, f)]
    BY DEF OutPackets, NewPacket
  <2>. HIDE DEF New
  <2>3. DOMAIN New = 1 .. o.chunks
    BY <2>2
  <2>4. Len(New) = o.chunks
    BY <1>2, <2>1, <2>3, LenProperties
  <2>. QED BY <2>1, <2>2, <2>4
<1>5. /\ Len(sent) \in Nat /\ Len(sent') = M
      /\ \A m \in Messages : sent'[m] = sent[m]
      /\ sent'[M] = [message |-> o, index |-> index]
  <2>1. sent \in Seq([message : Outgoing, index : Nat])
    BY DEF TypeOK
  <2>2. [message |-> o, index |-> index] \in [message : Outgoing, index : Nat]
    BY <1>3
  <2>. QED BY <1>1, <2>1, <2>2, AppendProperties, LenProperties DEF Messages
<1>. HIDE DEF New
<1>6. /\ DOMAIN send_queue = 1 .. Len(send_queue) /\ Len(send_queue) \in Nat
      /\ DOMAIN send_queue' = 1 .. (Len(send_queue) + o.chunks)
      /\ \A i \in 1 .. Len(send_queue) : send_queue'[i] = send_queue[i]
      /\ \A f \in 1 .. o.chunks : send_queue'[Len(send_queue) + f] = New[f]
  <2>1. send_queue \in Seq(Packet)
    BY DEF TypeOK
  <2>2. DOMAIN send_queue = 1 .. Len(send_queue) /\ Len(send_queue) \in Nat
    BY <2>1, LenProperties
  <2>3. /\ send_queue' \in Seq(Packet) /\ Len(send_queue') = Len(send_queue) + Len(New)
        /\ \A i \in 1 .. Len(send_queue) + Len(New) : send_queue'[i] =
                     IF i <= Len(send_queue) THEN send_queue[i] ELSE New[i - Len(send_queue)]
    BY <1>1, <1>4, <2>1, ConcatProperties
  <2>4. DOMAIN send_queue' = 1 .. (Len(send_queue) + o.chunks)
    BY <1>4, <2>3, LenProperties
  <2>5. \A i \in 1 .. Len(send_queue) : send_queue'[i] = send_queue[i]
    BY <1>2, <1>4, <2>2, <2>3
  <2>6. ASSUME NEW f \in 1 .. o.chunks
        PROVE  send_queue'[Len(send_queue) + f] = New[f]
    <3>1. /\ Len(send_queue) + f \in 1 .. Len(send_queue) + Len(New)
          /\ ~(Len(send_queue) + f <= Len(send_queue))
          /\ (Len(send_queue) + f) - Len(send_queue) = f
      BY <1>2, <1>4, <2>2
    <3>. QED BY <2>3, <3>1
  <2>. QED BY <2>2, <2>4, <2>5, <2>6
<1>7. DOMAIN send_queue \subseteq DOMAIN send_queue'
  BY <1>2, <1>6
<1>8. ASSUME NEW i \in DOMAIN send_queue' \ DOMAIN send_queue
      PROVE  \E f \in 1 .. o.chunks : /\ i = Len(send_queue) + f
                                      /\ send_queue'[i] = NewPacket(o, index, f)
  <2> DEFINE f == i - Len(send_queue)
  <2>1. f \in 1 .. o.chunks /\ i = Len(send_queue) + f
    BY <1>2, <1>6
  <2>. HIDE DEF f
  <2>. QED BY <1>4, <1>6, <2>1
<1>9. ASSUME NEW f \in 1 .. o.chunks
      PROVE  \E i \in DOMAIN send_queue' : send_queue'[i] = NewPacket(o, index, f)
  <2>1. Len(send_queue) + f \in DOMAIN send_queue'
    BY <1>2, <1>6
  <2>. QED BY <1>4, <1>6, <2>1
<1>10. Enqueues(o, index)
  BY <1>1, <1>3, <1>5, <1>6, <1>7, <1>8, <1>9 DEF Enqueues
<1>. QED BY <1>10 DEF index

\* The packets after an enqueuing: those before it and the new message's.
LEMMA EnqueueKnown ==
  ASSUME TypeOK, NEW o \in Outgoing, NEW index, Enqueues(o, index)
  PROVE  /\ Known \subseteq Known'
         /\ \A p \in Known' : \/ p \in Known
                              \/ \E f \in 1 .. o.chunks : p = NewPacket(o, index, f)
         /\ \A f \in 1 .. o.chunks : NewPacket(o, index, f) \in Known'
         /\ Messages \subseteq Messages'
         /\ \A m \in Messages' : m \in Messages \/ m = Len(sent) + 1
         /\ Len(sent) + 1 \in Messages' /\ Len(sent) + 1 \notin Messages
<1>1. /\ DOMAIN send_queue \subseteq DOMAIN send_queue'
      /\ \A i \in DOMAIN send_queue : send_queue'[i] = send_queue[i]
      /\ \A i \in DOMAIN send_queue' \ DOMAIN send_queue :
            \E f \in 1 .. o.chunks : send_queue'[i] = NewPacket(o, index, f)
      /\ \A f \in 1 .. o.chunks : \E i \in DOMAIN send_queue' :
            send_queue'[i] = NewPacket(o, index, f)
      /\ data' = data
  BY DEF Enqueues, network
<1>2. Len(sent) \in Nat /\ Len(sent') = Len(sent) + 1
  BY DEF Enqueues
<1>3. /\ Messages \subseteq Messages'
      /\ \A m \in Messages' : m \in Messages \/ m = Len(sent) + 1
      /\ Len(sent) + 1 \in Messages' /\ Len(sent) + 1 \notin Messages
  BY <1>2 DEF Messages
<1>4. Known \subseteq Known'
  BY <1>1 DEF Known
<1>5. ASSUME NEW p \in Known'
      PROVE  p \in Known \/ \E f \in 1 .. o.chunks : p = NewPacket(o, index, f)
  <2>1. CASE \E i \in DOMAIN send_queue' : p = send_queue'[i]
    BY <1>1, <2>1 DEF Known
  <2>2. CASE \E n \in DOMAIN data' : p = data'[n]
    BY <1>1, <2>2 DEF Known
  <2>. QED BY <2>1, <2>2 DEF Known
<1>6. \A f \in 1 .. o.chunks : NewPacket(o, index, f) \in Known'
  BY <1>1 DEF Known
<1>. QED BY <1>3, <1>4, <1>5, <1>6

\* A new message keeps the invariant of what was sent.
LEMMA EnqueueKeepsSent ==
  ASSUME TypeOK, SentInv, NEW o \in Outgoing, Enqueue(o)
  PROVE  SentInv'
<1>1. PICK index :
         /\ Enqueues(o, index)
         /\ index = IF IsOrdered(o.reliability) THEN send_ordering_index[o.channel]
                    ELSE IF IsSequenced(o.reliability) THEN send_sequenced_index[o.channel]
                    ELSE 0
  BY EnqueueAdds
<1>0. PICK M : M = Len(sent) + 1
  OBVIOUS
<1>2. /\ Known \subseteq Known'
      /\ \A p \in Known' : p \in Known \/ \E f \in 1 .. o.chunks : p = NewPacket(o, index, f)
      /\ \A f \in 1 .. o.chunks : NewPacket(o, index, f) \in Known'
      /\ Messages \subseteq Messages'
      /\ \A m \in Messages' : m \in Messages \/ m = M
      /\ M \in Messages' /\ M \notin Messages
  BY <1>0, <1>1, EnqueueKnown
<1>3. /\ o.channel \in Channels /\ o.chunks \in Nat \ {0} /\ o.reliability \in Reliability
  BY OutgoingAssumption
<1>4. /\ Len(sent) \in Nat /\ Len(sent) < MaxMessages /\ index \in Nat
      /\ Len(sent') = M
      /\ \A m \in Messages : sent'[m] = sent[m]
      /\ sent'[M] = [message |-> o, index |-> index]
      /\ UNCHANGED <<resend, next_message_number, network, receiver>>
  BY <1>0, <1>1 DEF Enqueues
<1>5. \A f \in 1 .. o.chunks :
         LET p == NewPacket(o, index, f)
         IN  /\ p.chunk = <<M, f>> /\ p.chunk[1] = M /\ p.chunk[2] = f
             /\ p.reliability = o.reliability /\ p.channel = o.channel
             /\ p.index = index /\ p.id = split_id_counter /\ p.count = o.chunks
  BY <1>0 DEF NewPacket
<1>6. /\ Numbered /\ AllGenuine /\ Siblings /\ OwnIds /\ Once /\ Covered
  BY DEF SentInv
<1>7. /\ send_ordering_index \in [Channels -> Nat]
      /\ send_sequenced_index \in [Channels -> Nat]
      /\ send_ordering_index' = [send_ordering_index EXCEPT ![o.channel] =
                                    IF IsOrdered(o.reliability) THEN @ + 1 ELSE @]
      /\ send_sequenced_index' = [send_sequenced_index EXCEPT ![o.channel] =
                                    IF IsSequenced(o.reliability) THEN @ + 1 ELSE @]
      /\ split_id_counter' = IF o.chunks = 1 THEN split_id_counter
                             ELSE (split_id_counter + 1) % SplitIdMod
      /\ split_id_counter \in Nat
  BY DEF TypeOK, Enqueue
<1>8. \A m \in Messages : Kind(m)' = Kind(m) /\ \A c : On(m, c)' = On(m, c)
  BY <1>4 DEF Kind, On
<1>9. /\ Kind(M)' = o.reliability
      /\ sent'[M].message = o /\ sent'[M].index = index
  BY <1>4 DEF Kind
<1>10. AllGenuine'
  <2>1. SUFFICES ASSUME NEW p \in Known'
                 PROVE  Genuine(p)'
    BY DEF AllGenuine
  <2>2. CASE p \in Known
    <3>1. Genuine(p) /\ p.chunk[1] \in Messages
      BY <1>6, <2>2 DEF AllGenuine, Genuine
    <3>. QED BY <1>2, <1>4, <3>1 DEF Genuine, Kind, On
  <2>3. ASSUME NEW f \in 1 .. o.chunks, p = NewPacket(o, index, f)
        PROVE  Genuine(p)'
    BY <1>2, <1>4, <1>5, <1>9, <2>3 DEF Genuine, On
  <2>. QED BY <1>2, <2>2, <2>3
<1>11. \A p \in Known : p.chunk[1] \in Messages /\ p.chunk[1] # M
  BY <1>2, <1>6 DEF AllGenuine, Genuine
<1>12. Siblings'
  BY <1>2, <1>5, <1>6, <1>11 DEF Siblings
<1>13. Covered'
  <2>1. SUFFICES ASSUME NEW m \in Messages', NEW f \in 1 .. sent'[m].message.chunks
                 PROVE  \E p \in Known' : p.chunk = <<m, f>>
    BY DEF Covered
  <2>2. CASE m \in Messages
    BY <1>2, <1>4, <1>6, <2>2 DEF Covered
  <2>3. CASE m = M
    BY <1>2, <1>5, <1>9, <2>3
  <2>. QED BY <1>2, <2>2, <2>3
<1>14. OwnIds'
  <2>1. SUFFICES ASSUME IdsSuffice
                 PROVE  /\ M < SplitIdMod =>
                              /\ split_id_counter' <= M
                              /\ \A p \in Known' : p.count > 1 => p.id < split_id_counter'
                        /\ \A p, q \in Known' :
                              p.count > 1 /\ q.count > 1 /\ p.id = q.id => p.chunk[1] = q.chunk[1]
    BY <1>4 DEF OwnIds
  <2>2. /\ SplitIdMod \in Nat \ {0} /\ MaxMessages \in Nat
        /\ M \in Nat /\ Len(sent) < SplitIdMod /\ M = Len(sent) + 1
    BY <1>4, <2>1, LimitsAssumption, BoundsAssumption, <1>0 DEF IdsSuffice
  <2>3. /\ split_id_counter <= Len(sent)
        /\ \A p \in Known : p.count > 1 => p.id < split_id_counter
        /\ \A p, q \in Known :
              p.count > 1 /\ q.count > 1 /\ p.id = q.id => p.chunk[1] = q.chunk[1]
    BY <1>6, <2>1, <2>2 DEF OwnIds
  <2>4. \A p \in Known : p.count > 1 => p.id < split_id_counter /\ p.id # split_id_counter
    <3>1. \A a \in Nat : \A b : b < a /\ b = a => FALSE
      OBVIOUS
    <3>. QED BY <1>7, <2>3, <3>1
  <2>5. \A p, q \in Known' :
            p.count > 1 /\ q.count > 1 /\ p.id = q.id => p.chunk[1] = q.chunk[1]
    BY <1>2, <1>5, <2>3, <2>4
  <2>6. ASSUME M < SplitIdMod
        PROVE  /\ split_id_counter' <= M
               /\ \A p \in Known' : p.count > 1 => p.id < split_id_counter'
    <3>1. CASE o.chunks = 1
      <4>1. split_id_counter' = split_id_counter
        BY <1>7, <3>1
      <4>2. \A p \in Known' : p.count > 1 => p \in Known
        BY <1>2, <1>5, <3>1
      <4>3. split_id_counter' <= M
        BY <1>4, <1>7, <2>2, <2>3, <4>1
      <4>. QED BY <2>3, <4>1, <4>2, <4>3
    <3>2. CASE o.chunks # 1
      <4>1. (split_id_counter + 1) % SplitIdMod = split_id_counter + 1
        <5>1. split_id_counter + 1 \in 0 .. (SplitIdMod - 1)
          BY <1>4, <1>7, <2>2, <2>3, <2>6
        <5>. QED BY <2>2, <5>1
      <4>2. split_id_counter' = split_id_counter + 1
        BY <1>7, <3>2, <4>1
      <4>3. \A p \in Known : p.id \in Nat
        <5>1. \A p \in Known : p \in Packet
          BY ElementOfSeq, LenProperties DEF Known, TypeOK
        <5>. QED BY <5>1 DEF Packet
      <4>4. \A p \in Known' : p.count > 1 => p.id < split_id_counter + 1
        BY <1>2, <1>5, <1>7, <2>3, <4>3
      <4>. QED BY <1>4, <1>7, <2>2, <2>3, <4>2, <4>4
    <3>. QED BY <3>1, <3>2
  <2>. QED BY <2>5, <2>6
<1>15. Once'
  <2>1. /\ DOMAIN send_queue \subseteq DOMAIN send_queue'
        /\ \A i \in DOMAIN send_queue : send_queue'[i] = send_queue[i]
        /\ \A i \in DOMAIN send_queue' \ DOMAIN send_queue :
              \E f \in 1 .. o.chunks : /\ i = Len(send_queue) + f
                                       /\ send_queue'[i] = NewPacket(o, index, f)
    BY <1>1 DEF Enqueues
  <2>2. /\ UNCHANGED <<resend, data>>
        /\ \A i \in DOMAIN send_queue : send_queue[i].chunk[1] # M
        /\ \A n \in DOMAIN data : data[n].chunk[1] # M
    BY <1>4, <1>11 DEF Known, network
  <2>3. \A i \in DOMAIN send_queue' \ DOMAIN send_queue :
           \E f \in 1 .. o.chunks : /\ i = Len(send_queue) + f
                                    /\ send_queue'[i].chunk = <<M, f>>
                                    /\ send_queue'[i].chunk[1] = M
                                    /\ send_queue'[i].chunk[2] = f
    BY <1>5, <2>1
  <2>4. ASSUME NEW i \in DOMAIN send_queue', NEW j \in DOMAIN send_queue',
               send_queue'[i].chunk = send_queue'[j].chunk
        PROVE  i = j
    <3>1. CASE i \in DOMAIN send_queue /\ j \in DOMAIN send_queue
      BY <1>6, <2>1, <2>4, <3>1 DEF Once
    <3>2. CASE i \in DOMAIN send_queue /\ j \notin DOMAIN send_queue
      BY <2>1, <2>2, <2>3, <2>4, <3>2
    <3>3. CASE i \notin DOMAIN send_queue /\ j \in DOMAIN send_queue
      BY <2>1, <2>2, <2>3, <2>4, <3>3
    <3>4. CASE i \notin DOMAIN send_queue /\ j \notin DOMAIN send_queue
      BY <2>3, <2>4, <3>4
    <3>. QED BY <3>1, <3>2, <3>3, <3>4
  <2>5. ASSUME NEW i \in DOMAIN send_queue', NEW n \in DOMAIN data,
               send_queue'[i].chunk = data[n].chunk
        PROVE  FALSE
    BY <1>6, <2>1, <2>2, <2>3, <2>5 DEF Once
  <2>6. /\ \A n, k \in DOMAIN data :
              data[n].chunk = data[k].chunk /\ ~ IsReliable(data[n].reliability) => n = k
        /\ \A n \in DOMAIN resend : IsReliable(resend[n].packet.reliability)
    BY <1>6 DEF Once
  <2>. QED BY <2>2, <2>4, <2>5, <2>6 DEF Once
<1>16. Numbered'
  <2>1. /\ Len(sent) <= MaxMessages
        /\ \A c \in Channels : /\ send_ordering_index[c] <= Len(sent)
                               /\ send_sequenced_index[c] <= Len(sent)
        /\ \A m \in Messages :
              /\ sent[m].index < Len(sent)
              /\ IsSequenced(Kind(m)) =>
                    sent[m].index < send_sequenced_index[sent[m].message.channel]
        /\ \A m, k \in Messages :
              (IsSequenced(Kind(m)) /\ IsSequenced(Kind(k)) /\ On(m, sent[k].message.channel) /\ m < k)
                  => sent[m].index < sent[k].index
    BY <1>6 DEF Numbered
  <2>2. /\ M \in Nat /\ M = Len(sent) + 1 /\ M <= MaxMessages /\ MaxMessages \in Nat
        /\ \A m \in Messages : m \in Nat /\ m < M /\ m <= Len(sent)
    BY <1>0, <1>4, BoundsAssumption DEF Messages
  <2>3. \A c \in Channels :
           /\ send_ordering_index[c] \in Nat /\ send_sequenced_index[c] \in Nat
           /\ send_ordering_index'[c] = IF c = o.channel /\ IsOrdered(o.reliability)
                                        THEN send_ordering_index[c] + 1
                                        ELSE send_ordering_index[c]
           /\ send_sequenced_index'[c] = IF c = o.channel /\ IsSequenced(o.reliability)
                                         THEN send_sequenced_index[c] + 1
                                         ELSE send_sequenced_index[c]
    BY <1>7
  <2>4. \A c \in Channels : /\ send_ordering_index'[c] <= M
                            /\ send_sequenced_index'[c] <= M
    BY <1>4, <2>1, <2>2, <2>3
  <2>5. \A m \in Messages : /\ sent[m].message \in Outgoing /\ sent[m].index \in Nat
                            /\ sent[m].message.channel \in Channels
    <3>1. \A m \in Messages : sent[m] \in [message : Outgoing, index : Nat]
      BY ElementOfSeq DEF TypeOK, Messages
    <3>. QED BY <3>1, OutgoingAssumption
  <2>6. index <= Len(sent)
    BY <1>1, <1>3, <1>4, <2>1, <2>3
  <2>7. ASSUME NEW m \in Messages'
        PROVE  /\ sent'[m].index < M
               /\ IsSequenced(Kind(m)') =>
                     sent'[m].index < send_sequenced_index'[sent'[m].message.channel]
    <3>1. CASE m \in Messages
      <4>1. sent'[m] = sent[m] /\ Kind(m)' = Kind(m)
        BY <1>4, <1>8, <3>1
      <4>2. sent[m].index < Len(sent) /\ sent[m].index \in Nat /\ sent[m].message.channel \in Channels
        BY <2>1, <2>5, <3>1
      <4>3. IsSequenced(Kind(m)) => sent[m].index < send_sequenced_index[sent[m].message.channel]
        BY <2>1, <3>1
      <4>. QED BY <1>4, <2>1, <2>2, <2>3, <4>1, <4>2, <4>3
    <3>2. CASE m = M
      <4>1. IsSequenced(o.reliability) => index = send_sequenced_index[o.channel]
        BY <1>1 DEF IsSequenced, IsOrdered
      <4>2. index < M
        BY <1>4, <2>2, <2>6
      <4>3. IsSequenced(o.reliability) => index < send_sequenced_index'[o.channel]
        BY <1>3, <1>4, <2>3, <4>1
      <4>. QED BY <1>9, <3>2, <4>2, <4>3
    <3>. QED BY <1>2, <3>1, <3>2
  <2>8. ASSUME NEW m \in Messages', NEW k \in Messages',
               IsSequenced(Kind(m)'), IsSequenced(Kind(k)'),
               sent'[m].message.channel = sent'[k].message.channel, m < k
        PROVE  sent'[m].index < sent'[k].index
    <3>1. m \in Messages
      BY <1>2, <2>2, <2>8
    <3>2. CASE k \in Messages
      BY <1>4, <1>8, <2>1, <2>8, <3>1, <3>2 DEF On
    <3>3. CASE k = M
      <4>1. index = send_sequenced_index[o.channel]
        BY <1>1, <1>9, <2>8, <3>3 DEF IsSequenced, IsOrdered
      <4>. QED BY <1>4, <1>8, <1>9, <2>1, <2>8, <3>1, <3>3, <4>1
    <3>. QED BY <1>2, <3>2, <3>3
  <2>. QED BY <1>4, <2>2, <2>4, <2>7, <2>8 DEF Numbered, On
<1>. QED BY <1>10, <1>12, <1>13, <1>14, <1>15, <1>16 DEF SentInv

\* So does sending the queue and the due entries again.
LEMMA SenderUpdateKeepsSent ==
  ASSUME TypeOK, ResendMatchesData, SentInv, NEW due, NEW burst, Updates(due, burst)
  PROVE  SentInv' /\ Known' = Known
<1> DEFINE next == next_message_number
<1>1. /\ due \in SUBSET DOMAIN resend
      /\ \A i \in 1 .. Len(burst) : IF i <= Len(send_queue) THEN burst[i] = send_queue[i]
                                    ELSE \E k \in due : burst[i] = resend[k].packet
      /\ \A i \in 1 .. Len(send_queue) : burst[i] = send_queue[i]
      /\ Len(burst) \in Nat /\ Len(send_queue) \in 0 .. Len(burst)
      /\ send_queue' = << >>
      /\ \A n \in DOMAIN data : n \in DOMAIN data' /\ data'[n] = data[n]
      /\ \A i \in 1 .. Len(burst) : /\ next + i - 1 \in DOMAIN data' \ DOMAIN data
                                    /\ data'[next + i - 1] = burst[i]
      /\ \A n \in DOMAIN data' \ DOMAIN data : \E i \in 1 .. Len(burst) : n = next + i - 1
      /\ UNCHANGED <<sent, send_ordering_index, send_sequenced_index, split_id_counter>>
  BY LenProperties DEF Updates
<1>2. /\ DOMAIN resend' = (DOMAIN resend \ due) \cup
               {n \in DOMAIN data' \ DOMAIN data : IsReliable(data'[n].reliability)}
      /\ \A n \in DOMAIN resend \ due : resend'[n] = resend[n]
      /\ \A n \in DOMAIN resend' \ DOMAIN resend :
               resend'[n] = [packet |-> data'[n], last_sent |-> next]
  BY DEF Updates
<1>3. DOMAIN send_queue = 1 .. Len(send_queue) /\ DOMAIN send_queue' = {}
  BY <1>1, LenProperties DEF TypeOK
<1>4. /\ DOMAIN resend \subseteq DOMAIN data
      /\ \A k \in DOMAIN resend : resend[k].packet = data[k]
      /\ Numbered /\ AllGenuine /\ Siblings /\ OwnIds /\ Once /\ Covered
  BY DEF TypeOK, ResendMatchesData, SentInv
<1>. HIDE DEF next
\* What leaves under a fresh number was waiting, or is sent again.
<1>5. \A n \in DOMAIN data' \ DOMAIN data :
         \/ \E i \in DOMAIN send_queue : n = next + i - 1 /\ data'[n] = send_queue[i]
         \/ \E k \in due : data'[n] = data[k] /\ IsReliable(data[k].reliability)
  <2>1. SUFFICES ASSUME NEW n \in DOMAIN data' \ DOMAIN data
                 PROVE  \/ \E i \in DOMAIN send_queue : n = next + i - 1 /\ data'[n] = send_queue[i]
                        \/ \E k \in due : data'[n] = data[k] /\ IsReliable(data[k].reliability)
    OBVIOUS
  <2>2. PICK i \in 1 .. Len(burst) : n = next + i - 1
    BY <1>1
  <2>3. data'[n] = burst[i]
    BY <1>1, <2>2
  <2>4. CASE i <= Len(send_queue)
    <3>1. i \in DOMAIN send_queue
      BY <1>1, <1>3, <2>4
    <3>. QED BY <1>1, <2>2, <2>3, <2>4, <3>1
  <2>5. CASE ~(i <= Len(send_queue))
    BY <1>1, <1>4, <2>3, <2>5 DEF Once
  <2>. QED BY <2>4, <2>5
<1>6. \A i \in DOMAIN send_queue : \E n \in DOMAIN data' : data'[n] = send_queue[i]
  <2>1. SUFFICES ASSUME NEW i \in DOMAIN send_queue
                 PROVE  \E n \in DOMAIN data' : data'[n] = send_queue[i]
    OBVIOUS
  <2>2. i \in 1 .. Len(send_queue) /\ i \in 1 .. Len(burst)
    BY <1>1, <1>3
  <2>. QED BY <1>1, <2>2
<1>7. Known' = Known
  <2>1. ASSUME NEW p \in Known'
        PROVE  p \in Known
    <3>1. PICK n \in DOMAIN data' : p = data'[n]
      BY <1>3 DEF Known
    <3>2. CASE n \in DOMAIN data
      BY <1>1, <3>1, <3>2 DEF Known
    <3>3. CASE n \notin DOMAIN data
      <4>1. \/ \E i \in DOMAIN send_queue : p = send_queue[i]
            \/ \E k \in DOMAIN data : p = data[k]
        BY <1>1, <1>4, <1>5, <3>1, <3>3
      <4>. QED BY <4>1 DEF Known
    <3>. QED BY <3>2, <3>3
  <2>2. ASSUME NEW p \in Known
        PROVE  p \in Known'
    <3>1. CASE \E i \in DOMAIN send_queue : p = send_queue[i]
      BY <1>6, <3>1 DEF Known
    <3>2. CASE \E n \in DOMAIN data : p = data[n]
      BY <1>1, <3>2 DEF Known
    <3>. QED BY <3>1, <3>2 DEF Known
  <2>. QED BY <2>1, <2>2
<1>8. /\ Numbered' /\ AllGenuine' /\ Siblings' /\ OwnIds' /\ Covered'
  BY <1>1, <1>4, <1>7 DEF Numbered, AllGenuine, Siblings, OwnIds, Covered, Genuine, Messages,
                          Kind, On
<1>9. Once'
  <2>1. ASSUME NEW n \in DOMAIN data', NEW k \in DOMAIN data',
               data'[n].chunk = data'[k].chunk, ~ IsReliable(data'[n].reliability)
        PROVE  n = k
    \* An unreliable packet of the same chunk is the one packet of it.
    <3>1. \A p, q \in Known : p.chunk = q.chunk => p.reliability = q.reliability
      BY <1>4 DEF AllGenuine, Genuine
    <3>2. data'[n] \in Known /\ data'[k] \in Known
      BY <1>7 DEF Known
    <3>3. ~ IsReliable(data'[k].reliability)
      BY <2>1, <3>1, <3>2
    <3>4. CASE n \in DOMAIN data /\ k \in DOMAIN data
      BY <1>1, <1>4, <2>1, <3>4 DEF Once
    <3>5. CASE n \in DOMAIN data /\ k \notin DOMAIN data
      BY <1>1, <1>4, <1>5, <2>1, <3>3, <3>5 DEF Once
    <3>6. CASE n \notin DOMAIN data /\ k \in DOMAIN data
      BY <1>1, <1>4, <1>5, <2>1, <3>3, <3>6 DEF Once
    <3>7. CASE n \notin DOMAIN data /\ k \notin DOMAIN data
      <4>1. PICK i \in DOMAIN send_queue : n = next + i - 1 /\ data'[n] = send_queue[i]
        BY <1>5, <2>1, <3>7
      <4>2. PICK j \in DOMAIN send_queue : k = next + j - 1 /\ data'[k] = send_queue[j]
        BY <1>5, <3>3, <3>7
      <4>3. i = j
        BY <1>4, <2>1, <4>1, <4>2 DEF Once
      <4>. QED BY <4>1, <4>2, <4>3
    <3>. QED BY <3>4, <3>5, <3>6, <3>7
  <2>2. ASSUME NEW n \in DOMAIN resend'
        PROVE  IsReliable(resend'[n].packet.reliability)
    <3>1. CASE n \in DOMAIN resend \ due
      BY <1>2, <1>4, <3>1 DEF Once
    <3>2. CASE n \notin DOMAIN resend \ due
      <4>1. n \in DOMAIN data' \ DOMAIN data /\ IsReliable(data'[n].reliability)
        BY <1>2, <3>2
      <4>2. resend'[n] = [packet |-> data'[n], last_sent |-> next]
        BY <1>2, <1>4, <4>1
      <4>3. resend'[n].packet = data'[n]
        BY <4>2
      <4>. QED BY <4>1, <4>3
    <3>. QED BY <3>1, <3>2
  <2>. QED BY <1>3, <2>1, <2>2 DEF Once
<1>. QED BY <1>7, <1>8, <1>9 DEF SentInv

-----------------------------------------------------------------------------
(* What the receiving half makes of the packets.                             *)

\* Chunks by fragment number, all of a message or some.
Payload == UNION {[D -> Chunk] : D \in SUBSET Nat}

\* What the ordered messages of a channel are: while ids last, those that were
\* sent on it, whole.
Offers(c) ==
    IF IdsSuffice
    THEN {<<sent[m].index, Whole(m)>> : m \in {k \in Messages : Kind(k) = "ReliableOrdered" /\ On(k, c)}}
    ELSE MessageOf(Index, Payload)

GivenUp(r, c) == {i \in Index : <<c, i>> \in r.discarded}

Buffer == [count : Nat, reliability : Reliability, channel : Channels, index : Index,
           fragments : Payload]

Link == [channels  : [Channels -> ChannelOf(Index, Payload)],
         sequenced : [Channels -> Int],
         splits    : UNION {[D -> Buffer] : D \in SUBSET Nat},
         got       : SUBSET (Payload \X Nat),
         discarded : SUBSET (Channels \X Index)]

\* Every channel is healthy.
Shaped(r) ==
    /\ r \in Link /\ IsFiniteSet(DOMAIN r.splits) /\ IsFiniteSet(r.got)
    /\ \A c \in Channels : Healthy(r.channels[c], Index, Payload, Offers(c), GivenUp(r, c))

\* From r to q no channel lost an index it passed or holds.
Grows(r, q) ==
    \A c \in Channels : /\ q.channels[c].expected >= r.channels[c].expected
                        /\ \A i \in Nat : Placed(r.channels[c], i) => Placed(q.channels[c], i)

\* What b announces is not too far ahead.
Near(r, b) == b.index <= r.channels[b.channel].expected + OrderWindow

\* The indices are a finite set of naturals.
LEMMA TheIndices == Indices(Index) /\ Index \subseteq Nat
<1>1. IsFiniteSet(Index) /\ Index \subseteq Nat
  BY BoundsAssumption, FS_Interval DEF Index
<1>. QED BY <1>1 DEF Indices

\* The type of a channel.
LEMMA TheChannels ==
  ASSUME NEW r, Shaped(r), NEW c \in Channels
  PROVE  r.channels[c] \in ChannelOf(Index, Payload) /\ r.channels[c].expected \in Nat
BY DEF Shaped, Healthy, ChannelOf

\* The type of the reassembly buffers.
LEMMA TheBuffers ==
  ASSUME NEW r, Shaped(r)
  PROVE  DOMAIN r.splits \subseteq Nat /\ \A id \in DOMAIN r.splits : r.splits[id] \in Buffer
<1>1. PICK D \in SUBSET Nat : r.splits \in [D -> Buffer]
  BY DEF Shaped, Link
<1>. QED BY <1>1

\* What grew twice grew.
LEMMA GrowsTransitive ==
  ASSUME NEW r, NEW q, NEW t, Shaped(r), Shaped(q), Shaped(t), Grows(r, q), Grows(q, t)
  PROVE  Grows(r, t)
<1>1. \A c \in Channels : /\ r.channels[c].expected \in Nat /\ q.channels[c].expected \in Nat
                          /\ t.channels[c].expected \in Nat
  BY TheChannels
<1>. QED BY <1>1 DEF Grows

\* Channels left alone have lost nothing.
LEMMA GrowsReflexive ==
  ASSUME NEW r, NEW q, Shaped(r), q.channels = r.channels
  PROVE  Grows(r, q)
<1>1. \A c \in Channels : r.channels[c].expected \in Nat
  BY TheChannels
<1>. QED BY <1>1 DEF Grows

\* Replacing one channel by a healthy one that takes index i.
LEMMA ChannelReplaced ==
  ASSUME NEW r, Shaped(r), NEW c \in Channels, NEW i \in Nat, NEW d,
         NEW q \in Link,
         q.channels = [r.channels EXCEPT ![c] = d],
         q.splits = r.splits, q.got = r.got, r.discarded \subseteq q.discarded,
         Healthy(d, Index, Payload, Offers(c), GivenUp(q, c)), Takes(r.channels[c], d, i)
  PROVE  /\ Shaped(q)
         /\ Grows(r, q)
         /\ i <= r.channels[c].expected + OrderWindow => Placed(q.channels[c], i)
<1>1. \A x \in Channels : q.channels[x] = IF x = c THEN d ELSE r.channels[x]
  BY DEF Shaped, Link
<1>2. ASSUME NEW x \in Channels
      PROVE  Healthy(q.channels[x], Index, Payload, Offers(x), GivenUp(q, x))
  <2>1. CASE x = c
    BY <1>1, <2>1
  <2>2. CASE x # c
    <3>1. GivenUp(r, x) \subseteq GivenUp(q, x)
      BY DEF GivenUp
    <3>2. Healthy(r.channels[x], Index, Payload, Offers(x), GivenUp(r, x))
      BY DEF Shaped
    <3>3. Healthy(r.channels[x], Index, Payload, Offers(x), GivenUp(q, x))
      BY <3>1, <3>2, HealthyMore
    <3>. QED BY <1>1, <2>2, <3>3
  <2>. QED BY <2>1, <2>2
<1>3. Shaped(q)
  BY <1>2 DEF Shaped
<1>4. Grows(r, q)
  <2>1. \A x \in Channels : r.channels[x].expected \in Nat
    BY TheChannels
  <2>. QED BY <1>1, <2>1 DEF Grows, Takes
<1>. QED BY <1>1, <1>3, <1>4 DEF Takes

\* Pushing a payload adds one entry and touches no channel.
LEMMA PushedShaped ==
  ASSUME NEW r, Shaped(r), NEW payload \in Payload, NEW q, q = Pushed(r, payload)
  PROVE  /\ Shaped(q)
         /\ q.channels = r.channels /\ q.splits = r.splits
         /\ q.sequenced = r.sequenced /\ q.discarded = r.discarded
         /\ q.got = r.got \cup {<<payload, Copies(r, payload) + 1>>}
<1>1. Copies(r, payload) \in Nat
  <2>1. IsFiniteSet({g \in r.got : g[1] = payload})
    BY FS_Subset DEF Shaped
  <2>. QED BY <2>1, FS_CardinalityType DEF Copies
<1>2. r \in Link
  BY DEF Shaped
<1> DEFINE g == <<payload, Copies(r, payload) + 1>>
<1>3. g \in Payload \X Nat
  BY <1>1
<1>4. q = [r EXCEPT !.got = r.got \cup {g}]
  BY <1>2 DEF Pushed, Link
<1>. HIDE DEF g
<1>5. /\ q.channels = r.channels /\ q.splits = r.splits
      /\ q.sequenced = r.sequenced /\ q.discarded = r.discarded
      /\ q.got = r.got \cup {g}
      /\ q \in Link
  BY <1>2, <1>3, <1>4 DEF Link
<1>6. IsFiniteSet(q.got)
  BY <1>5, FS_AddElement DEF Shaped
<1>7. \A c : GivenUp(q, c) = GivenUp(r, c)
  BY <1>5 DEF GivenUp
<1>8. Shaped(q)
  BY <1>5, <1>6, <1>7 DEF Shaped
<1>. QED BY <1>5, <1>8 DEF g

\* Giving up b's index keeps the link in shape, and b's channel takes the index.
LEMMA AbandonedShaped ==
  ASSUME NEW r, Shaped(r), NEW b, b.channel \in Channels, b.index \in Index,
         NEW q, q = Abandoned(r, b)
  PROVE  /\ Shaped(q) /\ Grows(r, q)
         /\ q.splits = r.splits /\ q.got = r.got /\ q.sequenced = r.sequenced
         /\ IsOrdered(b.reliability) /\ Near(r, b) => Placed(q.channels[b.channel], b.index)
<1> DEFINE c == b.channel
           i == b.index
           d == AbandonOrdered(r.channels[c], i)
<1>1. CASE IsOrdered(b.reliability)
  <2>1. r \in Link /\ i \in Nat
    BY TheIndices DEF Shaped
  <2>2. q = [r EXCEPT !.channels = [r.channels EXCEPT ![c] = d],
                      !.discarded = r.discarded \cup {<<c, i>>}]
    BY <1>1, <2>1 DEF Abandoned, Link
  <2>3. /\ q.channels = [r.channels EXCEPT ![c] = d]
        /\ q.discarded = r.discarded \cup {<<c, i>>}
        /\ q.splits = r.splits /\ q.got = r.got /\ q.sequenced = r.sequenced
    BY <2>1, <2>2 DEF Link
  <2>4. GivenUp(r, c) \subseteq GivenUp(q, c) /\ i \in GivenUp(q, c)
    BY <2>3 DEF GivenUp
  <2>5. Healthy(d, Index, Payload, Offers(c), GivenUp(q, c)) /\ Takes(r.channels[c], d, i)
    <3>1. Healthy(r.channels[c], Index, Payload, Offers(c), GivenUp(r, c))
      BY DEF Shaped
    <3>2. Healthy(r.channels[c], Index, Payload, Offers(c), GivenUp(q, c))
      BY <2>4, <3>1, HealthyMore
    <3>. QED BY <2>4, <3>2, TheIndices, AbandonHealthy
  <2>6. q \in Link
    <3>1. d \in ChannelOf(Index, Payload)
      BY <2>5 DEF Healthy
    <3>. HIDE DEF d
    <3>2. [r.channels EXCEPT ![c] = d] \in [Channels -> ChannelOf(Index, Payload)]
      BY <2>1, <3>1 DEF Link
    <3>3. r.discarded \cup {<<c, i>>} \in SUBSET (Channels \X Index)
      BY <2>1 DEF Link
    <3>. HIDE DEF c, i
    <3>. QED BY <2>1, <2>2, <3>2, <3>3 DEF Link
  <2>. HIDE DEF d
  <2>7. /\ Shaped(q) /\ Grows(r, q)
        /\ i <= r.channels[c].expected + OrderWindow => Placed(q.channels[c], i)
    <3>1. r.discarded \subseteq q.discarded
      BY <2>3
    <3>. QED BY <2>1, <2>3, <2>5, <2>6, <3>1, ChannelReplaced
  <2>. QED BY <2>3, <2>7 DEF Near
<1>2. CASE ~ IsOrdered(b.reliability)
  <2>1. q = r
    BY <1>2 DEF Abandoned
  <2>. QED BY <1>2, <2>1, GrowsReflexive
<1>. QED BY <1>1, <1>2

\* Dropping a buffer touches nothing else.
LEMMA WithoutSplitShaped ==
  ASSUME NEW r, Shaped(r), NEW id, NEW q, q = WithoutSplit(r, id)
  PROVE  /\ Shaped(q)
         /\ q.channels = r.channels /\ q.got = r.got
         /\ q.sequenced = r.sequenced /\ q.discarded = r.discarded
         /\ DOMAIN q.splits = DOMAIN r.splits \ {id}
         /\ \A x \in DOMAIN q.splits : q.splits[x] = r.splits[x]
<1> DEFINE s == [i \in DOMAIN r.splits \ {id} |-> r.splits[i]]
<1>1. r \in Link
  BY DEF Shaped
<1>2. q = [r EXCEPT !.splits = s]
  BY <1>1 DEF WithoutSplit, Link
<1>3. s \in UNION {[D -> Buffer] : D \in SUBSET Nat}
  <2>1. DOMAIN r.splits \subseteq Nat /\ \A x \in DOMAIN r.splits : r.splits[x] \in Buffer
    BY TheBuffers
  <2>2. s \in [DOMAIN r.splits \ {id} -> Buffer]
    BY <2>1
  <2>. HIDE DEF s
  <2>. QED BY <2>1, <2>2
<1>4. /\ DOMAIN s = DOMAIN r.splits \ {id}
      /\ \A x \in DOMAIN s : s[x] = r.splits[x]
  OBVIOUS
<1>. HIDE DEF s
<1>5. /\ q.channels = r.channels /\ q.got = r.got
      /\ q.sequenced = r.sequenced /\ q.discarded = r.discarded
      /\ q.splits = s /\ q \in Link
  BY <1>1, <1>2, <1>3 DEF Link
<1>6. IsFiniteSet(DOMAIN q.splits)
  <2>1. IsFiniteSet(DOMAIN r.splits) /\ DOMAIN r.splits \ {id} \subseteq DOMAIN r.splits
    BY DEF Shaped
  <2>2. IsFiniteSet(DOMAIN r.splits \ {id})
    BY <2>1, FS_Subset
  <2>. QED BY <1>4, <1>5, <2>2
<1>7. \A c : GivenUp(q, c) = GivenUp(r, c)
  BY <1>5 DEF GivenUp
<1>8. Shaped(q)
  BY <1>5, <1>6, <1>7 DEF Shaped
<1>. QED BY <1>4, <1>5, <1>8

\* A message that is whole is delivered: its channel takes it, or the
\* application gets it unless a later sequenced one came first.
Delivers(r, q, b, payload) ==
    /\ Shaped(q) /\ Grows(r, q) /\ q.splits = r.splits
    /\ IsOrdered(b.reliability) =>
          /\ q.got = r.got /\ q.sequenced = r.sequenced
          /\ Near(r, b) => Placed(q.channels[b.channel], b.index)
    /\ IsSequenced(b.reliability) =>
          \/ q = r
          \/ /\ Newer(r, b)
             /\ q.sequenced = [r.sequenced EXCEPT ![b.channel] = b.index]
             /\ \E k : q.got = r.got \cup {<<payload, k>>}
    /\ ~ IsOrdered(b.reliability) /\ ~ IsSequenced(b.reliability) =>
          /\ q.sequenced = r.sequenced
          /\ \E k : q.got = r.got \cup {<<payload, k>>}

\* deliver hands over or buffers the payload, or drops it, and keeps the link in shape.
LEMMA DeliverShaped ==
  ASSUME NEW r, Shaped(r), NEW b, b.channel \in Channels, b.index \in Index,
         b.reliability \in Reliability, NEW payload \in Payload,
         IsOrdered(b.reliability) => <<b.index, payload>> \in Offers(b.channel),
         NEW q, q = Deliver(r, b, payload)
  PROVE  Delivers(r, q, b, payload)
<1> DEFINE c == b.channel
           i == b.index
<1>0. r \in Link /\ i \in Nat
  BY TheIndices DEF Shaped
<1>1. CASE IsOrdered(b.reliability)
  <2> DEFINE d == DeliverOrdered(r.channels[c], i, payload)
  <2>1. ~ IsSequenced(b.reliability)
    BY <1>1 DEF IsOrdered, IsSequenced
  <2>2. q = [r EXCEPT !.channels = [r.channels EXCEPT ![c] = d]]
    BY <1>0, <1>1, <2>1 DEF Deliver, Link
  <2>3. /\ q.channels = [r.channels EXCEPT ![c] = d]
        /\ q.discarded = r.discarded
        /\ q.splits = r.splits /\ q.got = r.got /\ q.sequenced = r.sequenced
    BY <1>0, <2>2 DEF Link
  <2>4. GivenUp(q, c) = GivenUp(r, c)
    BY <2>3 DEF GivenUp
  <2>5. Healthy(d, Index, Payload, Offers(c), GivenUp(q, c)) /\ Takes(r.channels[c], d, i)
    <3>1. Healthy(r.channels[c], Index, Payload, Offers(c), GivenUp(q, c))
      BY <2>4 DEF Shaped
    <3>2. <<i, payload>> \in Offers(c)
      BY <1>1
    <3>. QED BY <3>1, <3>2, TheIndices, DeliverHealthy
  <2>6. q \in Link
    <3>1. d \in ChannelOf(Index, Payload)
      BY <2>5 DEF Healthy
    <3>. HIDE DEF d
    <3>2. [r.channels EXCEPT ![c] = d] \in [Channels -> ChannelOf(Index, Payload)]
      BY <1>0, <3>1 DEF Link
    <3>. HIDE DEF c, i
    <3>. QED BY <1>0, <2>2, <3>2 DEF Link
  <2>. HIDE DEF d
  <2>7. /\ Shaped(q) /\ Grows(r, q)
        /\ i <= r.channels[c].expected + OrderWindow => Placed(q.channels[c], i)
    <3>1. r.discarded \subseteq q.discarded
      BY <2>3
    <3>. QED BY <1>0, <2>3, <2>5, <2>6, <3>1, ChannelReplaced
  <2>. QED BY <1>1, <2>1, <2>3, <2>7 DEF Near, Delivers
<1>2. CASE IsSequenced(b.reliability) /\ Newer(r, b)
  <2>1. ~ IsOrdered(b.reliability)
    BY <1>2 DEF IsOrdered, IsSequenced
  <2> DEFINE t == [r EXCEPT !.sequenced = [r.sequenced EXCEPT ![c] = i]]
  <2>2. q = Pushed(t, payload)
    BY <1>0, <1>2, <2>1 DEF Deliver, Link
  <2>3. /\ t.channels = r.channels /\ t.splits = r.splits /\ t.got = r.got
        /\ t.sequenced = [r.sequenced EXCEPT ![c] = i] /\ t.discarded = r.discarded
    BY <1>0 DEF Link
  <2>4. t \in Link
    <3>1. [r.sequenced EXCEPT ![c] = i] \in [Channels -> Int]
      BY <1>0 DEF Link
    <3>. HIDE DEF c, i
    <3>. QED BY <1>0, <3>1 DEF Link
  <2>. HIDE DEF t
  <2>5. Shaped(t)
    <3>1. \A x : GivenUp(t, x) = GivenUp(r, x)
      BY <2>3 DEF GivenUp
    <3>. QED BY <2>3, <2>4, <3>1 DEF Shaped
  <2>6. /\ Shaped(q)
        /\ q.channels = t.channels /\ q.splits = t.splits
        /\ q.sequenced = t.sequenced
        /\ q.got = t.got \cup {<<payload, Copies(t, payload) + 1>>}
    BY <2>2, <2>5, PushedShaped
  <2>7. Grows(r, q)
    BY <2>3, <2>6, GrowsReflexive
  <2>. QED BY <1>2, <2>1, <2>3, <2>6, <2>7 DEF Delivers
<1>3. CASE IsSequenced(b.reliability) /\ ~ Newer(r, b)
  <2>1. ~ IsOrdered(b.reliability)
    BY <1>3 DEF IsOrdered, IsSequenced
  <2>2. q = r
    BY <1>3, <2>1 DEF Deliver
  <2>. QED BY <1>3, <2>1, <2>2, GrowsReflexive DEF Delivers
<1>4. CASE ~ IsOrdered(b.reliability) /\ ~ IsSequenced(b.reliability)
  <2>1. q = Pushed(r, payload)
    BY <1>4 DEF Deliver
  <2>2. /\ Shaped(q)
        /\ q.channels = r.channels /\ q.splits = r.splits
        /\ q.sequenced = r.sequenced
        /\ q.got = r.got \cup {<<payload, Copies(r, payload) + 1>>}
    BY <2>1, PushedShaped
  <2>3. Grows(r, q)
    BY <2>2, GrowsReflexive
  <2>. QED BY <1>4, <2>2, <2>3 DEF Delivers
<1>. QED BY <1>1, <1>2, <1>3, <1>4

\* What is near stays near as the link grows.
LEMMA NearGrows ==
  ASSUME NEW r, NEW q, Shaped(r), Shaped(q), Grows(r, q),
         NEW b, b.channel \in Channels, b.index \in Index, Near(r, b)
  PROVE  Near(q, b)
<1>1. /\ r.channels[b.channel].expected \in Nat /\ q.channels[b.channel].expected \in Nat
      /\ b.index \in Nat
  BY TheChannels, TheIndices
<1>. QED BY <1>1, OrderWindowAssumption DEF Grows, Near

\* A refusal gives up the packet, and the buffer of its id with all it holds.
LEMMA RefusedShaped ==
  ASSUME NEW r, Shaped(r), NEW pkt \in Packet, pkt.index \in Index,
         NEW q, q = SplitRefused(r, pkt)
  PROVE  /\ Shaped(q) /\ Grows(r, q) /\ q.got = r.got /\ q.sequenced = r.sequenced
         /\ DOMAIN q.splits = DOMAIN r.splits \ {pkt.id}
         /\ \A x \in DOMAIN q.splits : q.splits[x] = r.splits[x]
         /\ IsOrdered(pkt.reliability) /\ Near(r, pkt)
               => Placed(q.channels[pkt.channel], pkt.index)
         /\ pkt.id \in DOMAIN r.splits =>
               LET b == r.splits[pkt.id]
               IN  IsOrdered(b.reliability) /\ Near(r, b)
                      => Placed(q.channels[b.channel], b.index)
<1>1. pkt.channel \in Channels
  BY DEF Packet
<1>2. CASE pkt.id \in DOMAIN r.splits
  <2> DEFINE b == r.splits[pkt.id]
             t == WithoutSplit(r, pkt.id)
             u == Abandoned(t, b)
  <2>1. q = Abandoned(u, pkt)
    BY <1>2 DEF SplitRefused
  <2>2. b.channel \in Channels /\ b.index \in Index /\ b.index \in Nat
    BY <1>2, TheBuffers, TheIndices DEF Buffer
  <2>3. /\ Shaped(t) /\ t.channels = r.channels /\ t.got = r.got /\ t.sequenced = r.sequenced
        /\ DOMAIN t.splits = DOMAIN r.splits \ {pkt.id}
        /\ \A x \in DOMAIN t.splits : t.splits[x] = r.splits[x]
    BY WithoutSplitShaped
  <2>4. Grows(r, t)
    BY <2>3, GrowsReflexive
  <2>. HIDE DEF t
  <2>5. /\ Shaped(u) /\ Grows(t, u)
        /\ u.splits = t.splits /\ u.got = t.got /\ u.sequenced = t.sequenced
        /\ IsOrdered(b.reliability) /\ Near(t, b) => Placed(u.channels[b.channel], b.index)
    <3>. HIDE DEF b
    <3>. QED BY <2>2, <2>3, AbandonedShaped
  <2>. HIDE DEF u
  <2>6. /\ Shaped(q) /\ Grows(u, q)
        /\ q.splits = u.splits /\ q.got = u.got /\ q.sequenced = u.sequenced
        /\ IsOrdered(pkt.reliability) /\ Near(u, pkt) => Placed(q.channels[pkt.channel], pkt.index)
    BY <1>1, <2>1, <2>5, AbandonedShaped
  <2>7. Grows(r, u)
    BY <2>3, <2>4, <2>5, GrowsTransitive
  <2>8. Grows(r, q)
    BY <2>5, <2>6, <2>7, GrowsTransitive
  <2>9. Near(r, pkt) => Near(u, pkt)
    BY <1>1, <2>5, <2>7, NearGrows
  <2>10. Near(r, b) => Near(t, b)
    BY <2>3 DEF Near
  <2>11. Placed(u.channels[b.channel], b.index) => Placed(q.channels[b.channel], b.index)
    BY <2>2, <2>6 DEF Grows
  <2>. QED BY <2>3, <2>5, <2>6, <2>8, <2>9, <2>10, <2>11
<1>3. CASE pkt.id \notin DOMAIN r.splits
  <2>1. q = Abandoned(r, pkt)
    BY <1>3 DEF SplitRefused
  <2>2. /\ Shaped(q) /\ Grows(r, q)
        /\ q.splits = r.splits /\ q.got = r.got /\ q.sequenced = r.sequenced
        /\ IsOrdered(pkt.reliability) /\ Near(r, pkt) => Placed(q.channels[pkt.channel], pkt.index)
    BY <1>1, <2>1, AbandonedShaped
  <2>. QED BY <1>3, <2>2
<1>. QED BY <1>2, <1>3

\* The link after the first k of the listed reassemblies were given up.
GivenTo(given, r, ids, n) ==
    /\ given = [k \in 0 .. n |-> given[k]]
    /\ given[0] = r
    /\ \A k \in 1 .. n : given[k] = Abandoned(given[k - 1], r.splits[ids[k]])

\* The buffers given up one by one, as a sequence of links.
LEMMA GivenExist ==
  ASSUME NEW r, NEW ids, NEW count \in Nat
  PROVE  \E given : GivenTo(given, r, ids, count)
<1> DEFINE Bad == {n \in Nat : ~ \E f : GivenTo(f, r, ids, n)}
<1>1. SUFFICES ASSUME Bad # {}
               PROVE  FALSE
  BY <1>1
<1>2. PICK n \in Bad : \A k \in Bad : n <= k
  <2>1. Bad \in SUBSET Nat
    OBVIOUS
  <2>. HIDE DEF Bad
  <2>. QED BY <1>1, <2>1, NatLeast
<1>3. CASE n = 0
  <2> DEFINE f == [k \in 0 .. 0 |-> r]
  <2>1. GivenTo(f, r, ids, 0)
    BY DEF GivenTo
  <2>. QED BY <1>2, <1>3, <2>1
<1>4. CASE n # 0
  <2>1. n \in Nat /\ n - 1 \in Nat /\ n - 1 \notin Bad
    <3>1. n \in Nat /\ n - 1 \in Nat /\ ~(n <= n - 1)
      BY <1>4
    <3>. HIDE DEF Bad
    <3>. QED BY <1>2, <3>1
  <2>2. PICK f : GivenTo(f, r, ids, n - 1)
    BY <2>1
  <2> DEFINE g == [k \in 0 .. n |-> IF k = n THEN Abandoned(f[n - 1], r.splits[ids[n]]) ELSE f[k]]
  <2>3. g = [k \in 0 .. n |-> g[k]]
    OBVIOUS
  <2>4. g[0] = r
    BY <1>4, <2>1, <2>2 DEF GivenTo
  <2>5. ASSUME NEW k \in 1 .. n
        PROVE  g[k] = Abandoned(g[k - 1], r.splits[ids[k]])
    <3>1. k - 1 \in 0 .. n /\ k - 1 # n /\ k \in 0 .. n
      BY <2>1
    <3>2. g[k - 1] = f[k - 1]
      BY <3>1
    <3>3. CASE k = n
      BY <3>1, <3>2, <3>3
    <3>4. CASE k # n
      <4>1. k \in 1 .. (n - 1) /\ g[k] = f[k]
        BY <2>1, <3>1, <3>4
      <4>2. f[k] = Abandoned(f[k - 1], r.splits[ids[k]])
        BY <2>2, <4>1 DEF GivenTo
      <4>. QED BY <3>2, <4>1, <4>2
    <3>. QED BY <3>3, <3>4
  <2>6. GivenTo(g, r, ids, n)
    <3>. HIDE DEF g
    <3>. QED BY <2>3, <2>4, <2>5 DEF GivenTo
  <2>. QED BY <1>2, <2>6
<1>. QED BY <1>3, <1>4

\* However many are given up, the buffers and what was pushed stay.
LEMMA GivenShaped ==
  ASSUME NEW r, Shaped(r), NEW ids, NEW n \in Nat,
         \A k \in 1 .. n : ids[k] \in DOMAIN r.splits,
         NEW f, GivenTo(f, r, ids, n)
  PROVE  \A k \in 0 .. n : /\ Shaped(f[k]) /\ Grows(r, f[k]) /\ f[k].splits = r.splits
                           /\ f[k].got = r.got /\ f[k].sequenced = r.sequenced
<1> DEFINE Good(x) == /\ Shaped(x) /\ Grows(r, x) /\ x.splits = r.splits
                      /\ x.got = r.got /\ x.sequenced = r.sequenced
           Bad == {k \in 0 .. n : ~ Good(f[k])}
<1>1. SUFFICES ASSUME Bad # {}
               PROVE  FALSE
  BY <1>1
<1>2. PICK k \in Bad : \A j \in Bad : k <= j
  <2>1. Bad \in SUBSET Nat
    OBVIOUS
  <2>. HIDE DEF Bad
  <2>. QED BY <1>1, <2>1, NatLeast
<1>3. k \in 0 .. n /\ ~ Good(f[k])
  BY <1>2
<1>4. CASE k = 0
  <2>1. f[k] = r
    BY <1>4 DEF GivenTo
  <2>2. Good(r)
    BY GrowsReflexive
  <2>. QED BY <1>3, <2>1, <2>2
<1>5. CASE k # 0
  <2>1. k - 1 \in 0 .. n /\ ~(k <= k - 1) /\ k \in 1 .. n
    BY <1>3, <1>5
  <2>2. Good(f[k - 1])
    BY <1>2, <2>1
  <2> DEFINE t == f[k - 1]
             b == r.splits[ids[k]]
  <2>3. f[k] = Abandoned(t, b)
    BY <2>1 DEF GivenTo
  <2>4. b.channel \in Channels /\ b.index \in Index
    BY <2>1, TheBuffers DEF Buffer
  <2>5. Shaped(t) /\ Grows(r, t) /\ t.splits = r.splits /\ t.got = r.got /\ t.sequenced = r.sequenced
    BY <2>2
  <2>. HIDE DEF t, b
  <2>6. /\ Shaped(f[k]) /\ Grows(t, f[k])
        /\ f[k].splits = t.splits /\ f[k].got = t.got /\ f[k].sequenced = t.sequenced
    BY <2>3, <2>4, <2>5, AbandonedShaped
  <2>7. Grows(r, f[k])
    BY <2>5, <2>6, GrowsTransitive
  <2>. QED BY <1>3, <2>5, <2>6, <2>7
<1>. QED BY <1>4, <1>5

\* With the slots taken every reassembly and the newcomer are given up.
LEMMA OverCapacityShaped ==
  ASSUME NEW r, Shaped(r), NEW pkt \in Packet, pkt.index \in Index,
         NEW q, q = SplitOverCapacity(r, pkt)
  PROVE  /\ Shaped(q) /\ Grows(r, q)
         /\ q.got = r.got /\ q.sequenced = r.sequenced /\ q.splits = r.splits
         /\ IsOrdered(pkt.reliability) /\ Near(r, pkt)
               => Placed(q.channels[pkt.channel], pkt.index)
<1> DEFINE ids   == Ascending(DOMAIN r.splits)
           count == Cardinality(DOMAIN r.splits)
           Is(h) == h = [k \in 0 .. count |->
                           IF k = 0 THEN r ELSE Abandoned(h[k - 1], r.splits[ids[k]])]
           given == CHOOSE h : Is(h)
<1>1. count \in Nat /\ \A k \in 1 .. count : ids[k] \in DOMAIN r.splits
  <2>1. DOMAIN r.splits \in SUBSET Nat /\ IsFiniteSet(DOMAIN r.splits)
    BY TheBuffers DEF Shaped
  <2>. QED BY <2>1, AscendingLists
<1>2. q = Abandoned(given[count], pkt)
  BY DEF SplitOverCapacity
<1>. HIDE DEF ids, count
<1>3. PICK f : GivenTo(f, r, ids, count)
  BY <1>1, GivenExist
<1>4. Is(f)
  <2>1. f = [k \in 0 .. count |-> f[k]]
    BY <1>3 DEF GivenTo
  <2>2. ASSUME NEW k \in 0 .. count
        PROVE  f[k] = IF k = 0 THEN r ELSE Abandoned(f[k - 1], r.splits[ids[k]])
    <3>1. CASE k = 0
      BY <1>3, <3>1 DEF GivenTo
    <3>2. CASE k # 0
      <4>1. k \in 1 .. count
        BY <1>1, <3>2
      <4>. QED BY <1>3, <3>2, <4>1 DEF GivenTo
    <3>. QED BY <3>1, <3>2
  <2>. QED BY <2>1, <2>2, Zenon
<1>5. Is(given)
  BY <1>4, Zenon
<1>. HIDE DEF given
<1>6. GivenTo(given, r, ids, count)
  <2>1. DOMAIN given = 0 .. count /\ given = [k \in 0 .. count |-> given[k]]
    BY <1>5
  <2>2. given[0] = r
    BY <1>1, <1>5
  <2>3. ASSUME NEW k \in 1 .. count
        PROVE  given[k] = Abandoned(given[k - 1], r.splits[ids[k]])
    <3>1. k \in 0 .. count /\ k # 0
      BY <1>1
    <3>. QED BY <1>5, <3>1
  <2>. QED BY <2>1, <2>2, <2>3 DEF GivenTo
<1> DEFINE t == given[count]
<1>7. Shaped(t) /\ Grows(r, t) /\ t.splits = r.splits /\ t.got = r.got /\ t.sequenced = r.sequenced
  BY <1>1, <1>6, GivenShaped
<1>8. q = Abandoned(t, pkt) /\ pkt.channel \in Channels
  BY <1>2 DEF Packet
<1>. HIDE DEF t
<1>9. /\ Shaped(q) /\ Grows(t, q)
      /\ q.splits = t.splits /\ q.got = t.got /\ q.sequenced = t.sequenced
      /\ IsOrdered(pkt.reliability) /\ Near(t, pkt) => Placed(q.channels[pkt.channel], pkt.index)
  BY <1>7, <1>8, AbandonedShaped
<1>10. Grows(r, q)
  BY <1>7, <1>9, GrowsTransitive
<1>11. Near(r, pkt) => Near(t, pkt)
  BY <1>7, <1>8, NearGrows
<1>. QED BY <1>7, <1>9, <1>10, <1>11

\* What was pushed of message m.
Pushes(r, m) == {g \in r.got : g[1] = Whole(m)}

\* The chunks of m that reached the receiver in the packets `done`.
Arrived(m, f, done) == \E n \in done : data[n].chunk = <<m, f>>

\* The buffer b of a split id holds some of the chunks of message m, and its
\* header; they came under that id.
FragmentsOf(b, id, m, done) ==
    /\ m \in Messages /\ b.count = sent[m].message.chunks /\ b.count > 1
    /\ b.reliability = Kind(m) /\ On(m, b.channel) /\ b.index = sent[m].index
    /\ DOMAIN b.fragments \subseteq 1 .. b.count
    /\ DOMAIN b.fragments # {} /\ DOMAIN b.fragments # 1 .. b.count
    /\ \A f \in DOMAIN b.fragments :
          /\ b.fragments[f] = <<m, f>>
          /\ \E n \in done : data[n].chunk = <<m, f>> /\ data[n].id = id

\* While ids last: buffers hold one message each; what was pushed is messages,
\* no sequenced one of them later than its channel's mark, an unreliable one
\* only when all its packets were accepted, and none but a plain reliable one
\* more than once.
BuffersFaithful(r, done) ==
    \A id \in DOMAIN r.splits : \E m : FragmentsOf(r.splits[id], id, m, done)
PushedFaithful(r) ==
    \A g \in r.got : \E m \in Messages : Kind(m) # "ReliableOrdered" /\ g[1] = Whole(m)
PushedMarked(r) ==
    \A m \in Messages : IsSequenced(Kind(m)) /\ Pushes(r, m) # {} =>
        sent[m].index <= r.sequenced[sent[m].message.channel]
PushedArrived(r, done) ==
    \A m \in Messages : Kind(m) = "Unreliable" /\ Pushes(r, m) # {} =>
        \A f \in 1 .. sent[m].message.chunks : Arrived(m, f, done)
PushedOnce(r) ==
    \A m \in Messages : Kind(m) # "Reliable" => \A g, h \in Pushes(r, m) : g = h

Faithful(r, done) ==
    IdsSuffice => /\ BuffersFaithful(r, done) /\ PushedFaithful(r) /\ PushedMarked(r)
                  /\ PushedArrived(r, done) /\ PushedOnce(r)

\* From r to q a sequenced message is pushed only past its channel's mark.
PushedNewer(r, q) ==
    \A m \in Messages : IsSequenced(Kind(m)) /\ Pushes(q, m) # Pushes(r, m) =>
        r.sequenced[sent[m].message.channel] < sent[m].index

\* The types of a message's parts.
LEMMA TheMessages ==
  ASSUME TypeOK, SentInv, NEW m \in Messages
  PROVE  /\ m \in 1 .. MaxMessages /\ sent[m].index \in Index /\ sent[m].index \in Nat
         /\ Kind(m) \in Reliability /\ sent[m].message.channel \in Channels
         /\ sent[m].message.chunks \in Nat \ {0}
<1>1. sent \in Seq([message : Outgoing, index : Nat]) /\ Len(sent) \in Nat
  BY LenProperties DEF TypeOK
<1>2. sent[m] \in [message : Outgoing, index : Nat]
  BY <1>1, ElementOfSeq DEF Messages
<1>3. Len(sent) <= MaxMessages /\ sent[m].index < Len(sent)
  BY DEF SentInv, Numbered
<1>4. m \in 1 .. MaxMessages /\ sent[m].index \in Index
  BY <1>1, <1>2, <1>3, BoundsAssumption DEF Messages, Index
<1>5. sent[m].message \in Outgoing
  BY <1>2
<1>. QED BY <1>2, <1>4, <1>5, OutgoingAssumption DEF Kind

\* Whole messages are payloads and tell which message they are.
LEMMA WholeMessages ==
  ASSUME TypeOK, SentInv, NEW m \in Messages
  PROVE  /\ Whole(m) \in Payload
         /\ DOMAIN Whole(m) = 1 .. sent[m].message.chunks
         /\ \A f \in 1 .. sent[m].message.chunks : Whole(m)[f] = <<m, f>>
         /\ \A k \in Messages : Whole(k) = Whole(m) => k = m
<1>1. \A k \in Messages : /\ k \in 1 .. MaxMessages
                          /\ sent[k].message.chunks \in Nat \ {0}
  BY TheMessages
<1>2. \A k \in Messages : /\ DOMAIN Whole(k) = 1 .. sent[k].message.chunks
                          /\ \A f \in 1 .. sent[k].message.chunks : Whole(k)[f] = <<k, f>>
  BY DEF Whole
<1>3. Whole(m) \in Payload
  <2>1. \A f \in 1 .. sent[m].message.chunks : <<m, f>> \in Chunk
    BY <1>1 DEF Chunk
  <2>2. Whole(m) \in [1 .. sent[m].message.chunks -> Chunk]
    BY <2>1 DEF Whole
  <2>3. 1 .. sent[m].message.chunks \in SUBSET Nat
    OBVIOUS
  <2>. QED BY <2>2, <2>3 DEF Payload
<1>4. ASSUME NEW k \in Messages, Whole(k) = Whole(m)
      PROVE  k = m
  <2>1. 1 \in 1 .. sent[k].message.chunks /\ 1 \in 1 .. sent[m].message.chunks
    BY <1>1
  <2>2. Whole(k)[1] = <<k, 1>> /\ Whole(m)[1] = <<m, 1>>
    BY <1>2, <2>1
  <2>. QED BY <1>4, <2>2
<1>. QED BY <1>2, <1>3, <1>4

\* What was sent is a chunk of a message.
LEMMA ThePackets ==
  ASSUME TypeOK, SentInv, NEW n \in DOMAIN data
  PROVE  LET p == data[n]
             m == p.chunk[1]
         IN  /\ p \in Packet /\ p \in Known /\ m \in Messages
             /\ p.chunk = <<m, p.chunk[2]>> /\ p.chunk[2] \in 1 .. p.count
             /\ p.count = sent[m].message.chunks /\ p.count \in Nat \ {0}
             /\ p.reliability = Kind(m) /\ p.channel = sent[m].message.channel
             /\ p.index = sent[m].index /\ p.index \in Index
<1>1. data[n] \in Packet /\ data[n] \in Known
  BY DEF TypeOK, Known
<1>2. Genuine(data[n])
  BY <1>1 DEF SentInv, AllGenuine
<1>3. data[n].chunk = <<data[n].chunk[1], data[n].chunk[2]>>
  BY <1>1 DEF Packet, Chunk
<1>4. data[n].chunk[1] \in Messages
  BY <1>2 DEF Genuine
<1>. QED BY <1>1, <1>2, <1>3, <1>4, TheMessages DEF Genuine, On

\* The whole message is what its channel is offered.
LEMMA WholeOffered ==
  ASSUME IdsSuffice, NEW m \in Messages, Kind(m) = "ReliableOrdered"
  PROVE  <<sent[m].index, Whole(m)>> \in Offers(sent[m].message.channel)
BY DEF Offers, On

\* A buffer is of the message whose packets carry its id.
LEMMA BufferOwner ==
  ASSUME TypeOK, SentInv, IdsSuffice, NEW done, done \subseteq DOMAIN data,
         NEW b, NEW id, NEW m, FragmentsOf(b, id, m, done),
         NEW n \in DOMAIN data, data[n].id = id, data[n].count > 1
  PROVE  data[n].chunk[1] = m
<1>1. PICK f \in DOMAIN b.fragments : TRUE
  BY DEF FragmentsOf
<1>2. PICK k \in done : data[k].chunk = <<m, f>> /\ data[k].id = id
  BY DEF FragmentsOf
<1>3. data[k] \in Known /\ data[n] \in Known /\ data[k].chunk[1] = m
  BY <1>2 DEF Known
<1>4. data[k].count > 1
  BY <1>2, <1>3, ThePackets DEF FragmentsOf
<1>. QED BY <1>2, <1>3, <1>4 DEF SentInv, OwnIds

\* More accepted packets leave a buffer as faithful as it was.
LEMMA FragmentsStay ==
  ASSUME NEW done, NEW more, done \subseteq more, NEW b, NEW id, NEW m, FragmentsOf(b, id, m, done)
  PROVE  FragmentsOf(b, id, m, more)
<1>1. \A f \in DOMAIN b.fragments :
          /\ b.fragments[f] = <<m, f>>
          /\ \E n \in more : data[n].chunk = <<m, f>> /\ data[n].id = id
  BY DEF FragmentsOf
<1>. QED BY <1>1 DEF FragmentsOf

\* Delivering a message all of whose chunks arrived keeps the link faithful.
LEMMA FaithfulDelivered ==
  ASSUME TypeOK, SentInv, IdsSuffice,
         NEW done, NEW more, done \subseteq more,
         NEW r, Shaped(r), Faithful(r, done),
         NEW m \in Messages, NEW b,
         b.reliability = Kind(m), b.channel = sent[m].message.channel, b.index = sent[m].index,
         \A f \in 1 .. sent[m].message.chunks : Arrived(m, f, more),
         Kind(m) = "Unreliable" => Pushes(r, m) = {},
         NEW q, q = Deliver(r, b, Whole(m))
  PROVE  /\ Shaped(q) /\ Grows(r, q) /\ q.splits = r.splits
         /\ Faithful(q, more)
         /\ PushedNewer(r, q)
         /\ IsOrdered(b.reliability) /\ Near(r, b) => Placed(q.channels[b.channel], b.index)
<1>1. /\ b.channel \in Channels /\ b.index \in Index /\ b.reliability \in Reliability
      /\ sent[m].index \in Nat
  BY TheMessages
<1>2. Whole(m) \in Payload /\ \A k \in Messages : Whole(k) = Whole(m) => k = m
  BY WholeMessages
<1>3. IsOrdered(b.reliability) => <<b.index, Whole(m)>> \in Offers(b.channel)
  BY WholeOffered DEF IsOrdered
<1>4. /\ Shaped(q) /\ Grows(r, q) /\ q.splits = r.splits
      /\ IsOrdered(b.reliability) =>
            /\ q.got = r.got /\ q.sequenced = r.sequenced
            /\ Near(r, b) => Placed(q.channels[b.channel], b.index)
      /\ IsSequenced(b.reliability) =>
            \/ q = r
            \/ /\ Newer(r, b)
               /\ q.sequenced = [r.sequenced EXCEPT ![b.channel] = b.index]
               /\ \E k : q.got = r.got \cup {<<Whole(m), k>>}
      /\ ~ IsOrdered(b.reliability) /\ ~ IsSequenced(b.reliability) =>
            /\ q.sequenced = r.sequenced
            /\ \E k : q.got = r.got \cup {<<Whole(m), k>>}
  <2>1. Delivers(r, q, b, Whole(m))
    BY <1>1, <1>2, <1>3, DeliverShaped
  <2>. QED BY <2>1 DEF Delivers
<1>5. /\ BuffersFaithful(r, done) /\ PushedFaithful(r) /\ PushedMarked(r)
      /\ PushedArrived(r, done) /\ PushedOnce(r)
  BY DEF Faithful
<1>6. BuffersFaithful(q, more)
  BY <1>4, <1>5, FragmentsStay DEF BuffersFaithful
<1>7. PushedArrived(r, more)
  BY <1>5 DEF PushedArrived, Arrived
<1>8. CASE q.got = r.got /\ q.sequenced = r.sequenced
  <2>1. \A k : Pushes(q, k) = Pushes(r, k)
    BY <1>8 DEF Pushes
  <2>2. /\ PushedFaithful(q) /\ PushedMarked(q) /\ PushedArrived(q, more) /\ PushedOnce(q)
        /\ PushedNewer(r, q)
    BY <1>5, <1>7, <1>8, <2>1
       DEF PushedFaithful, PushedMarked, PushedArrived, PushedOnce, PushedNewer
  <2>. QED BY <1>4, <1>6, <2>2 DEF Faithful
<1>9. ASSUME NEW j, q.got = r.got \cup {<<Whole(m), j>>},
             ~ IsOrdered(b.reliability),
             \/ q.sequenced = r.sequenced /\ ~ IsSequenced(b.reliability)
             \/ /\ Newer(r, b) /\ IsSequenced(b.reliability)
                /\ q.sequenced = [r.sequenced EXCEPT ![b.channel] = b.index]
      PROVE  Faithful(q, more) /\ PushedNewer(r, q)
  <2>1. \A k \in Messages : k # m => Pushes(q, k) = Pushes(r, k)
    BY <1>2, <1>9 DEF Pushes
  <2>2. Pushes(q, m) = Pushes(r, m) \cup {<<Whole(m), j>>}
    BY <1>9 DEF Pushes
  <2>3. \A c \in Channels : r.sequenced[c] \in Int /\ q.sequenced[c] \in Int
    BY <1>4 DEF Shaped, Link
  <2>4. \A c \in Channels : q.sequenced[c] = IF IsSequenced(b.reliability) /\ c = b.channel
                                             THEN b.index ELSE r.sequenced[c]
    BY <1>9 DEF Shaped, Link
  <2>5. IsSequenced(Kind(m)) => r.sequenced[b.channel] < sent[m].index
    BY <1>1, <1>9, <2>3 DEF Newer
  <2>6. PushedFaithful(q)
    <3>1. Kind(m) # "ReliableOrdered"
      BY <1>9 DEF IsOrdered
    <3>. QED BY <1>5, <1>9, <3>1 DEF PushedFaithful
  <2>7. PushedMarked(q)
    <3>1. SUFFICES ASSUME NEW k \in Messages, IsSequenced(Kind(k)), Pushes(q, k) # {}
                   PROVE  sent[k].index <= q.sequenced[sent[k].message.channel]
      BY DEF PushedMarked
    <3>2. sent[k].message.channel \in Channels /\ sent[k].index \in Nat
      BY TheMessages
    <3>3. CASE k = m
      BY <1>1, <2>4, <3>1, <3>2, <3>3
    <3>4. CASE k # m
      <4>1. sent[k].index <= r.sequenced[sent[k].message.channel]
        BY <1>5, <2>1, <3>1, <3>4 DEF PushedMarked
      <4>. QED BY <1>1, <2>3, <2>4, <2>5, <3>2, <4>1
    <3>. QED BY <3>3, <3>4
  <2>8. PushedArrived(q, more)
    <3>1. SUFFICES ASSUME NEW k \in Messages, Kind(k) = "Unreliable", Pushes(q, k) # {},
                          NEW f \in 1 .. sent[k].message.chunks
                   PROVE  Arrived(k, f, more)
      BY DEF PushedArrived
    <3>. QED BY <1>7, <2>1, <3>1 DEF PushedArrived
  <2>9. PushedOnce(q)
    <3>1. SUFFICES ASSUME NEW k \in Messages, Kind(k) # "Reliable",
                          NEW g \in Pushes(q, k), NEW h \in Pushes(q, k)
                   PROVE  g = h
      BY DEF PushedOnce
    <3>2. CASE k # m
      BY <1>5, <2>1, <3>1, <3>2 DEF PushedOnce
    <3>3. CASE k = m
      <4>1. Kind(m) = "Unreliable" \/ IsSequenced(Kind(m))
        BY <1>1, <1>9, <3>1, <3>3 DEF Reliability, IsOrdered, IsSequenced
      <4>2. Pushes(r, m) = {}
        <5>1. CASE IsSequenced(Kind(m))
          <6>1. b.channel = sent[m].message.channel /\ r.sequenced[b.channel] \in Int
            BY <1>1, <2>3
          <6>2. ~(sent[m].index <= r.sequenced[b.channel])
            BY <1>1, <2>5, <5>1, <6>1
          <6>. QED BY <1>5, <5>1, <6>1, <6>2 DEF PushedMarked
        <5>2. CASE Kind(m) = "Unreliable"
          BY <5>2
        <5>. QED BY <4>1, <5>1, <5>2
      <4>. QED BY <2>2, <3>1, <3>3, <4>2
    <3>. QED BY <3>2, <3>3
  <2>10. PushedNewer(r, q)
    BY <2>1, <2>5 DEF PushedNewer
  <2>. QED BY <1>6, <2>6, <2>7, <2>8, <2>9, <2>10 DEF Faithful
<1>10. Faithful(q, more) /\ PushedNewer(r, q)
  <2>1. CASE IsOrdered(b.reliability)
    BY <1>4, <1>8, <2>1
  <2>2. CASE IsSequenced(b.reliability)
    <3>1. ~ IsOrdered(b.reliability)
      BY <2>2 DEF IsOrdered, IsSequenced
    <3>2. CASE q = r
      BY <1>8, <3>2
    <3>. QED BY <1>4, <1>9, <2>2, <3>1, <3>2
  <2>3. CASE ~ IsOrdered(b.reliability) /\ ~ IsSequenced(b.reliability)
    BY <1>4, <1>9, <2>3
  <2>. QED BY <2>1, <2>2, <2>3
<1>. QED BY <1>4, <1>10

-----------------------------------------------------------------------------
(* Accepting a packet.                                                       *)

\* Chunk f of an unfinished message waits in the buffer of its id.
Pending(r, p) ==
    p.count > 1 /\ p.id \in DOMAIN r.splits /\ p.chunk[2] \in DOMAIN r.splits[p.id].fragments

Safe(r, p) == Placed(r.channels[p.channel], p.index) \/ Pending(r, p)

\* No packet of an ordered message among those accepted is forgotten: its
\* channel passed or holds the message, or the chunk waits for the others.
Kept(r, done) == \A n \in done : IsOrdered(data[n].reliability) => Safe(r, data[n])

\* No ordered message is so far ahead of its channel that it would be dropped.
Reach(r) ==
    \A m \in Messages, c \in Channels :
        Kind(m) = "ReliableOrdered" /\ On(m, c) => sent[m].index <= r.channels[c].expected + OrderWindow

\* The link q that accepting packet n makes of r.
Accepts(r, q, done, n) ==
    /\ Shaped(q) /\ Grows(r, q)
    /\ Faithful(q, done \cup {n})
    /\ IdsSuffice => PushedNewer(r, q)
    /\ IdsSuffice /\ Reach(r) /\ Kept(r, done) => Kept(q, done \cup {n})

\* So does dropping buffers.
LEMMA FaithfulLess ==
  ASSUME NEW r, NEW q, NEW done, NEW more, done \subseteq more, Faithful(r, done),
         q.got = r.got, q.sequenced = r.sequenced,
         DOMAIN q.splits \subseteq DOMAIN r.splits,
         \A x \in DOMAIN q.splits : q.splits[x] = r.splits[x]
  PROVE  Faithful(q, more) /\ PushedNewer(r, q)
<1>1. \A m : Pushes(q, m) = Pushes(r, m)
  BY DEF Pushes
<1>2. PushedNewer(r, q)
  BY <1>1 DEF PushedNewer
<1>3. ASSUME IdsSuffice
      PROVE  /\ BuffersFaithful(q, more) /\ PushedFaithful(q) /\ PushedMarked(q)
             /\ PushedArrived(q, more) /\ PushedOnce(q)
  <2>1. /\ BuffersFaithful(r, done) /\ PushedFaithful(r) /\ PushedMarked(r)
        /\ PushedArrived(r, done) /\ PushedOnce(r)
    BY <1>3 DEF Faithful
  <2>2. BuffersFaithful(q, more)
    BY <2>1, FragmentsStay DEF BuffersFaithful
  <2>3. PushedArrived(q, more)
    BY <1>1, <2>1 DEF PushedArrived, Arrived
  <2>4. PushedFaithful(q) /\ PushedMarked(q) /\ PushedOnce(q)
    BY <1>1, <2>1 DEF PushedFaithful, PushedMarked, PushedOnce
  <2>. QED BY <2>2, <2>3, <2>4
<1>. QED BY <1>2, <1>3 DEF Faithful

\* Nothing is forgotten when pending chunks and the new packet stay safe.
LEMMA KeptMore ==
  ASSUME TypeOK, SentInv, NEW done, done \subseteq DOMAIN data, NEW n \in DOMAIN data,
         NEW r, NEW q, Grows(r, q), Kept(r, done),
         \A k \in done : Pending(r, data[k]) /\ IsOrdered(data[k].reliability) => Safe(q, data[k]),
         IsOrdered(data[n].reliability) => Safe(q, data[n])
  PROVE  Kept(q, done \cup {n})
<1>1. SUFFICES ASSUME NEW k \in done, IsOrdered(data[k].reliability)
               PROVE  Safe(q, data[k])
  BY DEF Kept
<1>2. Safe(r, data[k])
  BY <1>1 DEF Kept
<1>3. CASE Placed(r.channels[data[k].channel], data[k].index)
  <2>1. data[k].channel \in Channels /\ data[k].index \in Nat
    BY ThePackets, TheMessages
  <2>. QED BY <1>3, <2>1 DEF Grows, Safe
<1>. QED BY <1>1, <1>2, <1>3 DEF Safe

\* In reach, every ordered packet is near.
LEMMA ReachIsNear ==
  ASSUME TypeOK, SentInv, NEW r, Reach(r), NEW m \in Messages, Kind(m) = "ReliableOrdered",
         NEW b, b.channel = sent[m].message.channel, b.index = sent[m].index
  PROVE  Near(r, b)
<1>1. sent[m].message.channel \in Channels
  BY TheMessages
<1>. QED BY <1>1 DEF Reach, Near, On

\* A packet that is a whole message.
LEMMA AcceptsWhole ==
  ASSUME TypeOK, SentInv, NEW done, done \subseteq DOMAIN data, NEW n \in DOMAIN data, n \notin done,
         NEW r, Shaped(r), Faithful(r, done),
         data[n].count = 1, NEW q, q = Deliver(r, data[n], <<data[n].chunk>>)
  PROVE  Accepts(r, q, done, n)
<1> DEFINE p == data[n]
           m == p.chunk[1]
           more == done \cup {n}
<1>1. /\ p \in Packet /\ p \in Known /\ m \in Messages
      /\ p.chunk = <<m, p.chunk[2]>> /\ p.chunk[2] \in 1 .. p.count
      /\ p.count = sent[m].message.chunks
      /\ p.reliability = Kind(m) /\ p.channel = sent[m].message.channel
      /\ p.index = sent[m].index /\ p.index \in Index
  BY ThePackets
<1>2. p.chunk = <<m, 1>> /\ p.chunk \in Chunk /\ p.channel \in Channels /\ p.reliability \in Reliability
  BY <1>1 DEF Packet
<1>3. /\ Whole(m) = <<p.chunk>>
      /\ Whole(m) \in Payload
  <2>1. Whole(m) = [f \in 1 .. 1 |-> <<m, f>>]
    BY <1>1 DEF Whole
  <2>2. \A f \in 1 .. 1 : f = 1
    OBVIOUS
  <2>3. Whole(m) = [f \in 1 .. 1 |-> p.chunk]
    BY <1>2, <2>1, <2>2
  <2>4. \A x : [f \in 1 .. 1 |-> x] = <<x>>
    OBVIOUS
  <2>. QED BY <1>1, <2>3, <2>4, WholeMessages
<1>. HIDE DEF p, m
<1>4. ASSUME IdsSuffice
      PROVE  /\ Shaped(q) /\ Grows(r, q) /\ q.splits = r.splits
             /\ Faithful(q, more)
             /\ PushedNewer(r, q)
             /\ IsOrdered(p.reliability) /\ Near(r, p) => Placed(q.channels[p.channel], p.index)
  <2>1. \A f \in 1 .. sent[m].message.chunks : f = 1 /\ Arrived(m, f, more)
    <3>1. Arrived(m, 1, more)
      BY <1>2 DEF Arrived, p
    <3>2. sent[m].message.chunks = 1
      BY <1>1 DEF p
    <3>3. \A f \in 1 .. 1 : f = 1
      OBVIOUS
    <3>. QED BY <3>1, <3>2, <3>3
  <2>2. Kind(m) = "Unreliable" => Pushes(r, m) = {}
    <3>1. SUFFICES ASSUME Kind(m) = "Unreliable", Pushes(r, m) # {}
                   PROVE  FALSE
      OBVIOUS
    <3>2. Arrived(m, 1, done)
      <4>1. PushedArrived(r, done)
        BY <1>4 DEF Faithful
      <4>2. 1 \in 1 .. sent[m].message.chunks
        BY <1>1 DEF p
      <4>. QED BY <1>1, <3>1, <4>1, <4>2 DEF PushedArrived
    <3>3. PICK k \in done : data[k].chunk = p.chunk
      BY <1>2, <3>2 DEF Arrived
    <3>4. ~ IsReliable(p.reliability)
      BY <1>1, <3>1 DEF IsReliable
    <3>5. k = n
      BY <3>3, <3>4 DEF SentInv, Once, p
    <3>. QED BY <3>5
  <2>3. q = Deliver(r, p, Whole(m))
    BY <1>3 DEF p
  <2>. HIDE DEF more
  <2>4. done \subseteq more
    BY DEF more
  <2>. QED BY <1>1, <1>4, <2>1, <2>2, <2>3, <2>4, FaithfulDelivered
<1>5. Shaped(q) /\ Grows(r, q)
  <2>1. CASE IdsSuffice
    BY <1>4, <2>1
  <2>2. CASE ~ IdsSuffice
    <3>1. <<p.index, Whole(m)>> \in Offers(p.channel)
      BY <1>1, <1>3, <2>2 DEF Offers, MessageOf
    <3>2. q = Deliver(r, p, Whole(m))
      BY <1>3 DEF p
    <3>3. Delivers(r, q, p, Whole(m))
      BY <1>1, <1>2, <1>3, <3>1, <3>2, DeliverShaped
    <3>. QED BY <3>3 DEF Delivers
  <2>. QED BY <2>1, <2>2
<1>6. Faithful(q, more) /\ (IdsSuffice => PushedNewer(r, q))
  BY <1>4 DEF Faithful
<1>7. ASSUME IdsSuffice, Reach(r), Kept(r, done)
      PROVE  Kept(q, more)
  <2>1. \A x : Pending(r, x) => Pending(q, x)
    BY <1>4, <1>7 DEF Pending
  <2>2. IsOrdered(p.reliability) => Near(r, p)
    BY <1>1, <1>7, ReachIsNear DEF IsOrdered
  <2>3. IsOrdered(p.reliability) => Safe(q, p)
    BY <1>4, <1>7, <2>2 DEF Safe
  <2>. QED BY <1>5, <1>7, <2>1, <2>3, KeptMore DEF Safe, p
<1>. QED BY <1>5, <1>6, <1>7 DEF Accepts

\* A packet that is refused.
LEMMA AcceptsRefused ==
  ASSUME TypeOK, SentInv, NEW done, done \subseteq DOMAIN data, NEW n \in DOMAIN data,
         NEW r, Shaped(r), Faithful(r, done),
         NEW q, q = SplitRefused(r, data[n])
  PROVE  Accepts(r, q, done, n)
<1> DEFINE p == data[n]
           m == p.chunk[1]
           more == done \cup {n}
<1>1. /\ p \in Packet /\ m \in Messages
      /\ p.reliability = Kind(m) /\ p.channel = sent[m].message.channel
      /\ p.index = sent[m].index /\ p.index \in Index
  BY ThePackets
<1>. HIDE DEF p, m
<1>2. /\ Shaped(q) /\ Grows(r, q) /\ q.got = r.got /\ q.sequenced = r.sequenced
      /\ DOMAIN q.splits = DOMAIN r.splits \ {p.id}
      /\ \A x \in DOMAIN q.splits : q.splits[x] = r.splits[x]
      /\ IsOrdered(p.reliability) /\ Near(r, p) => Placed(q.channels[p.channel], p.index)
      /\ p.id \in DOMAIN r.splits =>
            LET b == r.splits[p.id]
            IN  IsOrdered(b.reliability) /\ Near(r, b) => Placed(q.channels[b.channel], b.index)
  <2>1. q = SplitRefused(r, p)
    BY DEF p
  <2>. QED BY <1>1, <2>1, RefusedShaped
<1>3. Faithful(q, more) /\ PushedNewer(r, q)
  BY <1>2, FaithfulLess
<1>4. ASSUME IdsSuffice, Reach(r), Kept(r, done)
      PROVE  Kept(q, more)
  <2>1. IsOrdered(p.reliability) => Safe(q, p)
    BY <1>1, <1>2, <1>4, ReachIsNear DEF IsOrdered, Safe
  <2>2. ASSUME NEW k \in done, Pending(r, data[k]), IsOrdered(data[k].reliability)
        PROVE  Safe(q, data[k])
    <3>1. CASE data[k].id # p.id
      BY <1>2, <2>2, <3>1 DEF Pending, Safe
    <3>2. CASE data[k].id = p.id
      <4> DEFINE b == r.splits[p.id]
      <4>1. p.id \in DOMAIN r.splits /\ data[k].count > 1
        BY <2>2, <3>2 DEF Pending
      <4>2. PICK x : FragmentsOf(b, p.id, x, done)
        BY <1>4, <4>1 DEF Faithful, BuffersFaithful
      <4>3. data[k].chunk[1] = x
        BY <1>4, <2>2, <3>2, <4>1, <4>2, BufferOwner
      <4>4. /\ x \in Messages /\ data[k].reliability = Kind(x)
            /\ data[k].channel = sent[x].message.channel /\ data[k].index = sent[x].index
        BY <4>3, ThePackets
      <4>5. /\ b.reliability = Kind(x) /\ b.channel = sent[x].message.channel
            /\ b.index = sent[x].index
        BY <4>2 DEF FragmentsOf, On
      <4>6. Near(r, b)
        BY <1>4, <2>2, <4>4, <4>5, ReachIsNear DEF IsOrdered
      <4>. QED BY <1>2, <2>2, <4>1, <4>4, <4>5, <4>6 DEF Safe
    <3>. QED BY <3>1, <3>2
  <2>. QED BY <1>2, <1>4, <2>1, <2>2, KeptMore DEF p
<1>. QED BY <1>2, <1>3, <1>4 DEF Accepts

\* A packet that finds no slot.
LEMMA AcceptsOverCapacity ==
  ASSUME TypeOK, SentInv, NEW done, done \subseteq DOMAIN data, NEW n \in DOMAIN data,
         NEW r, Shaped(r), Faithful(r, done),
         NEW q, q = SplitOverCapacity(r, data[n])
  PROVE  Accepts(r, q, done, n)
<1> DEFINE p == data[n]
           m == p.chunk[1]
           more == done \cup {n}
<1>1. /\ p \in Packet /\ m \in Messages
      /\ p.reliability = Kind(m) /\ p.channel = sent[m].message.channel
      /\ p.index = sent[m].index /\ p.index \in Index
  BY ThePackets
<1>. HIDE DEF p, m
<1>2. /\ Shaped(q) /\ Grows(r, q)
      /\ q.got = r.got /\ q.sequenced = r.sequenced /\ q.splits = r.splits
      /\ IsOrdered(p.reliability) /\ Near(r, p) => Placed(q.channels[p.channel], p.index)
  <2>1. q = SplitOverCapacity(r, p)
    BY DEF p
  <2>. QED BY <1>1, <2>1, OverCapacityShaped
<1>3. Faithful(q, more) /\ PushedNewer(r, q)
  BY <1>2, FaithfulLess
<1>4. ASSUME IdsSuffice, Reach(r), Kept(r, done)
      PROVE  Kept(q, more)
  <2>1. IsOrdered(p.reliability) => Safe(q, p)
    BY <1>1, <1>2, <1>4, ReachIsNear DEF IsOrdered, Safe
  <2>2. \A x : Pending(r, x) => Pending(q, x)
    BY <1>2 DEF Pending
  <2>. QED BY <1>2, <1>4, <2>1, <2>2, KeptMore DEF Safe, p
<1>. QED BY <1>2, <1>3, <1>4 DEF Accepts

-----------------------------------------------------------------------------
(* A fragment that is stored, the parts SplitStored works out.               *)

OldFragments(r, p) == IF p.id \in DOMAIN r.splits THEN r.splits[p.id].fragments ELSE << >>

NewFragments(r, p) ==
    [f \in DOMAIN OldFragments(r, p) \cup {p.chunk[2]} |->
        IF f = p.chunk[2] THEN p.chunk ELSE OldFragments(r, p)[f]]

NewBuffer(r, p) ==
    IF p.id \in DOMAIN r.splits
    THEN [r.splits[p.id] EXCEPT !.fragments = NewFragments(r, p)]
    ELSE [count |-> p.count, reliability |-> p.reliability, channel |-> p.channel,
          index |-> p.index, fragments |-> NewFragments(r, p)]

NewSplits(r, p) ==
    [i \in DOMAIN r.splits \cup {p.id} |-> IF i = p.id THEN NewBuffer(r, p) ELSE r.splits[i]]

\* SplitStored in terms of these parts.
LEMMA StoredParts ==
  ASSUME NEW r, Shaped(r), NEW p
  PROVE  SplitStored(r, p) =
            IF AllAreThere(NewFragments(r, p), NewBuffer(r, p).count)
            THEN Deliver(WithoutSplit(r, p.id), NewBuffer(r, p), NewFragments(r, p))
            ELSE [r EXCEPT !.splits = NewSplits(r, p)]
<1>1. r \in Link
  BY DEF Shaped
<1>. QED BY <1>1 DEF SplitStored, NewSplits, NewBuffer, NewFragments, OldFragments, Link

\* The fragments are those there were and the packet's, the header of the
\* buffer is the one it had or the packet's.
Stores(r, p, buf, new) ==
    /\ new \in Payload /\ buf \in Buffer /\ buf.fragments = new
    /\ DOMAIN new = DOMAIN OldFragments(r, p) \cup {p.chunk[2]}
    /\ new[p.chunk[2]] = p.chunk
    /\ \A f \in DOMAIN OldFragments(r, p) : f # p.chunk[2] => new[f] = OldFragments(r, p)[f]
    /\ p.id \in DOMAIN r.splits =>
          /\ buf.count = r.splits[p.id].count
          /\ buf.reliability = r.splits[p.id].reliability
          /\ buf.channel = r.splits[p.id].channel
          /\ buf.index = r.splits[p.id].index
    /\ p.id \notin DOMAIN r.splits =>
          /\ buf.count = p.count /\ buf.reliability = p.reliability
          /\ buf.channel = p.channel /\ buf.index = p.index

\* The types of these parts.
LEMMA NewBufferType ==
  ASSUME NEW r, Shaped(r), NEW p \in Packet, p.index \in Index
  PROVE  Stores(r, p, NewBuffer(r, p), NewFragments(r, p))
<1> DEFINE old == OldFragments(r, p)
           new == NewFragments(r, p)
           at == p.chunk[2]
<1>1. /\ p.chunk \in Chunk /\ at \in Nat /\ p.id \in Nat /\ p.count \in Nat
      /\ p.reliability \in Reliability /\ p.channel \in Channels
  BY DEF Packet, Chunk
<1>2. PICK D \in SUBSET Nat : old \in [D -> Chunk]
  <2>1. CASE p.id \in DOMAIN r.splits
    <3>1. r.splits[p.id] \in Buffer
      BY <2>1, TheBuffers
    <3>2. r.splits[p.id].fragments \in Payload
      BY <3>1 DEF Buffer
    <3>. QED BY <2>1, <3>2 DEF OldFragments, Payload
  <2>2. CASE p.id \notin DOMAIN r.splits
    <3>1. << >> \in [{} -> Chunk] /\ {} \in SUBSET Nat
      OBVIOUS
    <3>. QED BY <2>2, <3>1 DEF OldFragments
  <2>. QED BY <2>1, <2>2
<1>3. new = [f \in DOMAIN old \cup {at} |-> IF f = at THEN p.chunk ELSE old[f]]
  BY DEF NewFragments
<1>. HIDE DEF old, new
<1>4. /\ DOMAIN new = DOMAIN old \cup {at} /\ new[at] = p.chunk
      /\ \A f \in DOMAIN old : f # at => new[f] = old[f]
  BY <1>3
<1>5. new \in Payload
  <2>1. new \in [D \cup {at} -> Chunk] /\ D \cup {at} \in SUBSET Nat
    BY <1>1, <1>2, <1>3
  <2>. QED BY <2>1 DEF Payload
<1> DEFINE buf == NewBuffer(r, p)
<1>6. CASE p.id \in DOMAIN r.splits
  <2>1. r.splits[p.id] \in Buffer
    BY <1>6, TheBuffers
  <2>2. buf = [r.splits[p.id] EXCEPT !.fragments = new]
    BY <1>6 DEF NewBuffer, new
  <2>. HIDE DEF buf
  <2>3. /\ buf \in Buffer /\ buf.fragments = new
        /\ buf.count = r.splits[p.id].count /\ buf.reliability = r.splits[p.id].reliability
        /\ buf.channel = r.splits[p.id].channel /\ buf.index = r.splits[p.id].index
    BY <1>5, <2>1, <2>2 DEF Buffer
  <2>. QED BY <1>4, <1>5, <1>6, <2>3 DEF buf, new, old, Stores
<1>7. CASE p.id \notin DOMAIN r.splits
  <2>1. buf = [count |-> p.count, reliability |-> p.reliability, channel |-> p.channel,
               index |-> p.index, fragments |-> new]
    BY <1>7 DEF NewBuffer, new
  <2>. HIDE DEF buf
  <2>2. /\ buf \in Buffer /\ buf.fragments = new
        /\ buf.count = p.count /\ buf.reliability = p.reliability
        /\ buf.channel = p.channel /\ buf.index = p.index
    BY <1>1, <1>5, <2>1, SMTT(30) DEF Buffer
  <2>. QED BY <1>4, <1>5, <1>7, <2>2 DEF buf, new, old, Stores
<1>. QED BY <1>6, <1>7

\* While ids last the buffer that is stored is of the packet's message.
Collects(m, p, buf, new, more) ==
    /\ m \in Messages
    /\ buf.reliability = Kind(m) /\ buf.channel = sent[m].message.channel
    /\ buf.index = sent[m].index
    /\ AllAreThere(new, buf.count) =>
          /\ new = Whole(m)
          /\ \A f \in 1 .. sent[m].message.chunks : Arrived(m, f, more)
    /\ ~ AllAreThere(new, buf.count) => FragmentsOf(buf, p.id, m, more)

\* The buffer's fragments are of the packet's message: all of them, or some.
LEMMA NewBufferFaithful ==
  ASSUME TypeOK, SentInv, IdsSuffice, NEW done, done \subseteq DOMAIN data, NEW n \in DOMAIN data,
         NEW r, Shaped(r), BuffersFaithful(r, done), NEW p, p = data[n], p.count > 1,
         NEW m, m = p.chunk[1],
         NEW buf, buf = NewBuffer(r, p), NEW new, new = NewFragments(r, p),
         NEW more, more = done \cup {n}
  PROVE  Collects(m, p, buf, new, more)
<1> DEFINE at == p.chunk[2]
           old == OldFragments(r, p)
<1>1. /\ p \in Packet /\ m \in Messages
      /\ p.chunk = <<m, at>> /\ at \in 1 .. p.count
      /\ p.count = sent[m].message.chunks /\ p.count \in Nat \ {0}
      /\ p.reliability = Kind(m) /\ p.channel = sent[m].message.channel
      /\ p.index = sent[m].index /\ p.index \in Index
  BY ThePackets
<1>2. /\ buf.fragments = new
      /\ DOMAIN new = DOMAIN old \cup {at} /\ new[at] = p.chunk
      /\ \A f \in DOMAIN old : f # at => new[f] = old[f]
      /\ p.id \in DOMAIN r.splits =>
               /\ buf.count = r.splits[p.id].count
               /\ buf.reliability = r.splits[p.id].reliability
               /\ buf.channel = r.splits[p.id].channel
               /\ buf.index = r.splits[p.id].index
      /\ p.id \notin DOMAIN r.splits =>
               /\ buf.count = p.count /\ buf.reliability = p.reliability
               /\ buf.channel = p.channel /\ buf.index = p.index
  <2>1. Stores(r, p, buf, new)
    BY <1>1, NewBufferType
  <2>. QED BY <2>1 DEF Stores
<1>. HIDE DEF old, at
<1>3. /\ buf.count = p.count /\ buf.reliability = Kind(m)
      /\ buf.channel = sent[m].message.channel /\ buf.index = sent[m].index
      /\ DOMAIN old \subseteq 1 .. p.count
      /\ \A f \in DOMAIN old :
            old[f] = <<m, f>> /\ \E k \in done : data[k].chunk = <<m, f>> /\ data[k].id = p.id
  <2>1. CASE p.id \in DOMAIN r.splits
    <3>1. PICK x : FragmentsOf(r.splits[p.id], p.id, x, done)
      BY <2>1 DEF BuffersFaithful
    <3>2. x = m
      BY <3>1, BufferOwner
    <3>3. old = r.splits[p.id].fragments
      BY <2>1 DEF old, OldFragments
    <3>4. /\ DOMAIN old \subseteq 1 .. sent[m].message.chunks
          /\ \A f \in DOMAIN old :
                old[f] = <<m, f>> /\ \E k \in done : data[k].chunk = <<m, f>> /\ data[k].id = p.id
      BY <3>1, <3>2, <3>3, Zenon DEF FragmentsOf
    <3>5. /\ buf.count = p.count /\ buf.reliability = Kind(m)
          /\ buf.channel = sent[m].message.channel /\ buf.index = sent[m].index
      BY <1>1, <1>2, <2>1, <3>1, <3>2, Zenon DEF FragmentsOf, On
    <3>. QED BY <1>1, <3>4, <3>5
  <2>2. CASE p.id \notin DOMAIN r.splits
    <3>1. DOMAIN old = {}
      BY <2>2, SMTT(30) DEF old, OldFragments
    <3>. QED BY <1>1, <1>2, <2>2, <3>1
  <2>. QED BY <2>1, <2>2
<1>4. /\ DOMAIN new \subseteq 1 .. p.count /\ DOMAIN new # {}
      /\ \A f \in DOMAIN new :
            new[f] = <<m, f>> /\ \E k \in more : data[k].chunk = <<m, f>> /\ data[k].id = p.id
  <2>1. ASSUME NEW f \in DOMAIN new
        PROVE  new[f] = <<m, f>> /\ \E k \in more : data[k].chunk = <<m, f>> /\ data[k].id = p.id
    <3>1. CASE f = at
      BY <1>1, <1>2, <3>1
    <3>2. CASE f # at
      <4>1. f \in DOMAIN old /\ new[f] = old[f]
        BY <1>2, <3>2
      <4>2. PICK k \in done : data[k].chunk = <<m, f>> /\ data[k].id = p.id
        BY <1>3, <4>1
      <4>3. k \in more
        OBVIOUS
      <4>. QED BY <1>3, <4>1, <4>2, <4>3
    <3>. QED BY <3>1, <3>2
  <2>. QED BY <1>1, <1>2, <1>3, <2>1
<1>5. /\ IsFiniteSet(1 .. p.count) /\ Cardinality(1 .. p.count) = p.count
      /\ Cardinality(DOMAIN new) = p.count => DOMAIN new = 1 .. p.count
  <2>1. IsFiniteSet(1 .. p.count) /\ Cardinality(1 .. p.count) = p.count
    BY <1>1, InitialSegment
  <2>2. \A S : IsFiniteSet(S) => \A T : T \subseteq S /\ Cardinality(T) = Cardinality(S) => T = S
    BY FS_Subset
  <2>. QED BY <1>4, <2>1, <2>2
<1>6. ASSUME AllAreThere(new, buf.count)
      PROVE  /\ new = Whole(m)
             /\ \A f \in 1 .. sent[m].message.chunks : Arrived(m, f, more)
  <2>1. DOMAIN new = 1 .. sent[m].message.chunks
    BY <1>1, <1>3, <1>5, <1>6, Zenon DEF AllAreThere
  <2>2. new = [f \in DOMAIN new |-> new[f]]
    BY Zenon DEF NewFragments
  <2>3. new = Whole(m)
    BY <1>4, <2>1, <2>2, Zenon DEF Whole
  <2>4. \A f \in 1 .. sent[m].message.chunks : \E k \in more : data[k].chunk = <<m, f>>
    BY <1>4, <2>1
  <2>. QED BY <2>3, <2>4, Zenon DEF Arrived
<1>7. ASSUME ~ AllAreThere(new, buf.count)
      PROVE  FragmentsOf(buf, p.id, m, more)
  <2>1. DOMAIN new # 1 .. p.count
    BY <1>3, <1>5, <1>7 DEF AllAreThere
  <2>2. /\ DOMAIN buf.fragments \subseteq 1 .. buf.count
        /\ DOMAIN buf.fragments # {} /\ DOMAIN buf.fragments # 1 .. buf.count
    BY <1>2, <1>3, <1>4, <2>1
  <2>3. \A f \in DOMAIN buf.fragments :
           /\ buf.fragments[f] = <<m, f>>
           /\ \E k \in more : data[k].chunk = <<m, f>> /\ data[k].id = p.id
    <3>1. buf.fragments = new
      BY <1>2
    <3>. QED BY <1>4, <3>1, Zenon
  <2>. QED BY <1>1, <1>3, <2>2, <2>3 DEF FragmentsOf, On
<1>. QED BY <1>1, <1>3, <1>6, <1>7 DEF Collects

\* A fragment that does not complete its message.
LEMMA AcceptsFragment ==
  ASSUME TypeOK, SentInv, NEW done, done \subseteq DOMAIN data, NEW n \in DOMAIN data,
         NEW r, Shaped(r), Faithful(r, done),
         NEW p, p = data[n], p.count > 1,
         ~ AllAreThere(NewFragments(r, p), NewBuffer(r, p).count),
         NEW q, q = [r EXCEPT !.splits = NewSplits(r, p)]
  PROVE  Accepts(r, q, done, n)
<1>0. PICK m, buf, new, more : /\ m = p.chunk[1] /\ buf = NewBuffer(r, p)
                               /\ new = NewFragments(r, p) /\ more = done \cup {n}
  OBVIOUS
<1>1. /\ p \in Packet /\ p.index \in Index /\ p.id \in Nat
  BY ThePackets DEF Packet
<1>2. /\ buf \in Buffer /\ buf.fragments = new
      /\ DOMAIN OldFragments(r, p) \subseteq DOMAIN new /\ p.chunk[2] \in DOMAIN new
  <2>1. Stores(r, p, buf, new)
    BY <1>0, <1>1, NewBufferType
  <2>. QED BY <2>1 DEF Stores
<1>3. r \in Link
  BY DEF Shaped
<1> DEFINE s == NewSplits(r, p)
<1>4. /\ DOMAIN s = DOMAIN r.splits \cup {p.id}
      /\ s[p.id] = buf
      /\ \A x \in DOMAIN r.splits : x # p.id => s[x] = r.splits[x]
  BY <1>0 DEF NewSplits
<1>5. s \in UNION {[D -> Buffer] : D \in SUBSET Nat}
  <2>1. DOMAIN r.splits \subseteq Nat /\ \A x \in DOMAIN r.splits : r.splits[x] \in Buffer
    BY TheBuffers
  <2>2. s \in [DOMAIN r.splits \cup {p.id} -> Buffer]
    BY <1>0, <1>2, <2>1 DEF NewSplits
  <2>3. DOMAIN r.splits \cup {p.id} \in SUBSET Nat
    BY <1>1, <2>1
  <2>. HIDE DEF s
  <2>. QED BY <2>2, <2>3
<1>. HIDE DEF s
<1>6. /\ q.channels = r.channels /\ q.got = r.got
      /\ q.sequenced = r.sequenced /\ q.discarded = r.discarded
      /\ q.splits = s /\ q \in Link
  <2>1. q = [r EXCEPT !.splits = s]
    BY DEF s
  <2>. QED BY <1>3, <1>5, <2>1 DEF Link
<1>7. Shaped(q) /\ Grows(r, q)
  <2>1. IsFiniteSet(DOMAIN q.splits)
    BY <1>4, <1>6, FS_AddElement DEF Shaped
  <2>2. \A c : GivenUp(q, c) = GivenUp(r, c)
    BY <1>6 DEF GivenUp
  <2>3. Shaped(q)
    BY <1>6, <2>1, <2>2 DEF Shaped
  <2>. QED BY <1>6, <2>3, GrowsReflexive
<1>8. PushedNewer(r, q) /\ \A k : Pushes(q, k) = Pushes(r, k)
  BY <1>6 DEF PushedNewer, Pushes
<1>9. ASSUME IdsSuffice
      PROVE  /\ BuffersFaithful(q, more) /\ PushedFaithful(q) /\ PushedMarked(q)
             /\ PushedArrived(q, more) /\ PushedOnce(q)
  <2>1. /\ BuffersFaithful(r, done) /\ PushedFaithful(r) /\ PushedMarked(r)
        /\ PushedArrived(r, done) /\ PushedOnce(r)
    BY <1>9 DEF Faithful
  <2>2. FragmentsOf(buf, p.id, m, more)
    BY <1>0, <1>9, <2>1, NewBufferFaithful DEF Collects
  <2>3. BuffersFaithful(q, more)
    <3>1. SUFFICES ASSUME NEW x \in DOMAIN s
                   PROVE  \E k : FragmentsOf(s[x], x, k, more)
      BY <1>6 DEF BuffersFaithful
    <3>2. CASE x = p.id
      BY <1>4, <2>2, <3>2
    <3>3. CASE x # p.id
      <4>1. PICK k : FragmentsOf(r.splits[x], x, k, done)
        BY <1>4, <2>1, <3>3 DEF BuffersFaithful
      <4>2. done \subseteq more
        BY <1>0
      <4>3. FragmentsOf(r.splits[x], x, k, more)
        BY <4>1, <4>2, FragmentsStay
      <4>. QED BY <1>4, <3>3, <4>3
    <3>. QED BY <3>2, <3>3
  <2>4. PushedArrived(q, more)
    BY <1>0, <1>8, <2>1 DEF PushedArrived, Arrived
  <2>5. PushedFaithful(q) /\ PushedMarked(q) /\ PushedOnce(q)
    BY <1>6, <1>8, <2>1 DEF PushedFaithful, PushedMarked, PushedOnce
  <2>. QED BY <2>3, <2>4, <2>5
<1>10. ASSUME IdsSuffice, Reach(r), Kept(r, done)
       PROVE  Kept(q, more)
  <2>1. Pending(q, p)
    BY <1>2, <1>4, <1>6 DEF Pending
  <2>2. ASSUME NEW x, Pending(r, x)
        PROVE  Pending(q, x)
    <3>1. CASE x.id = p.id
      <4>1. OldFragments(r, p) = r.splits[x.id].fragments
        BY <2>2, <3>1 DEF OldFragments, Pending
      <4>. QED BY <1>2, <1>4, <1>6, <2>2, <3>1, <4>1 DEF Pending
    <3>2. CASE x.id # p.id
      BY <1>4, <1>6, <2>2, <3>2 DEF Pending
    <3>. QED BY <3>1, <3>2
  <2>. QED BY <1>0, <1>7, <1>10, <2>1, <2>2, KeptMore DEF Safe
<1>. QED BY <1>0, <1>7, <1>8, <1>9, <1>10 DEF Accepts, Faithful

\* The last fragment of its message.
LEMMA AcceptsLast ==
  ASSUME TypeOK, SentInv, NEW done, done \subseteq DOMAIN data, NEW n \in DOMAIN data, n \notin done,
         NEW r, Shaped(r), Faithful(r, done),
         NEW p, p = data[n], p.count > 1,
         AllAreThere(NewFragments(r, p), NewBuffer(r, p).count),
         NEW q, q = Deliver(WithoutSplit(r, p.id), NewBuffer(r, p), NewFragments(r, p))
  PROVE  Accepts(r, q, done, n)
<1>0. PICK m, buf, new, more, t :
         /\ m = p.chunk[1] /\ buf = NewBuffer(r, p) /\ new = NewFragments(r, p)
         /\ more = done \cup {n} /\ t = WithoutSplit(r, p.id)
  OBVIOUS
<1>1. /\ p \in Packet /\ p.index \in Index /\ p.id \in Nat
      /\ m \in Messages /\ p.reliability = Kind(m) /\ p.channel = sent[m].message.channel
      /\ p.index = sent[m].index /\ p.chunk[2] \in 1 .. sent[m].message.chunks
      /\ p.chunk = <<m, p.chunk[2]>>
  BY <1>0, ThePackets DEF Packet
<1>2. /\ buf \in Buffer /\ new \in Payload
      /\ buf.channel \in Channels /\ buf.index \in Index /\ buf.reliability \in Reliability
  BY <1>0, <1>1, NewBufferType DEF Buffer, Stores
<1>3. /\ Shaped(t)
      /\ t.channels = r.channels /\ t.got = r.got
      /\ t.sequenced = r.sequenced /\ t.discarded = r.discarded
      /\ DOMAIN t.splits = DOMAIN r.splits \ {p.id}
      /\ \A x \in DOMAIN t.splits : t.splits[x] = r.splits[x]
  BY <1>0, WithoutSplitShaped
<1>4. Grows(r, t) /\ Faithful(t, done)
  BY <1>3, GrowsReflexive, FaithfulLess
<1>5. q = Deliver(t, buf, new)
  BY <1>0
<1>6. ASSUME IdsSuffice
      PROVE  /\ Shaped(q) /\ Grows(t, q) /\ q.splits = t.splits
             /\ Faithful(q, more)
             /\ PushedNewer(t, q)
             /\ IsOrdered(buf.reliability) /\ Near(t, buf) => Placed(q.channels[buf.channel], buf.index)
             /\ buf.reliability = Kind(m) /\ buf.channel = sent[m].message.channel
             /\ buf.index = sent[m].index
  <2>1. BuffersFaithful(r, done) /\ PushedArrived(t, done)
    BY <1>4, <1>6 DEF Faithful
  <2>2. /\ buf.reliability = Kind(m) /\ buf.channel = sent[m].message.channel
        /\ buf.index = sent[m].index
        /\ new = Whole(m)
        /\ \A f \in 1 .. sent[m].message.chunks : Arrived(m, f, more)
    <3>1. Collects(m, p, buf, new, more)
      BY <1>0, <1>6, <2>1, NewBufferFaithful
    <3>2. AllAreThere(new, buf.count)
      BY <1>0
    <3>. QED BY <3>1, <3>2 DEF Collects
  <2>3. Kind(m) = "Unreliable" => Pushes(t, m) = {}
    <3>1. SUFFICES ASSUME Kind(m) = "Unreliable", Pushes(t, m) # {}
                   PROVE  FALSE
      OBVIOUS
    <3>2. Arrived(m, p.chunk[2], done)
      BY <1>1, <2>1, <3>1 DEF PushedArrived
    <3>3. PICK k \in done : data[k].chunk = p.chunk
      BY <1>1, <3>2 DEF Arrived
    <3>4. ~ IsReliable(p.reliability)
      BY <1>1, <3>1 DEF IsReliable
    <3>5. k = n
      BY <3>3, <3>4 DEF SentInv, Once
    <3>. QED BY <3>5
  <2>4. q = Deliver(t, buf, Whole(m)) /\ done \subseteq more
    BY <1>0, <1>5, <2>2
  <2>5. /\ Shaped(q) /\ Grows(t, q) /\ q.splits = t.splits
        /\ Faithful(q, more)
        /\ PushedNewer(t, q)
        /\ IsOrdered(buf.reliability) /\ Near(t, buf) => Placed(q.channels[buf.channel], buf.index)
    <3>1. m \in Messages /\ Shaped(t) /\ Faithful(t, done)
      BY <1>1, <1>3, <1>4
    <3>2. IdsSuffice
      BY <1>6
    <3>. QED BY <2>2, <2>3, <2>4, <3>1, <3>2, FaithfulDelivered
  <2>. QED BY <2>2, <2>5
<1>7. Shaped(q) /\ Grows(t, q)
  <2>1. CASE IdsSuffice
    BY <1>6, <2>1
  <2>2. CASE ~ IdsSuffice
    <3>1. <<buf.index, new>> \in Offers(buf.channel)
      BY <1>2, <2>2 DEF Offers, MessageOf
    <3>2. Delivers(t, q, buf, new)
      BY <1>2, <1>3, <1>5, <3>1, DeliverShaped
    <3>. QED BY <3>2 DEF Delivers
  <2>. QED BY <2>1, <2>2
<1>8. Grows(r, q)
  BY <1>3, <1>4, <1>7, GrowsTransitive
<1>9. IdsSuffice => PushedNewer(r, q)
  BY <1>3, <1>6 DEF PushedNewer, Pushes
<1>10. ASSUME IdsSuffice, Reach(r), Kept(r, done)
       PROVE  Kept(q, more)
  <2>1. Kind(m) = "ReliableOrdered" => Placed(q.channels[p.channel], p.index)
    <3>1. SUFFICES ASSUME Kind(m) = "ReliableOrdered"
                   PROVE  Placed(q.channels[p.channel], p.index)
      OBVIOUS
    <3>2. Near(r, buf)
      BY <1>1, <1>6, <1>10, <3>1, ReachIsNear
    <3>3. Near(t, buf)
      BY <1>3, <3>2 DEF Near
    <3>. QED BY <1>1, <1>6, <1>10, <3>1, <3>3 DEF IsOrdered
  <2>2. IsOrdered(p.reliability) => Safe(q, p)
    BY <1>1, <2>1 DEF IsOrdered, Safe
  <2>3. ASSUME NEW k \in done, Pending(r, data[k]), IsOrdered(data[k].reliability)
        PROVE  Safe(q, data[k])
    <3>1. CASE data[k].id # p.id
      BY <1>3, <1>6, <1>10, <2>3, <3>1 DEF Pending, Safe
    <3>2. CASE data[k].id = p.id
      <4>1. data[k].count > 1 /\ data[k] \in Known /\ p \in Known
        BY <2>3 DEF Pending, Known
      <4>2. data[k].chunk[1] = m
        BY <1>0, <1>10, <3>2, <4>1 DEF SentInv, OwnIds
      <4>3. /\ data[k].reliability = Kind(m)
            /\ data[k].channel = sent[m].message.channel /\ data[k].index = sent[m].index
        BY <4>2, ThePackets
      <4>. QED BY <1>1, <2>1, <2>3, <4>3 DEF IsOrdered, Safe
    <3>. QED BY <3>1, <3>2
  <2>. QED BY <1>0, <1>8, <1>10, <2>2, <2>3, KeptMore
<1>11. Faithful(q, more)
  BY <1>6 DEF Faithful
<1>. QED BY <1>0, <1>7, <1>8, <1>9, <1>10, <1>11 DEF Accepts

\* Whatever becomes of the packet.
LEMMA AcceptedAccepts ==
  ASSUME TypeOK, SentInv, NEW done, done \subseteq DOMAIN data, NEW n \in DOMAIN data, n \notin done,
         NEW r, Shaped(r), Faithful(r, done), NEW q, q = Accepted(r, data[n])
  PROVE  Accepts(r, q, done, n)
<1>0. PICK p : p = data[n]
  OBVIOUS
<1>1. p.count \in Nat \ {0} /\ MaxSplitCount \in Nat \ {0}
  BY <1>0, ThePackets, LimitsAssumption
<1>2. CASE p.count = 1
  <2>1. q = Deliver(r, p, <<p.chunk>>)
    BY <1>0, <1>1, <1>2 DEF Accepted
  <2>. QED BY <1>0, <1>2, <2>1, AcceptsWhole
<1>3. CASE p.count > MaxSplitCount
  <2>1. p.count # 1 /\ p.count \notin 2 .. MaxSplitCount
    BY <1>1, <1>3
  <2>2. q = SplitRefused(r, p)
    BY <1>0, <1>3, <2>1 DEF Accepted
  <2>. QED BY <1>0, <2>2, AcceptsRefused
<1>4. CASE p.count \in 2 .. MaxSplitCount
  <2>1. p.count # 1 /\ ~(p.count > MaxSplitCount) /\ p.count > 1
    BY <1>1, <1>4
  <2>2. q = IF p.id \notin DOMAIN r.splits /\ SlotsTaken(r)
            THEN SplitOverCapacity(r, p)
            ELSE IF p.id \in DOMAIN r.splits /\ p.count # r.splits[p.id].count
            THEN SplitRefused(r, p)
            ELSE SplitStored(r, p)
    BY <1>0, <1>4, <2>1 DEF Accepted
  <2>3. CASE q = SplitOverCapacity(r, p)
    BY <1>0, <2>3, AcceptsOverCapacity
  <2>4. CASE q = SplitRefused(r, p)
    BY <1>0, <2>4, AcceptsRefused
  <2>5. CASE q = SplitStored(r, p)
    <3>1. CASE AllAreThere(NewFragments(r, p), NewBuffer(r, p).count)
      <4>1. q = Deliver(WithoutSplit(r, p.id), NewBuffer(r, p), NewFragments(r, p))
        BY <2>5, <3>1, StoredParts
      <4>. QED BY <1>0, <2>1, <3>1, <4>1, AcceptsLast
    <3>2. CASE ~ AllAreThere(NewFragments(r, p), NewBuffer(r, p).count)
      <4>1. q = [r EXCEPT !.splits = NewSplits(r, p)]
        BY <2>5, <3>2, StoredParts
      <4>. QED BY <1>0, <2>1, <3>2, <4>1, AcceptsFragment
    <3>. QED BY <3>1, <3>2
  <2>. QED BY <2>2, <2>3, <2>4, <2>5
<1>. QED
  <2>1. p.count = 1 \/ p.count > MaxSplitCount \/ p.count \in 2 .. MaxSplitCount
    BY <1>1
  <2>. QED BY <1>2, <1>3, <1>4, <2>1

-----------------------------------------------------------------------------
(* The invariant of the whole link.                                          *)

\* What was accepted would not be accepted again.
Deduped == \A n \in processed : IsDuplicate(n)

LinkInv == /\ SentInv
           /\ Deduped
           /\ Shaped(rx)
           /\ Faithful(rx, processed)

\* What a channel is offered depends on the messages alone.
LEMMA OffersStay ==
  ASSUME sent' = sent, NEW c
  PROVE  Offers(c)' = Offers(c)
BY DEF Offers, Messages, Kind, On, Whole

\* So does the shape of an unchanged link.
LEMMA ShapedStays ==
  ASSUME sent' = sent, NEW r, rx' = r, Shaped(r)
  PROVE  Shaped(rx)'
<1>1. \A c : Offers(c)' = Offers(c)
  BY OffersStay
<1>2. \A c : GivenUp(rx, c)' = GivenUp(r, c)
  BY DEF GivenUp
<1>. QED BY <1>1, <1>2 DEF Shaped

\* Later numbers change nothing about those accepted.
LEMMA FaithfulStays ==
  ASSUME sent' = sent, NEW r, rx' = r, NEW done, processed' = done, Faithful(r, done),
         \A n \in done : data'[n] = data[n]
  PROVE  Faithful(rx, processed)'
<1>1. /\ \A m : Whole(m)' = Whole(m) /\ Kind(m)' = Kind(m)
      /\ \A m, c : On(m, c)' = On(m, c)
      /\ Messages' = Messages
  BY DEF Whole, Kind, On, Messages
<1>2. \A m : Pushes(rx, m)' = Pushes(r, m)
  BY <1>1 DEF Pushes
<1>3. ASSUME IdsSuffice
      PROVE  /\ BuffersFaithful(rx, processed)' /\ PushedFaithful(rx)' /\ PushedMarked(rx)'
             /\ PushedArrived(rx, processed)' /\ PushedOnce(rx)'
  <2>1. /\ BuffersFaithful(r, done) /\ PushedFaithful(r) /\ PushedMarked(r)
        /\ PushedArrived(r, done) /\ PushedOnce(r)
    BY <1>3 DEF Faithful
  <2>2. BuffersFaithful(rx, processed)'
    <3>1. \A b, id, m : FragmentsOf(b, id, m, done) => FragmentsOf(b, id, m, done)'
      <4>1. SUFFICES ASSUME NEW b, NEW id, NEW m, FragmentsOf(b, id, m, done)
                     PROVE  FragmentsOf(b, id, m, done)'
        OBVIOUS
      <4>2. \A f \in DOMAIN b.fragments :
                b.fragments[f] = <<m, f>> /\ \E n \in done : data'[n].chunk = <<m, f>> /\ data'[n].id = id
        BY <4>1 DEF FragmentsOf
      <4>. QED BY <1>1, <4>1, <4>2 DEF FragmentsOf
    <3>. QED BY <2>1, <3>1 DEF BuffersFaithful
  <2>3. PushedFaithful(rx)' /\ PushedMarked(rx)' /\ PushedOnce(rx)'
    BY <1>1, <1>2, <2>1 DEF PushedFaithful, PushedMarked, PushedOnce
  <2>4. PushedArrived(rx, processed)'
    <3>1. \A m, f : Arrived(m, f, done) => Arrived(m, f, done)'
      BY DEF Arrived
    <3>. QED BY <1>1, <1>2, <2>1, <3>1 DEF PushedArrived
  <2>. QED BY <2>2, <2>3, <2>4
<1>. QED BY <1>3 DEF Faithful

\* A message more changes nothing about those handed over.
LEMMA EnqueueKeepsLink ==
  ASSUME TypeOK, LinkInv, NEW o \in Outgoing, Enqueue(o)
  PROVE  LinkInv'
<1>1. SentInv'
  BY EnqueueKeepsSent DEF LinkInv
<1>2. PICK index : Enqueues(o, index)
  BY EnqueueAdds
<1>3. /\ UNCHANGED <<data, processed, received_messages, highest_received, rx>>
      /\ \A m \in Messages : sent'[m] = sent[m]
      /\ sent'[Len(sent) + 1].message = o
  BY <1>2 DEF Enqueues, network, receiver
<1>4. /\ Messages \subseteq Messages'
      /\ \A m \in Messages' : m \in Messages \/ m = Len(sent) + 1
      /\ Len(sent) + 1 \notin Messages
  BY <1>2, EnqueueKnown
<1>5. Deduped'
  BY <1>3 DEF LinkInv, Deduped, IsDuplicate
<1>6. /\ \A m \in Messages : Whole(m)' = Whole(m) /\ Kind(m)' = Kind(m)
      /\ \A m \in Messages : \A c : On(m, c)' = On(m, c)
  BY <1>3 DEF Whole, Kind, On
<1>7. Shaped(rx)'
  <2>1. \A c : Offers(c) \subseteq Offers(c)'
    BY <1>3, <1>4, <1>6 DEF Offers
  <2>2. \A c : GivenUp(rx, c)' = GivenUp(rx, c)
    BY <1>3 DEF GivenUp
  <2>3. \A c \in Channels : Healthy(rx.channels[c], Index, Payload, Offers(c), GivenUp(rx, c))
    BY DEF LinkInv, Shaped
  <2>4. \A c \in Channels : Healthy(rx.channels[c], Index, Payload, Offers(c)', GivenUp(rx, c))
    BY <2>1, <2>3, HealthyMore
  <2>. QED BY <1>3, <2>2, <2>4 DEF LinkInv, Shaped
<1>8. Faithful(rx, processed)'
  <2>1. SUFFICES ASSUME IdsSuffice
                 PROVE  /\ BuffersFaithful(rx, processed)' /\ PushedFaithful(rx)'
                        /\ PushedMarked(rx)' /\ PushedArrived(rx, processed)' /\ PushedOnce(rx)'
    BY DEF Faithful
  <2>2. /\ BuffersFaithful(rx, processed) /\ PushedFaithful(rx) /\ PushedMarked(rx)
        /\ PushedArrived(rx, processed) /\ PushedOnce(rx)
    BY <2>1 DEF LinkInv, Faithful
  <2>3. \A m \in Messages : Pushes(rx, m)' = Pushes(rx, m)
    BY <1>3, <1>6 DEF Pushes
  \* Nothing was pushed of the new message.
  <2>4. \A m \in Messages' : m \notin Messages => Pushes(rx, m)' = {}
    <3>1. SUFFICES ASSUME NEW m \in Messages', m \notin Messages, NEW g \in rx.got, g[1] = Whole(m)'
                   PROVE  FALSE
      BY <1>3 DEF Pushes
    <3>2. PICK k \in Messages : g[1] = Whole(k)
      BY <2>2 DEF PushedFaithful
    <3>3. m = Len(sent) + 1 /\ o.chunks \in Nat \ {0} /\ sent'[m].message = o
      BY <1>3, <1>4, <3>1, OutgoingAssumption
    <3>4. Whole(m)'[1] = <<m, 1>>
      BY <3>3 DEF Whole
    <3>5. Whole(k)[1] = <<k, 1>>
      <4>1. SentInv
        BY DEF LinkInv
      <4>2. 1 \in 1 .. sent[k].message.chunks
        BY <4>1, TheMessages
      <4>. QED BY <4>1, <4>2, WholeMessages
    <3>. QED BY <3>1, <3>2, <3>4, <3>5
  <2>5. BuffersFaithful(rx, processed)'
    <3>1. \A b, id, m : FragmentsOf(b, id, m, processed) => FragmentsOf(b, id, m, processed)'
      <4>1. SUFFICES ASSUME NEW b, NEW id, NEW m, FragmentsOf(b, id, m, processed)
                     PROVE  FragmentsOf(b, id, m, processed)'
        OBVIOUS
      <4>2. m \in Messages
        BY <4>1 DEF FragmentsOf
      <4>3. sent'[m] = sent[m] /\ m \in Messages' /\ Kind(m)' = Kind(m)
            /\ \A c : On(m, c)' = On(m, c)
        BY <1>3, <1>4, <1>6, <4>2
      <4>4. \A f \in DOMAIN b.fragments :
                /\ b.fragments[f] = <<m, f>>
                /\ \E n \in processed' : data'[n].chunk = <<m, f>> /\ data'[n].id = id
        BY <1>3, <4>1 DEF FragmentsOf
      <4>. QED BY <4>1, <4>3, <4>4 DEF FragmentsOf
    <3>. QED BY <1>3, <2>2, <3>1 DEF BuffersFaithful
  <2>6. PushedFaithful(rx)'
    BY <1>3, <1>4, <1>6, <2>2 DEF PushedFaithful
  <2>7. PushedMarked(rx)'
    BY <1>3, <1>4, <1>6, <2>2, <2>3, <2>4 DEF PushedMarked
  <2>8. PushedArrived(rx, processed)'
    BY <1>3, <1>4, <1>6, <2>2, <2>3, <2>4 DEF PushedArrived, Arrived
  <2>9. PushedOnce(rx)'
    BY <1>3, <1>4, <1>6, <2>2, <2>3, <2>4 DEF PushedOnce
  <2>. QED BY <2>5, <2>6, <2>7, <2>8, <2>9
<1>. QED BY <1>1, <1>5, <1>7, <1>8 DEF LinkInv

\* Nor does what the sender puts on the wire.
LEMMA SenderUpdateKeepsLink ==
  ASSUME TypeOK, ResendMatchesData, LinkInv, SenderUpdate
  PROVE  LinkInv'
<1>1. PICK due, burst : Updates(due, burst)
  BY SenderUpdates
<1>2. /\ \A n \in DOMAIN data : data'[n] = data[n]
      /\ UNCHANGED <<sent, processed, received_messages, highest_received, rx>>
  BY <1>1 DEF Updates, receiver
<1>3. SentInv'
  BY <1>1, SenderUpdateKeepsSent DEF LinkInv
<1>4. Deduped'
  BY <1>2 DEF LinkInv, Deduped, IsDuplicate
<1>5. Shaped(rx)'
  BY <1>2, ShapedStays DEF LinkInv
<1>6. Faithful(rx, processed)'
  BY <1>2, FaithfulStays DEF LinkInv, TypeOK
<1>. QED BY <1>3, <1>4, <1>5, <1>6 DEF LinkInv

\* Whatever leaves the packets and the receiver alone and tracks no more.
LEMMA OthersKeepLink ==
  ASSUME LinkInv,
         UNCHANGED <<sent, send_ordering_index, send_sequenced_index, split_id_counter,
                     send_queue, data, processed, received_messages, highest_received, rx>>,
         DOMAIN resend' \subseteq DOMAIN resend,
         \A n \in DOMAIN resend' : resend'[n] = resend[n]
  PROVE  LinkInv'
<1>1. Known' = Known
  BY DEF Known
<1>2. SentInv'
  <2>1. Numbered /\ AllGenuine /\ Siblings /\ OwnIds /\ Once /\ Covered
    BY DEF LinkInv, SentInv
  <2>2. Numbered' /\ AllGenuine' /\ Siblings' /\ OwnIds' /\ Covered'
    BY <1>1, <2>1 DEF Numbered, AllGenuine, Siblings, OwnIds, Covered, Genuine, Messages, Kind, On
  <2>3. Once'
    BY <2>1 DEF Once
  <2>. QED BY <2>2, <2>3 DEF SentInv
<1>3. Deduped'
  BY DEF LinkInv, Deduped, IsDuplicate
<1>4. Shaped(rx)'
  BY ShapedStays DEF LinkInv
<1>5. Faithful(rx, processed)'
  BY FaithfulStays DEF LinkInv
<1>. QED BY <1>2, <1>3, <1>4, <1>5 DEF LinkInv

\* A datagram that passes the duplicate check.
LEMMA ReceiveDataAccepts ==
  ASSUME TypeOK, LinkInv, NEW n \in DOMAIN data, ReceiveData(n), ~ IsDuplicate(n)
  PROVE  /\ n \notin processed /\ processed' = processed \cup {n}
         /\ Accepts(rx, rx', processed, n)
         /\ Deduped'
<1>1. /\ highest_received' = IF n > highest_received THEN n ELSE highest_received
      /\ received_messages' =
            {k \in received_messages \cup {n} : k + DedupWindow >= highest_received'}
      /\ processed' = processed \cup {n}
      /\ rx' = Accepted(rx, data[n])
  BY DEF ReceiveData
<1>2. n \notin processed /\ processed \subseteq DOMAIN data
  BY DEF LinkInv, Deduped, TypeOK
<1>3. Accepts(rx, rx', processed, n)
  <2>1. PICK r, q : r = rx /\ q = rx'
    OBVIOUS
  <2>2. Accepts(r, q, processed, n)
    BY <1>1, <1>2, <2>1, AcceptedAccepts DEF LinkInv
  <2>. QED BY <2>1, <2>2
<1>4. Deduped'
  <2>1. SUFFICES ASSUME NEW k \in processed', k \notin received_messages'
                 PROVE  k + DedupWindow < highest_received'
    BY DEF Deduped, IsDuplicate
  <2>2. /\ k \in Nat /\ n \in Nat /\ highest_received \in Int /\ DedupWindow \in Nat
        /\ highest_received' \in Int /\ highest_received' >= highest_received
    BY <1>1, LimitsAssumption, BoundsAssumption DEF TypeOK, None
  <2>3. CASE k \in received_messages \cup {n}
    BY <1>1, <2>1, <2>2, <2>3
  <2>4. CASE k \notin received_messages \cup {n}
    <3>1. k + DedupWindow < highest_received
      BY <1>1, <2>1, <2>4 DEF LinkInv, Deduped, IsDuplicate
    <3>. QED BY <2>2, <3>1
  <2>. QED BY <2>3, <2>4
<1>. QED BY <1>1, <1>2, <1>3, <1>4

\* A datagram keeps the invariant, a duplicate or not.
LEMMA ReceiveDataKeepsLink ==
  ASSUME TypeOK, LinkInv, NEW n \in DOMAIN data, ReceiveData(n)
  PROVE  LinkInv'
<1>1. UNCHANGED <<sender, network>>
  BY DEF ReceiveData
<1>2. CASE IsDuplicate(n)
  <2>1. UNCHANGED <<received_messages, highest_received, processed, rx>>
    BY <1>2 DEF ReceiveData
  <2>. QED BY <1>1, <2>1, OthersKeepLink DEF sender, network
<1>3. CASE ~ IsDuplicate(n)
  <2>1. /\ processed' = processed \cup {n} /\ Accepts(rx, rx', processed, n) /\ Deduped'
    BY <1>3, ReceiveDataAccepts
  <2>2. SentInv'
    <3>1. Known' = Known
      BY <1>1 DEF Known, sender, network
    <3>2. Numbered /\ AllGenuine /\ Siblings /\ OwnIds /\ Once /\ Covered
      BY DEF LinkInv, SentInv
    <3>3. Numbered' /\ AllGenuine' /\ Siblings' /\ OwnIds' /\ Covered' /\ Once'
      BY <1>1, <3>1, <3>2 DEF Numbered, AllGenuine, Siblings, OwnIds, Covered, Once, Genuine,
                              Messages, Kind, On, sender, network
    <3>. QED BY <3>3 DEF SentInv
  <2>3. PICK q, more : q = rx' /\ more = processed'
    OBVIOUS
  <2>4. Shaped(q) /\ Faithful(q, more)
    BY <2>1, <2>3 DEF Accepts
  <2>5. sent' = sent /\ data' = data
    BY <1>1 DEF sender, network
  <2>6. Shaped(rx)'
    BY <2>3, <2>4, <2>5, ShapedStays
  <2>7. Faithful(rx, processed)'
    BY <2>3, <2>4, <2>5, FaithfulStays
  <2>. QED BY <2>1, <2>2, <2>6, <2>7 DEF LinkInv
<1>. QED BY <1>2, <1>3

\* An idle link satisfies the invariant.
LEMMA LinkInitially ==
  ASSUME Init
  PROVE  LinkInv
<1>1. /\ sent = << >> /\ send_queue = << >> /\ resend = << >> /\ data = << >>
      /\ send_ordering_index = [c \in Channels |-> 0]
      /\ send_sequenced_index = [c \in Channels |-> 0]
      /\ split_id_counter = 0 /\ processed = {}
  BY DEF Init
<1>2. /\ DOMAIN send_queue = {} /\ DOMAIN data = {} /\ DOMAIN resend = {}
      /\ Len(sent) = 0 /\ Messages = {} /\ Known = {}
  BY <1>1 DEF Messages, Known
<1>3. SentInv
  <2>1. Numbered
    BY <1>1, <1>2, BoundsAssumption DEF Numbered
  <2>2. OwnIds
    BY <1>1, <1>2 DEF OwnIds
  <2>. QED BY <1>2, <2>1, <2>2 DEF SentInv, AllGenuine, Siblings, Once, Covered
<1>4. /\ rx.channels = [c \in Channels |-> EmptyChannel]
      /\ rx.sequenced = [c \in Channels |-> None]
      /\ rx.splits = << >> /\ rx.got = {} /\ rx.discarded = {}
      /\ rx = [channels |-> rx.channels, sequenced |-> rx.sequenced, splits |-> rx.splits,
               got |-> rx.got, discarded |-> rx.discarded]
  BY DEF Init
<1>5. \A c : Healthy(EmptyChannel, Index, Payload, Offers(c), GivenUp(rx, c))
  BY EmptyIsHealthy
<1>6. Shaped(rx)
  <2>1. EmptyChannel \in ChannelOf(Index, Payload)
    BY <1>5 DEF Healthy
  <2>2. << >> \in [{} -> Buffer] /\ DOMAIN << >> = {}
    OBVIOUS
  <2>3. rx.splits \in UNION {[D -> Buffer] : D \in SUBSET Nat}
    BY <1>4, <2>2
  <2>4. rx.channels \in [Channels -> ChannelOf(Index, Payload)] /\ rx.sequenced \in [Channels -> Int]
    BY <1>4, <2>1 DEF None
  <2>5. rx \in Link
    <3>1. rx.got \in SUBSET (Payload \X Nat) /\ rx.discarded \in SUBSET (Channels \X Index)
      BY <1>4
    <3>. QED BY <1>4, <2>3, <2>4, <3>1 DEF Link
  <2>6. IsFiniteSet(DOMAIN rx.splits) /\ IsFiniteSet(rx.got)
    BY <1>4, <2>2, FS_EmptySet
  <2>. QED BY <1>4, <1>5, <2>5, <2>6 DEF Shaped
<1>7. Faithful(rx, processed)
  BY <1>2, <1>4 DEF Faithful, BuffersFaithful, PushedFaithful, PushedMarked, PushedArrived,
                    PushedOnce, Pushes
<1>. QED BY <1>1, <1>3, <1>6, <1>7 DEF LinkInv, Deduped

\* The invariant of the link holds throughout.
LEMMA LinkInvariant == Spec => [](IInv /\ LinkInv)
<1>1. Init => LinkInv
  BY LinkInitially
<1>2. IInv /\ LinkInv /\ [Next]_vars => LinkInv'
  <2>1. SUFFICES ASSUME IInv, LinkInv, [Next]_vars
                 PROVE  LinkInv'
    OBVIOUS
  <2>2. TypeOK /\ ResendMatchesData
    BY <2>1 DEF IInv
  <2>3. ASSUME NEW o \in Outgoing, Enqueue(o)
        PROVE  LinkInv'
    BY <2>1, <2>2, <2>3, EnqueueKeepsLink
  <2>4. CASE SenderUpdate
    BY <2>1, <2>2, <2>4, SenderUpdateKeepsLink
  <2>5. ASSUME NEW n \in DOMAIN data, ReceiveData(n)
        PROVE  LinkInv'
    BY <2>1, <2>2, <2>5, ReceiveDataKeepsLink
  <2>6. ASSUME NEW numbers \in acks, ReceiveAck(numbers)
        PROVE  LinkInv'
    <3>1. /\ DOMAIN resend' \subseteq DOMAIN resend
          /\ \A k \in DOMAIN resend' : resend'[k] = resend[k]
      BY <2>6 DEF ReceiveAck
    <3>. QED BY <2>1, <2>6, <3>1, OthersKeepLink DEF ReceiveAck, receiver
  <2>7. ASSUME NEW numbers \in acks, LoseAck(numbers)
        PROVE  LinkInv'
    BY <2>1, <2>7, OthersKeepLink DEF LoseAck, sender, receiver
  <2>8. ASSUME NEW n \in DOMAIN data, LoseData(n)
        PROVE  LinkInv'
    BY <2>1, <2>8, OthersKeepLink DEF LoseData, sender, receiver
  <2>9. CASE ReceiverUpdate
    BY <2>1, <2>9, OthersKeepLink DEF ReceiverUpdate, sender
  <2>10. CASE UNCHANGED vars
    BY <2>1, <2>10, OthersKeepLink DEF vars, sender, network, receiver
  <2>. QED BY <2>1, <2>3, <2>4, <2>5, <2>6, <2>7, <2>8, <2>9, <2>10 DEF Next
<1>. QED BY <1>1, <1>2, InvariantHolds, PTL DEF Spec

-----------------------------------------------------------------------------
(* Nothing owed is forgotten, as long as no window overflows.                *)

\* What is acknowledged was accepted: no packet came too late for the window
\* of the duplicate check.
AckedAccepted == ack_queue \subseteq processed

\* Only accepted numbers are acknowledged.
AcksTaken == \A numbers \in acks : numbers \subseteq processed

\* A reliable packet is tracked until a copy of it was accepted.
Tracked ==
    \A n \in DOMAIN data : IsReliable(data[n].reliability) =>
        \/ \E k \in DOMAIN resend : resend[k].packet = data[n]
        \/ \E k \in processed : data[k] = data[n]

OwedInv == AcksTaken /\ Tracked /\ (IdsSuffice => Kept(rx, processed))

\* Sending more packets forgets none.
LEMMA KeptStays ==
  ASSUME NEW r, rx' = r, NEW done, processed' = done, Kept(r, done),
         \A n \in done : data'[n] = data[n]
  PROVE  Kept(rx, processed)'
BY DEF Kept, Safe, Pending

\* Steps that touch none of these keep it.
LEMMA OthersKeepOwed ==
  ASSUME OwedInv, UNCHANGED <<resend, data, processed, rx>>,
         \A numbers \in acks' : numbers \in acks \/ numbers \subseteq processed
  PROVE  OwedInv'
<1>1. Kept(rx, processed) => Kept(rx, processed)'
  BY KeptStays
<1>. QED BY <1>1 DEF OwedInv, AcksTaken, Tracked

\* A packet that is sent again is tracked under its fresh number.
LEMMA SenderUpdateKeepsOwed ==
  ASSUME TypeOK, ResendMatchesData, OwedInv, SenderUpdate
  PROVE  OwedInv'
<1>1. PICK due, burst : Updates(due, burst)
  BY SenderUpdates
<1> DEFINE next == next_message_number
<1>2. /\ \A n \in DOMAIN data : n \in DOMAIN data' /\ data'[n] = data[n]
      /\ \A k \in due : \E i \in 1 .. Len(burst) : burst[i] = resend[k].packet
      /\ \A i \in 1 .. Len(burst) : /\ next + i - 1 \in DOMAIN data' \ DOMAIN data
                                    /\ data'[next + i - 1] = burst[i]
      /\ DOMAIN resend' = (DOMAIN resend \ due) \cup
                {n \in DOMAIN data' \ DOMAIN data : IsReliable(data'[n].reliability)}
      /\ \A n \in DOMAIN resend \ due : resend'[n] = resend[n]
      /\ \A n \in DOMAIN resend' \ DOMAIN resend :
                resend'[n] = [packet |-> data'[n], last_sent |-> next]
      /\ UNCHANGED <<sent, acks, processed, rx>>
  BY <1>1 DEF Updates, receiver
<1>3. DOMAIN resend \subseteq DOMAIN data /\ processed \subseteq DOMAIN data
  BY DEF TypeOK
<1>. HIDE DEF next
\* What leaves under a fresh number is tracked under it.
<1>4. \A n \in DOMAIN data' \ DOMAIN data : IsReliable(data'[n].reliability) =>
          n \in DOMAIN resend' /\ resend'[n].packet = data'[n]
  <2>1. SUFFICES ASSUME NEW n \in DOMAIN data' \ DOMAIN data, IsReliable(data'[n].reliability)
                 PROVE  n \in DOMAIN resend' /\ resend'[n].packet = data'[n]
    OBVIOUS
  <2>2. resend'[n] = [packet |-> data'[n], last_sent |-> next]
    BY <1>2, <1>3, <2>1
  <2>. QED BY <1>2, <2>1, <2>2
<1>5. Tracked'
  <2>1. SUFFICES ASSUME NEW n \in DOMAIN data', IsReliable(data'[n].reliability)
                 PROVE  \/ \E k \in DOMAIN resend' : resend'[k].packet = data'[n]
                        \/ \E k \in processed : data'[k] = data'[n]
    BY <1>2 DEF Tracked
  <2>2. CASE n \notin DOMAIN data
    BY <1>4, <2>1, <2>2
  <2>3. CASE n \in DOMAIN data
    <3>1. data'[n] = data[n]
      BY <1>2, <2>3
    <3>2. \/ \E k \in DOMAIN resend : resend[k].packet = data[n]
          \/ \E k \in processed : data[k] = data[n]
      BY <2>1, <2>3, <3>1 DEF OwedInv, Tracked
    <3>3. CASE \E k \in processed : data[k] = data[n]
      BY <1>2, <1>3, <3>1, <3>3
    <3>4. ASSUME NEW k \in DOMAIN resend, resend[k].packet = data[n]
          PROVE  \E j \in DOMAIN resend' : resend'[j].packet = data'[n]
      <4>1. CASE k \notin due
        BY <1>2, <3>1, <3>4, <4>1
      <4>2. CASE k \in due
        <5>1. PICK i \in 1 .. Len(burst) : burst[i] = resend[k].packet
          BY <1>2, <4>2
        <5>2. PICK j : j = next + i - 1
          OBVIOUS
        <5>3. j \in DOMAIN data' \ DOMAIN data /\ data'[j] = data'[n]
          BY <1>2, <3>1, <3>4, <5>1, <5>2
        <5>. QED BY <1>4, <2>1, <5>3
      <4>. QED BY <4>1, <4>2
    <3>. QED BY <3>2, <3>3, <3>4
  <2>. QED BY <2>2, <2>3
<1>6. Kept(rx, processed) => Kept(rx, processed)'
  BY <1>2, <1>3, KeptStays
<1>. QED BY <1>2, <1>5, <1>6 DEF OwedInv, AcksTaken

\* What an acknowledgement frees was accepted.
LEMMA ReceiveAckKeepsOwed ==
  ASSUME TypeOK, ResendMatchesData, OwedInv, NEW numbers \in acks, ReceiveAck(numbers)
  PROVE  OwedInv'
<1>1. /\ DOMAIN resend' = DOMAIN resend \ Applied(numbers)
      /\ \A k \in DOMAIN resend' : resend'[k] = resend[k]
      /\ acks' \subseteq acks
      /\ UNCHANGED <<data, processed, rx>>
  BY DEF ReceiveAck, receiver
<1>2. Applied(numbers) \subseteq numbers /\ numbers \subseteq processed
  BY DEF Applied, OwedInv, AcksTaken
<1>3. Tracked'
  <2>1. SUFFICES ASSUME NEW n \in DOMAIN data, IsReliable(data[n].reliability)
                 PROVE  \/ \E k \in DOMAIN resend' : resend'[k].packet = data[n]
                        \/ \E k \in processed : data[k] = data[n]
    BY <1>1 DEF Tracked
  <2>2. ASSUME NEW k \in DOMAIN resend, resend[k].packet = data[n]
        PROVE  \/ \E j \in DOMAIN resend' : resend'[j].packet = data[n]
               \/ \E j \in processed : data[j] = data[n]
    BY <1>1, <1>2, <2>2 DEF ResendMatchesData
  <2>. QED BY <2>1, <2>2 DEF OwedInv, Tracked
<1>4. Kept(rx, processed) => Kept(rx, processed)'
  BY <1>1, KeptStays
<1>. QED BY <1>1, <1>3, <1>4 DEF OwedInv, AcksTaken

\* An accepted packet is placed or pending.
LEMMA ReceiveDataKeepsOwed ==
  ASSUME TypeOK, LinkInv, OwedInv, Reach(rx), NEW n \in DOMAIN data, ReceiveData(n)
  PROVE  OwedInv'
<1>1. UNCHANGED <<resend, data, acks>>
  BY DEF ReceiveData, sender, network
<1>2. CASE IsDuplicate(n)
  <2>1. UNCHANGED <<processed, rx>>
    BY <1>2 DEF ReceiveData
  <2>. QED BY <1>1, <2>1, OthersKeepOwed
<1>3. CASE ~ IsDuplicate(n)
  <2>1. processed' = processed \cup {n} /\ Accepts(rx, rx', processed, n)
    BY <1>3, ReceiveDataAccepts
  <2>2. PICK q, more : q = rx' /\ more = processed'
    OBVIOUS
  <2>3. IdsSuffice => Kept(q, more)
    BY <2>1, <2>2 DEF Accepts, OwedInv
  <2>4. IdsSuffice => Kept(rx, processed)'
    BY <1>1, <2>2, <2>3, KeptStays
  <2>5. AcksTaken' /\ Tracked'
    BY <1>1, <2>1 DEF OwedInv, AcksTaken, Tracked
  <2>. QED BY <2>4, <2>5 DEF OwedInv
<1>. QED BY <1>2, <1>3

\* It holds as long as no window overflows.
LEMMA OwedInvariant == Spec /\ [](Reach(rx) /\ AckedAccepted) => []OwedInv
<1>1. Init => OwedInv
  <2>1. SUFFICES ASSUME Init
                 PROVE  OwedInv
    OBVIOUS
  <2>2. acks = {} /\ DOMAIN data = {} /\ processed = {}
    BY <2>1 DEF Init
  <2>. QED BY <2>2 DEF OwedInv, AcksTaken, Tracked, Kept
<1>2. /\ IInv /\ LinkInv /\ OwedInv
      /\ Reach(rx) /\ AckedAccepted
      /\ [Next]_vars
      => OwedInv'
  <2>1. SUFFICES ASSUME IInv, LinkInv, OwedInv, Reach(rx), AckedAccepted, [Next]_vars
                 PROVE  OwedInv'
    OBVIOUS
  <2>2. TypeOK /\ ResendMatchesData
    BY <2>1 DEF IInv
  <2>3. ASSUME NEW o \in Outgoing, Enqueue(o)
        PROVE  OwedInv'
    BY <2>1, <2>3, OthersKeepOwed DEF Enqueue, network, receiver
  <2>4. CASE SenderUpdate
    BY <2>1, <2>2, <2>4, SenderUpdateKeepsOwed
  <2>5. ASSUME NEW n \in DOMAIN data, ReceiveData(n)
        PROVE  OwedInv'
    BY <2>1, <2>2, <2>5, ReceiveDataKeepsOwed
  <2>6. ASSUME NEW numbers \in acks, ReceiveAck(numbers)
        PROVE  OwedInv'
    BY <2>1, <2>2, <2>6, ReceiveAckKeepsOwed
  <2>7. ASSUME NEW numbers \in acks, LoseAck(numbers)
        PROVE  OwedInv'
    BY <2>1, <2>7, OthersKeepOwed DEF LoseAck, sender, receiver
  <2>8. ASSUME NEW n \in DOMAIN data, LoseData(n)
        PROVE  OwedInv'
    BY <2>1, <2>8, OthersKeepOwed DEF LoseData, sender, receiver
  <2>9. CASE ReceiverUpdate
    BY <2>1, <2>9, OthersKeepOwed DEF ReceiverUpdate, sender, AckedAccepted
  <2>10. CASE UNCHANGED vars
    BY <2>1, <2>10, OthersKeepOwed DEF vars, sender, network, receiver
  <2>. QED BY <2>1, <2>3, <2>4, <2>5, <2>6, <2>7, <2>8, <2>9, <2>10 DEF Next
<1>. QED BY <1>1, <1>2, LinkInvariant, PTL DEF Spec

-----------------------------------------------------------------------------
(* What the invariants say of the payloads handed over.                      *)

\* What the channels' health says of their logs.
LEMMA LogOf ==
  ASSUME LinkInv, NEW c \in Channels
  PROVE  LET ch == rx.channels[c]
         IN  /\ ch.log \in Seq(MessageOf(Index, Payload)) /\ ch.expected \in Nat
             /\ DOMAIN ch.log = 1 .. Len(ch.log) /\ Len(ch.log) \in Nat
             /\ \A n \in DOMAIN ch.log : ch.log[n] \in Offers(c) /\ ch.log[n][1] \in Nat
             /\ \A n, k \in DOMAIN ch.log : n < k => ch.log[n][1] < ch.log[k][1]
<1> DEFINE ch == rx.channels[c]
<1>1. ch \in ChannelOf(Index, Payload) /\ LogAscends(ch) /\ LogOffered(ch, Offers(c))
  BY DEF LinkInv, Shaped, Healthy, Sound
<1>. HIDE DEF ch
<1>2. ch.log \in Seq(MessageOf(Index, Payload)) /\ ch.expected \in Nat
  BY <1>1 DEF ChannelOf
<1>3. DOMAIN ch.log = 1 .. Len(ch.log) /\ Len(ch.log) \in Nat
  BY <1>2, LenProperties
<1>4. \A n \in DOMAIN ch.log : ch.log[n][1] \in Nat
  <2>1. \A n \in DOMAIN ch.log : ch.log[n] \in MessageOf(Index, Payload)
    BY <1>2, <1>3, ElementOfSeq
  <2>. QED BY <2>1, TheIndices DEF MessageOf
<1>5. /\ \A n \in DOMAIN ch.log : ch.log[n] \in Offers(c)
      /\ \A n, k \in DOMAIN ch.log : n < k => ch.log[n][1] < ch.log[k][1]
  BY <1>1 DEF LogAscends, LogOffered
<1>. QED BY <1>2, <1>3, <1>4, <1>5 DEF ch

\* While ids last, a channel's log holds whole messages sent on it.
LEMMA LogIsMessages ==
  ASSUME LinkInv, IdsSuffice, NEW c \in Channels, NEW n \in DOMAIN rx.channels[c].log
  PROVE  \E m \in Messages : /\ Kind(m) = "ReliableOrdered" /\ On(m, c)
                             /\ rx.channels[c].log[n] = <<sent[m].index, Whole(m)>>
<1>1. rx.channels[c].log[n] \in Offers(c)
  BY LogOf
<1>. QED BY <1>1 DEF Offers

\* A set without two members has at most one.
LEMMA AtMostOneIsFinite ==
  ASSUME NEW S, \A g, h \in S : g = h
  PROVE  IsFiniteSet(S) /\ Cardinality(S) \in Nat /\ Cardinality(S) <= 1
<1>1. CASE S = {}
  BY <1>1, FS_EmptySet
<1>2. ASSUME NEW g \in S
      PROVE  IsFiniteSet(S) /\ Cardinality(S) \in Nat /\ Cardinality(S) <= 1
  <2>1. S = {g}
    OBVIOUS
  <2>. QED BY <2>1, FS_Singleton
<1>. QED BY <1>1, <1>2

\* A message is in its channel's log once by its index, and was pushed once.
LEMMA TimesAtMostOne ==
  ASSUME TypeOK, LinkInv, IdsSuffice, NEW m \in Messages, Kind(m) # "Reliable"
  PROVE  Times(m) <= 1
<1>1. sent[m].message.channel \in Channels /\ SentInv
  BY TheMessages DEF LinkInv
<1>2. CASE Kind(m) = "ReliableOrdered"
  <2> DEFINE c == sent[m].message.channel
             log == rx.channels[c].log
             S == {n \in DOMAIN log : log[n][2] = Whole(m)}
  <2>1. \A n \in S : log[n][1] = sent[m].index
    <3>1. SUFFICES ASSUME NEW n \in S
                   PROVE  log[n][1] = sent[m].index
      BY SMTT(30)
    <3>2. PICK k \in Messages : log[n] = <<sent[k].index, Whole(k)>>
      BY <1>1, LogIsMessages
    <3>3. Whole(k) = Whole(m)
      <4>1. log[n][2] = Whole(m)
        OBVIOUS
      <4>. HIDE DEF log
      <4>. QED BY <3>2, <4>1
    <3>4. k = m
      BY <1>1, <3>3, WholeMessages
    <3>. HIDE DEF log
    <3>5. log[n] = <<sent[m].index, Whole(m)>>
      BY <3>2, <3>4
    <3>. QED BY <3>5, SMTT(30)
  <2>2. \A n, k \in S : n = k
    <3>1. /\ DOMAIN log = 1 .. Len(log) /\ Len(log) \in Nat
          /\ \A n \in DOMAIN log : log[n][1] \in Nat
          /\ \A n, k \in DOMAIN log : n < k => log[n][1] < log[k][1]
      BY <1>1, LogOf
    <3>. HIDE DEF log, c
    <3>2. SUFFICES ASSUME NEW n \in S, NEW k \in S, n # k
                   PROVE  FALSE
      OBVIOUS
    <3>3. n \in Nat /\ k \in Nat /\ log[n][1] = log[k][1] /\ log[n][1] \in Nat
      BY <2>1, <3>1
    <3>4. n < k \/ k < n
      BY <3>2, <3>3
    <3>. QED BY <3>1, <3>3, <3>4, SMTT(30)
  <2>3. Times(m) = Cardinality(S)
    BY <1>2 DEF Times
  <2>. HIDE DEF S
  <2>. QED BY <2>2, <2>3, AtMostOneIsFinite
<1>3. CASE Kind(m) # "ReliableOrdered"
  <2>1. \A g, h \in Pushes(rx, m) : g = h
    BY DEF LinkInv, Faithful, PushedOnce
  <2>2. Times(m) = Cardinality(Pushes(rx, m))
    BY <1>3 DEF Times, Copies, Pushes
  <2>. QED BY <2>1, <2>2, AtMostOneIsFinite
<1>. QED BY <1>2, <1>3

\* Something was pushed of a message that reached the application.
LEMMA TimesPushed ==
  ASSUME NEW m \in Messages, Kind(m) # "ReliableOrdered", Times(m) > 0
  PROVE  Pushes(rx, m) # {}
<1>1. Times(m) = Cardinality(Pushes(rx, m))
  BY DEF Times, Copies, Pushes
<1>2. SUFFICES ASSUME Pushes(rx, m) = {}
               PROVE  FALSE
  OBVIOUS
<1>. QED BY <1>1, <1>2, FS_EmptySet

\* A sequenced message is handed over only past its channel's mark, so past
\* every one of its channel that was handed over before.
LEMMA ReceiveDataIsNewer ==
  ASSUME TypeOK, LinkInv, IdsSuffice, NEW n \in DOMAIN data, ReceiveData(n),
         NEW m \in Messages, IsSequenced(Kind(m)), Pushes(rx', m) # Pushes(rx, m),
         NEW k \in Messages, IsSequenced(Kind(k)), On(k, sent[m].message.channel), Times(k) > 0
  PROVE  k < m
<1> DEFINE c == sent[m].message.channel
<1>1. ~ IsDuplicate(n)
  BY DEF ReceiveData
<1>2. Accepts(rx, rx', processed, n)
  BY <1>1, ReceiveDataAccepts
<1>3. rx.sequenced[c] < sent[m].index
  BY <1>2 DEF Accepts, PushedNewer
<1>4. Pushes(rx, k) # {}
  BY TimesPushed DEF IsSequenced
<1>5. sent[k].index <= rx.sequenced[c]
  BY <1>4 DEF LinkInv, Faithful, PushedMarked, On
<1>6. c \in Channels /\ sent[m].index \in Nat /\ sent[k].index \in Nat
  BY TheMessages DEF LinkInv
<1>7. rx.sequenced[c] \in Int
  BY <1>6 DEF LinkInv, Shaped, Link
<1>8. sent[k].index < sent[m].index
  BY <1>3, <1>5, <1>6, <1>7
<1>9. m < k => sent[m].index < sent[k].index
  BY DEF LinkInv, SentInv, Numbered, On
<1>10. m \in Nat /\ k \in Nat
  BY TheMessages DEF LinkInv
<1>. QED BY <1>6, <1>8, <1>9, <1>10

\* Ordered messages are resent.
LEMMA OrderedIsReliable == IsReliable("ReliableOrdered")
  BY DEF IsReliable

\* When nothing of m is queued or tracked, every chunk of it was accepted.
LEMMA UntrackedWasAccepted ==
  ASSUME LinkInv, OwedInv, NEW m \in Messages, Kind(m) = "ReliableOrdered",
         \A i \in DOMAIN send_queue : send_queue[i].chunk[1] # m,
         \A k \in DOMAIN resend : resend[k].packet.chunk[1] # m,
         NEW f \in 1 .. sent[m].message.chunks
  PROVE  \E k \in processed : data[k].chunk = <<m, f>>
<1>1. PICK p \in Known : p.chunk = <<m, f>>
  BY DEF LinkInv, SentInv, Covered
<1>2. p.reliability = "ReliableOrdered"
  BY <1>1 DEF LinkInv, SentInv, AllGenuine, Genuine
<1>3. PICK n \in DOMAIN data : data[n] = p
  BY <1>1 DEF Known
<1>4. \/ \E k \in DOMAIN resend : resend[k].packet = p
      \/ \E k \in processed : data[k] = p
  <2>1. IsReliable(data[n].reliability)
    BY <1>2, <1>3, OrderedIsReliable, SMTT(30)
  <2>. QED BY <1>3, <2>1, Zenon DEF OwedInv, Tracked
<1>. QED BY <1>1, <1>4

\* If none were, its buffer would be complete, or its index would not be expected.
LEMMA ExpectedIsOwed ==
  ASSUME TypeOK, LinkInv, OwedInv, IdsSuffice,
         NEW m \in Messages, NEW c \in Channels,
         Kind(m) = "ReliableOrdered", On(m, c), sent[m].index = rx.channels[c].expected
  PROVE  \/ \E i \in DOMAIN send_queue : send_queue[i].chunk[1] = m
         \/ \E k \in DOMAIN resend : resend[k].packet.chunk[1] = m
<1>1. SUFFICES ASSUME \A i \in DOMAIN send_queue : send_queue[i].chunk[1] # m,
                      \A k \in DOMAIN resend : resend[k].packet.chunk[1] # m
               PROVE  FALSE
  OBVIOUS
<1>2. SentInv /\ Kept(rx, processed) /\ processed \subseteq DOMAIN data
  BY DEF LinkInv, OwedInv, TypeOK
<1>3. ~ Placed(rx.channels[c], sent[m].index)
  <2>1. /\ rx.channels[c].expected \in Nat
        /\ rx.channels[c].expected \notin DOMAIN rx.channels[c].heap \cup rx.channels[c].abandoned
    BY TheChannels DEF LinkInv, Shaped, Healthy
  <2>. QED BY <2>1 DEF Placed
\* So every chunk of m waits in a buffer.
<1>4. ASSUME NEW f \in 1 .. sent[m].message.chunks
      PROVE  \E k \in processed : data[k].chunk = <<m, f>> /\ Pending(rx, data[k])
  <2>1. PICK k \in processed : data[k].chunk = <<m, f>>
    BY <1>1, UntrackedWasAccepted
  <2>2. /\ data[k].reliability = "ReliableOrdered" /\ data[k].channel = c
        /\ data[k].index = sent[m].index
    BY <1>2, <2>1, ThePackets DEF On
  <2>3. Safe(rx, data[k])
    BY <1>2, <2>2 DEF Kept, IsOrdered
  <2>. QED BY <1>3, <2>1, <2>2, <2>3 DEF Safe
<1>5. sent[m].message.chunks \in Nat \ {0}
  BY <1>2, TheMessages
<1>6. PICK k \in processed : data[k].chunk = <<m, 1>> /\ Pending(rx, data[k])
  <2>1. 1 \in 1 .. sent[m].message.chunks
    BY <1>5
  <2>. QED BY <1>4, <2>1
\* They wait in one, which would be complete.
<1> DEFINE id == data[k].id
<1>7. PICK x : FragmentsOf(rx.splits[id], id, x, processed)
  BY <1>6 DEF LinkInv, Faithful, BuffersFaithful, Pending
<1>8. x = m
  BY <1>2, <1>6, <1>7, BufferOwner DEF Pending
<1>9. ASSUME NEW f \in 1 .. sent[m].message.chunks
      PROVE  f \in DOMAIN rx.splits[id].fragments
  <2>1. PICK j \in processed : data[j].chunk = <<m, f>> /\ Pending(rx, data[j])
    BY <1>4
  <2>2. data[j] \in Known /\ data[k] \in Known /\ data[j].chunk[1] = data[k].chunk[1]
    BY <1>2, <1>6, <2>1 DEF Known
  <2>3. data[j].id = id
    BY <1>2, <2>2 DEF SentInv, Siblings
  <2>. QED BY <2>1, <2>3 DEF Pending
<1>. QED BY <1>7, <1>8, <1>9 DEF FragmentsOf

\* With windows as wide as the session is long, nothing is refused as too old
\* and nothing is out of reach.
LEMMA WideWindows ==
  ASSUME MaxMessages <= OrderWindow, MaxNumbers <= DedupWindow
  PROVE  Spec => [](Reach(rx) /\ AckedAccepted)
<1>1. Init => AckedAccepted
  BY DEF Init, AckedAccepted
<1>2. TypeOK /\ AckedAccepted /\ [Next]_vars => AckedAccepted'
  <2>1. SUFFICES ASSUME TypeOK, AckedAccepted, [Next]_vars
                 PROVE  AckedAccepted'
    OBVIOUS
  <2>2. ASSUME NEW n \in DOMAIN data, ReceiveData(n)
        PROVE  AckedAccepted'
    <3>1. ack_queue' = ack_queue \cup {n}
      BY <2>2 DEF ReceiveData
    <3>2. CASE ~ IsDuplicate(n)
      <4>1. processed' = processed \cup {n}
        BY <2>2, <3>2 DEF ReceiveData
      <4>. QED BY <2>1, <3>1, <4>1 DEF AckedAccepted
    <3>3. CASE IsDuplicate(n)
      <4>1. processed' = processed
        BY <2>2, <3>3 DEF ReceiveData
      <4>2. /\ n \in Nat /\ next_message_number \in Nat /\ next_message_number <= MaxNumbers
            /\ highest_received \in Int
            /\ highest_received < next_message_number \/ highest_received = -1
        BY <2>1, BoundsAssumption DEF TypeOK, None
      <4>3. ~(n + DedupWindow < highest_received)
        BY <4>2, LimitsAssumption, BoundsAssumption
      <4>4. n \in processed
        BY <2>1, <3>3, <4>3 DEF IsDuplicate, TypeOK
      <4>. QED BY <2>1, <3>1, <4>1, <4>4 DEF AckedAccepted
    <3>. QED BY <3>2, <3>3
  <2>3. ASSUME NEW o \in Outgoing, Enqueue(o)
        PROVE  AckedAccepted'
    BY <2>1, <2>3 DEF Enqueue, receiver, AckedAccepted
  <2>4. CASE SenderUpdate
    BY <2>1, <2>4 DEF SenderUpdate, receiver, AckedAccepted
  <2>5. ASSUME NEW numbers \in acks, ReceiveAck(numbers) \/ LoseAck(numbers)
        PROVE  AckedAccepted'
    BY <2>1, <2>5 DEF ReceiveAck, LoseAck, receiver, AckedAccepted
  <2>6. ASSUME NEW n \in DOMAIN data, LoseData(n)
        PROVE  AckedAccepted'
    BY <2>1, <2>6 DEF LoseData, receiver, AckedAccepted
  <2>7. CASE ReceiverUpdate
    BY <2>1, <2>7 DEF ReceiverUpdate, AckedAccepted
  <2>8. CASE UNCHANGED vars
    BY <2>1, <2>8 DEF vars, receiver, AckedAccepted
  <2>. QED BY <2>1, <2>2, <2>3, <2>4, <2>5, <2>6, <2>7, <2>8 DEF Next
<1>3. TypeOK /\ LinkInv => Reach(rx)
  <2>1. SUFFICES ASSUME TypeOK, LinkInv, NEW m \in Messages, NEW c \in Channels
                 PROVE  sent[m].index <= rx.channels[c].expected + OrderWindow
    BY DEF Reach
  <2>2. rx.channels[c].expected \in Nat
    BY <2>1, TheChannels DEF LinkInv
  <2>3. sent[m].index \in Index
    BY <2>1, TheMessages DEF LinkInv
  <2>. QED BY <2>2, <2>3, BoundsAssumption, OrderWindowAssumption DEF Index
<1>4. IInv => TypeOK
  BY DEF IInv
<1>. QED BY <1>1, <1>2, <1>3, <1>4, LinkInvariant, PTL DEF Spec

-----------------------------------------------------------------------------
(* The theorems.                                                             *)

\* The sender, the network and the duplicate check stay well-typed, and
\* numbers are handed out without a gap.
THEOREM TypeCorrect == Spec => []TypeOK
<1>1. IInv => TypeOK
  BY DEF IInv
<1>. QED BY <1>1, InvariantHolds, PTL

\* Whatever the network loses, repeats, delays or reorders, and however often
\* packets are resent under fresh numbers, the sender forgets a reliable packet
\* only when the receiver accepted a copy, or refused one as too old.
THEOREM AckSafety == Spec => []AckedWasAccepted
<1>1. IInv => AckedWasAccepted
  BY DEF IInv
<1>. QED BY <1>1, InvariantHolds, PTL

\* No channel passes an ordered message that it neither delivered nor was told
\* to give up, whatever the windows and limits and even when split ids repeat.
THEOREM StreamHasNoGap == Spec => []NothingSkipped
<1>1. TypeOK /\ LinkInv => NothingSkipped
  <2>1. SUFFICES ASSUME TypeOK, LinkInv, NEW m \in Messages, NEW c \in Channels,
                        sent[m].index < rx.channels[c].expected
                 PROVE  \/ <<c, sent[m].index>> \in rx.discarded
                        \/ \E n \in DOMAIN rx.channels[c].log :
                              rx.channels[c].log[n][1] = sent[m].index
    BY DEF NothingSkipped
  <2>2. sent[m].index \in Nat /\ rx.channels[c].expected \in Nat
    BY <2>1, TheMessages, TheChannels DEF LinkInv
  <2>3. sent[m].index \in 0 .. (rx.channels[c].expected - 1)
    BY <2>1, <2>2
  <2>4. Explained(rx.channels[c], rx.channels[c].expected, Offers(c), GivenUp(rx, c))
    BY <2>1 DEF LinkInv, Shaped, Healthy, Sound
  <2>. QED BY <2>3, <2>4 DEF Explained, GivenUp
<1>2. IInv => TypeOK
  BY DEF IInv
<1>. QED BY <1>1, <1>2, LinkInvariant, PTL

\* While split ids do not repeat, whatever the network does and whatever is
\* refused, every payload is an enqueued message with its chunks in order,
\* under the index and on the channel it was sent with.
THEOREM PayloadsAreMessages ==
  ASSUME IdsSuffice
  PROVE  Spec => []IntactPayload
<1>1. LinkInv => IntactPayload
  <2>1. SUFFICES ASSUME LinkInv
                 PROVE  IntactPayload
    OBVIOUS
  <2>2. \A g \in rx.got : \E m \in Messages : Kind(m) # "ReliableOrdered" /\ g[1] = Whole(m)
    BY <2>1 DEF LinkInv, Faithful, PushedFaithful
  <2>. QED BY <2>1, <2>2, LogIsMessages DEF IntactPayload
<1>. QED BY <1>1, LinkInvariant, PTL

\* While split ids do not repeat, no message but a plain Reliable one is
\* handed over twice, although resends carry numbers the duplicate check
\* cannot know.
THEOREM OnceUnlessReliable ==
  ASSUME IdsSuffice
  PROVE  Spec => []AtMostOnceUnlessReliable
<1>1. TypeOK /\ LinkInv => AtMostOnceUnlessReliable
  BY TimesAtMostOne DEF AtMostOnceUnlessReliable
<1>2. IInv => TypeOK
  BY DEF IInv
<1>. QED BY <1>1, <1>2, LinkInvariant, PTL

\* While split ids do not repeat, no step hands over a sequenced message when
\* a later one of its channel was handed over.
THEOREM SequencedInOrder ==
  ASSUME IdsSuffice
  PROVE  Spec => SequencedNeverStale
<1> DEFINE Newer1 ==
      \A m \in Messages :
         (IsSequenced(Kind(m)) /\ Copies(rx', Whole(m)) > Copies(rx, Whole(m)))
            => \A k \in Messages :
                 (IsSequenced(Kind(k)) /\ On(k, sent[m].message.channel) /\ Times(k) > 0)
                    => k < m
<1>1. TypeOK /\ LinkInv /\ LinkInv' /\ [Next]_vars => [Newer1]_vars
  <2>1. SUFFICES ASSUME TypeOK, LinkInv, LinkInv', Next,
                        NEW m \in Messages, IsSequenced(Kind(m)),
                        Copies(rx', Whole(m)) > Copies(rx, Whole(m)),
                        NEW k \in Messages, IsSequenced(Kind(k)),
                        On(k, sent[m].message.channel), Times(k) > 0
                 PROVE  k < m
    OBVIOUS
  <2>2. Pushes(rx', m) # Pushes(rx, m)
    <3>1. SUFFICES ASSUME Pushes(rx', m) = Pushes(rx, m)
                   PROVE  FALSE
      OBVIOUS
    <3>2. Copies(rx', Whole(m)) = Copies(rx, Whole(m))
      BY <3>1 DEF Pushes, Copies
    <3>3. Copies(rx, Whole(m)) \in Nat
      <4>1. IsFiniteSet({g \in rx.got : g[1] = Whole(m)})
        BY <2>1, FS_Subset DEF LinkInv, Shaped
      <4>. QED BY <4>1, FS_CardinalityType DEF Copies
    <3>. QED BY <2>1, <3>2, <3>3
  <2>3. rx' # rx
    BY <2>2
  <2>4. PICK n \in DOMAIN data : ReceiveData(n)
    BY <2>1, <2>3 DEF Next, Enqueue, SenderUpdate, ReceiveAck, LoseAck, LoseData,
                      ReceiverUpdate, receiver
  <2>. QED BY <2>1, <2>2, <2>4, ReceiveDataIsNewer
<1>2. IInv => TypeOK
  BY DEF IInv
<1>. QED BY <1>1, <1>2, LinkInvariant, PTL DEF Spec, SequencedNeverStale

\* While split ids do not repeat, and as long as no packet comes too late for
\* the duplicate window and no ordered message too early for the ordering
\* window, a packet of the message a channel waits for is queued or tracked.
THEOREM HolesAreOwed ==
  ASSUME IdsSuffice
  PROVE  Spec /\ [](Reach(rx) /\ AckedAccepted) => []HoleIsOwed
<1>1. TypeOK /\ LinkInv /\ OwedInv => HoleIsOwed
  BY ExpectedIsOwed DEF HoleIsOwed
<1>2. IInv => TypeOK
  BY DEF IInv
<1>. QED BY <1>1, <1>2, LinkInvariant, OwedInvariant, PTL

\* In particular in every session shorter than the windows.
THEOREM HolesAreOwedWithinWindows ==
  ASSUME IdsSuffice, MaxMessages <= OrderWindow, MaxNumbers <= DedupWindow
  PROVE  Spec => []HoleIsOwed
BY HolesAreOwed, WideWindows, PTL
=============================================================================
