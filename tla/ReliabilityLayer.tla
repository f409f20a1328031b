--------------------------- MODULE ReliabilityLayer ---------------------------
(***************************************************************************)
(* Two reliability layers and the network between them: the sending half of *)
(* one and the receiving half of the other (crates/raknet/src/reliability.rs).*)
(* The halves of one layer share no state, so the opposite direction is a   *)
(* second copy of this module.                                              *)
(*                                                                          *)
(* The network loses, delays, duplicates and reorders: what was sent stays  *)
(* receivable, any number of times and in any order, unless LoseData took it.*)
(* A data datagram carries one internal packet.  Time is kept only as the   *)
(* order of the sender's updates, which is what decides that an entry       *)
(* cannot be overdue before an older one.                                   *)
(***************************************************************************)
EXTENDS ChannelOps, Integers

CONSTANTS Channels,             \* ordering channels in use
          DedupWindow,          \* DEDUP_WINDOW
          MaxSplitCount,        \* MAX_SPLIT_COUNT
          MaxConcurrentSplits,  \* MAX_CONCURRENT_SPLITS
          MaxAckSpan,           \* widest `max - min` handle_acks accepts
          SplitIdMod,           \* size of the split id space (2^16)
          Outgoing,             \* what the application may send
          MaxMessages,          \* bound: messages enqueued
          MaxNumbers,           \* bound: message numbers assigned
          MaxAcks,              \* bound: acknowledgements in flight
          LossyData,            \* bound: only data with a lower number gets lost
          LossyAcks             \* bound: only acks of lower numbers get lost

Reliability == {"Unreliable", "UnreliableSequenced",
                "Reliable", "ReliableOrdered", "ReliableSequenced"}

IsReliable(k)  == k \in {"Reliable", "ReliableOrdered", "ReliableSequenced"}
IsOrdered(k)   == k = "ReliableOrdered"
IsSequenced(k) == k \in {"UnreliableSequenced", "ReliableSequenced"}

ASSUME LimitsAssumption ==
    /\ DedupWindow \in Nat /\ MaxSplitCount \in Nat \ {0} /\ MaxConcurrentSplits \in Nat
    /\ MaxAckSpan \in Nat /\ SplitIdMod \in Nat \ {0}

ASSUME OutgoingAssumption ==
    \A o \in Outgoing :
        o \in [reliability : Reliability, channel : Channels, chunks : Nat \ {0}]

ASSUME BoundsAssumption ==
    /\ MaxMessages \in Nat /\ MaxNumbers \in Nat
    /\ MaxAcks \in Nat \ {0} /\ LossyData \in Nat /\ LossyAcks \in Nat

\* The session limit of the module's doc (reliability.rs:13-16): message
\* numbers do not wrap here.
ASSUME SessionAssumption == MaxNumbers <= 65536

None == -1

-----------------------------------------------------------------------------
VARIABLES
    \* the sender
    sent,                 \* history: the messages enqueued, with their index
    send_ordering_index, send_sequenced_index, split_id_counter,
    send_queue, resend, next_message_number,
    \* the network
    data,                 \* number -> packet it was sent with
    acks,                 \* acknowledgement datagrams, each a set of numbers
    lost,                 \* numbers whose data datagram is gone
    \* the receiver
    ack_queue, received_messages, highest_received,
    processed,            \* history: numbers that passed the duplicate check
    rx                    \* what the accepted packets have become

sender   == <<sent, send_ordering_index, send_sequenced_index, split_id_counter,
              send_queue, resend, next_message_number>>
network  == <<data, acks, lost>>
receiver == <<ack_queue, received_messages, highest_received, processed, rx>>
vars     == <<sender, network, receiver>>

Init ==
    /\ sent = << >> /\ send_queue = << >> /\ resend = << >>
    /\ send_ordering_index = [c \in Channels |-> 0]
    /\ send_sequenced_index = [c \in Channels |-> 0]
    /\ split_id_counter = 0 /\ next_message_number = 0
    /\ data = << >> /\ acks = {} /\ lost = {}
    /\ ack_queue = {} /\ received_messages = {} /\ processed = {}
    /\ highest_received = None
    /\ rx = [channels  |-> [c \in Channels |-> EmptyChannel],
             sequenced |-> [c \in Channels |-> None],  \* recv_sequenced_index
             splits    |-> << >>,                      \* id -> buffer
             got       |-> {},                         \* <<payload, k>>: pushed a k-th time
             discarded |-> {}]                         \* history: abandoned slots

-----------------------------------------------------------------------------
(* The sending half.                                                         *)

\* A message as internal packets; the chunk of message m in fragment f is
\* <<m, f>>.  count = 1 stands for `split: None`: a message that is split has
\* at least two chunks.
OutPackets(m, o, index) ==
    [f \in 1 .. o.chunks |->
        [chunk |-> <<m, f>>, reliability |-> o.reliability, channel |-> o.channel,
         index |-> index, id |-> split_id_counter, count |-> o.chunks]]

Enqueue(o) ==
    LET index == IF IsOrdered(o.reliability) THEN send_ordering_index[o.channel]
                 ELSE IF IsSequenced(o.reliability) THEN send_sequenced_index[o.channel]
                 ELSE 0
        Bump(counter, uses) == [counter EXCEPT ![o.channel] = IF uses THEN @ + 1 ELSE @]
    IN  /\ Len(sent) < MaxMessages
        /\ sent' = Append(sent, [message |-> o, index |-> index])
        /\ send_queue' = send_queue \o OutPackets(Len(sent) + 1, o, index)
        /\ send_ordering_index' = Bump(send_ordering_index, IsOrdered(o.reliability))
        /\ send_sequenced_index' = Bump(send_sequenced_index, IsSequenced(o.reliability))
        /\ split_id_counter' = IF o.chunks = 1 THEN split_id_counter
                               ELSE (split_id_counter + 1) % SplitIdMod
        /\ UNCHANGED <<resend, next_message_number, network, receiver>>

\* Mutant: the RTO never elapses.
OverdueNever(due) == due = {}

\* A set of resend entries whose RTO can have elapsed while the others' has
\* not: with an entry, every entry last sent no later.
Overdue(due) ==
    \A n \in due, k \in DOMAIN resend :
        resend[k].last_sent <= resend[n].last_sent => k \in due

\* The packets an update puts on the wire, in order: the whole send queue,
\* then the overdue entries by ascending number.
Burst(due) ==
    send_queue \o [i \in 1 .. Cardinality(due) |-> resend[Ascending(due)[i]].packet]

\* The sender's update: every packet leaves under a fresh message number, a
\* resent one too, and reliable ones are (re)entered in the resend map.
SenderUpdate ==
    \E due \in SUBSET DOMAIN resend :
        LET burst == Burst(due)
            fresh == next_message_number .. (next_message_number + Len(burst) - 1)
            Packet(n) == burst[n - next_message_number + 1]
            tracked == {n \in fresh : IsReliable(Packet(n).reliability)}
        IN  /\ Overdue(due)
            /\ burst # << >>
            /\ next_message_number + Len(burst) <= MaxNumbers
            /\ next_message_number' = next_message_number + Len(burst)
            /\ send_queue' = << >>
            /\ resend' = [n \in (DOMAIN resend \ due) \cup tracked |->
                             IF n \in fresh
                             THEN [packet |-> Packet(n), last_sent |-> next_message_number]
                             ELSE resend[n]]
            /\ data' = [n \in DOMAIN data \cup fresh |->
                             IF n \in fresh THEN Packet(n) ELSE data[n]]
            /\ UNCHANGED <<sent, send_ordering_index, send_sequenced_index,
                           split_id_counter, acks, lost, receiver>>

\* Mutant: an acknowledgement read as cumulative.
AppliedCumulative(numbers) ==
    {n \in DOMAIN resend : \E k \in numbers : n <= k}

\* The numbers handle_acks applies: coalesce turned the acknowledged numbers
\* into ascending ranges, and the first range that is too wide ends the
\* handler with Malformed after the ranges before it were applied.
Applied(numbers) ==
    {n \in numbers :
        \A low \in numbers :
            (low .. (low + MaxAckSpan + 1)) \subseteq numbers => n < low}

\* An acknowledgement arrives.  A second copy of it would change nothing
\* (numbers are not reused), so it leaves the network.
ReceiveAck(numbers) ==
    /\ resend' = [n \in DOMAIN resend \ Applied(numbers) |-> resend[n]]
    /\ acks' = acks \ {numbers}
    /\ UNCHANGED <<sent, send_ordering_index, send_sequenced_index, split_id_counter,
                   send_queue, next_message_number, data, lost, receiver>>

-----------------------------------------------------------------------------
(* The receiving half.                                                       *)

IsDuplicate(n) == \/ n \in received_messages
                  \/ n + DedupWindow < highest_received

\* What was pushed to `out` outside the ordered channels.
Copies(r, payload) == Cardinality({g \in r.got : g[1] = payload})
Pushed(r, payload) == [r EXCEPT !.got = @ \cup {<<payload, Copies(r, payload) + 1>>}]

\* A sequenced message later than any its channel delivered; and the mutants
\* that let an equal one, or any, through.
NewerOrEqual(r, b) == b.index >= r.sequenced[b.channel]
NewerIgnored(r, b) == TRUE
Newer(r, b) == b.index > r.sequenced[b.channel]

\* deliver: b tells reliability, channel and index.
Deliver(r, b, payload) ==
    CASE IsOrdered(b.reliability) ->
            [r EXCEPT !.channels[b.channel] = DeliverOrdered(@, b.index, payload)]
      [] IsSequenced(b.reliability) ->
            IF Newer(r, b)
            THEN Pushed([r EXCEPT !.sequenced[b.channel] = b.index], payload)
            ELSE r
      [] OTHER -> Pushed(r, payload)

\* Mutant: nothing is ever given up.
AbandonedIgnored(r, b) == r

\* abandon_ordered, called on what was acknowledged and thrown away.
Abandoned(r, b) ==
    IF IsOrdered(b.reliability)
    THEN [r EXCEPT !.channels[b.channel] = AbandonOrdered(@, b.index),
                   !.discarded = @ \cup {<<b.channel, b.index>>}]
    ELSE r

WithoutSplit(r, id) == [r EXCEPT !.splits = [i \in DOMAIN @ \ {id} |-> r.splits[i]]]

\* A split header that is implausible, or that disagrees with the buffer of
\* its id: the buffer goes, and both messages are given up.
SplitRefused(r, pkt) ==
    Abandoned(IF pkt.id \in DOMAIN r.splits
              THEN Abandoned(WithoutSplit(r, pkt.id), r.splits[pkt.id])
              ELSE r, pkt)

\* A new split id while every slot is taken: every pending reassembly and the
\* newcomer lose their place in the ordering; the buffers stay.
SplitOverCapacity(r, pkt) ==
    LET ids   == Ascending(DOMAIN r.splits)
        count == Cardinality(DOMAIN r.splits)
        given[k \in 0 .. count] ==
            IF k = 0 THEN r ELSE Abandoned(given[k - 1], r.splits[ids[k]])
    IN  Abandoned(given[count], pkt)

\* All fragments are there; mutant: the last one is.
LastIsThere(fragments, count) == count \in DOMAIN fragments
AllAreThere(fragments, count) == Cardinality(DOMAIN fragments) = count

\* A fragment that fits its buffer, which it may complete.
SplitStored(r, pkt) ==
    LET old == IF pkt.id \in DOMAIN r.splits THEN r.splits[pkt.id].fragments ELSE << >>
        at == pkt.chunk[2]
        fragments == [f \in DOMAIN old \cup {at} |-> IF f = at THEN pkt.chunk ELSE old[f]]
        buf == IF pkt.id \in DOMAIN r.splits
               THEN [r.splits[pkt.id] EXCEPT !.fragments = fragments]
               ELSE [count |-> pkt.count, reliability |-> pkt.reliability,
                     channel |-> pkt.channel, index |-> pkt.index, fragments |-> fragments]
    IN  IF AllAreThere(fragments, buf.count)
        THEN Deliver(WithoutSplit(r, pkt.id), buf, fragments)
        ELSE [r EXCEPT !.splits = [i \in DOMAIN @ \cup {pkt.id} |->
                                      IF i = pkt.id THEN buf ELSE r.splits[i]]]

\* No slot for a new reassembly.
SlotsTaken(r) == Cardinality(DOMAIN r.splits) >= MaxConcurrentSplits

\* process_packet behind the duplicate check.
Accepted(r, pkt) ==
    LET known == pkt.id \in DOMAIN r.splits
    IN  CASE pkt.count = 1 -> Deliver(r, pkt, <<pkt.chunk>>)
          [] pkt.count > MaxSplitCount -> SplitRefused(r, pkt)
          [] pkt.count \in 2 .. MaxSplitCount ->
                IF ~known /\ SlotsTaken(r)
                THEN SplitOverCapacity(r, pkt)
                ELSE IF known /\ pkt.count # r.splits[pkt.id].count
                THEN SplitRefused(r, pkt)
                ELSE SplitStored(r, pkt)

\* A data datagram arrives.  Its number is acknowledged even when the packet
\* is a duplicate or is discarded further down.
ReceiveData(n) ==
    /\ n \notin lost
    /\ ack_queue' = ack_queue \cup {n}
    /\ \/ /\ IsDuplicate(n)
          /\ UNCHANGED <<received_messages, highest_received, processed, rx>>
       \/ /\ ~IsDuplicate(n)
          /\ highest_received' = IF n > highest_received THEN n ELSE highest_received
          /\ received_messages' =
                {k \in received_messages \cup {n} : k + DedupWindow >= highest_received'}
          /\ processed' = processed \cup {n}
          /\ rx' = Accepted(rx, data[n])
    /\ UNCHANGED <<sender, network>>

\* Mutant: an acknowledgement names the number expected next.
ReceiverUpdateNext ==
    /\ ack_queue # {}
    /\ Cardinality(acks) < MaxAcks
    /\ acks' = acks \cup {{n + 1 : n \in ack_queue}}
    /\ ack_queue' = {}
    /\ UNCHANGED <<sender, data, lost, received_messages, highest_received, processed, rx>>

\* The receiver's update: everything to acknowledge leaves in one datagram.
ReceiverUpdate ==
    /\ ack_queue # {}
    /\ Cardinality(acks) < MaxAcks
    /\ acks' = acks \cup {ack_queue}
    /\ ack_queue' = {}
    /\ UNCHANGED <<sender, data, lost, received_messages, highest_received, processed, rx>>

-----------------------------------------------------------------------------
\* The network drops a datagram, data or acknowledgement.
LoseData(n) == /\ n < LossyData /\ n \notin lost
               /\ lost' = lost \cup {n}
               /\ UNCHANGED <<sender, data, acks, receiver>>

LoseAck(numbers) == /\ \A n \in numbers : n < LossyAcks
                    /\ acks' = acks \ {numbers}
                    /\ UNCHANGED <<sender, data, lost, receiver>>

Next == \/ \E o \in Outgoing : Enqueue(o)
        \/ SenderUpdate
        \/ \E numbers \in acks : ReceiveAck(numbers) \/ LoseAck(numbers)
        \/ \E n \in DOMAIN data : ReceiveData(n) \/ LoseData(n)
        \/ ReceiverUpdate

Spec == Init /\ [][Next]_vars

\* Both update handlers run on every tick of the peer task, and a datagram
\* that is not lost arrives.
Fairness ==
    /\ WF_vars(SenderUpdate)
    /\ WF_vars(ReceiverUpdate)
    /\ \A n \in 0 .. (MaxNumbers - 1) : WF_vars(n \in DOMAIN data /\ ReceiveData(n))
    /\ \A numbers \in SUBSET (0 .. (MaxNumbers - 1)) :
           WF_vars(numbers \in acks /\ ReceiveAck(numbers))

FairSpec == Spec /\ Fairness

-----------------------------------------------------------------------------
(* Properties.                                                               *)

Messages  == 1 .. Len(sent)
Whole(m)  == [f \in 1 .. sent[m].message.chunks |-> <<m, f>>]
Kind(m)   == sent[m].message.reliability
On(m, c)  == sent[m].message.channel = c

Chunk  == (1 .. MaxMessages) \X Nat
Packet == [chunk : Chunk, reliability : Reliability, channel : Channels,
           index : Nat, id : Nat, count : Nat]

\* The type invariant of the sending half, the network and the duplicate
\* check (reliability.rs:271-283).
TypeOK ==
    /\ sent \in Seq([message : Outgoing, index : Nat])
    /\ send_ordering_index \in [Channels -> Nat]
    /\ send_sequenced_index \in [Channels -> Nat]
    /\ split_id_counter \in Nat /\ next_message_number \in 0 .. MaxNumbers
    /\ send_queue \in Seq(Packet)
    /\ DOMAIN data = 0 .. (next_message_number - 1)
    /\ \A n \in DOMAIN data : data[n] \in Packet
    /\ DOMAIN resend \subseteq DOMAIN data
    /\ \A n \in DOMAIN resend : /\ resend[n].packet \in Packet
                                /\ resend[n].last_sent \in Nat
    /\ \A numbers \in acks : numbers \subseteq DOMAIN data
    /\ ack_queue \subseteq DOMAIN data /\ lost \subseteq DOMAIN data
    /\ received_messages \subseteq processed /\ processed \subseteq DOMAIN data
    /\ highest_received \in {None} \cup DOMAIN data

\* A copy of the packet was dropped as a duplicate it is not, because the
\* receiver had already seen a number more than a window ahead of it.
TooOld(n) == n + DedupWindow < highest_received

\* A reliable packet that was ever sent is still tracked for resending, until
\* the receiver accepted a copy of it (or refused one as too old): whatever
\* is lost, duplicated or late, and under whichever of its numbers it is
\* acknowledged, an acknowledgement never frees a packet nobody took
\* (reliability.rs:454-462 and 497-503 against 508-526).
AckedWasAccepted ==
    \A n \in DOMAIN data : IsReliable(data[n].reliability) =>
        \/ \E k \in DOMAIN resend : resend[k].packet = data[n]
        \/ \E k \in DOMAIN data : data[k] = data[n] /\ (k \in processed \/ TooOld(k))

\* What the application is handed is a message somebody enqueued, with all its
\* chunks in order, and an ordered one comes under the index it was sent with
\* on the channel it was sent on (reliability.rs:583-607, 632-663).
IntactPayload ==
    /\ \A c \in Channels : \A n \in DOMAIN rx.channels[c].log :
          \E m \in Messages : /\ Kind(m) = "ReliableOrdered" /\ On(m, c)
                              /\ rx.channels[c].log[n] = <<sent[m].index, Whole(m)>>
    /\ \A g \in rx.got :
          \E m \in Messages : Kind(m) # "ReliableOrdered" /\ g[1] = Whole(m)

\* The next ordered message a channel waits for is on its way: one of its
\* packets is queued or tracked for resending.  So no channel waits for a
\* message the sender believes delivered, the stall abandoned_ordering exists
\* to prevent (reliability.rs:288-291).
HoleIsOwed ==
    \A m \in Messages, c \in Channels :
        (Kind(m) = "ReliableOrdered" /\ On(m, c) /\ sent[m].index = rx.channels[c].expected)
            => \/ \E i \in DOMAIN send_queue : send_queue[i].chunk[1] = m
               \/ \E k \in DOMAIN resend : resend[k].packet.chunk[1] = m

\* A channel passes an ordered message only by delivering it or because a
\* split refusal gave it up (reliability.rs:665-705).
NothingSkipped ==
    \A m \in Messages, c \in Channels :
        (Kind(m) = "ReliableOrdered" /\ On(m, c) /\ sent[m].index < rx.channels[c].expected)
            => \/ <<c, sent[m].index>> \in rx.discarded
               \/ \E n \in DOMAIN rx.channels[c].log : rx.channels[c].log[n][1] = sent[m].index

Times(m) == IF Kind(m) = "ReliableOrdered"
            THEN Cardinality({n \in DOMAIN rx.channels[sent[m].message.channel].log :
                     rx.channels[sent[m].message.channel].log[n][2] = Whole(m)})
            ELSE Copies(rx, Whole(m))

\* Every message but a plain Reliable one reaches the application at most
\* once, although a resend carries a fresh number that the duplicate check
\* cannot recognise.
AtMostOnceUnlessReliable ==
    \A m \in Messages : Kind(m) # "Reliable" => Times(m) <= 1

\* The same for every message: what the test duplicate_reliable_dropped says
\* of a Reliable one (reliability/tests.rs:44).
AtMostOnce == \A m \in Messages : Times(m) <= 1

\* A sequenced message is handed over only if no message of its channel that
\* was sent after it already was (reliability.rs:650-659).
SequencedNeverStale ==
    [][\A m \in Messages :
         (IsSequenced(Kind(m)) /\ Copies(rx', Whole(m)) > Copies(rx, Whole(m)))
            => \A k \in Messages :
                 (IsSequenced(Kind(k)) /\ On(k, sent[m].message.channel) /\ Times(k) > 0)
                    => k < m]_vars

\* The slots are for reassemblies in progress (reliability.rs:38): no buffer
\* holds fragments of a message that was already put together and delivered.
SlotsAreInProgress ==
    \A id \in DOMAIN rx.splits : \A f \in DOMAIN rx.splits[id].fragments :
        Times(rx.splits[id].fragments[f][1]) = 0

\* A datagram of acknowledgements frees what it acknowledges
\* (reliability/tests.rs:59).
AckFreesResend ==
    [][\A numbers \in acks : ReceiveAck(numbers) => DOMAIN resend' \cap numbers = {}]_vars

\* Whatever the network does to the first datagrams, the sender is again and
\* again left with nothing to resend.
EventuallyAcked == []<>(send_queue = << >> /\ DOMAIN resend = {})

\* ... and every ordered message is then behind the receiver.
EventuallyCaughtUp ==
    []<>(\A c \in Channels : rx.channels[c].expected = send_ordering_index[c])
=============================================================================
