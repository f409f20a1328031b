--------------------------- MODULE OrderingChannel ---------------------------
(***************************************************************************)
(* One ReliableOrdered channel on its own, given every message the peer may *)
(* send in every order and any number of times, and any message abandoned.  *)
(***************************************************************************)
EXTENDS ChannelOps

CONSTANTS Payload,   \* what the peer may send
          MaxIndex   \* bound: highest ordering index the peer assigns

ASSUME MaxIndexAssumption == MaxIndex \in Nat

-----------------------------------------------------------------------------
VARIABLES chan,     \* the channel
          offered,  \* history: the <<index, payload>> pairs handed to deliver
          givenUp   \* history: the indices handed to abandon_ordered

vars == <<chan, offered, givenUp>>

Init == /\ chan = EmptyChannel
        /\ offered = {}
        /\ givenUp = {}

\* A message of the channel reaches deliver: in any order, any number of
\* times (a resend carries a fresh message number, so the dedup by message
\* number in front of this channel lets a second copy through).
Deliver(i, p) == /\ chan' = DeliverOrdered(chan, i, p)
                 /\ offered' = offered \cup {<<i, p>>}
                 /\ UNCHANGED givenUp

\* The payload of index i was acknowledged and thrown away.
Abandon(i) == /\ chan' = AbandonOrdered(chan, i)
              /\ givenUp' = givenUp \cup {i}
              /\ UNCHANGED offered

Next == \E i \in 0 .. MaxIndex :
            \/ \E p \in Payload : Deliver(i, p)
            \/ Abandon(i)

Spec == Init /\ [][Next]_vars

-----------------------------------------------------------------------------
(* Properties.                                                               *)

Index == 0 .. MaxIndex
Message == Index \X Payload

Channel == [expected  : Nat,
            heap      : UNION {[D -> Payload] : D \in SUBSET Index},
            abandoned : SUBSET Index,
            log       : Seq(Message)]

\* The type invariant (reliability.rs:285-291).
TypeOK == /\ chan \in Channel
          /\ offered \in SUBSET Message
          /\ givenUp \in SUBSET Index

\* What the application receives on the channel is strictly ascending in
\* ordering index: no message overtakes another and none is delivered twice,
\* whatever the arrival order and however often a copy arrives
\* (reliability.rs:641-649, tests.rs ordered_despite_reorder).
InOrderAtMostOnce ==
    \A i, j \in DOMAIN chan.log : i < j => chan.log[i][1] < chan.log[j][1]

\* An index the channel has moved past was pushed to the application with a
\* payload that arrived under it, or its payload had been discarded: draining
\* never jumps over a message that could still have been delivered
\* (reliability.rs:665-681).
PassedIsExplained ==
    \A i \in 0 .. (chan.expected - 1) :
        \/ i \in givenUp
        \/ \E n \in DOMAIN chan.log : chan.log[n][1] = i /\ chan.log[n] \in offered

\* The channel never sits on a message it could deliver: when a step ends,
\* the expected index is neither buffered nor abandoned (the loop of
\* advance_ordering ran to its break).
NothingDeliverableWaits ==
    chan.expected \notin DOMAIN chan.heap \cup chan.abandoned

\* Buffering is bounded by the window and never holds a stale index
\* (ORDER_WINDOW, reliability.rs:46-48).
HeapInWindow == \A i \in DOMAIN chan.heap : InWindow(chan, i)

\* The channel implements the abstract ordered stream: its frontier is the
\* expected index and its log the pushed messages.
Stream == INSTANCE OrderedStream WITH frontier <- chan.expected, log <- chan.log
ImplementsStream == Stream!Spec
=============================================================================
