-------------------------- MODULE MCReliabilityLayer --------------------------
(* ReliabilityLayer for TLC.  Each configuration picks the messages the       *)
(* application sends; the numeric limits keep their code's order but are      *)
(* small enough for a run to stand on both sides of those it is about.        *)
EXTENDS ReliabilityLayer

OneChannel == {0}

Msg(kind, ch, n) == [reliability |-> kind, channel |-> ch, chunks |-> n]

\* Ordered messages: whole, fragmented, and of more fragments than the
\* receiver reassembles; without those; whole ones only.
OrderedAny    == {Msg("ReliableOrdered", 0, n) : n \in 1 .. 3}
OrderedShort  == {Msg("ReliableOrdered", 0, n) : n \in 1 .. 2}
OrderedSingle == {Msg("ReliableOrdered", 0, 1)}

\* Every class, on one channel, without fragments.
EveryClass == {Msg(k, 0, 1) : k \in Reliability}

\* Ordered messages, whole and in fragments, between whole ones of every class.
Mixed == EveryClass \cup OrderedAny

PlainReliable == {Msg("Reliable", 0, 1)}
=============================================================================
