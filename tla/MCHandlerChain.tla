---------------------------- MODULE MCHandlerChain ----------------------------
(* HandlerChain for TLC.  Every message samp-proto knows goes through a chain *)
(* of typed handlers, in up to four variants of its values; one-byte messages *)
(* go through scripts too.  The Huffman table has five characters, one of     *)
(* them as frequent as two others, one that never occurs.                     *)
EXTENDS HandlerChain

FiveChars == <<5, 2, 2, 0, 9>>

\* A value of a wire type: different in every field and variant, with zeroes,
\* high bits, text longer than its prefix can count and text with zeroes last.
Run(from, n) == [k \in 1 .. n |-> (from + 41 * k) % 256]
LongText == [k \in 1 .. 260 |-> 97 + (k % 26)]
Text(i, v) == CASE v = 1 -> <<65 + i, 66>> [] v = 2 -> <<>> [] v = 3 -> LongText [] v = 4 -> <<208, 159, 0>>

Sample(t, i, v) ==
  CASE t \in {"bool", "bool8", "bool32"} -> (i + v) % 2 = 0
    [] t \in DOMAIN Padding    -> <<>>
    [] t \in DOMAIN Width      -> IF v = 2 THEN Zeros(Width[t]) ELSE Run(90 * v + 17 * i, Width[t])
    [] t \in Strings \cup {"text"} -> Text(i, v)
    [] t = "norm_quat"         -> [negative |-> [k \in 1 .. 4 |-> (k + v) % 2 = 0], magnitudes |-> Run(200 * v, 6)]
    [] t = "compressed_vector" -> IF v = 2 THEN [magnitude |-> ZeroFloat, unit |-> <<>>]
                                  ELSE [magnitude |-> Run(v, 4), unit |-> Run(7 * v, 6)]
    [] t = "vitals"            -> CASE v = 1 -> <<100, 0>> [] v = 2 -> <<6, 99>> [] v = 3 -> <<50, 160>> [] v = 4 -> <<255, 7>>

FieldsOf(types, v) == [i \in 1 .. Len(types) |-> Sample(types[i], i, v)]

\* Optional groups: all of them, none, every other one.
GroupsOf(layout, v) ==
  [g \in 1 .. Len(layout) |->
    IF layout[g].flag = "none" \/ v = 1 \/ (v > 2 /\ (g + v) % 2 = 0) THEN FieldsOf(layout[g].types, v) ELSE <<>>]

Message(family, name, value) == [family |-> family, name |-> name, value |-> value]

EventMessages ==
  UNION {{Message(d, e.id, FieldsOf(e.fields, v)) : v \in 1 .. 4} :
           <<d, e>> \in ({"Incoming"} \X IncomingEvents) \cup ({"Outgoing"} \X OutgoingEvents)}

PacketMessages(family, layouts) ==
  {Message(family, name, GroupsOf(layouts[name], v)) : name \in DOMAIN layouts, v \in 1 .. 4}

DialogMessages ==
  {Message("dialog", "ShowDialog", [head |-> GroupsOf(ShowDialogWrites, v), text |-> text]) :
     v \in 1 .. 4, text \in {<<>>, <<1>>, <<4, 3, 5, 2>>, <<5, 5, 5, 1, 5, 5>>}}

BitMessages ==
  {Message("bits", "bits", <<[input |-> <<179>>, bits |-> a], [input |-> <<150, 201, 117>>, bits |-> n],
                             [input |-> <<77, 1>>, bits |-> 9]>>) : a \in 1 .. 8, n \in 1 .. 24}

NumberMessages ==
  {Message("number", "number", [lead |-> lead, bytes |-> bytes]) : lead \in 0 .. 7,
     bytes \in {<<0, 0>>, <<15, 0>>, <<16, 0>>, <<255, 1>>, <<0, 128>>,
                <<3, 0, 0, 0>>, <<0, 1, 0, 0>>, <<0, 0, 0, 1>>}}

AllMessages ==
  EventMessages \cup PacketMessages("sync", SyncWrites) \cup PacketMessages("codec", CodecWrites)
    \cup PacketMessages("driver", DriverWrites) \cup PacketMessages("sent", SentOnly)
    \cup DialogMessages \cup BitMessages \cup NumberMessages

\* A wanted level, one byte, and the player that streams out, two.
ScriptedMessages == {Message("Incoming", 133, <<<<165>>>>), Message("Incoming", 163, <<<<19, 7>>>>)}

StartsOf(messages, cuts, any, byId) ==
  {[message |-> m, cut |-> c, any |-> any, byId |-> byId] : m \in messages, c \in cuts}

EveryStart ==
  StartsOf(AllMessages \ EventMessages, BOOLEAN, 0, 0) \cup StartsOf(EventMessages, BOOLEAN, 0, 2)
    \cup StartsOf(ScriptedMessages, {FALSE}, 1, 1)
ScriptStarts == StartsOf(ScriptedMessages, {FALSE}, 1, 0)

Replaced(t, k) == Sample(t, k + 3, 1)

FullWrites  == {<<1>>, ByteBits(90)}
AnyWrites   == FullWrites \cup {<<>>}
SomeTexts   == {<<5>>}
SomeOffsets == {0, 3, 12}
==============================================================================
