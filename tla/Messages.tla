------------------------------- MODULE Messages -------------------------------
(* A message as its sender means it, the body it becomes and what a receiver  *)
(* makes of a body, for everything samp-proto encodes.                        *)
(*                                                                            *)
(* A message is [family, name, value]: an event of either direction with its  *)
(* fields; a sync or a codec packet with its groups; a body the driver writes *)
(* and scripts read as an outgoing event; a dialog, its head and its text; a  *)
(* list of raw bit writes; one compressed number.                             *)
EXTENDS Events, Packets, Huffman

\* The bodies the driver writes, and the RPC each is sent as.
DriverWrites == [DialogResponse |-> DialogResponse, ChatOutgoing |-> ChatOutgoing,
                 RequestClass |-> RequestClass, RequestSpawn |-> RequestSpawn, Spawn |-> Spawn]
RpcOf == [DialogResponse |-> 62, ChatOutgoing |-> 101, RequestClass |-> 128,
          RequestSpawn |-> 129, Spawn |-> 52]

\* The bodies only the server reads.
SentOnly == [ClientJoin |-> ClientJoin(FALSE), ArizonaJoin |-> ClientJoin(TRUE),
             StatsUpdate |-> StatsUpdate, SpectatorSync |-> SpectatorSync,
             OnFootSync |-> OnFootSync, ArizonaSync221 |-> ArizonaSync221,
             WeaponsUpdate |-> WeaponsUpdate]

Directions == {"Incoming", "Outgoing"}

Wire(m) ==
  CASE m.family \in Directions -> Encoded(m.family, m.name, ToValues(Registries[m.family][m.name].fields, m.value)).v
    [] m.family = "sync"   -> WritePacket(SyncWrites[m.name], m.value)
    [] m.family = "codec"  -> WritePacket(CodecWrites[m.name], m.value)
    [] m.family = "driver" -> WritePacket(DriverWrites[m.name], m.value)
    [] m.family = "sent"   -> WritePacket(SentOnly[m.name], m.value)
    [] m.family = "dialog" -> WritePacket(ShowDialogWrites, m.value.head) \o EncodeString(m.value.text)
    [] m.family = "bits"   -> IntoBytes(Loop(LAMBDA w, i : WriteBits(w, m.value[i].input, m.value[i].bits),
                                             NewWriter, Len(m.value)))
    [] m.family = "number" -> IntoBytes(WriteBytes(WriteCompressed(WriteBits(NewWriter, <<0>>, m.value.lead),
                                                                   m.value.bytes), <<170>>))

\* Bits are read back one write at a time; a compressed number after the bits
\* before it, with the byte after it.
ReadRuns(m, body) ==
  Loop(LAMBDA acc, i : Then(acc, LAMBDA vs, s :
         Then(ReadBits(s, m.value[i].bits, TRUE), LAMBDA v, t : Done(Append(vs, v), t))),
       Done(<<>>, NewReader(body)), Len(m.value))

ReadNumber(m, body) ==
  Then(SkipBits(NewReader(body), m.value.lead), LAMBDA u, r :
    Then(ReadCompressed(r, Len(m.value.bytes)), LAMBDA n, s :
      Then(ReadBytes(s, 1), LAMBDA last, t : Done(<<n, last>>, t))))

Outcome(read) == [ok |-> read.ok, v |-> IF read.ok THEN read.v ELSE <<>>]

Received(m, body) ==
  CASE m.family \in Directions -> Decoded(m.family, m.name, body)
    [] m.family = "sync"   -> Outcome(ReadPacket(SyncReads[m.name], body))
    [] m.family = "codec"  -> Outcome(ReadPacket(CodecReads[m.name], body))
    [] m.family = "driver" -> Decoded("Outgoing", RpcOf[m.name], body)
    [] m.family = "dialog" ->
         LET head == ReadPacket(ShowDialogReads, body)
         IN  [ok |-> head.ok,
              v  |-> IF head.ok THEN <<head.v, DecodeString(DialogBody(body), 4096)>> ELSE <<>>]
    [] m.family = "bits"   -> Outcome(ReadRuns(m, body))
    [] m.family = "number" -> Outcome(ReadNumber(m, body))
    [] OTHER               -> Malformed
------------------------------------------------------------------------------
(* What a reader should make of a value: all of it that the wire carries.     *)

Meant(t, v) ==
  CASE t \in DOMAIN Padding -> <<>>
    [] t = "text"    -> Kept("str8", v)
    [] t = "fixed32" -> Unpadded(Kept(t, v))
    [] t \in Strings -> Kept(t, v)
    [] t = "vitals"  -> [i \in 1 .. 2 |-> IF v[i] >= 100 THEN 100 ELSE v[i] - (v[i] % 7)]
    [] OTHER         -> v

MeantFields(types, vs) == [i \in 1 .. Len(vs) |-> Meant(types[i], vs[i])]
MeantGroups(layout, value) == [i \in 1 .. Len(layout) |-> MeantFields(layout[i].types, value[i])]

Meaning(m) ==
  CASE m.family \in Directions ->
         LET types == Registries[m.family][m.name].fields IN ToValues(types, MeantFields(types, m.value))
    [] m.family = "sync"   -> MeantGroups(SyncReads[m.name], m.value)
    [] m.family = "codec"  -> MeantGroups(CodecReads[m.name], m.value)
    [] m.family = "driver" ->
         LET types == Registries.Outgoing[RpcOf[m.name]].fields IN ToValues(types, MeantFields(types, m.value[1]))
    [] m.family = "dialog" -> <<MeantGroups(ShowDialogReads, m.value.head), m.value.text>>
    [] m.family = "bits"   ->
         [i \in 1 .. Len(m.value) |->
           [j \in 1 .. BytesFor(m.value[i].bits) |->
             m.value[i].input[j] % 2^Lesser(8, m.value[i].bits - 8 * (j - 1))]]
    [] m.family = "number" -> <<m.value.bytes, <<170>>>>
    [] OTHER               -> <<>>
==============================================================================
