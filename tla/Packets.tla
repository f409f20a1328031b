------------------------------- MODULE Packets -------------------------------
(* The packets samp-proto writes and reads by hand: the RPC bodies of         *)
(* codec.rs, the sync packets of sync.rs and the weapons snapshot of          *)
(* weapon.rs.  Their readers and writers are separate code, so each packet    *)
(* has a list for what its reader reads and one for what its writer writes.   *)
(*                                                                            *)
(* A layout is a sequence of groups; a group is on the wire always, or after  *)
(* a flag, a bit or a byte, that says it is there.  The value of a packet has *)
(* one sequence of fields per group, <<>> for an absent one.                  *)
EXTENDS Fields

Always(types)  == [flag |-> "none", types |-> types]
IfBit(types)   == [flag |-> "bit", types |-> types]
IfByte(types)  == [flag |-> "byte", types |-> types]

\* A padding type is a run of bits the reader skips and the writer zeroes.
Padding == [init_settings |-> 104, init_rest |-> 275, spawn_rest |-> 224]

\* health and armour share a byte, in steps of seven up to a hundred
Compressed(health, armour) ==
  16 * (IF health >= 100 THEN 15 ELSE (health \div 7) % 16)
     + (IF armour >= 100 THEN 15 ELSE (armour \div 7) % 16)
Decompressed(byte) == <<Lesser(7 * (byte \div 16), 100), Lesser(7 * (byte % 16), 100)>>

\* String::from_utf8, short of the ranges a lead's first continuation is held to
Continuations(lead) == IF lead \in 194 .. 223 THEN 1 ELSE IF lead \in 224 .. 239 THEN 2
                       ELSE IF lead \in 240 .. 244 THEN 3 ELSE 0
IsUtf8(s) ==
  \A i \in 1 .. Len(s) :
    /\ \A k \in 1 .. Continuations(s[i]) : i + k <= Len(s) /\ s[i + k] \in 128 .. 191
    /\ s[i] > 127 /\ Continuations(s[i]) = 0 =>
         /\ s[i] \in 128 .. 191
         /\ \E k \in 1 .. 3 : i - k > 0 /\ Continuations(s[i - k]) >= k

\* "text" is a string8 the code holds as UTF-8
WritePart(w, t, v) ==
  CASE t \in DOMAIN Padding -> WriteZeroBits(w, Padding[t])
    [] t = "vitals"         -> WriteBytes(w, <<Compressed(v[1], v[2])>>)
    [] t = "text"           -> WriteField(w, "str8", v)
    [] OTHER                -> WriteField(w, t, v)

ReadPart(r, t) ==
  CASE t \in DOMAIN Padding -> SkipBits(r, Padding[t])
    [] t = "vitals"         -> Then(ReadBytes(r, 1), LAMBDA v, s : Done(Decompressed(v[1]), s))
    [] t = "text"           -> Then(ReadField(r, "str8"),
                                    LAMBDA v, s : IF IsUtf8(v) THEN Done(v, s) ELSE Refused(s))
    [] OTHER                -> ReadField(r, t)

WriteParts(w, types, vs) == Loop(LAMBDA u, i : WritePart(u, types[i], vs[i]), w, Len(types))
ReadParts(r, types) ==
  Loop(LAMBDA acc, i : Then(acc, LAMBDA vs, s :
         Then(ReadPart(s, types[i]), LAMBDA v, t : Done(Append(vs, v), t))),
       Done(<<>>, r), Len(types))

WriteGroup(w, g, vs) ==
  LET there == g.flag = "none" \/ vs # <<>>
      head  == IF g.flag = "bit" THEN WriteBit(w, there)
               ELSE IF g.flag = "byte" THEN WriteBytes(w, <<Flag(there)>>) ELSE w
  IN  IF there THEN WriteParts(head, g.types, vs) ELSE head

ReadGroup(r, g) ==
  LET head == IF g.flag = "bit" THEN ReadBit(r)
              ELSE IF g.flag = "byte" THEN ReadField(r, "bool8") ELSE Done(TRUE, r)
  IN  Then(head, LAMBDA there, s : IF there THEN ReadParts(s, g.types) ELSE Done(<<>>, s))

WritePacket(layout, value) ==
  IntoBytes(Loop(LAMBDA w, i : WriteGroup(w, layout[i], value[i]), NewWriter, Len(layout)))

ReadPacket(layout, payload) ==
  Loop(LAMBDA acc, i : Then(acc, LAMBDA vs, s :
         Then(ReadGroup(s, layout[i]), LAMBDA v, t : Done(Append(vs, v), t))),
       Done(<<>>, NewReader(payload)), Len(layout))
------------------------------------------------------------------------------
(* sync.rs: what write puts on the wire, and what decode takes off it.        *)

Times(n, type) == [i \in 1 .. n |-> type]

PlayerSyncWrites == <<Always(<<"u16">>), IfBit(<<"u16">>), IfBit(<<"u16">>),
  Always(<<"u16", "vector3", "norm_quat", "vitals", "u8", "u8", "compressed_vector">>),
  IfBit(<<"u16", "vector3">>), IfBit(<<"u16", "u16">>)>>
VehicleSyncWrites == <<Always(Times(5, "u16") \o <<"norm_quat", "vector3", "compressed_vector",
  "u16", "vitals", "u8", "bool", "bool">>), IfBit(<<"i32">>), IfBit(<<"u16">>)>>
AimSyncWrites == <<Always(<<"u8", "vector3", "vector3", "f32", "u8", "u8">>)>>
BulletSyncWrites == <<Always(<<"u8", "u16", "vector3", "vector3", "vector3", "u8">>)>>
TrailerSyncWrites == <<Always(<<"u16", "vector3">> \o Times(4, "f32") \o Times(2, "vector3"))>>
UnoccupiedSyncWrites == <<Always(<<"u16", "u8">> \o Times(5, "vector3") \o <<"f32">>)>>
PassengerSyncWrites == <<Always(<<"u16">> \o Times(4, "u8") \o Times(3, "u16") \o <<"vector3">>)>>

SyncWrites == [PlayerSync |-> PlayerSyncWrites, VehicleSync |-> VehicleSyncWrites,
  AimSync |-> AimSyncWrites, BulletSync |-> BulletSyncWrites, TrailerSync |-> TrailerSyncWrites,
  UnoccupiedSync |-> UnoccupiedSyncWrites, PassengerSync |-> PassengerSyncWrites]

PlayerSyncReads == <<Always(<<"u16">>), IfBit(<<"u16">>), IfBit(<<"u16">>),
  Always(<<"u16", "vector3", "norm_quat", "vitals", "u8", "u8", "compressed_vector">>),
  IfBit(<<"u16", "vector3">>), IfBit(<<"u16", "u16">>)>>
VehicleSyncReads == <<Always(Times(5, "u16") \o <<"norm_quat", "vector3", "compressed_vector", "u16",
  "vitals", "u8", "bool", "bool">>), IfBit(<<"i32">>), IfBit(<<"u16">>)>>
AimSyncReads == <<Always(<<"u8", "vector3", "vector3", "f32", "u8", "u8">>)>>
BulletSyncReads == <<Always(<<"u8", "u16", "vector3", "vector3", "vector3", "u8">>)>>
TrailerSyncReads == <<Always(<<"u16", "vector3">> \o Times(4, "f32") \o <<"vector3", "vector3">>)>>
UnoccupiedSyncReads == <<Always(<<"u16", "u8">> \o Times(5, "vector3") \o <<"f32">>)>>
PassengerSyncReads == <<Always(<<"u16">> \o Times(4, "u8") \o Times(3, "u16") \o <<"vector3">>)>>

SyncReads == [PlayerSync |-> PlayerSyncReads, VehicleSync |-> VehicleSyncReads,
  AimSync |-> AimSyncReads, BulletSync |-> BulletSyncReads, TrailerSync |-> TrailerSyncReads,
  UnoccupiedSync |-> UnoccupiedSyncReads, PassengerSync |-> PassengerSyncReads]
------------------------------------------------------------------------------
(* codec.rs.  The spawn info is 46 bytes: one unread, the skin, three unread, *)
(* the position, and the rest.                                                *)

SpawnInfo == <<"u8", "u16", "u8", "u8", "u8", "vector3", "spawn_rest">>

InitGameWrites == <<Always(<<"init_settings", "u16", "init_rest", "text">>)>>
InitGameReads  == <<Always(<<"init_settings", "u16", "init_rest", "text">>)>>
RequestClassResponseWrites == <<IfByte(SpawnInfo)>>
RequestClassResponseReads  == <<IfByte(SpawnInfo)>>
RequestSpawnResponseWrites == <<Always(<<"u8">>)>>
RequestSpawnResponseReads  == <<Always(<<"u8">>)>>
ServerMessageWrites == <<Always(<<"u32", "str32">>)>>
ServerMessageReads  == <<Always(<<"u32", "str32">>)>>
ChatMessageWrites == <<Always(<<"u16", "str8">>)>>
ChatMessageReads  == <<Always(<<"u16", "str8">>)>>
ShowDialogWrites == <<Always(<<"u16", "u8", "str8", "str8", "str8">>)>>
ShowDialogReads  == <<Always(<<"u16", "u8", "str8", "str8", "str8">>)>>

CodecWrites == [InitGame |-> InitGameWrites, RequestClassResponse |-> RequestClassResponseWrites,
  RequestSpawnResponse |-> RequestSpawnResponseWrites, ServerMessage |-> ServerMessageWrites,
  ChatMessage |-> ChatMessageWrites, ShowDialog |-> ShowDialogWrites]
CodecReads == [InitGame |-> InitGameReads, RequestClassResponse |-> RequestClassResponseReads,
  RequestSpawnResponse |-> RequestSpawnResponseReads, ServerMessage |-> ServerMessageReads,
  ChatMessage |-> ChatMessageReads, ShowDialog |-> ShowDialogReads]

\* ShowDialog::body: where the encoded text starts, by the head's lengths; a
\* missing length ends the walk.
BodyOffset(payload) ==
  Loop(LAMBDA off, i : IF off < 0 \/ off >= Len(payload) THEN -1 ELSE off + 1 + payload[off + 1], 3, 3)
DialogBody(payload) ==
  LET off == BodyOffset(payload)
  IN  IF off < 0 \/ off > Len(payload) THEN <<>> ELSE SubSeq(payload, off + 1, Len(payload))

\* What the driver writes for the server to read.
ClientJoin(twice) == <<Always(<<"u32", "u8", "text", "u32", "text", "text">>
                               \o (IF twice THEN <<"u32">> ELSE <<>>))>>
DialogResponse == <<Always(<<"u16", "u8", "u16", "str8">>)>>
ChatOutgoing   == <<Always(<<"str8">>)>>
RequestClass   == <<Always(<<"i32">>)>>
RequestSpawn   == <<Always(<<>>)>>
Spawn          == <<Always(<<>>)>>
StatsUpdate    == <<Always(<<"i32", "i32">>)>>
SpectatorSync  == <<Always(<<"u16", "u16", "u16", "vector3">>)>>
OnFootSync == <<Always(<<"u16", "u16", "u16", "vector3", "f32", "f32", "f32", "f32", "u8", "u8",
                             "u8", "u8", "vector3", "vector3", "u16", "u16", "u16">>)>>
ArizonaSync221 == <<Always(<<"u8", "u8", "u8", "u16", "vector3", "u32", "u32", "u16", "u8">>)>>

\* encode_weapons_update: two words of ones, then slot, weapon and ammunition
\* of each of the thirteen slots
WeaponSlots == 13
WeaponsUpdate == <<Always(<<"u16", "u16">> \o [i \in 1 .. 3 * WeaponSlots |->
                             IF i % 3 = 0 THEN "u16" ELSE "u8"])>>

\* parse_connect reads what the server accepts the connection with.
Connect == <<Always(<<"u32", "u16", "u16", "u32">>)>>
==============================================================================
