-------------------------------- MODULE Events --------------------------------
(* The typed RPC events of samp-proto: the field list of every registered     *)
(* event, the dispatch registries of both directions, and decoding and        *)
(* encoding by id (events/mod.rs).  An event is its id, its name and its wire *)
(* types in wire order.  The samp_event! macro drives the reader and the      *)
(* writer from one list, so one list is what there is here.                   *)
EXTENDS Fields

E(id, event, fields) == [id |-> id, event |-> event, fields |-> fields]

PlayerEvents == {
  E(12, "SetPlayerPos", <<"vector3">>), E(13, "SetPlayerPosFindZ", <<"vector3">>),
  E(14, "SetPlayerHealth", <<"f32">>), E(15, "TogglePlayerControllable", <<"bool8">>),
  E(18, "GivePlayerMoney", <<"i32">>), E(19, "SetPlayerFacingAngle", <<"f32">>),
  E(20, "ResetPlayerMoney", <<>>), E(21, "ResetPlayerWeapons", <<>>),
  E(22, "GivePlayerWeapon", <<"i32", "i32">>),
  E(34, "SetPlayerSkillLevel", <<"u16", "i32", "u16">>), E(35, "SetPlayerDrunk", <<"i32">>),
  E(92, "SetPlayerDrunkVisuals", <<"i32">>), E(150, "SetPlayerDrunkHandling", <<"i32">>),
  E(66, "SetPlayerArmour", <<"f32">>), E(67, "SetPlayerArmedWeapon", <<"i32">>),
  E(145, "SetWeaponAmmo", <<"u8", "u16">>), E(69, "SetPlayerTeam", <<"u16", "u8">>),
  E(72, "SetPlayerColor", <<"u16", "i32">>), E(153, "SetPlayerSkin", <<"i32", "i32">>)}
PlayerStreamEvents == {
  E(32, "PlayerStreamIn", <<"u16", "u8", "i32", "vector3", "f32", "i32", "u8">>),
  E(163, "PlayerStreamOut", <<"u16">>), E(90, "SetPlayerVelocity", <<"vector3">>),
  E(88, "SetPlayerSpecialAction", <<"u8">>), E(89, "SetPlayerFightingStyle", <<"u16", "u8">>),
  E(86, "ApplyPlayerAnimation", <<"u16", "str8", "str8", "f32", "bool", "bool", "bool", "bool", "i32">>),
  E(87, "ClearPlayerAnimation", <<"u16">>), E(133, "SetPlayerWantedLevel", <<"u8">>),
  E(166, "PlayerDeath", <<"u16">>), E(55, "PlayerDeathNotification", <<"u16", "u16", "u8">>),
  E(80, "ShowPlayerNameTag", <<"u16", "bool8">>),
  E(59, "PlayerChatBubble", <<"u16", "i32", "f32", "i32", "str8">>)}
EnvironmentEvents == {
  E(16, "PlaySound", <<"i32", "vector3">>),
  E(17, "SetWorldBounds", <<"f32", "f32", "f32", "f32">>),
  E(29, "SetPlayerTime", <<"u8", "u8">>), E(30, "SetToggleClock", <<"bool8">>),
  E(94, "SetWorldTime", <<"u8">>), E(152, "SetWeather", <<"u8">>),
  E(146, "SetGravity", <<"f32">>), E(156, "SetInterior", <<"u8">>),
  E(107, "SetCheckpoint", <<"vector3", "f32">>), E(37, "DisableCheckpoint", <<>>),
  E(38, "SetRaceCheckpoint", <<"u8", "vector3", "vector3", "f32">>),
  E(39, "DisableRaceCheckpoint", <<>>),
  E(41, "PlayAudioStream", <<"str8", "vector3", "f32", "bool8">>),
  E(42, "StopAudioStream", <<>>)}
PlacedThingEvents == {
  E(79, "CreateExplosion", <<"vector3", "i32", "f32">>),
  E(95, "CreatePickup", <<"i32", "i32", "i32", "vector3">>), E(63, "DestroyPickup", <<"i32">>),
  E(151, "DestroyWeaponPickup", <<"u8">>),
  E(56, "SetMapIcon", <<"u8", "vector3", "u8", "i32", "u8">>),
  E(144, "RemoveMapIcon", <<"u8">>), E(60, "UpdateGlobalTimer", <<"i32">>),
  E(33, "SetShopName", <<"fixed32">>), E(58, "Remove3DTextLabel", <<"u16">>),
  E(108, "CreateGangZone", <<"u16", "vector2", "vector2", "i32">>),
  E(121, "GangZoneFlash", <<"u16", "i32">>), E(85, "GangZoneStopFlash", <<"u16">>),
  E(120, "GangZoneDestroy", <<"u16">>),
  E(112, "PlayCrimeReport", <<"u16", "bool32", "i32", "i32", "i32", "vector3">>),
  E(104, "EnableStuntBonus", <<"bool">>)}
VehicleMoveEvents == {
  E(26, "PlayerEnterVehicle", <<"u16", "u16", "bool8">>),
  E(154, "PlayerExitVehicle", <<"u16", "u16">>), E(70, "PutPlayerInVehicle", <<"u16", "u8">>),
  E(71, "RemovePlayerFromVehicle", <<>>), E(65, "LinkVehicleToInterior", <<"u16", "u8">>),
  E(57, "RemoveVehicleComponent", <<"u16", "u16">>),
  E(159, "SetVehiclePosition", <<"u16", "vector3">>),
  E(160, "SetVehicleAngle", <<"u16", "f32">>),
  E(161, "SetVehicleParams", <<"u16", "bool8", "bool8">>),
  E(91, "SetVehicleVelocity", <<"bool8", "vector3">>)}
VehiclePartEvents == {
  E(98, "SetVehicleTires", <<"u16", "u8">>), E(147, "SetVehicleHealth", <<"u16", "f32">>),
  E(123, "SetVehicleNumberPlate", <<"u16", "str8">>),
  E(106, "VehicleDamageStatusUpdate", <<"u16", "i32", "i32", "u8", "u8">>),
  E(96, "VehicleTuningNotification", <<"u16", "i32", "i32", "i32", "i32">>),
  E(148, "AttachTrailerToVehicle", <<"u16", "u16">>),
  E(149, "DetachTrailerFromVehicle", <<"u16">>), E(165, "VehicleStreamOut", <<"u16">>),
  E(167, "DisableVehicleCollisions", <<"bool">>)}
SessionEvents == {
  E(137, "PlayerJoin", <<"u16", "i32", "bool8", "str8">>),
  E(138, "PlayerQuit", <<"u16", "u8">>), E(130, "ConnectionRejected", <<"u8">>),
  E(129, "RequestSpawnResponse", <<"bool8">>),
  E(68, "SetSpawnInfo", <<"u8", "i32", "u8", "vector3", "f32", "int_array3", "int_array3">>),
  E(74, "ForceClassSelection", <<>>), E(124, "TogglePlayerSpectating", <<"bool32">>),
  E(126, "SpectatePlayer", <<"u16", "u8">>), E(127, "SpectateVehicle", <<"u16", "u8">>),
  E(40, "GamemodeRestart", <<>>), E(103, "ClientCheck", <<"u8", "i32", "u16", "u16">>),
  E(102, "ServerStatisticsResponse", <<>>)}
ObjectEvents == {
  E(45, "SetObjectPosition", <<"u16", "vector3">>),
  E(46, "SetObjectRotation", <<"u16", "vector3">>), E(47, "DestroyObject", <<"u16">>),
  E(99, "MoveObject", <<"u16", "vector3", "vector3", "f32", "vector3">>),
  E(122, "StopObject", <<"u16">>),
  E(75, "AttachObjectToPlayer", <<"u16", "u16", "vector3", "vector3">>),
  E(116, "EditAttachedObject", <<"i32">>), E(117, "EnterEditObject", <<"bool", "u16">>),
  E(27, "EnterSelectObject", <<>>), E(169, "SetPlayerObjectNoCameraCol", <<"u16">>),
  E(43, "RemoveBuilding", <<"i32", "vector3", "f32">>)}
ActorEvents == {
  E(171, "CreateActor", <<"u16", "i32", "vector3", "f32", "f32">>),
  E(172, "DestroyActor", <<"u16">>),
  E(173, "ApplyActorAnimation", <<"u16", "str8", "str8", "f32", "bool", "bool", "bool", "bool", "i32">>),
  E(174, "ClearActorAnimation", <<"u16">>), E(175, "SetActorFacingAngle", <<"u16", "f32">>),
  E(176, "SetActorPos", <<"u16", "vector3">>), E(178, "SetActorHealth", <<"u16", "f32">>)}
UiEvents == {
  E(73, "DisplayGameText", <<"i32", "i32", "str32">>), E(77, "ShowMenu", <<"u8">>),
  E(78, "HideMenu", <<"u8">>), E(83, "ToggleSelectTextDraw", <<"bool", "i32">>),
  E(105, "TextDrawSetString", <<"u16", "str16">>), E(135, "TextDrawHide", <<"u16">>),
  E(111, "ToggleWidescreen", <<"bool8">>)}
CameraEvents == {
  E(81, "AttachCameraToObject", <<"u16">>),
  E(82, "InterpolateCamera", <<"bool", "vector3", "vector3", "i32", "u8">>),
  E(157, "SetCameraPosition", <<"vector3">>), E(158, "SetCameraLookAt", <<"vector3", "u8">>),
  E(162, "SetCameraBehind", <<>>), E(170, "ToggleCameraTargetNotifying", <<"bool">>)}
OutgoingEvents == {
  E(26, "SendEnterVehicle", <<"u16", "bool8">>), E(23, "SendClickPlayer", <<"u16", "u8">>),
  E(27, "SendEnterEditObject", <<"i32", "u16", "i32", "vector3">>),
  E(50, "SendCommand", <<"str32">>), E(52, "SendSpawn", <<>>),
  E(53, "SendDeathNotification", <<"u8", "u16">>),
  E(62, "SendDialogResponse", <<"u16", "u8", "u16", "str8">>),
  E(83, "SendClickTextDraw", <<"u16">>),
  E(96, "SendVehicleTuningNotification", <<"i32", "i32", "i32", "i32">>),
  E(101, "SendChat", <<"str8">>), E(103, "SendClientCheckResponse", <<"u8", "i32", "u8">>),
  E(106, "SendVehicleDamaged", <<"u16", "i32", "i32", "u8", "u8">>),
  E(116, "SendEditAttachedObject", <<"i32", "i32", "i32", "i32", "vector3", "vector3", "vector3", "i32", "i32">>),
  E(117, "SendEditObject", <<"bool", "u16", "i32", "vector3", "vector3">>),
  E(118, "SendInteriorChangeNotification", <<"u8">>), E(119, "SendMapMarker", <<"vector3">>),
  E(128, "SendRequestClass", <<"i32">>), E(129, "SendRequestSpawn", <<>>),
  E(131, "SendPickedUpPickup", <<"i32">>), E(132, "SendMenuSelect", <<"u8">>),
  E(136, "SendVehicleDestroyed", <<"u16">>), E(140, "SendQuitMenu", <<>>),
  E(154, "SendExitVehicle", <<"u16">>), E(155, "SendUpdateScoresAndPings", <<>>),
  E(31, "SendMoneyIncreaseNotification", <<"i32", "i32">>),
  E(54, "SendNpcJoin", <<"i32", "u8", "str8", "i32">>),
  E(102, "SendServerStatisticsRequest", <<>>), E(97, "SendPickedUpWeapon", <<"u16">>),
  E(168, "SendCameraTargetUpdate", <<"u16", "u16", "u16", "u16">>),
  E(177, "SendGiveActorDamage", <<"bool", "u16", "f32", "i32", "i32">>)}

IncomingEvents == PlayerEvents \cup PlayerStreamEvents \cup EnvironmentEvents
  \cup PlacedThingEvents \cup VehicleMoveEvents \cup VehiclePartEvents \cup SessionEvents
  \cup ObjectEvents \cup ActorEvents \cup UiEvents \cup CameraEvents

\* build_registry: a later event of an id replaces an earlier one, so the map
\* serves every event only while no two share an id.
Registry(events) == [id \in {e.id : e \in events} |-> CHOOSE e \in events : e.id = id]

Registries == [Incoming |-> Registry(IncomingEvents), Outgoing |-> Registry(OutgoingEvents)]

Known(direction, id) == id \in DOMAIN Registries[direction]

Malformed == [ok |-> FALSE, v |-> <<>>]

\* decode_values: the fields of the body as script values.  The reader is not
\* asked whether anything is left.
DecodeEvent(event, payload) ==
  LET got == ReadFields(NewReader(payload), event.fields)
  IN  IF got.ok THEN [ok |-> TRUE, v |-> ToValues(event.fields, got.v)] ELSE Malformed

EncodeEvent(event, values) ==
  IF FitsFields(event.fields, values)
  THEN [ok |-> TRUE,
        v  |-> IntoBytes(WriteFields(NewWriter, event.fields, FromValues(event.fields, values)))]
  ELSE Malformed

\* decode_incoming and decode_outgoing, encode_incoming and encode_outgoing,
\* for an id the registry knows
Decoded(direction, id, payload) == DecodeEvent(Registries[direction][id], payload)
Encoded(direction, id, values)  == EncodeEvent(Registries[direction][id], values)
==============================================================================
