----------------------------- MODULE DriverProofs -----------------------------
(* Proofs about Driver, for every set of script deeds, retry limit and delay. *)
(* A method of the driver is an operator from records to records, so what it  *)
(* preserves is said of records: a method that is the composition of others   *)
(* preserves what they do.                                                    *)
EXTENDS Driver, TLAPS

Since      == {"never", "recent", "stable"}
Milestones == {"Connected", "Joined", "Spawned"}
Noteworthy == {"info", "grant", "walk"}
Whys       == {"no", "class", "toggle", "script"}

DriverRecord ==
    [state : States, spectating : BOOLEAN, spawn_requested : BOOLEAN,
     server_spectating : BOOLEAN, spawn_info : BOOLEAN, class_selected : BOOLEAN,
     sync_timer : BOOLEAN, timer : Unset..Delay, closed : BOOLEAN,
     attempts : 0..(MaxAttempts + 1), connected_since : Since, walk : BOOLEAN,
     walking : BOOLEAN, terminal : BOOLEAN, linked : BOOLEAN,
     sent : SUBSET Rpcs, asked : Whys, told : Seq(Milestones),
     seen : SUBSET Noteworthy, dials : Nat]

-----------------------------------------------------------------------------
(* What the methods preserve.                                                *)

\* What depends on the spawn info is preceded by it.
Informed(x) == /\ x.spawn_info => "info" \in x.seen
               /\ x.asked = "class" => "info" \in x.seen

\* A driver that spawned, or just asked to, has the server's grant.
Granted(x) == x.state = "Spawned" \/ "Spawn" \in x.sent => "grant" \in x.seen

\* A driver without a connection and without a reconnect ahead has given up.
GivenUp(x) == x.terminal \/ x.attempts > MaxAttempts
Caused(x)  == (x.closed \/ x.state = "Disconnected") /\ x.timer = Unset => GivenUp(x)

\* It has a reconnect ahead, or is through.
Going(x) == x.timer # Unset \/ x.closed

\* It walks only where it has spawned, and in the session the walk began in.
Walked(x) == x.walk => x.state = "Spawned" /\ "walk" \in x.seen

\* With a reconnect ahead, a driver whose transport still lives has no session
\* left, and one that spawns all the same is ticking towards the next send,
\* which fails before the reconnect is due.
Late(x, alive) == x.timer # Unset =>
    /\ alive => x.state = "Disconnected"
    /\ x.state = "Spawned" => x.sync_timer
Early(x) == x.timer # Unset /\ x.state = "Spawned" => x.timer # 0

\* The reconnects since a stable session are fewer than the drops counted.
Counted(x) ==
    /\ x.dials <= MaxAttempts /\ x.dials <= x.attempts
    /\ x.timer # Unset => /\ x.dials < x.attempts /\ x.attempts <= MaxAttempts
                          /\ x.connected_since # "stable"
    /\ x.connected_since = "stable" => x.dials = 0
    /\ x.connected_since # "never" /\ x.state # "Spawned" => x.closed /\ x.timer = Unset

\* After a ban or a wrong password.
Ended(x) == x.terminal => x.timer = Unset /\ x.closed /\ x.state = "Disconnected"

Carries(x, y) ==
    /\ y \in DriverRecord
    /\ y.linked = x.linked /\ y.dials = x.dials /\ x.seen \subseteq y.seen
    /\ Informed(x) => Informed(y)
    /\ Caused(x) => Caused(y)
    /\ Going(x) => Going(y)

KeepsGrant(x, y) == Granted(x) => Granted(y)

KeepsCalm(x, y) ==
    /\ Walked(x) => Walked(y)
    /\ Late(x, x.linked) => Late(y, y.linked)
    /\ Early(x) => Early(y)
    /\ x.timer # 0 => y.timer # 0
    /\ Counted(x) => Counted(y)

\* A driver that waits for its connection goes on waiting.
Idles(x, y) ==
    /\ x.state \in {"Connecting", "Disconnected"} => y.state \in {"Connecting", "Disconnected"}
    /\ x.linked /\ x.state = "Connecting" /\ x.timer = Unset =>
          y.state = "Connecting" /\ y.timer = Unset

LEMMA Transitive ==
  ASSUME NEW x, NEW y, NEW z
  PROVE  /\ Carries(x, y) /\ Carries(y, z) => Carries(x, z)
         /\ KeepsGrant(x, y) /\ KeepsGrant(y, z) => KeepsGrant(x, z)
         /\ KeepsCalm(x, y) /\ KeepsCalm(y, z) => KeepsCalm(x, z)
         /\ Idles(x, y) /\ Idles(y, z) /\ y.linked = x.linked => Idles(x, z)
<1>1. Carries(x, y) /\ Carries(y, z) => Carries(x, z)
  BY DEF Carries
<1>2. KeepsGrant(x, y) /\ KeepsGrant(y, z) => KeepsGrant(x, z)
  BY DEF KeepsGrant
<1>3. KeepsCalm(x, y) /\ KeepsCalm(y, z) => KeepsCalm(x, z)
  BY DEF KeepsCalm
<1>4. Idles(x, y) /\ Idles(y, z) /\ y.linked = x.linked => Idles(x, z)
  BY DEF Idles
<1>. QED BY <1>1, <1>2, <1>3, <1>4

LEMMA Reflexive ==
  ASSUME NEW x \in DriverRecord
  PROVE  Carries(x, x) /\ KeepsGrant(x, x) /\ KeepsCalm(x, x) /\ Idles(x, x)
BY DEF Carries, KeepsGrant, KeepsCalm, Idles

-----------------------------------------------------------------------------
(* Records, field by field.                                                  *)

LEMMA StopWalkType ==
  ASSUME NEW x \in DriverRecord
  PROVE  StopWalk(x) \in DriverRecord
<1>1. ASSUME NEW w \in BOOLEAN
      PROVE  [x EXCEPT !.walk = FALSE, !.walking = w] \in DriverRecord
  BY DEF DriverRecord
<1>2. (x.walking /\ ~x.walk) \in BOOLEAN
  OBVIOUS
<1>. QED BY <1>1, <1>2, Zenon DEF StopWalk

LEMMA TransitionType ==
  ASSUME NEW x \in DriverRecord, NEW next \in States
  PROVE  Transition(x, next) \in DriverRecord
<1>1. ASSUME NEW s \in BOOLEAN, NEW c \in Since
      PROVE  [x EXCEPT !.state = next, !.connected_since = c, !.sync_timer = s] \in DriverRecord
  BY DEF DriverRecord
<1>2. (next = "Spawned" \/ x.spectating) \in BOOLEAN
  OBVIOUS
<1>3. (IF next = "Spawned" THEN "recent" ELSE x.connected_since) \in Since
  BY DEF DriverRecord, Since
<1>. QED BY <1>1, <1>2, <1>3, Zenon DEF Transition

LEMMA StopType ==
  ASSUME NEW x \in DriverRecord
  PROVE  Stop(x) \in DriverRecord
<1>1. Unset \in Unset..Delay
  BY DriverAssumption DEF Unset
<1>. QED BY <1>1 DEF DriverRecord, Stop

LEMMA ScheduleType ==
  ASSUME NEW x \in DriverRecord
  PROVE  ScheduleReconnect(x) \in DriverRecord
<1>1. (IF x.timer = Unset THEN Delay ELSE x.timer) \in Unset..Delay
  BY DriverAssumption DEF DriverRecord, Unset
<1>. QED BY <1>1 DEF DriverRecord, ScheduleReconnect

LEMMA MilestoneType ==
  ASSUME NEW x \in DriverRecord, NEW m \in Milestones
  PROVE  Milestone(x, m) \in DriverRecord
<1>1. Append(x.told, m) \in Seq(Milestones)
  BY DEF DriverRecord
<1>. QED BY <1>1 DEF DriverRecord, Milestone

LEMMA NoteType ==
  ASSUME NEW x \in DriverRecord, NEW what \in Noteworthy
  PROVE  Note(x, what) \in DriverRecord
BY DEF DriverRecord, Note

LEMMA DisconnectType ==
  ASSUME NEW x \in DriverRecord, NEW reason
  PROVE  OnDisconnect(x, reason) \in DriverRecord
<1> DEFINE gone    == Transition(StopWalk(x), "Disconnected")
           counted == [gone EXCEPT !.attempts = Tries(x), !.connected_since = "never"]
<1>1. OnDisconnect(x, reason) =
        CASE reason = "Local" -> gone
          [] reason \in TerminalReasons -> [Stop(gone) EXCEPT !.terminal = TRUE]
          [] OTHER -> IF Tries(x) > MaxAttempts
                      THEN [Stop(counted) EXCEPT !.attempts = MaxAttempts + 1]
                      ELSE ScheduleReconnect(counted)
  BY DEF OnDisconnect
<1>2. gone \in DriverRecord
  BY StopWalkType, TransitionType DEF States
<1>3. Stop(gone) \in DriverRecord
  BY <1>2, StopType
<1>4. Tries(x) \in Nat
  BY DriverAssumption DEF Tries, DriverRecord
<1>. HIDE DEF gone
<1>5. [Stop(gone) EXCEPT !.terminal = TRUE] \in DriverRecord
  BY <1>3 DEF DriverRecord
<1>6. CASE Tries(x) > MaxAttempts
  <2>1. [Stop(counted) EXCEPT !.attempts = MaxAttempts + 1]
          = [Stop(gone) EXCEPT !.attempts = MaxAttempts + 1, !.connected_since = "never"]
    BY <1>2 DEF DriverRecord, Stop
  <2>2. MaxAttempts + 1 \in 0..(MaxAttempts + 1) /\ "never" \in Since
    BY DriverAssumption DEF Since
  <2>3. [Stop(gone) EXCEPT !.attempts = MaxAttempts + 1, !.connected_since = "never"] \in DriverRecord
    BY <1>3, <2>2 DEF DriverRecord
  <2>. HIDE DEF counted
  <2>. QED BY <1>1, <1>2, <1>5, <1>6, <2>1, <2>3
<1>7. CASE ~(Tries(x) > MaxAttempts)
  <2>1. Tries(x) \in 0..(MaxAttempts + 1) /\ "never" \in Since
    BY <1>4, <1>7, DriverAssumption DEF Since
  <2>2. counted \in DriverRecord
    BY <1>2, <2>1 DEF DriverRecord
  <2>. HIDE DEF counted
  <2>3. ScheduleReconnect(counted) \in DriverRecord
    BY <2>2, ScheduleType
  <2>. QED BY <1>1, <1>2, <1>5, <1>7, <2>3
<1>. QED BY <1>6, <1>7

LEMMA DisconnectFields ==
  ASSUME NEW x \in DriverRecord, NEW reason
  PROVE  LET y == OnDisconnect(x, reason) IN
         /\ y.state = "Disconnected" /\ ~y.walk
         /\ y.linked = x.linked /\ y.dials = x.dials /\ y.seen = x.seen
         /\ y.sent = x.sent /\ y.asked = x.asked /\ y.spawn_info = x.spawn_info
         /\ reason = "Local" =>
               /\ y.timer = x.timer /\ y.closed = x.closed /\ y.terminal = x.terminal
               /\ y.attempts = x.attempts
         /\ reason \in TerminalReasons =>
               /\ y.timer = Unset /\ y.closed /\ y.terminal
               /\ y.attempts = x.attempts /\ y.connected_since = x.connected_since
         /\ reason \notin TerminalReasons \cup {"Local"} =>
               /\ y.connected_since = "never" /\ y.terminal = x.terminal
               /\ IF Tries(x) > MaxAttempts
                  THEN y.timer = Unset /\ y.closed /\ y.attempts = MaxAttempts + 1
                  ELSE /\ y.timer = (IF x.timer = Unset THEN Delay ELSE x.timer)
                       /\ y.closed = x.closed /\ y.attempts = Tries(x)
BY DEF DriverRecord, OnDisconnect, Stop, ScheduleReconnect, Transition, StopWalk, TerminalReasons

LEMMA DisconnectKeeps ==
  ASSUME NEW x \in DriverRecord, NEW reason, reason # "Local"
  PROVE  LET y == OnDisconnect(x, reason) IN
         /\ Carries(x, y) /\ KeepsGrant(x, y) /\ KeepsCalm(x, y)
         /\ Going(y) /\ Caused(y)
<1> DEFINE y == OnDisconnect(x, reason)
<1>1. y \in DriverRecord
  BY DisconnectType
<1>2. /\ x.dials \in Nat /\ x.attempts \in Nat /\ x.timer \in Int /\ MaxAttempts \in Nat \ {0}
      /\ Delay \in Nat \ {0}
  BY DriverAssumption DEF DriverRecord, Unset
<1>3. Carries(x, y) /\ Going(y) /\ Caused(y) /\ KeepsGrant(x, y)
  BY <1>1, <1>2, DisconnectFields DEF Carries, Informed, Caused, GivenUp, Going, KeepsGrant, Granted, Unset
<1>4. KeepsCalm(x, y)
  BY <1>1, <1>2, DisconnectFields DEF KeepsCalm, Walked, Late, Early, Counted, Unset, Tries
<1>. QED BY <1>3, <1>4

-----------------------------------------------------------------------------
(* The methods, from the shortest to the longest.                            *)

\* A driver that may move on to another state of its session: it has none
\* yet, or the transport of the one it had is gone.
Ready(x) == /\ x.state # "Spawned"
            /\ x.state = "Disconnected" => ~x.linked \/ x.timer = Unset

LEMMA TransitionKeeps ==
  ASSUME NEW x \in DriverRecord, NEW next \in States \ {"Disconnected"}
  PROVE  LET y == Transition(x, next) IN
         /\ Carries(x, y) /\ y.terminal = x.terminal
         /\ next # "Spawned" \/ "grant" \in x.seen => KeepsGrant(x, y)
         /\ Ready(x) /\ (next = "Spawned" => x.timer # 0) => KeepsCalm(x, y)
         /\ next # "Spawned" => Ready(y)
<1> DEFINE y == Transition(x, next)
<1>1. y \in DriverRecord
  BY TransitionType
<1>2. /\ x.dials \in Nat /\ x.attempts \in Nat /\ x.timer \in Int
      /\ x.connected_since \in Since
  BY DEF DriverRecord, Unset
<1>3. /\ y.state = next /\ y.linked = x.linked /\ y.dials = x.dials /\ y.seen = x.seen
      /\ y.timer = x.timer /\ y.closed = x.closed /\ y.terminal = x.terminal
      /\ y.attempts = x.attempts /\ y.sent = x.sent /\ y.asked = x.asked
      /\ y.spawn_info = x.spawn_info /\ y.walk = x.walk
      /\ y.connected_since = (IF next = "Spawned" THEN "recent" ELSE x.connected_since)
      /\ next = "Spawned" => y.sync_timer
  BY DEF DriverRecord, Transition
<1>. HIDE DEF y
<1>4. Carries(x, y)
  BY <1>1, <1>3 DEF Carries, Informed, Caused, GivenUp, Going
<1>5. next # "Spawned" \/ "grant" \in x.seen => KeepsGrant(x, y)
  BY <1>3 DEF KeepsGrant, Granted
<1>6. ASSUME Ready(x), next = "Spawned" => x.timer # 0
      PROVE  KeepsCalm(x, y)
  BY <1>2, <1>3, <1>6 DEF KeepsCalm, Walked, Late, Early, Counted, Ready, Since
<1>7. next # "Spawned" => Ready(y)
  BY <1>3 DEF Ready
<1>. QED BY <1>3, <1>4, <1>5, <1>6, <1>7 DEF y

LEMMA SendPacketKeeps ==
  ASSUME NEW x \in DriverRecord
  PROVE  LET y == SendPacket(x) IN
         /\ Carries(x, y) /\ KeepsGrant(x, y) /\ KeepsCalm(x, y) /\ Idles(x, y)
         /\ y.terminal = x.terminal /\ y.seen = x.seen /\ (Ready(x) => Ready(y))
         /\ x.linked => y = x
         /\ ~x.linked => y.state = "Disconnected" /\ Going(y)
<1>1. CASE x.linked
  BY <1>1, Reflexive DEF SendPacket
<1>2. CASE ~x.linked
  <2>1. SendPacket(x) = OnDisconnect(x, "ConnectionLost")
    BY <1>2 DEF SendPacket
  <2>. QED BY <1>2, <2>1, DisconnectKeeps, DisconnectFields DEF Idles, Ready, TerminalReasons
<1>. QED BY <1>1, <1>2

LEMMA SendRpcKeeps ==
  ASSUME NEW x \in DriverRecord, NEW rpc \in Rpcs, NEW drops
  PROVE  LET y == SendRpc(x, rpc, drops) IN
         /\ Carries(x, y) /\ KeepsCalm(x, y) /\ Idles(x, y)
         /\ rpc # "Spawn" \/ "grant" \in x.seen => KeepsGrant(x, y)
         /\ y.terminal = x.terminal /\ y.seen = x.seen /\ (Ready(x) => Ready(y))
         /\ y.state \in {x.state, "Disconnected"}
<1> DEFINE z == [x EXCEPT !.sent = IF x.linked THEN x.sent \cup {rpc} ELSE x.sent]
           y == SendRpc(x, rpc, drops)
<1>1. CASE drops
  BY <1>1, Reflexive DEF SendRpc
<1>2. CASE ~drops
  <2>1. y = SendPacket(z)
    BY <1>2 DEF SendRpc
  <2>2. z \in DriverRecord
    BY DEF DriverRecord
  <2>3. Carries(x, z) /\ KeepsCalm(x, z) /\ Idles(x, z)
    <3>1. /\ z.state = x.state /\ z.linked = x.linked /\ z.dials = x.dials /\ z.seen = x.seen
          /\ z.timer = x.timer /\ z.closed = x.closed /\ z.terminal = x.terminal
          /\ z.attempts = x.attempts /\ z.asked = x.asked /\ z.walk = x.walk
          /\ z.spawn_info = x.spawn_info /\ z.sync_timer = x.sync_timer
          /\ z.connected_since = x.connected_since
      BY DEF DriverRecord
    <3>. HIDE DEF z
    <3>2. Carries(x, z)
      BY <2>2, <3>1 DEF Carries, Informed, Caused, GivenUp, Going
    <3>3. KeepsCalm(x, z)
      BY <3>1 DEF KeepsCalm, Walked, Late, Early, Counted
    <3>4. Idles(x, z)
      BY <3>1 DEF Idles
    <3>. QED BY <3>2, <3>3, <3>4
  <2>4. rpc # "Spawn" \/ "grant" \in x.seen => KeepsGrant(x, z)
    BY DEF DriverRecord, KeepsGrant, Granted
  <2>5. /\ z.terminal = x.terminal /\ z.seen = x.seen /\ z.state = x.state
        /\ z.linked = x.linked /\ z.timer = x.timer
    BY DEF DriverRecord
  <2>. HIDE DEF y, z
  <2>6. Ready(x) => Ready(z)
    BY <2>5 DEF Ready
  <2>7. y.linked = z.linked /\ y.seen = z.seen /\ y.terminal = z.terminal
    BY <2>1, <2>2, SendPacketKeeps DEF Carries
  <2>8. Carries(z, y) /\ KeepsCalm(z, y) /\ Idles(z, y) /\ KeepsGrant(z, y) /\ (Ready(z) => Ready(y))
    BY <2>1, <2>2, SendPacketKeeps
  <2>9. y.state \in {z.state, "Disconnected"}
    BY <2>1, <2>2, SendPacketKeeps
  <2>10. Carries(x, y) /\ KeepsCalm(x, y) /\ Idles(x, y)
    BY <2>3, <2>5, <2>7, <2>8, Transitive
  <2>11. rpc # "Spawn" \/ "grant" \in x.seen => KeepsGrant(x, y)
    BY <2>4, <2>8, Transitive
  <2>. QED BY <2>5, <2>6, <2>7, <2>8, <2>9, <2>10, <2>11 DEF y
<1>. QED BY <1>1, <1>2

\* The same driver, but for what it has told, asked for and been told, and it
\* walks no more than before.
Like(x, y) ==
    /\ x.state = y.state /\ x.linked = y.linked /\ x.dials = y.dials /\ x.seen = y.seen
    /\ x.timer = y.timer /\ x.closed = y.closed /\ x.terminal = y.terminal
    /\ x.attempts = y.attempts /\ x.connected_since = y.connected_since
    /\ x.sent = y.sent /\ x.sync_timer = y.sync_timer /\ (y.walk => x.walk)

LEMMA LikeKeeps ==
  ASSUME NEW x, NEW y \in DriverRecord, Like(x, y), Informed(x) => Informed(y)
  PROVE  /\ Carries(x, y) /\ KeepsGrant(x, y) /\ KeepsCalm(x, y) /\ Idles(x, y)
         /\ y.terminal = x.terminal /\ (Ready(x) => Ready(y))
<1>1. Carries(x, y)
  BY DEF Like, Carries, Caused, GivenUp, Going
<1>2. KeepsGrant(x, y) /\ Idles(x, y)
  BY DEF Like, KeepsGrant, Granted, Idles
<1>3. KeepsCalm(x, y)
  BY DEF Like, KeepsCalm, Walked, Late, Early, Counted
<1>. QED BY <1>1, <1>2, <1>3 DEF Like, Ready

LEMMA MilestoneKeeps ==
  ASSUME NEW x \in DriverRecord, NEW m \in Milestones
  PROVE  LET y == Milestone(x, m) IN y \in DriverRecord /\ Like(x, y) /\ (Informed(x) => Informed(y))
<1>1. Like(x, Milestone(x, m)) /\ (Informed(x) => Informed(Milestone(x, m)))
  BY DEF DriverRecord, Milestone, Like, Informed
<1>. QED BY <1>1, MilestoneType

\* What it notes of the session only adds to what it may rest on.
LEMMA NoteKeeps ==
  ASSUME NEW x \in DriverRecord, NEW what \in Noteworthy
  PROVE  LET y == Note(x, what) IN
         /\ Carries(x, y) /\ KeepsGrant(x, y) /\ KeepsCalm(x, y)
         /\ y.terminal = x.terminal /\ y.state = x.state /\ y.timer = x.timer
         /\ y.spawn_requested = x.spawn_requested /\ y.sent = x.sent
         /\ what \in y.seen
<1> DEFINE y == Note(x, what)
<1>1. y \in DriverRecord
  BY NoteType
<1>2. /\ x.state = y.state /\ x.linked = y.linked /\ x.dials = y.dials
      /\ x.timer = y.timer /\ x.closed = y.closed /\ x.terminal = y.terminal
      /\ x.attempts = y.attempts /\ x.connected_since = y.connected_since
      /\ x.sent = y.sent /\ x.walk = y.walk /\ x.sync_timer = y.sync_timer
      /\ x.asked = y.asked /\ x.spawn_info = y.spawn_info
      /\ x.spawn_requested = y.spawn_requested /\ y.seen = x.seen \cup {what}
  BY DEF DriverRecord, Note
<1>. HIDE DEF y
<1>3. Carries(x, y)
  BY <1>1, <1>2 DEF Carries, Informed, Caused, GivenUp, Going
<1>4. KeepsGrant(x, y)
  BY <1>2 DEF KeepsGrant, Granted
<1>5. KeepsCalm(x, y)
  BY <1>2 DEF KeepsCalm, Walked, Late, Early, Counted
<1>. QED BY <1>2, <1>3, <1>4, <1>5 DEF y

LEMMA RequestSpawnKeeps ==
  ASSUME NEW x \in DriverRecord, NEW why \in Whys, NEW drops,
         why = "class" => "info" \in x.seen
  PROVE  LET y == RequestSpawn(x, why, drops) IN
         /\ Carries(x, y) /\ KeepsGrant(x, y) /\ KeepsCalm(x, y) /\ Idles(x, y)
         /\ y.terminal = x.terminal /\ y.state \in {x.state, "Disconnected"}
<1> DEFINE z == [x EXCEPT !.spawn_requested = TRUE, !.asked = why]
           y == RequestSpawn(x, why, drops)
<1>1. z \in DriverRecord /\ Like(x, z) /\ (Informed(x) => Informed(z))
  BY DEF DriverRecord, Like, Informed
<1>2. y = SendRpc(z, "RequestSpawn", drops)
  BY DEF RequestSpawn
<1>3. z.linked = x.linked /\ z.terminal = x.terminal /\ z.state = x.state
  BY <1>1 DEF Like
<1>. HIDE DEF y, z
<1>4. Carries(x, z) /\ KeepsGrant(x, z) /\ KeepsCalm(x, z) /\ Idles(x, z)
  BY <1>1, LikeKeeps
<1>5. /\ Carries(z, y) /\ KeepsGrant(z, y) /\ KeepsCalm(z, y) /\ Idles(z, y)
      /\ y.terminal = z.terminal /\ y.state \in {z.state, "Disconnected"}
  BY <1>1, <1>2, SendRpcKeeps DEF Rpcs
<1>6. y.linked = z.linked
  BY <1>5 DEF Carries
<1>. QED BY <1>3, <1>4, <1>5, <1>6, Transitive DEF y

\* It enters Spawned from a state it may move on from, having been granted.
LEMMA EnterSpawnedKeeps ==
  ASSUME NEW x \in DriverRecord, NEW drops
  PROVE  LET y == EnterSpawned(x, drops) IN
         /\ Carries(x, y) /\ y.terminal = x.terminal
         /\ "grant" \in x.seen => KeepsGrant(x, y)
         /\ Ready(x) /\ x.timer # 0 => KeepsCalm(x, y)
<1> DEFINE z == SendRpc(x, "Spawn", drops)
           w == Transition(z, "Spawned")
           y == EnterSpawned(x, drops)
<1>1. y = Milestone(w, "Spawned")
  BY DEF EnterSpawned
<1>2. /\ z \in DriverRecord /\ Carries(x, z) /\ KeepsCalm(x, z) /\ z.seen = x.seen
      /\ z.terminal = x.terminal /\ (Ready(x) => Ready(z))
      /\ "grant" \in x.seen => KeepsGrant(x, z)
  BY SendRpcKeeps DEF Rpcs, Carries
<1>. HIDE DEF z
<1>3. /\ w \in DriverRecord /\ Carries(z, w) /\ w.terminal = z.terminal
      /\ "grant" \in z.seen => KeepsGrant(z, w)
      /\ Ready(z) /\ z.timer # 0 => KeepsCalm(z, w)
  BY <1>2, TransitionKeeps DEF States, Carries
<1>. HIDE DEF w, y
<1>4. Carries(w, y) /\ KeepsGrant(w, y) /\ KeepsCalm(w, y) /\ y.terminal = w.terminal
  BY <1>1, <1>3, MilestoneKeeps, LikeKeeps DEF Milestones
<1>5. x.timer # 0 => z.timer # 0
  BY <1>2 DEF KeepsCalm
<1>6. Carries(x, y) /\ y.terminal = x.terminal
  BY <1>2, <1>3, <1>4, Transitive
<1>7. "grant" \in x.seen => KeepsGrant(x, y)
  BY <1>2, <1>3, <1>4, Transitive
<1>8. Ready(x) /\ x.timer # 0 => KeepsCalm(x, y)
  BY <1>2, <1>3, <1>4, <1>5, Transitive
<1>. QED BY <1>6, <1>7, <1>8 DEF y

LEMMA OnConnectedKeeps ==
  ASSUME NEW x \in DriverRecord, NEW garbled \in BOOLEAN, NEW drops
  PROVE  LET y == OnConnected(x, garbled, drops) IN
         /\ Carries(x, y) /\ KeepsGrant(x, y) /\ y.terminal = x.terminal
         /\ Ready(x) => KeepsCalm(x, y)
<1> DEFINE h == Transition(x, "RakNetConnected")
           m == Milestone(h, "Connected")
           s == SendRpc(m, "ClientJoin", drops)
           y == OnConnected(x, garbled, drops)
<1>1. CASE garbled
  <2>1. y = OnDisconnect(x, "Rejected")
    BY <1>1 DEF OnConnected
  <2>. QED BY <2>1, DisconnectKeeps, DisconnectFields DEF TerminalReasons
<1>2. CASE ~garbled
  <2>1. y = Transition(s, "Joining")
    BY <1>2 DEF OnConnected
  <2>2. /\ h \in DriverRecord /\ Carries(x, h) /\ KeepsGrant(x, h) /\ h.terminal = x.terminal
        /\ Ready(h) /\ (Ready(x) => KeepsCalm(x, h))
    BY TransitionKeeps DEF States, Carries
  <2>. HIDE DEF h
  <2>3. /\ m \in DriverRecord /\ Carries(h, m) /\ KeepsGrant(h, m) /\ KeepsCalm(h, m)
        /\ m.terminal = h.terminal /\ Ready(m)
    BY <2>2, MilestoneKeeps, LikeKeeps DEF Milestones
  <2>. HIDE DEF m
  <2>4. /\ s \in DriverRecord /\ Carries(m, s) /\ KeepsGrant(m, s) /\ KeepsCalm(m, s)
        /\ s.terminal = m.terminal /\ Ready(s)
    BY <2>3, SendRpcKeeps DEF Rpcs, Carries
  <2>. HIDE DEF s, y
  <2>5. Carries(s, y) /\ KeepsGrant(s, y) /\ KeepsCalm(s, y) /\ y.terminal = s.terminal
    BY <2>1, <2>4, TransitionKeeps DEF States
  <2>6. Carries(x, y) /\ KeepsGrant(x, y) /\ y.terminal = x.terminal
    BY <2>2, <2>3, <2>4, <2>5, Transitive
  <2>7. Ready(x) => KeepsCalm(x, y)
    BY <2>2, <2>3, <2>4, <2>5, Transitive
  <2>. QED BY <2>6, <2>7 DEF y
<1>. QED BY <1>1, <1>2

LEMMA RequestSpawnClassKeeps ==
  ASSUME NEW x \in DriverRecord, NEW drops
  PROVE  LET y == RequestSpawnClass(x, drops) IN
         /\ Carries(x, y) /\ KeepsGrant(x, y) /\ y.terminal = x.terminal
         /\ Ready(x) => KeepsCalm(x, y)
<1> DEFINE z == [x EXCEPT !.spectating = TRUE]
           t == Transition(z, "ClassSelection")
           y == RequestSpawnClass(x, drops)
<1>1. z \in DriverRecord /\ Like(x, z) /\ (Informed(x) => Informed(z))
  BY DEF DriverRecord, Like, Informed
<1>2. y = SendRpc(t, "RequestClass", drops)
  BY DEF RequestSpawnClass
<1>. HIDE DEF y, z
<1>3. /\ Carries(x, z) /\ KeepsGrant(x, z) /\ KeepsCalm(x, z)
      /\ z.terminal = x.terminal /\ (Ready(x) => Ready(z))
  BY <1>1, LikeKeeps
<1>4. /\ t \in DriverRecord /\ Carries(z, t) /\ KeepsGrant(z, t) /\ t.terminal = z.terminal
      /\ Ready(z) => KeepsCalm(z, t)
  BY <1>1, TransitionKeeps DEF States, Carries
<1>. HIDE DEF t
<1>5. Carries(t, y) /\ KeepsGrant(t, y) /\ KeepsCalm(t, y) /\ y.terminal = t.terminal
  BY <1>2, <1>4, SendRpcKeeps DEF Rpcs
<1>6. Carries(x, y) /\ KeepsGrant(x, y) /\ y.terminal = x.terminal
  BY <1>3, <1>4, <1>5, Transitive
<1>7. Ready(x) => KeepsCalm(x, y)
  BY <1>3, <1>4, <1>5, Transitive
<1>. QED BY <1>6, <1>7 DEF y

LEMMA OnInitGameKeeps ==
  ASSUME NEW x \in DriverRecord, NEW queued, NEW drops
  PROVE  LET y == OnInitGame(x, queued, drops) IN
         /\ Carries(x, y) /\ KeepsGrant(x, y) /\ y.terminal = x.terminal
         /\ Ready(x) => KeepsCalm(x, y)
<1> DEFINE t == Transition(x, "Joined")
           m == Milestone(t, "Joined")
           s == IF queued THEN SendPacket(m) ELSE m
           y == OnInitGame(x, queued, drops)
<1>1. y = RequestSpawnClass(s, drops)
  BY DEF OnInitGame
<1>2. /\ t \in DriverRecord /\ Carries(x, t) /\ KeepsGrant(x, t) /\ t.terminal = x.terminal
      /\ Ready(t) /\ (Ready(x) => KeepsCalm(x, t))
  BY TransitionKeeps DEF States, Carries
<1>. HIDE DEF t
<1>3. /\ m \in DriverRecord /\ Carries(t, m) /\ KeepsGrant(t, m) /\ KeepsCalm(t, m)
      /\ m.terminal = t.terminal /\ Ready(m)
  BY <1>2, MilestoneKeeps, LikeKeeps DEF Milestones
<1>. HIDE DEF m
<1>4. /\ s \in DriverRecord /\ Carries(m, s) /\ KeepsGrant(m, s) /\ KeepsCalm(m, s)
      /\ s.terminal = m.terminal /\ Ready(s)
  BY <1>3, SendPacketKeeps, Reflexive DEF Carries
<1>. HIDE DEF s, y
<1>5. /\ Carries(s, y) /\ KeepsGrant(s, y) /\ KeepsCalm(s, y) /\ y.terminal = s.terminal
  BY <1>1, <1>4, RequestSpawnClassKeeps
<1>6. Carries(x, y) /\ KeepsGrant(x, y) /\ y.terminal = x.terminal
  BY <1>2, <1>3, <1>4, <1>5, Transitive
<1>7. Ready(x) => KeepsCalm(x, y)
  BY <1>2, <1>3, <1>4, <1>5, Transitive
<1>. QED BY <1>6, <1>7 DEF y

\* A class response asks for the spawn only where the spawn info has come.
LEMMA OnClassResponseKeeps ==
  ASSUME NEW x \in DriverRecord, Informed(x), NEW drops
  PROVE  LET y == OnClassResponse(x, drops) IN
         /\ Carries(x, y) /\ KeepsGrant(x, y) /\ y.terminal = x.terminal
         /\ Ready(x) => KeepsCalm(x, y)
<1> DEFINE t == Transition(x, "ClassSelected")
           c == [t EXCEPT !.class_selected = TRUE]
           y == OnClassResponse(x, drops)
<1>1. y = IF x.spawn_info /\ x.spectating THEN RequestSpawn(c, "class", drops) ELSE c
  BY DEF OnClassResponse
<1>2. /\ t \in DriverRecord /\ Carries(x, t) /\ KeepsGrant(x, t) /\ t.terminal = x.terminal
      /\ Ready(x) => KeepsCalm(x, t)
  BY TransitionKeeps DEF States, Carries
<1>. HIDE DEF t
<1>3. c \in DriverRecord /\ Like(t, c) /\ (Informed(t) => Informed(c))
  BY <1>2 DEF DriverRecord, Like, Informed
<1>. HIDE DEF c, y
<1>4. Carries(t, c) /\ KeepsGrant(t, c) /\ KeepsCalm(t, c) /\ c.terminal = t.terminal
  BY <1>3, LikeKeeps
<1>5. x.spawn_info => "info" \in c.seen
  BY <1>2, <1>4 DEF Carries, Informed
<1>6. Carries(c, y) /\ KeepsGrant(c, y) /\ KeepsCalm(c, y) /\ y.terminal = c.terminal
  BY <1>1, <1>3, <1>5, RequestSpawnKeeps, Reflexive DEF Whys
<1>7. Carries(x, y) /\ KeepsGrant(x, y) /\ y.terminal = x.terminal
  BY <1>2, <1>4, <1>6, Transitive
<1>8. Ready(x) => KeepsCalm(x, y)
  BY <1>2, <1>4, <1>6, Transitive
<1>. QED BY <1>7, <1>8 DEF y

LEMMA OnSpawnResponseKeeps ==
  ASSUME NEW x \in DriverRecord, NEW allow, NEW drops, allow # 0 => "grant" \in x.seen
  PROVE  LET y == OnSpawnResponse(x, allow, drops) IN
         /\ Carries(x, y) /\ KeepsGrant(x, y) /\ y.terminal = x.terminal
         /\ Ready(x) /\ x.timer # 0 => KeepsCalm(x, y)
<1> DEFINE z == [x EXCEPT !.spectating = FALSE, !.spawn_requested = FALSE]
           y == OnSpawnResponse(x, allow, drops)
<1>1. CASE allow = 2 \/ (allow # 0 /\ x.spawn_requested)
  <2>1. y = EnterSpawned(z, drops)
    BY <1>1 DEF OnSpawnResponse
  <2>2. z \in DriverRecord /\ Like(x, z) /\ (Informed(x) => Informed(z))
    BY DEF DriverRecord, Like, Informed
  <2>. HIDE DEF y, z
  <2>3. /\ Carries(x, z) /\ KeepsGrant(x, z) /\ KeepsCalm(x, z) /\ z.terminal = x.terminal
        /\ Ready(x) => Ready(z)
    BY <2>2, LikeKeeps
  <2>4. "grant" \in z.seen /\ z.timer = x.timer
    BY <1>1, <2>2 DEF Like
  <2>5. /\ Carries(z, y) /\ KeepsGrant(z, y) /\ y.terminal = z.terminal
        /\ Ready(z) /\ z.timer # 0 => KeepsCalm(z, y)
    BY <2>1, <2>2, <2>4, EnterSpawnedKeeps
  <2>6. Carries(x, y) /\ KeepsGrant(x, y) /\ y.terminal = x.terminal
    BY <2>3, <2>5, Transitive
  <2>7. Ready(x) /\ x.timer # 0 => KeepsCalm(x, y)
    BY <2>3, <2>4, <2>5, Transitive
  <2>. QED BY <2>6, <2>7 DEF y
<1>2. CASE ~(allow = 2 \/ (allow # 0 /\ x.spawn_requested))
  BY <1>2, Reflexive DEF OnSpawnResponse
<1>. QED BY <1>1, <1>2

LEMMA OnToggleSpectatingKeeps ==
  ASSUME NEW x \in DriverRecord, NEW toggle \in BOOLEAN, NEW drops
  PROVE  LET y == OnToggleSpectating(x, toggle, drops) IN
         Carries(x, y) /\ KeepsGrant(x, y) /\ KeepsCalm(x, y) /\ y.terminal = x.terminal
<1> DEFINE z == [x EXCEPT !.server_spectating = toggle, !.class_selected = @ \/ toggle]
           y == OnToggleSpectating(x, toggle, drops)
<1>1. z \in DriverRecord /\ Like(x, z) /\ (Informed(x) => Informed(z))
  <2>1. ASSUME NEW c \in BOOLEAN
        PROVE  LET u == [x EXCEPT !.server_spectating = toggle, !.class_selected = c]
               IN  u \in DriverRecord /\ Like(x, u) /\ (Informed(x) => Informed(u))
    BY DEF DriverRecord, Like, Informed
  <2>2. (x.class_selected \/ toggle) \in BOOLEAN
    OBVIOUS
  <2>. QED BY <2>1, <2>2, Zenon
<1>2. y = IF x.server_spectating /\ ~toggle /\ x.state # "Spawned"
          THEN RequestSpawn(z, "toggle", drops) ELSE z
  BY DEF OnToggleSpectating
<1>. HIDE DEF y, z
<1>3. Carries(x, z) /\ KeepsGrant(x, z) /\ KeepsCalm(x, z) /\ z.terminal = x.terminal
  BY <1>1, LikeKeeps
<1>4. Carries(z, y) /\ KeepsGrant(z, y) /\ KeepsCalm(z, y) /\ y.terminal = z.terminal
  BY <1>1, <1>2, RequestSpawnKeeps, Reflexive DEF Whys
<1>. QED BY <1>3, <1>4, Transitive DEF y

\* A SetSpawnInfo is answered with a Spawn where the session has spawned, and
\* has its grant.
LEMMA OnSetSpawnInfoKeeps ==
  ASSUME NEW x \in DriverRecord, NEW drops, "info" \in x.seen
  PROVE  LET y == OnSetSpawnInfo(x, drops) IN
         Carries(x, y) /\ KeepsGrant(x, y) /\ KeepsCalm(x, y) /\ y.terminal = x.terminal
<1> DEFINE z == [x EXCEPT !.spawn_info = TRUE]
           y == OnSetSpawnInfo(x, drops)
<1>1. z \in DriverRecord /\ Like(x, z) /\ (Informed(x) => Informed(z))
  BY DEF DriverRecord, Like, Informed
<1>2. y = IF x.state = "Spawned" THEN SendRpc(z, "Spawn", drops) ELSE z
  BY DEF OnSetSpawnInfo, AnswersSpawnInfo
<1>. HIDE DEF y, z
<1>3. Carries(x, z) /\ KeepsGrant(x, z) /\ KeepsCalm(x, z) /\ z.terminal = x.terminal
  BY <1>1, LikeKeeps
<1>4. Carries(z, y) /\ KeepsCalm(z, y) /\ y.terminal = z.terminal
  BY <1>1, <1>2, SendRpcKeeps, Reflexive DEF Rpcs
<1>5. KeepsGrant(x, y)
  <2>1. CASE x.state = "Spawned" /\ Granted(x)
    <3>1. "grant" \in z.seen
      BY <1>1, <2>1 DEF Granted, Like
    <3>2. KeepsGrant(z, y)
      BY <1>1, <1>2, <3>1, SendRpcKeeps, Reflexive DEF Rpcs
    <3>. QED BY <1>3, <3>2, Transitive
  <2>2. CASE x.state # "Spawned"
    BY <1>2, <1>3, <2>2
  <2>3. CASE ~Granted(x)
    BY <2>3 DEF KeepsGrant
  <2>. QED BY <2>1, <2>2, <2>3
<1>. QED BY <1>3, <1>4, <1>5, Transitive DEF y

LEMMA NotedKeeps ==
  ASSUME NEW x \in DriverRecord, NEW e
  PROVE  LET y == Noted(x, e) IN
         /\ Carries(x, y) /\ KeepsGrant(x, y) /\ KeepsCalm(x, y)
         /\ y.terminal = x.terminal /\ y.state = x.state /\ y.timer = x.timer
         /\ e.id = "SetSpawnInfo" => "info" \in y.seen
         /\ e.id = "RequestSpawn" /\ e.arg # 0 => "grant" \in y.seen
<1>1. CASE e.id = "SetSpawnInfo"
  <2>1. Noted(x, e) = Note(x, "info")
    BY <1>1 DEF Noted
  <2>. QED BY <1>1, <2>1, NoteKeeps DEF Noteworthy
<1>2. CASE e.id = "RequestSpawn" /\ e.arg # 0
  <2>1. Noted(x, e) = Note(x, "grant")
    BY <1>2 DEF Noted
  <2>. QED BY <1>2, <2>1, NoteKeeps DEF Noteworthy
<1>3. CASE e.id # "SetSpawnInfo" /\ ~(e.id = "RequestSpawn" /\ e.arg # 0)
  <2>1. Noted(x, e) = x
    BY <1>3 DEF Noted
  <2>. QED BY <1>3, <2>1, Reflexive
<1>. QED BY <1>1, <1>2, <1>3

\* What on_rpc heeds finds the driver in a state it may move on from.
LEMMA OnRpcKeeps ==
  ASSUME NEW x \in DriverRecord, Informed(x), NEW e, NEW queued, NEW drops,
         e.id = "SetSpawnInfo" => "info" \in x.seen,
         e.id = "RequestSpawn" /\ e.arg # 0 => "grant" \in x.seen
  PROVE  LET y == OnRpc(x, e, queued, drops) IN
         /\ Carries(x, y) /\ KeepsGrant(x, y) /\ y.terminal = x.terminal
         /\ x.timer # 0 => KeepsCalm(x, y)
<1> DEFINE y == OnRpc(x, e, queued, drops)
<1>1. CASE ~Heeded(x, e.id)
  <2>1. y = x
    BY <1>1 DEF OnRpc
  <2>. QED BY <2>1, Reflexive
<1>2. CASE Heeded(x, e.id) /\ e.id = "InitGame"
  <2>1. y = OnInitGame(x, queued, drops) /\ Ready(x)
    BY <1>2 DEF OnRpc, Heeded, Ready
  <2>. QED BY <2>1, OnInitGameKeeps
<1>3. CASE Heeded(x, e.id) /\ e.id = "RequestClass"
  <2>1. y = OnClassResponse(x, drops) /\ Ready(x)
    BY <1>3 DEF OnRpc, Heeded, Ready, Spawning
  <2>. QED BY <2>1, OnClassResponseKeeps
<1>4. CASE Heeded(x, e.id) /\ e.id = "RequestSpawn"
  <2>1. y = OnSpawnResponse(x, e.arg, drops) /\ Ready(x)
    BY <1>4 DEF OnRpc, Heeded, Ready, Spawning
  <2>. QED BY <1>4, <2>1, OnSpawnResponseKeeps
<1>5. CASE Heeded(x, e.id) /\ e.id = "TogglePlayerSpectating"
  <2>1. y = OnToggleSpectating(x, e.arg = 1, drops)
    BY <1>5 DEF OnRpc
  <2>2. PICK toggle \in BOOLEAN : toggle = (e.arg = 1)
    OBVIOUS
  <2>3. y = OnToggleSpectating(x, toggle, drops)
    BY <2>1, <2>2, Zenon
  <2>. QED BY <2>3, OnToggleSpectatingKeeps
<1>6. CASE Heeded(x, e.id) /\ e.id = "SetSpawnInfo"
  <2>1. y = OnSetSpawnInfo(x, drops)
    BY <1>6 DEF OnRpc
  <2>. QED BY <1>6, <2>1, OnSetSpawnInfoKeeps
<1>7. CASE Heeded(x, e.id) /\ e.id = "ConnectionRejected"
  <2>1. y = OnDisconnect(x, "Rejected")
    BY <1>7 DEF OnRpc
  <2>. QED BY <2>1, DisconnectKeeps, DisconnectFields DEF TerminalReasons
<1>8. CASE Heeded(x, e.id) /\ e.id = "ClientCheck"
  <2>1. y = IF Scripts = {} THEN x ELSE SendPacket(x)
    BY <1>8 DEF OnRpc
  <2>. QED BY <2>1, Reflexive, SendPacketKeeps
<1>9. CASE /\ Heeded(x, e.id)
           /\ e.id \notin {"InitGame", "RequestClass", "RequestSpawn", "ClientCheck",
                           "TogglePlayerSpectating", "SetSpawnInfo", "ConnectionRejected"}
  <2>1. y = x
    BY <1>9 DEF OnRpc
  <2>. QED BY <2>1, Reflexive
<1>. QED BY <1>1, <1>2, <1>3, <1>4, <1>5, <1>6, <1>7, <1>8, <1>9

LEMMA StepWalkKeeps ==
  ASSUME NEW x \in DriverRecord, NEW elapsed
  PROVE  LET y == StepWalk(x, elapsed) IN
         y \in DriverRecord /\ Like(x, y) /\ (Informed(x) => Informed(y))
<1>1. CASE x.walk /\ elapsed
  <2>1. StepWalk(x, elapsed) = [x EXCEPT !.walk = FALSE, !.walking = FALSE]
    BY <1>1 DEF StepWalk
  <2>. QED BY <2>1 DEF DriverRecord, Like, Informed
<1>2. CASE ~(x.walk /\ elapsed)
  BY <1>2 DEF StepWalk, Like
<1>. QED BY <1>1, <1>2

LEMMA StopWalkKeeps ==
  ASSUME NEW x \in DriverRecord
  PROVE  LET y == StopWalk(x) IN
         y \in DriverRecord /\ Like(x, y) /\ (Informed(x) => Informed(y))
<1>1. Like(x, StopWalk(x)) /\ (Informed(x) => Informed(StopWalk(x)))
  BY DEF DriverRecord, StopWalk, Like, Informed
<1>. QED BY <1>1, StopWalkType

\* The self-spawn fallback aside, a tick moves no driver on; and a driver that
\* still stands where its transport has died learns of it.
LEMMA OnSyncTickKeeps ==
  ASSUME NEW x \in DriverRecord, NEW elapsed, NEW drops
  PROVE  LET y == OnSyncTick(x, elapsed, drops) IN
         /\ Carries(x, y) /\ y.terminal = x.terminal
         /\ ~SelfSpawn => /\ KeepsGrant(x, y) /\ KeepsCalm(x, y) /\ Idles(x, y)
                          /\ Late(x, x.linked) => Early(y)
<1> DEFINE y == OnSyncTick(x, elapsed, drops)
<1>1. CASE x.spectating /\ x.state # "Spawned"
  <2> DEFINE s == SendPacket(x)
             z == [s EXCEPT !.spectating = FALSE]
  <2>1. /\ s \in DriverRecord /\ Carries(x, s) /\ KeepsGrant(x, s) /\ KeepsCalm(x, s)
        /\ Idles(x, s) /\ s.terminal = x.terminal
    BY SendPacketKeeps DEF Carries
  <2>2. y = PrespawnPoll(s, elapsed, drops)
    BY <1>1 DEF OnSyncTick
  <2>3. ASSUME ~SelfSpawn PROVE y = s
    BY <2>2, <2>3 DEF PrespawnPoll
  <2>4. Early(s)
    BY <1>1, SendPacketKeeps DEF Early
  <2>5. y = s \/ y = EnterSpawned(z, drops)
    BY <2>2 DEF PrespawnPoll
  <2>. HIDE DEF s, y
  <2>6. z \in DriverRecord /\ Like(s, z) /\ (Informed(s) => Informed(z))
    BY <2>1 DEF DriverRecord, Like, Informed
  <2>. HIDE DEF z
  <2>7. Carries(s, z) /\ z.terminal = s.terminal
    BY <2>6, LikeKeeps
  <2>8. CASE y = s
    BY <2>1, <2>3, <2>4, <2>8 DEF y
  <2>9. CASE y = EnterSpawned(z, drops)
    <3>1. Carries(z, y) /\ y.terminal = z.terminal
      BY <2>6, <2>9, EnterSpawnedKeeps
    <3>2. Carries(x, y) /\ y.terminal = x.terminal
      BY <2>1, <2>7, <3>1, Transitive
    <3>. QED BY <2>1, <2>3, <2>4, <3>2 DEF y
  <2>. QED BY <2>5, <2>8, <2>9
<1>2. CASE ~(x.spectating /\ x.state # "Spawned")
  <2> DEFINE w == StepWalk(x, elapsed)
  <2>1. y = SendPacket(w)
    BY <1>2 DEF OnSyncTick
  <2>2. /\ w \in DriverRecord /\ Carries(x, w) /\ KeepsGrant(x, w) /\ KeepsCalm(x, w)
        /\ Idles(x, w) /\ w.terminal = x.terminal /\ w.linked = x.linked
    BY StepWalkKeeps, LikeKeeps DEF Carries
  <2>. HIDE DEF w, y
  <2>3. /\ Carries(w, y) /\ KeepsGrant(w, y) /\ KeepsCalm(w, y) /\ Idles(w, y)
        /\ y.terminal = w.terminal /\ y.linked = w.linked
    BY <2>1, <2>2, SendPacketKeeps DEF Carries
  <2>4. /\ Carries(x, y) /\ KeepsGrant(x, y) /\ KeepsCalm(x, y) /\ Idles(x, y)
        /\ y.terminal = x.terminal
    BY <2>2, <2>3, Transitive
  <2>5. ASSUME Late(x, x.linked) PROVE Early(y)
    <3>1. CASE x.linked
      <4>1. Late(y, y.linked) /\ y.linked
        BY <2>2, <2>3, <2>4, <2>5, <3>1 DEF KeepsCalm
      <4>. QED BY <4>1 DEF Late, Early
    <3>2. CASE ~x.linked
      BY <2>1, <2>2, <3>2, SendPacketKeeps DEF Early
    <3>. QED BY <3>1, <3>2
  <2>. QED BY <2>4, <2>5 DEF y
<1>. QED BY <1>1, <1>2

\* The end of the transport is a disconnect, unless one is known already.
LEMMA OnTransportClosedKeeps ==
  ASSUME NEW x \in DriverRecord
  PROVE  LET y == OnTransportClosed(x) IN
         /\ Carries(x, y) /\ KeepsGrant(x, y) /\ KeepsCalm(x, y) /\ Going(y)
         /\ y.terminal = x.terminal
         /\ x.state \in {"Connecting", "Disconnected"} =>
               y.state \in {"Connecting", "Disconnected"}
<1> DEFINE z == [x EXCEPT !.closed = TRUE]
           y == OnTransportClosed(x)
<1>1. /\ z \in DriverRecord /\ z.closed
      /\ x.state = z.state /\ x.linked = z.linked /\ x.dials = z.dials /\ x.seen = z.seen
      /\ x.timer = z.timer /\ x.terminal = z.terminal
      /\ x.attempts = z.attempts /\ x.connected_since = z.connected_since
      /\ x.sent = z.sent /\ x.sync_timer = z.sync_timer /\ x.walk = z.walk
      /\ x.asked = z.asked /\ x.spawn_info = z.spawn_info
  BY DEF DriverRecord
<1>2. y = IF x.timer = Unset /\ x.state # "Disconnected"
          THEN OnDisconnect(z, "ConnectionLost") ELSE z
  BY DEF OnTransportClosed
<1>. HIDE DEF y, z
<1>3. KeepsGrant(x, z) /\ KeepsCalm(x, z)
  BY <1>1 DEF KeepsGrant, Granted, KeepsCalm, Walked, Late, Early, Counted
<1>4. CASE x.timer = Unset /\ x.state # "Disconnected"
  <2>1. /\ Carries(z, y) /\ KeepsGrant(z, y) /\ KeepsCalm(z, y) /\ Going(y) /\ Caused(y)
        /\ y.terminal = z.terminal /\ y.state = "Disconnected"
    BY <1>1, <1>2, <1>4, DisconnectKeeps, DisconnectFields DEF TerminalReasons
  <2>2. Carries(x, y)
    BY <1>1, <2>1 DEF Carries, Informed
  <2>. QED BY <1>1, <1>3, <2>1, <2>2, Transitive DEF y
<1>5. CASE ~(x.timer = Unset /\ x.state # "Disconnected")
  <2>1. y = z
    BY <1>2, <1>5
  <2>2. Carries(x, z) /\ Going(z)
    BY <1>1, <1>5 DEF Carries, Informed, Caused, GivenUp, Going
  <2>. QED BY <1>1, <1>3, <2>1, <2>2 DEF y
<1>. QED BY <1>4, <1>5

LEMMA StartWalkKeeps ==
  ASSUME NEW x \in DriverRecord, NEW path
  PROVE  LET y == StartWalk(x, path) IN
         /\ Carries(x, y) /\ KeepsGrant(x, y) /\ KeepsCalm(x, y) /\ Idles(x, y)
         /\ y.terminal = x.terminal
<1> DEFINE z == [x EXCEPT !.walking = FALSE]
           w == [x EXCEPT !.walk = TRUE, !.walking = TRUE]
           y == StartWalk(x, path)
<1>1. CASE path /\ x.state = "Spawned"
  <2>1. w \in DriverRecord
    BY DEF DriverRecord
  <2>2. y = Note(w, "walk")
    BY <1>1 DEF StartWalk
  <2>3. y \in DriverRecord
    BY <2>1, <2>2, NoteType DEF Noteworthy
  <2>4. /\ x.state = y.state /\ x.linked = y.linked /\ x.dials = y.dials
        /\ x.timer = y.timer /\ x.closed = y.closed /\ x.terminal = y.terminal
        /\ x.attempts = y.attempts /\ x.connected_since = y.connected_since
        /\ x.sent = y.sent /\ x.sync_timer = y.sync_timer
        /\ x.asked = y.asked /\ x.spawn_info = y.spawn_info
        /\ y.seen = x.seen \cup {"walk"}
    BY <2>2 DEF DriverRecord, Note
  <2>. HIDE DEF y
  <2>5. Carries(x, y)
    BY <2>3, <2>4 DEF Carries, Informed, Caused, GivenUp, Going
  <2>6. KeepsGrant(x, y) /\ Idles(x, y)
    BY <2>4 DEF KeepsGrant, Granted, Idles
  <2>7. KeepsCalm(x, y)
    BY <1>1, <2>4 DEF KeepsCalm, Walked, Late, Early, Counted
  <2>. QED BY <2>4, <2>5, <2>6, <2>7 DEF y
<1>2. CASE ~(path /\ x.state = "Spawned")
  <2>1. y = z
    BY <1>2 DEF StartWalk
  <2>2. z \in DriverRecord /\ Like(x, z) /\ (Informed(x) => Informed(z))
    BY DEF DriverRecord, Like, Informed
  <2>. HIDE DEF z
  <2>. QED BY <2>1, <2>2, LikeKeeps
<1>. QED BY <1>1, <1>2

\* A reconnect a script asks for disturbs the session, no other wish does.
LEMMA PollBotActionsKeeps ==
  ASSUME NEW x \in DriverRecord, NEW flags, NEW path, NEW drops
  PROVE  LET y == PollBotActions(x, flags, path, drops) IN
         /\ Carries(x, y) /\ y.terminal = x.terminal
         /\ "reconnect" \in flags => y.timer # Unset
         /\ ~SelfSpawn => KeepsGrant(x, y)
         /\ ~SelfSpawn /\ "reconnect" \notin flags => KeepsCalm(x, y) /\ Idles(x, y)
         /\ flags \cap {"spawn", "reconnect"} = {} => (Ended(x) => Ended(y))
<1> DEFINE stopped == IF "stop" \in flags THEN StopWalk(x) ELSE x
           walked  == IF "walk" \in flags THEN StartWalk(stopped, path) ELSE stopped
           asked   == IF "spawn" \in flags /\ walked.spectating
                      THEN RequestSpawn(walked, "script", drops) ELSE walked
           synced  == IF "sync" \in flags /\ asked.state = "Spawned"
                      THEN OnSyncTick(asked, path, drops) ELSE asked
           gone    == [Transition(synced, "Disconnected") EXCEPT !.closed = TRUE, !.timer = Delay]
           y       == PollBotActions(x, flags, path, drops)
<1>1. y = IF "reconnect" \in flags THEN gone ELSE synced
  BY DEF PollBotActions
<1>2. /\ stopped \in DriverRecord /\ Carries(x, stopped) /\ KeepsGrant(x, stopped)
      /\ KeepsCalm(x, stopped) /\ Idles(x, stopped) /\ stopped.terminal = x.terminal
      /\ stopped.timer = x.timer /\ stopped.closed = x.closed /\ stopped.state = x.state
  BY StopWalkKeeps, LikeKeeps, Reflexive DEF Like
<1>. HIDE DEF stopped
<1>3. /\ walked \in DriverRecord /\ Carries(stopped, walked) /\ KeepsGrant(stopped, walked)
      /\ KeepsCalm(stopped, walked) /\ Idles(stopped, walked)
      /\ walked.terminal = stopped.terminal
  BY <1>2, StartWalkKeeps, Reflexive DEF Carries
<1>4. stopped.state = "Disconnected" =>
         /\ walked.timer = stopped.timer /\ walked.closed = stopped.closed
         /\ walked.state = stopped.state
  BY <1>2 DEF StartWalk, DriverRecord
<1>. HIDE DEF walked
<1>5. /\ asked \in DriverRecord /\ Carries(walked, asked) /\ KeepsGrant(walked, asked)
      /\ KeepsCalm(walked, asked) /\ Idles(walked, asked) /\ asked.terminal = walked.terminal
  BY <1>3, RequestSpawnKeeps, Reflexive DEF Carries, Whys
<1>6. "spawn" \notin flags => asked = walked
  OBVIOUS
<1>. HIDE DEF asked
<1>7. /\ synced \in DriverRecord /\ Carries(asked, synced) /\ synced.terminal = asked.terminal
      /\ ~SelfSpawn => /\ KeepsGrant(asked, synced) /\ KeepsCalm(asked, synced)
                       /\ Idles(asked, synced)
  BY <1>5, OnSyncTickKeeps, Reflexive DEF Carries
<1>8. asked.state = "Disconnected" => synced = asked
  OBVIOUS
<1>. HIDE DEF synced
<1>9. Carries(x, synced) /\ synced.terminal = x.terminal
  BY <1>2, <1>3, <1>5, <1>7, Transitive
<1>10. ~SelfSpawn => KeepsGrant(x, synced) /\ KeepsCalm(x, synced) /\ Idles(x, synced)
  BY <1>2, <1>3, <1>5, <1>7, Transitive DEF Carries
<1>11. flags \cap {"spawn", "reconnect"} = {} => (Ended(x) => Ended(y))
  BY <1>1, <1>2, <1>3, <1>4, <1>6, <1>8, <1>9 DEF Ended
<1>12. CASE "reconnect" \in flags
  <2> DEFINE t == Transition(synced, "Disconnected")
  <2>1. t \in DriverRecord
    BY <1>7, TransitionType DEF States
  <2>2. /\ t.linked = synced.linked /\ t.dials = synced.dials /\ t.seen = synced.seen
        /\ t.sent = synced.sent /\ t.asked = synced.asked /\ t.spawn_info = synced.spawn_info
        /\ t.terminal = synced.terminal /\ t.state = "Disconnected"
    BY <1>7 DEF DriverRecord, Transition
  <2> DEFINE left == [t EXCEPT !.closed = TRUE, !.timer = Delay]
  <2>7. y = left
    BY <1>1, <1>12, Zenon
  <2>. HIDE DEF t
  <2>3. Delay \in Unset..Delay /\ Delay # Unset
    BY DriverAssumption DEF Unset
  <2>4. left \in DriverRecord
    BY <2>1, <2>3 DEF DriverRecord
  <2>5. /\ left.linked = t.linked /\ left.dials = t.dials /\ left.seen = t.seen
        /\ left.sent = t.sent /\ left.asked = t.asked /\ left.spawn_info = t.spawn_info
        /\ left.terminal = t.terminal /\ left.state = t.state /\ left.timer = Delay
    BY <2>1 DEF DriverRecord
  <2>. HIDE DEF left
  <2>6. Carries(synced, left) /\ KeepsGrant(synced, left)
    BY <2>2, <2>3, <2>4, <2>5
       DEF Carries, Informed, Caused, Going, KeepsGrant, Granted
  <2>8. Carries(x, y) /\ (~SelfSpawn => KeepsGrant(x, y)) /\ y.terminal = x.terminal
    BY <1>9, <1>10, <2>2, <2>5, <2>6, <2>7, Transitive
  <2>. QED BY <1>11, <1>12, <2>3, <2>5, <2>7, <2>8
<1>13. CASE "reconnect" \notin flags
  <2>1. y = synced
    BY <1>1, <1>13
  <2>. HIDE DEF y
  <2>. QED BY <1>9, <1>10, <1>11, <1>13, <2>1 DEF y
<1>. QED BY <1>12, <1>13

-----------------------------------------------------------------------------
(* The invariant.  Some parts of it hold only where the application, or its   *)
(* scripts, leave the session alone; each such part says where.              *)

\* Nothing spawns the client without its server's word, and no script cuts a
\* session off.
Calm == ~SelfSpawn /\ "reconnect" \notin Scripts

\* Nothing acts on a driver that has just ended.
Quiet == ~Stdin /\ Scripts \cap {"spawn", "outbox", "reconnect"} = {}

PeerEvent  == ServerRpcs \cup [id : Reasons \cup {"Connected"}, arg : 0..1]
PeerRecord == [alive : BOOLEAN, up : BOOLEAN, leaving : BOOLEAN, inbox : Seq(PeerEvent)]

Queued(p) ==
    /\ p \in PeerRecord
    /\ Len(p.inbox) <= MaxInbox + 1 /\ (p.alive => Len(p.inbox) <= MaxInbox)
    /\ \A i \in 1..Len(p.inbox) : p.inbox[i].id = "Local" => p.leaving
    /\ Calm => ~p.leaving

\* The transport says Connected first, and its driver is waiting for it.
Waiting(x, p) ==
    /\ \A i \in 1..Len(p.inbox) : p.inbox[i].id = "Connected" =>
          /\ i = 1 /\ p.up /\ x.state \in {"Connecting", "Disconnected"}
          /\ p.alive => x.state = "Connecting" /\ x.timer = Unset
    /\ p.alive /\ ~p.up => p.inbox = << >> /\ x.state = "Connecting" /\ x.timer = Unset

Sound(x, p) ==
    /\ x \in DriverRecord /\ Informed(x)
    /\ ~SelfSpawn => Granted(x)
    /\ Calm => Walked(x) /\ Late(x, p.alive) /\ Early(x)
    /\ Quiet => Ended(x)

\* A driver that is not dialing has a cause for where it stands.
OnCourse(x, p) == ~Stdin =>
    /\ Caused(x)
    /\ p.leaving => Going(x)
    /\ Calm => Counted(x)

Dials ==
    /\ d.timer = Unset /\ ~d.closed /\ ~done
    /\ Calm => d.state # "Spawned" /\ (peer.alive => d.state = "Disconnected")
    /\ Calm /\ ~Stdin => Counted(d) /\ d.connected_since = "never"
    /\ Quiet => ~d.terminal

Rests == ~Stdin =>
    /\ Caused(d)
    /\ peer.leaving => Going(d)
    /\ Calm => d.dials <= MaxAttempts /\ (Counted(d) \/ (d.closed /\ d.timer = Unset))

IInv ==
    /\ dialing \in BOOLEAN /\ done \in BOOLEAN
    /\ Queued(peer) /\ Sound(d, peer) /\ (Calm => Waiting(d, peer))
    /\ IF dialing THEN Dials ELSE Rests
    /\ ~Stdin /\ done => GivenUp(d)

\* What a handler keeps of a driver that is about its pass.
LEMMA Handled ==
  ASSUME NEW x, NEW y, NEW p, Sound(x, p), OnCourse(x, p), x.linked = p.alive,
         Carries(x, y), ~SelfSpawn => KeepsGrant(x, y), Calm => KeepsCalm(x, y),
         Quiet => Ended(y)
  PROVE  Sound(y, p) /\ OnCourse(y, p) /\ y.linked = p.alive
<1>1. y \in DriverRecord /\ Informed(y) /\ y.linked = p.alive
  BY DEF Sound, Carries
<1>2. ~SelfSpawn => Granted(y)
  BY DEF Sound, KeepsGrant
<1>3. Calm => Walked(y) /\ Late(y, p.alive) /\ Early(y)
  BY <1>1 DEF Sound, KeepsCalm
<1>4. OnCourse(y, p)
  BY DEF OnCourse, Carries, KeepsCalm
<1>. QED BY <1>1, <1>2, <1>3, <1>4 DEF Sound

LEMMA FinishKeeps ==
  ASSUME NEW x \in DriverRecord, NEW p \in PeerRecord, NEW drops, Finish(x, p, drops)
  PROVE  /\ Carries(x, d')
         /\ ~SelfSpawn => KeepsGrant(x, d')
         /\ Calm => KeepsCalm(x, d') /\ Idles(x, d')
         /\ Quiet => (Ended(x) => Ended(d'))
         /\ peer' \in PeerRecord /\ peer'.alive = p.alive /\ peer'.up = p.up
         /\ peer'.inbox = p.inbox
         /\ p.leaving => peer'.leaving
         /\ peer'.leaving => p.leaving \/ (~Calm /\ d'.timer # Unset)
<1>1. PICK queued \in Can("outbox"), path \in Can("walk"), flags \in SUBSET Flags :
         /\ d' = PollBotActions(IF queued THEN SendPacket(x) ELSE x, flags, path, drops)
         /\ peer' = [p EXCEPT !.leaving = p.leaving \/ "reconnect" \in flags]
  BY DEF Finish
<1> DEFINE s == IF queued THEN SendPacket(x) ELSE x
<1>2. /\ s \in DriverRecord /\ Carries(x, s) /\ KeepsGrant(x, s) /\ KeepsCalm(x, s)
      /\ Idles(x, s) /\ s.linked = x.linked
  BY SendPacketKeeps, Reflexive DEF Carries
<1>3. "outbox" \notin Scripts => s = x
  BY <1>1 DEF Can
<1>4. d' = PollBotActions(s, flags, path, drops)
  BY <1>1
<1>. HIDE DEF s
<1>5. flags \subseteq Scripts
  BY <1>1 DEF Flags
<1>6. /\ Carries(s, d')
      /\ "reconnect" \in flags => d'.timer # Unset
      /\ ~SelfSpawn => KeepsGrant(s, d')
      /\ ~SelfSpawn /\ "reconnect" \notin flags => KeepsCalm(s, d') /\ Idles(s, d')
      /\ flags \cap {"spawn", "reconnect"} = {} => (Ended(s) => Ended(d'))
  BY <1>2, <1>4, PollBotActionsKeeps
<1>7. Carries(x, d') /\ (~SelfSpawn => KeepsGrant(x, d'))
  BY <1>2, <1>6, Transitive
<1>8. Calm => KeepsCalm(x, d') /\ Idles(x, d')
  BY <1>2, <1>5, <1>6, Transitive DEF Calm
<1>9. Quiet => (Ended(x) => Ended(d'))
  BY <1>3, <1>5, <1>6 DEF Quiet
<1>10. /\ peer' \in PeerRecord /\ peer'.alive = p.alive /\ peer'.up = p.up
       /\ peer'.inbox = p.inbox /\ peer'.leaving = (p.leaving \/ "reconnect" \in flags)
  <2>1. PICK l \in BOOLEAN : l = (p.leaving \/ "reconnect" \in flags)
    OBVIOUS
  <2>2. peer' = [p EXCEPT !.leaving = l]
    BY <1>1, <2>1, Zenon
  <2>. QED BY <2>1, <2>2 DEF PeerRecord
<1>. QED BY <1>5, <1>6, <1>7, <1>8, <1>9, <1>10 DEF Calm

\* The end of a pass: what held of the record it is given holds of the driver.
LEMMA PassKeeps ==
  ASSUME NEW x, NEW p, NEW drops,
         Sound(x, p), OnCourse(x, p), x.linked = p.alive, Queued(p),
         Calm => Waiting(x, p),
         Finish(x, p, drops), dialing' = FALSE, done = FALSE, done' = done
  PROVE  IInv'
<1>1. x \in DriverRecord /\ p \in PeerRecord
  BY DEF Sound, Queued
<1>2. /\ Carries(x, d') /\ (~SelfSpawn => KeepsGrant(x, d'))
      /\ Calm => KeepsCalm(x, d') /\ Idles(x, d')
      /\ Quiet => (Ended(x) => Ended(d'))
      /\ peer' \in PeerRecord /\ peer'.alive = p.alive /\ peer'.up = p.up
      /\ peer'.inbox = p.inbox
      /\ p.leaving => peer'.leaving
      /\ peer'.leaving => p.leaving \/ (~Calm /\ d'.timer # Unset)
  BY <1>1, FinishKeeps
<1>3. Sound(d', p) /\ OnCourse(d', p)
  BY <1>2, Handled DEF Sound
<1>4. Sound(d', peer')
  BY <1>2, <1>3 DEF Sound
<1>5. Queued(peer')
  BY <1>2 DEF Queued
<1>6. Calm => Waiting(d', peer')
  BY <1>2 DEF Waiting, Idles
<1>7. Rests'
  BY <1>2, <1>3 DEF Rests, OnCourse, Going, Counted
<1>. QED BY <1>4, <1>5, <1>6, <1>7 DEF IInv

-----------------------------------------------------------------------------
(* The steps.                                                                *)

LEMMA FreshFields ==
  ASSUME IInv
  PROVE  /\ Fresh \in DriverRecord /\ Informed(Fresh) /\ (~SelfSpawn => Granted(Fresh))
         /\ Fresh.linked = peer.alive /\ Fresh.state = d.state /\ Fresh.timer = d.timer
         /\ Fresh.closed = d.closed /\ Fresh.attempts = d.attempts /\ Fresh.dials = d.dials
         /\ Fresh.connected_since = d.connected_since /\ Fresh.walk = d.walk
         /\ Fresh.seen = d.seen /\ Fresh.sync_timer = d.sync_timer
         /\ Fresh.terminal = d.terminal /\ Fresh.spectating = d.spectating
         /\ Fresh.sent = {} /\ Fresh.asked = "no"
<1>1. d \in DriverRecord /\ peer.alive \in BOOLEAN
  BY DEF IInv, Sound, Queued, PeerRecord
<1>2. ASSUME NEW l \in BOOLEAN
      PROVE  [d EXCEPT !.sent = {}, !.asked = "no", !.linked = l] \in DriverRecord
  BY <1>1 DEF DriverRecord, Whys
<1>3. Fresh \in DriverRecord
  BY <1>1, <1>2 DEF Fresh
<1>4. /\ Fresh.linked = peer.alive /\ Fresh.state = d.state /\ Fresh.timer = d.timer
      /\ Fresh.closed = d.closed /\ Fresh.attempts = d.attempts /\ Fresh.dials = d.dials
      /\ Fresh.connected_since = d.connected_since /\ Fresh.walk = d.walk
      /\ Fresh.seen = d.seen /\ Fresh.sync_timer = d.sync_timer
      /\ Fresh.terminal = d.terminal /\ Fresh.spectating = d.spectating
      /\ Fresh.sent = {} /\ Fresh.asked = "no" /\ Fresh.spawn_info = d.spawn_info
  BY <1>1 DEF DriverRecord, Fresh
<1>. HIDE DEF Fresh
<1>5. Informed(Fresh) /\ (~SelfSpawn => Granted(Fresh))
  BY <1>4 DEF IInv, Sound, Informed, Granted
<1>. QED BY <1>3, <1>4, <1>5

\* A pass starts from a driver that may still act, and has not ended.
LEMMA FreshSound ==
  ASSUME IInv, Pumped
  PROVE  /\ Sound(Fresh, peer) /\ OnCourse(Fresh, peer) /\ Fresh.linked = peer.alive
         /\ Queued(peer) /\ (Calm => Waiting(Fresh, peer))
         /\ Quiet => ~Fresh.terminal
<1>1. Quiet => ~d.terminal
  BY DEF IInv, Sound, Ended, Pumped
<1>2. Calm => Walked(Fresh) /\ Late(Fresh, peer.alive) /\ Early(Fresh)
  BY FreshFields DEF IInv, Sound, Walked, Late, Early
<1>3. Sound(Fresh, peer)
  BY <1>1, <1>2, FreshFields DEF Sound, Ended
<1>4. OnCourse(Fresh, peer)
  BY FreshFields DEF IInv, Rests, Pumped, OnCourse, Caused, GivenUp, Going, Counted
<1>5. Calm => Waiting(Fresh, peer)
  BY FreshFields DEF IInv, Waiting
<1>. QED BY <1>1, <1>3, <1>4, <1>5, FreshFields DEF IInv

LEMMA UpdateStep ==
  ASSUME IInv, Update
  PROVE  IInv'
<1>1. Pumped /\ ~done /\ dialing' = FALSE /\ done' = done
  BY DEF Update, Pumped, IInv
<1>2. PICK drops \in Can("drop") : Finish(Fresh, peer, drops)
  BY DEF Update
<1>. QED BY <1>1, <1>2, FreshSound, PassKeeps DEF IInv

\* A tick may bring the reconnect to the brink of its time: the send it makes
\* then fails, where a session is left.
LEMMA SyncTickStep ==
  ASSUME IInv, SyncTick
  PROVE  IInv'
<1> DEFINE timed == [Fresh EXCEPT !.timer = IF @ = Unset THEN @ ELSE @ - 1]
<1>1. Pumped /\ done = FALSE /\ dialing' = FALSE /\ done' = done /\ d.timer # 0
  BY DEF SyncTick, Pumped, IInv
<1>2. PICK drops \in Can("drop"), elapsed \in BOOLEAN :
         Finish(OnSyncTick(timed, elapsed, drops), peer, drops)
  BY DEF SyncTick
<1> DEFINE y == OnSyncTick(timed, elapsed, drops)
<1>3. /\ Sound(Fresh, peer) /\ OnCourse(Fresh, peer) /\ Queued(peer)
      /\ Calm => Waiting(Fresh, peer)
      /\ Quiet => ~Fresh.terminal
  BY <1>1, FreshSound
<1>4. Fresh \in DriverRecord /\ Fresh.timer # 0 /\ Fresh.linked = peer.alive
  BY <1>1, FreshFields
<1>. HIDE DEF Fresh
<1>5. /\ timed.state = Fresh.state /\ timed.linked = Fresh.linked /\ timed.dials = Fresh.dials
      /\ timed.seen = Fresh.seen /\ timed.closed = Fresh.closed
      /\ timed.terminal = Fresh.terminal /\ timed.attempts = Fresh.attempts
      /\ timed.connected_since = Fresh.connected_since /\ timed.walk = Fresh.walk
      /\ timed.sync_timer = Fresh.sync_timer /\ timed.sent = Fresh.sent
      /\ timed.asked = Fresh.asked /\ timed.spawn_info = Fresh.spawn_info
      /\ timed.timer = (IF Fresh.timer = Unset THEN Unset ELSE Fresh.timer - 1)
  BY <1>4 DEF DriverRecord
<1>6. timed \in DriverRecord
  <2>1. (IF Fresh.timer = Unset THEN Fresh.timer ELSE Fresh.timer - 1) \in Unset..Delay
    BY <1>4, DriverAssumption DEF DriverRecord, Unset
  <2>. QED BY <1>4, <2>1 DEF DriverRecord
<1>7. timed.timer = Unset <=> Fresh.timer = Unset
  BY <1>4, <1>5, DriverAssumption DEF DriverRecord, Unset
<1>. HIDE DEF timed
<1>8. Informed(timed) /\ (~SelfSpawn => Granted(timed)) /\ OnCourse(timed, peer)
  BY <1>3, <1>5, <1>7 DEF Sound, Informed, Granted, OnCourse, Caused, GivenUp, Going, Counted
<1>9. Calm => /\ Walked(timed) /\ Late(timed, peer.alive) /\ Waiting(timed, peer)
  BY <1>3, <1>5, <1>7 DEF Sound, Walked, Late, Waiting
<1>10. /\ Carries(timed, y) /\ y.terminal = timed.terminal
       /\ ~SelfSpawn => /\ KeepsGrant(timed, y) /\ KeepsCalm(timed, y) /\ Idles(timed, y)
                        /\ Late(timed, timed.linked) => Early(y)
  BY <1>6, OnSyncTickKeeps
<1>. HIDE DEF y
<1>11. y \in DriverRecord /\ Informed(y) /\ y.linked = peer.alive
  BY <1>4, <1>5, <1>8, <1>10 DEF Carries
<1>12. Calm => Walked(y) /\ Late(y, peer.alive) /\ Early(y)
  BY <1>4, <1>5, <1>9, <1>10, <1>11 DEF KeepsCalm, Calm
<1>13. Sound(y, peer)
  BY <1>3, <1>5, <1>8, <1>10, <1>11, <1>12 DEF Sound, KeepsGrant, Ended
<1>14. OnCourse(y, peer)
  BY <1>8, <1>10 DEF OnCourse, Carries, KeepsCalm, Calm
<1>15. Calm => Waiting(y, peer)
  BY <1>4, <1>5, <1>9, <1>10 DEF Waiting, Idles, Calm
<1>. QED BY <1>1, <1>2, <1>3, <1>11, <1>13, <1>14, <1>15, PassKeeps DEF y

\* What is left of the inbox, once its head is taken.
LEMMA Rest ==
  ASSUME Queued(peer), peer.inbox # << >>
  PROVE  LET rest == [peer EXCEPT !.inbox = Tail(peer.inbox)] IN
         /\ Queued(rest) /\ rest.alive = peer.alive /\ rest.leaving = peer.leaving
         /\ Head(peer.inbox).id = "Local" => peer.leaving
         /\ \A x, y : Waiting(x, peer) => Waiting(y, rest)
<1> DEFINE rest == [peer EXCEPT !.inbox = Tail(peer.inbox)]
<1>1. peer \in PeerRecord /\ peer.inbox \in Seq(PeerEvent)
  BY DEF Queued, PeerRecord
<1>2. /\ Tail(peer.inbox) \in Seq(PeerEvent) /\ Len(Tail(peer.inbox)) = Len(peer.inbox) - 1
      /\ Len(peer.inbox) \in Nat \ {0} /\ Head(peer.inbox) = peer.inbox[1]
      /\ \A i \in 1..Len(Tail(peer.inbox)) : Tail(peer.inbox)[i] = peer.inbox[i + 1]
  BY <1>1
<1>3. /\ rest \in PeerRecord /\ rest.alive = peer.alive /\ rest.leaving = peer.leaving
      /\ rest.up = peer.up /\ rest.inbox = Tail(peer.inbox)
  BY <1>1, <1>2 DEF PeerRecord
<1>. HIDE DEF rest
<1>4. \A i \in 1..Len(rest.inbox) : i + 1 \in 1..Len(peer.inbox) /\ rest.inbox[i] = peer.inbox[i + 1]
  BY <1>2, <1>3
<1>5. Queued(rest)
  BY <1>2, <1>3, <1>4, DriverAssumption DEF Queued
<1>6. Head(peer.inbox).id = "Local" => peer.leaving
  BY <1>2 DEF Queued
<1>7. ASSUME NEW x, NEW y, Waiting(x, peer)
      PROVE  Waiting(y, rest)
  <2>1. ASSUME NEW i \in 1..Len(rest.inbox) PROVE rest.inbox[i].id # "Connected"
    BY <1>2, <1>3, <1>4, <1>7, <2>1 DEF Waiting
  <2>2. ~(rest.alive /\ ~rest.up)
    BY <1>3, <1>7 DEF Waiting
  <2>. QED BY <2>1, <2>2 DEF Waiting
<1>. QED BY <1>3, <1>5, <1>6, <1>7 DEF rest

LEMMA ReceiveStep ==
  ASSUME IInv, Receive
  PROVE  IInv'
<1> DEFINE e    == Head(peer.inbox)
           rest == [peer EXCEPT !.inbox = Tail(peer.inbox)]
<1>1. /\ Pumped /\ done = FALSE /\ dialing' = FALSE /\ done' = done
      /\ d.timer # 0 /\ peer.inbox # << >>
  BY DEF Receive, Pumped, IInv
<1>2. /\ Sound(Fresh, peer) /\ OnCourse(Fresh, peer) /\ Fresh.linked = peer.alive
      /\ Queued(peer) /\ (Calm => Waiting(Fresh, peer)) /\ (Quiet => ~Fresh.terminal)
  BY <1>1, FreshSound
<1>3. Fresh \in DriverRecord /\ Informed(Fresh) /\ Fresh.timer # 0
  BY <1>1, FreshFields
<1>4. /\ Queued(rest) /\ rest.alive = peer.alive /\ rest.leaving = peer.leaving
      /\ e.id = "Local" => peer.leaving
      /\ \A x, y : Waiting(x, peer) => Waiting(y, rest)
  BY <1>1, <1>2, Rest
<1>5. PICK drops \in Can("drop"), queued \in Can("outbox"), consumed \in Can("drop") :
         CASE e.id = "Connected" ->
                 Finish(OnConnected(Fresh, e.arg = 1, drops), rest, drops)
           [] e.id \in Reasons ->
                 Finish(OnDisconnect(Fresh, e.id), rest, drops)
           [] OTHER ->
                 Finish(IF consumed THEN Fresh
                        ELSE OnRpc(Noted(Fresh, e), e, queued, drops), rest, drops)
  BY DEF Receive
<1>6. "Connected" \notin Reasons
  BY DEF Reasons, TerminalReasons
<1>7. e.id = "Connected" /\ Calm => Ready(Fresh)
  BY <1>1, <1>2 DEF Waiting, Ready, Queued, PeerRecord
<1>. HIDE DEF Fresh, rest, e
<1>8. ASSUME NEW y, Sound(y, peer), OnCourse(y, peer), y.linked = peer.alive,
             Finish(y, rest, drops)
      PROVE  IInv'
  <2>1. Sound(y, rest) /\ OnCourse(y, rest) /\ y.linked = rest.alive
    BY <1>4, <1>8 DEF Sound, OnCourse
  <2>. QED BY <1>1, <1>2, <1>4, <1>8, <2>1, PassKeeps
<1>9. ASSUME NEW y, Carries(Fresh, y), KeepsGrant(Fresh, y), Calm => KeepsCalm(Fresh, y),
             y.terminal = Fresh.terminal, Finish(y, rest, drops)
      PROVE  IInv'
  <2>1. Quiet => Ended(y)
    BY <1>2, <1>9 DEF Ended
  <2>. QED BY <1>2, <1>8, <1>9, <2>1, Handled
<1>10. CASE e.id = "Connected"
  <2>1. PICK garbled \in BOOLEAN : garbled = (e.arg = 1)
    OBVIOUS
  <2>2. Finish(OnConnected(Fresh, e.arg = 1, drops), rest, drops)
    BY <1>5, <1>6, <1>10
  <2>3. Finish(OnConnected(Fresh, garbled, drops), rest, drops)
    BY <2>1, <2>2, Zenon
  <2>. QED BY <1>3, <1>7, <1>9, <1>10, <2>3, OnConnectedKeeps
<1>11. CASE e.id \in Reasons
  <2> DEFINE y == OnDisconnect(Fresh, e.id)
  <2>1. Finish(y, rest, drops)
    BY <1>5, <1>6, <1>11
  <2>2. CASE e.id = "Local"
    <3>1. /\ y \in DriverRecord /\ y.state = "Disconnected" /\ ~y.walk
          /\ y.linked = Fresh.linked /\ y.dials = Fresh.dials /\ y.seen = Fresh.seen
          /\ y.sent = Fresh.sent /\ y.asked = Fresh.asked /\ y.spawn_info = Fresh.spawn_info
          /\ y.timer = Fresh.timer /\ y.closed = Fresh.closed
          /\ y.terminal = Fresh.terminal /\ y.attempts = Fresh.attempts
      BY <1>3, <2>2, DisconnectType, DisconnectFields
    <3>. HIDE DEF y
    <3>2. Informed(y) /\ (~SelfSpawn => Granted(y)) /\ (Quiet => Ended(y))
      BY <1>2, <3>1 DEF Sound, Informed, Granted, Ended
    <3>3. ~Calm
      BY <1>2, <1>4, <2>2 DEF Queued
    <3>4. Sound(y, peer)
      BY <3>1, <3>2, <3>3 DEF Sound
    <3>5. OnCourse(y, peer)
      BY <1>2, <1>4, <2>2, <3>1, <3>3 DEF OnCourse, Caused, GivenUp, Going
    <3>. QED BY <1>2, <1>8, <2>1, <3>1, <3>4, <3>5
  <2>3. CASE e.id # "Local"
    <3>1. Carries(Fresh, y) /\ KeepsGrant(Fresh, y) /\ KeepsCalm(Fresh, y)
      BY <1>3, <2>3, DisconnectKeeps
    <3>2. Quiet => Ended(y)
      BY <1>2, <1>3, <2>3, DisconnectFields DEF Ended
    <3>. HIDE DEF y
    <3>. QED BY <1>2, <1>8, <2>1, <3>1, <3>2, Handled
  <2>. QED BY <2>2, <2>3
<1>12. CASE e.id # "Connected" /\ e.id \notin Reasons
  <2>1. CASE consumed
    <3>1. Finish(Fresh, rest, drops)
      BY <1>5, <1>12, <2>1
    <3>. QED BY <1>2, <1>8, <3>1
  <2>2. CASE ~consumed
    <3> DEFINE n == Noted(Fresh, e)
               y == OnRpc(n, e, queued, drops)
    <3>1. Finish(y, rest, drops)
      BY <1>5, <1>12, <2>2
    <3>2. /\ Carries(Fresh, n) /\ KeepsGrant(Fresh, n) /\ KeepsCalm(Fresh, n)
          /\ n.terminal = Fresh.terminal /\ n.timer = Fresh.timer
          /\ e.id = "SetSpawnInfo" => "info" \in n.seen
          /\ e.id = "RequestSpawn" /\ e.arg # 0 => "grant" \in n.seen
      BY <1>3, NotedKeeps
    <3>. HIDE DEF n
    <3>3. n \in DriverRecord /\ Informed(n) /\ n.timer # 0
      BY <1>3, <3>2 DEF Carries
    <3>4. /\ Carries(n, y) /\ KeepsGrant(n, y) /\ KeepsCalm(n, y) /\ y.terminal = n.terminal
      BY <3>2, <3>3, OnRpcKeeps
    <3>. HIDE DEF y
    <3>5. Carries(Fresh, y) /\ KeepsGrant(Fresh, y) /\ KeepsCalm(Fresh, y)
      BY <3>2, <3>4, Transitive
    <3>. QED BY <1>9, <3>1, <3>2, <3>4, <3>5
  <2>. QED BY <2>1, <2>2
<1>. QED BY <1>10, <1>11, <1>12

LEMMA ReceiveNoneStep ==
  ASSUME IInv, ReceiveNone
  PROVE  IInv'
<1> DEFINE y == OnTransportClosed(Fresh)
<1>1. /\ Pumped /\ done = FALSE /\ dialing' = FALSE /\ done' = done
      /\ peer.inbox = << >> /\ ~peer.alive
  BY DEF ReceiveNone, Pumped, IInv
<1>2. PICK drops \in Can("drop") : Finish(y, peer, drops)
  BY DEF ReceiveNone
<1>3. /\ Sound(Fresh, peer) /\ OnCourse(Fresh, peer) /\ Fresh.linked = peer.alive
      /\ Queued(peer) /\ (Quiet => ~Fresh.terminal) /\ Fresh \in DriverRecord
  BY <1>1, FreshSound, FreshFields
<1>4. Carries(Fresh, y) /\ KeepsGrant(Fresh, y) /\ KeepsCalm(Fresh, y) /\ y.terminal = Fresh.terminal
  BY <1>3, OnTransportClosedKeeps
<1>. HIDE DEF Fresh, y
<1>5. Quiet => Ended(y)
  BY <1>3, <1>4 DEF Ended
<1>6. Sound(y, peer) /\ OnCourse(y, peer) /\ y.linked = peer.alive
  BY <1>3, <1>4, <1>5, Handled
<1>7. Waiting(y, peer)
  BY <1>1 DEF Waiting
<1>. QED BY <1>1, <1>2, <1>3, <1>6, <1>7, PassKeeps

\* It dials with a timer that ran out: by then nothing is left of the session,
\* and one more of the drops counted has been answered.
LEMMA StartReconnectStep ==
  ASSUME IInv, StartReconnect
  PROVE  IInv'
<1>1. /\ ~dialing /\ ~done /\ Pumped /\ ReconnectDue /\ d.timer # Unset
      /\ dialing' = TRUE /\ done' = done /\ peer' = peer
      /\ d' = [Fresh EXCEPT !.timer = Unset, !.closed = FALSE,
                            !.dials = IF Fresh.dials > MaxAttempts THEN Fresh.dials ELSE Fresh.dials + 1]
  BY DEF StartReconnect, Pumped, ReconnectDue
<1>2. /\ Sound(Fresh, peer) /\ OnCourse(Fresh, peer) /\ Queued(peer)
      /\ Calm => Waiting(Fresh, peer)
      /\ Quiet => ~Fresh.terminal
  BY <1>1, FreshSound
<1>3. /\ Fresh \in DriverRecord /\ Fresh.timer # Unset
      /\ Fresh.state = "Spawned" /\ Fresh.sync_timer /\ Fresh.timer # 0 => ~ReconnectDue
  BY <1>1, FreshFields DEF ReconnectDue, Ticking
<1>. HIDE DEF Fresh
<1>4. Unset \in Unset..Delay /\ MaxAttempts \in Nat
  BY DriverAssumption DEF Unset
<1>5. d' \in DriverRecord
  <2>1. (IF Fresh.dials > MaxAttempts THEN Fresh.dials ELSE Fresh.dials + 1) \in Nat
    BY <1>3 DEF DriverRecord
  <2>. QED BY <1>1, <1>3, <1>4, <2>1 DEF DriverRecord
<1>6. /\ d'.state = Fresh.state /\ d'.seen = Fresh.seen /\ d'.sent = Fresh.sent
      /\ d'.asked = Fresh.asked /\ d'.spawn_info = Fresh.spawn_info /\ d'.walk = Fresh.walk
      /\ d'.terminal = Fresh.terminal /\ d'.attempts = Fresh.attempts
      /\ d'.connected_since = Fresh.connected_since
      /\ d'.timer = Unset /\ ~d'.closed
      /\ d'.dials = (IF Fresh.dials > MaxAttempts THEN Fresh.dials ELSE Fresh.dials + 1)
  BY <1>1, <1>3 DEF DriverRecord
<1>7. Sound(d', peer')
  BY <1>1, <1>2, <1>5, <1>6 DEF Sound, Informed, Granted, Walked, Late, Early, Ended
<1>8. Calm => Waiting(d', peer')
  BY <1>1, <1>2, <1>6 DEF Waiting
<1>9. Dials'
  <2>1. Calm => d'.state # "Spawned" /\ (peer.alive => d'.state = "Disconnected")
    BY <1>1, <1>2, <1>3, <1>6 DEF Sound, Late, Early
  <2>2. ASSUME Calm, ~Stdin PROVE Counted(d') /\ d'.connected_since = "never"
    <3>1. Counted(Fresh) /\ Fresh.state # "Spawned"
      BY <1>2, <1>6, <2>1, <2>2 DEF OnCourse
    <3>2. Fresh.dials \in Nat /\ Fresh.attempts \in Nat
      BY <1>3 DEF DriverRecord
    <3>. QED BY <1>3, <1>4, <1>6, <3>1, <3>2 DEF Counted
  <2>. QED BY <1>1, <1>2, <1>6, <2>1, <2>2 DEF Dials, Calm, Quiet
<1>. QED BY <1>1, <1>2, <1>7, <1>8, <1>9 DEF IInv

LEMMA ReconnectedStep ==
  ASSUME IInv, Reconnected
  PROVE  IInv'
<1> DEFINE again == [Forget(Fresh) EXCEPT !.linked = TRUE, !.told = << >>, !.seen = {}]
           x     == Transition(again, "Connecting")
<1>1. Dials /\ dialing' = FALSE /\ done = FALSE /\ done' = done
  BY DEF Reconnected, IInv, Dials
<1>2. PICK drops \in Can("drop") : Finish(x, NewPeer, drops)
  BY DEF Reconnected
<1>3. /\ Fresh \in DriverRecord /\ Fresh.state = d.state /\ Fresh.timer = d.timer
      /\ Fresh.closed = d.closed /\ Fresh.attempts = d.attempts /\ Fresh.dials = d.dials
      /\ Fresh.connected_since = d.connected_since /\ Fresh.walk = d.walk
      /\ Fresh.terminal = d.terminal /\ Fresh.sent = {} /\ Fresh.asked = "no"
  BY FreshFields
<1>. HIDE DEF Fresh
<1>4. Forget(Fresh) \in DriverRecord
  BY <1>3 DEF DriverRecord, Forget
<1>5. again \in DriverRecord
  <2> DEFINE f == Forget(Fresh)
  <2>1. << >> \in Seq(Milestones) /\ {} \in SUBSET Noteworthy
    OBVIOUS
  <2>2. f \in DriverRecord
    BY <1>4
  <2>. HIDE DEF f
  <2>3. [f EXCEPT !.linked = TRUE, !.told = << >>, !.seen = {}] \in DriverRecord
    BY <2>1, <2>2 DEF DriverRecord
  <2>. QED BY <2>3 DEF f
<1>6. x \in DriverRecord
  BY <1>5, TransitionType DEF States
<1>7. /\ x.state = "Connecting" /\ x.linked /\ x.timer = Fresh.timer /\ x.closed = Fresh.closed
      /\ x.attempts = Fresh.attempts /\ x.dials = Fresh.dials
      /\ x.connected_since = Fresh.connected_since /\ x.walk = Fresh.walk
      /\ x.terminal = Fresh.terminal /\ x.sent = {} /\ x.asked = "no" /\ ~x.spawn_info
  BY <1>3 DEF DriverRecord, Forget, Transition
<1>. HIDE DEF x
<1>8. Calm => ~d.walk
  BY <1>1 DEF IInv, Sound, Dials, Walked
<1>9. Sound(x, NewPeer)
  BY <1>1, <1>3, <1>6, <1>7, <1>8
     DEF Dials, Sound, Informed, Granted, Walked, Late, Early, Ended
<1>10. Queued(NewPeer) /\ NewPeer.alive = TRUE /\ ~NewPeer.leaving /\ NewPeer.inbox = << >>
  <2>1. NewPeer \in PeerRecord
    BY DEF NewPeer, PeerRecord
  <2>. QED BY <2>1, DriverAssumption DEF NewPeer, Queued
<1>11. OnCourse(x, NewPeer)
  BY <1>1, <1>3, <1>7, <1>10 DEF Dials, OnCourse, Caused, Counted
<1>12. Waiting(x, NewPeer)
  BY <1>1, <1>3, <1>7, <1>10 DEF Waiting, Dials
<1>. QED BY <1>1, <1>2, <1>7, <1>9, <1>10, <1>11, <1>12, PassKeeps

LEMMA ReconnectFailedStep ==
  ASSUME IInv, ReconnectFailed
  PROVE  IInv'
<1> DEFINE y == OnDisconnect(Fresh, "ConnectionLost")
<1>1. Dials /\ dialing' = FALSE /\ done = FALSE /\ done' = done
  BY DEF ReconnectFailed, IInv, Dials
<1>2. PICK drops \in Can("drop") : Finish(y, peer, drops)
  BY DEF ReconnectFailed
<1>3. Fresh \in DriverRecord
  BY FreshFields
<1>4. /\ Carries(Fresh, y) /\ KeepsGrant(Fresh, y) /\ KeepsCalm(Fresh, y)
      /\ Going(y) /\ Caused(y) /\ y.state = "Disconnected" /\ y.terminal = Fresh.terminal
  BY <1>3, DisconnectKeeps, DisconnectFields DEF TerminalReasons
<1>. HIDE DEF y
<1>5. /\ Calm => Walked(Fresh) /\ Late(Fresh, peer.alive) /\ Early(Fresh)
      /\ Calm /\ ~Stdin => Counted(Fresh)
  BY <1>1, FreshFields DEF Dials, IInv, Sound, Walked, Late, Early, Counted
<1>6. /\ Fresh.linked = peer.alive /\ Informed(Fresh) /\ (~SelfSpawn => Granted(Fresh))
      /\ Quiet => ~Fresh.terminal
  BY <1>1, FreshFields DEF Dials
<1>. HIDE DEF Fresh
<1>7. Sound(y, peer) /\ y.linked = peer.alive
  BY <1>4, <1>5, <1>6 DEF Sound, Carries, KeepsGrant, KeepsCalm, Ended
<1>8. OnCourse(y, peer)
  BY <1>4, <1>5 DEF OnCourse, KeepsCalm
<1>9. Calm => Waiting(y, peer)
  BY <1>1, <1>4 DEF IInv, Dials, Waiting
<1>10. Queued(peer)
  BY DEF IInv
<1>. QED BY <1>1, <1>2, <1>7, <1>8, <1>9, <1>10, PassKeeps

LEMMA ReturnNoneStep ==
  ASSUME IInv, ReturnNone
  PROVE  IInv'
<1>1. ~dialing /\ d.closed /\ d.timer = Unset /\ done' = TRUE
      /\ d' = d /\ dialing' = dialing /\ peer' = peer
  BY DEF ReturnNone
<1>2. ~Stdin => GivenUp(d)
  BY <1>1 DEF IInv, Rests, Caused
<1>. QED BY <1>1, <1>2 DEF IInv, Rests

\* A line that is sent keeps the session; what ends the driver is not said of
\* an application that sends lines.
LEMMA SendChatStep ==
  ASSUME IInv, SendChat
  PROVE  IInv'
<1>1. PICK drops \in Can("drop") : d' = SendRpc(Fresh, "Chat", drops)
  BY DEF SendChat
<1>2. Stdin /\ ~dialing /\ dialing' = dialing /\ done' = done /\ peer' = peer
  BY DEF SendChat
<1>3. /\ Fresh \in DriverRecord /\ Fresh.linked = peer.alive /\ Informed(Fresh)
      /\ ~SelfSpawn => Granted(Fresh)
      /\ Fresh.state = d.state /\ Fresh.timer = d.timer /\ Fresh.walk = d.walk
      /\ Fresh.seen = d.seen /\ Fresh.sync_timer = d.sync_timer
  BY FreshFields
<1>4. Calm => Walked(Fresh) /\ Late(Fresh, peer.alive) /\ Early(Fresh) /\ Waiting(Fresh, peer)
  BY <1>3 DEF IInv, Sound, Walked, Late, Early, Waiting
<1>. HIDE DEF Fresh
<1>5. Carries(Fresh, d') /\ KeepsGrant(Fresh, d') /\ KeepsCalm(Fresh, d') /\ Idles(Fresh, d')
  BY <1>1, <1>3, SendRpcKeeps DEF Rpcs
<1>6. Sound(d', peer)
  BY <1>2, <1>3, <1>4, <1>5 DEF Sound, Carries, KeepsGrant, KeepsCalm, Quiet
<1>7. Calm => Waiting(d', peer)
  BY <1>3, <1>4, <1>5 DEF Waiting, Idles
<1>. QED BY <1>2, <1>6, <1>7 DEF IInv, Rests

LEMMA CancelReconnectStep ==
  ASSUME IInv, CancelReconnect
  PROVE  IInv'
BY DEF IInv, CancelReconnect, Rests

\* What the transport adds to its inbox.
LEMMA Appended ==
  ASSUME NEW p \in PeerRecord, NEW e \in PeerEvent
  PROVE  LET q == Append(p.inbox, e) IN
         /\ q \in Seq(PeerEvent) /\ Len(q) = Len(p.inbox) + 1 /\ Len(p.inbox) \in Nat
         /\ \A i \in 1..Len(p.inbox) : q[i] = p.inbox[i]
         /\ q[Len(q)] = e
BY DEF PeerRecord

LEMMA PeerEmitsStep ==
  ASSUME IInv, PeerEmits
  PROVE  IInv'
<1>1. /\ peer \in PeerRecord /\ peer.alive /\ Len(peer.inbox) < MaxInbox /\ ~done
      /\ d' = d /\ dialing' = dialing /\ done' = done
  BY DEF PeerEmits, IInv, Queued
<1>2. PICK e \in PeerEvent, u \in BOOLEAN :
         /\ peer' = [peer EXCEPT !.up = u, !.inbox = Append(peer.inbox, e)]
         /\ u /\ e.id # "Local"
         /\ e.id = "Connected" => ~peer.up
  <2>1. CASE ~peer.up
    <3>1. PICK garbled \in 0..1 :
             peer' = [peer EXCEPT !.up = TRUE,
                                  !.inbox = Append(peer.inbox, [id |-> "Connected", arg |-> garbled])]
      BY <2>1 DEF PeerEmits
    <3>2. [id |-> "Connected", arg |-> garbled] \in PeerEvent
      BY DEF PeerEvent
    <3>. QED BY <2>1, <3>1, <3>2
  <2>2. CASE peer.up
    <3>1. PICK e \in ServerRpcs : peer' = [peer EXCEPT !.inbox = Append(peer.inbox, e)]
      BY <2>2 DEF PeerEmits
    <3>2. e \in PeerEvent /\ e.id \notin {"Local", "Connected"}
      BY DEF PeerEvent, ServerRpcs
    <3>3. peer' = [peer EXCEPT !.up = TRUE, !.inbox = Append(peer.inbox, e)]
      BY <1>1, <2>2, <3>1 DEF PeerRecord
    <3>. QED BY <3>2, <3>3
  <2>. QED BY <1>1, <2>1, <2>2 DEF PeerRecord
<1>3. /\ Append(peer.inbox, e) \in Seq(PeerEvent)
      /\ Len(Append(peer.inbox, e)) = Len(peer.inbox) + 1 /\ Len(peer.inbox) \in Nat
      /\ \A i \in 1..Len(peer.inbox) : Append(peer.inbox, e)[i] = peer.inbox[i]
      /\ Append(peer.inbox, e)[Len(peer.inbox) + 1] = e
  BY <1>1, Appended
<1>4. /\ peer' \in PeerRecord /\ peer'.alive /\ peer'.up /\ peer'.leaving = peer.leaving
      /\ peer'.inbox = Append(peer.inbox, e)
  BY <1>1, <1>2, <1>3 DEF PeerRecord
<1>5. \A i \in 1..Len(peer'.inbox) :
         \/ i \in 1..Len(peer.inbox) /\ peer'.inbox[i] = peer.inbox[i]
         \/ i = Len(peer.inbox) + 1 /\ peer'.inbox[i] = e
  BY <1>3, <1>4
<1>6. Queued(peer')
  BY <1>1, <1>2, <1>3, <1>4, <1>5, DriverAssumption DEF IInv, Queued
<1>7. Sound(d', peer') /\ (Dials <=> Dials') /\ (Rests <=> Rests')
  BY <1>1, <1>4 DEF IInv, Sound, Dials, Rests
<1>8. Calm => Waiting(d', peer')
  <2>1. ASSUME Calm, NEW i \in 1..Len(peer'.inbox), peer'.inbox[i].id = "Connected"
        PROVE  i = 1 /\ d.state = "Connecting" /\ d.timer = Unset
    <3>1. CASE i \in 1..Len(peer.inbox) /\ peer'.inbox[i] = peer.inbox[i]
      BY <1>1, <2>1, <3>1 DEF IInv, Waiting
    <3>2. CASE i = Len(peer.inbox) + 1 /\ peer'.inbox[i] = e
      <4>1. peer.inbox = << >> /\ d.state = "Connecting" /\ d.timer = Unset
        BY <1>1, <1>2, <2>1, <3>2 DEF IInv, Waiting
      <4>. QED BY <3>2, <4>1
    <3>. QED BY <1>5, <2>1, <3>1, <3>2
  <2>. QED BY <1>1, <1>4, <2>1 DEF Waiting
<1>. QED BY <1>1, <1>6, <1>7, <1>8 DEF IInv

LEMMA PeerEndsStep ==
  ASSUME IInv, PeerEnds
  PROVE  IInv'
<1>1. /\ peer \in PeerRecord /\ peer.alive /\ Len(peer.inbox) <= MaxInbox /\ ~done
      /\ d' = d /\ dialing' = dialing /\ done' = done
  BY DEF PeerEnds, IInv, Queued
<1>2. Sound(d, peer) /\ (Calm => Waiting(d, peer)) /\ Queued(peer)
  BY DEF IInv
<1>3. ASSUME NEW p \in PeerRecord, peer' = p, ~p.alive, p.leaving = peer.leaving, Queued(p),
             Calm => Waiting(d, p)
      PROVE  IInv'
  <2>1. Sound(d', peer')
    BY <1>1, <1>2, <1>3 DEF Sound, Late
  <2>2. (Dials => Dials') /\ (Rests <=> Rests')
    BY <1>1, <1>3 DEF Dials, Rests
  <2>. QED BY <1>1, <1>3, <2>1, <2>2 DEF IInv
<1>4. CASE peer' = [peer EXCEPT !.alive = FALSE]
  <2>1. /\ peer' \in PeerRecord /\ ~peer'.alive /\ peer'.leaving = peer.leaving
        /\ peer'.up = peer.up /\ peer'.inbox = peer.inbox
    BY <1>1, <1>4 DEF PeerRecord
  <2>2. Queued(peer') /\ (Calm => Waiting(d, peer'))
    BY <1>2, <2>1 DEF Queued, Waiting
  <2>. QED BY <1>3, <2>1, <2>2
<1>5. CASE \E reason \in PeerReasons :
              peer' = [peer EXCEPT !.alive = FALSE,
                                   !.inbox = Append(@, [id |-> reason, arg |-> 0])]
  <2>1. PICK reason \in PeerReasons :
           peer' = [peer EXCEPT !.alive = FALSE,
                                !.inbox = Append(peer.inbox, [id |-> reason, arg |-> 0])]
    BY <1>5
  <2> DEFINE e == [id |-> reason, arg |-> 0]
  <2>2. e \in PeerEvent /\ e.id # "Connected" /\ (e.id = "Local" => peer.leaving)
    BY DEF PeerReasons, PeerEvent, Reasons, TerminalReasons
  <2>3. peer' = [peer EXCEPT !.alive = FALSE, !.inbox = Append(peer.inbox, e)]
    BY <2>1
  <2>. HIDE DEF e
  <2>4. /\ Append(peer.inbox, e) \in Seq(PeerEvent)
        /\ Len(Append(peer.inbox, e)) = Len(peer.inbox) + 1 /\ Len(peer.inbox) \in Nat
        /\ \A i \in 1..Len(peer.inbox) : Append(peer.inbox, e)[i] = peer.inbox[i]
        /\ Append(peer.inbox, e)[Len(peer.inbox) + 1] = e
    BY <1>1, <2>2, Appended
  <2>5. /\ peer' \in PeerRecord /\ ~peer'.alive /\ peer'.leaving = peer.leaving
        /\ peer'.up = peer.up /\ peer'.inbox = Append(peer.inbox, e)
    BY <1>1, <2>3, <2>4 DEF PeerRecord
  <2>6. \A i \in 1..Len(peer'.inbox) :
           \/ i \in 1..Len(peer.inbox) /\ peer'.inbox[i] = peer.inbox[i]
           \/ i = Len(peer.inbox) + 1 /\ peer'.inbox[i] = e
    BY <2>4, <2>5
  <2>7. Queued(peer')
    BY <1>1, <1>2, <2>2, <2>4, <2>5, <2>6, DriverAssumption DEF Queued
  <2>8. Calm => Waiting(d, peer')
    BY <1>2, <2>2, <2>5, <2>6 DEF Waiting
  <2>. QED BY <1>3, <2>5, <2>7, <2>8
<1>. QED BY <1>4, <1>5 DEF PeerEnds

LEMMA SessionAgesStep ==
  ASSUME IInv, SessionAges
  PROVE  IInv'
<1>1. /\ ~done /\ d.connected_since = "recent" /\ d.timer = Unset /\ d \in DriverRecord
      /\ d' = [d EXCEPT !.connected_since = "stable",
                        !.dials = IF d.state = "Spawned" THEN 0 ELSE d.dials]
      /\ dialing' = dialing /\ done' = done /\ peer' = peer
  BY DEF SessionAges, IInv, Sound
<1>2. d' \in DriverRecord
  <2>1. (IF d.state = "Spawned" THEN 0 ELSE d.dials) \in Nat /\ "stable" \in Since
    BY <1>1 DEF DriverRecord, Since
  <2>. QED BY <1>1, <2>1 DEF DriverRecord
<1>3. /\ d'.state = d.state /\ d'.seen = d.seen /\ d'.sent = d.sent
      /\ d'.asked = d.asked /\ d'.spawn_info = d.spawn_info /\ d'.walk = d.walk
      /\ d'.terminal = d.terminal /\ d'.attempts = d.attempts /\ d'.timer = d.timer
      /\ d'.closed = d.closed /\ d'.sync_timer = d.sync_timer
      /\ d'.connected_since = "stable"
      /\ d'.dials = (IF d.state = "Spawned" THEN 0 ELSE d.dials)
  BY <1>1 DEF DriverRecord
<1>4. Sound(d', peer')
  BY <1>1, <1>2, <1>3 DEF IInv, Sound, Informed, Granted, Walked, Late, Early, Ended
<1>5. Calm => Waiting(d', peer')
  BY <1>1, <1>3 DEF IInv, Waiting
<1>6. CASE dialing
  <2>1. Dials'
    BY <1>1, <1>3, <1>6 DEF IInv, Dials, Calm, Quiet
  <2>. QED BY <1>1, <1>4, <1>5, <1>6, <2>1 DEF IInv
<1>7. CASE ~dialing
  <2>1. d.attempts \in Nat /\ d.dials \in Nat /\ MaxAttempts \in Nat
    BY <1>1, DriverAssumption DEF DriverRecord
  <2>2. Rests'
    BY <1>1, <1>3, <1>7, <2>1 DEF IInv, Rests, Caused, GivenUp, Going, Counted, Calm
  <2>. QED BY <1>1, <1>4, <1>5, <1>7, <2>2 DEF IInv
<1>. QED BY <1>6, <1>7

-----------------------------------------------------------------------------
(* The theorems.                                                             *)

LEMMA Initially ==
  ASSUME Init
  PROVE  IInv
<1>1. NewDriver \in DriverRecord
  <2>1. /\ Unset \in Unset..Delay /\ 0 \in 0..(MaxAttempts + 1) /\ << >> \in Seq(Milestones)
    BY DriverAssumption DEF Unset
  <2>. QED BY <2>1 DEF NewDriver, DriverRecord, States, Since, Whys
<1>2. NewPeer \in PeerRecord
  BY DEF NewPeer, PeerRecord
<1>3. d = NewDriver /\ peer = NewPeer /\ dialing = FALSE /\ done = FALSE
  BY DEF Init
<1>4. Sound(d, peer)
  BY <1>1, <1>3 DEF NewDriver, Sound, Informed, Granted, Walked, Late, Early, Ended
<1>5. Queued(peer) /\ Waiting(d, peer)
  BY <1>2, <1>3, DriverAssumption DEF NewPeer, NewDriver, Queued, Waiting
<1>6. Rests
  BY <1>3, DriverAssumption DEF NewPeer, NewDriver, Rests, Caused, Counted
<1>. QED BY <1>3, <1>4, <1>5, <1>6 DEF IInv

LEMMA Inductive ==
  ASSUME IInv, [Next]_vars
  PROVE  IInv'
<1>1. CASE UNCHANGED vars
  BY <1>1 DEF vars, IInv, Queued, Sound, Waiting, Dials, Rests
<1>. QED BY <1>1, SyncTickStep, UpdateStep, ReceiveStep, ReceiveNoneStep, StartReconnectStep,
            ReconnectedStep, ReconnectFailedStep, ReturnNoneStep, SendChatStep,
            CancelReconnectStep, PeerEmitsStep, PeerEndsStep, SessionAgesStep
         DEF Next, Step

\* The inductive invariant, of the driver and of what its transport has in store.
THEOREM Invariance == Spec => []IInv
<1>1. Init => IInv
  BY Initially
<1>2. IInv /\ [Next]_vars => IInv'
  BY Inductive
<1>. QED BY <1>1, <1>2, PTL DEF Spec

\* The driver's fields have their types (driver.rs, ConnectionDriver), for any
\* scripts and any application.
THEOREM TypeCorrect == Spec => []TypeOK
<1>1. IInv => TypeOK
  <2>1. ASSUME IInv PROVE TypeOK
    BY <2>1 DEF IInv, Queued, Sound, PeerRecord, DriverRecord, TypeOK, Since, Whys, Noteworthy
  <2>. QED BY <2>1
<1>. QED BY <1>1, Invariance, PTL

\* A class response makes the client ask for a spawn only when the spawn info of
\* this session has come (on_class_response), for any scripts and any application.
THEOREM RequestsAreInformed == Spec => []NoEarlyRequest
<1>1. IInv => NoEarlyRequest
  BY DEF IInv, Sound, Informed, NoEarlyRequest
<1>. QED BY <1>1, Invariance, PTL

\* Without the self-spawn fallback, which is off unless the application sets it
\* (with_self_spawn_timeout), Spawn goes on the wire only in a session whose
\* server has granted one: whatever the order of its RPCs, and whatever the
\* scripts drop, ask for or cut off.
THEOREM SpawnsAreGranted ==
  ASSUME ~SelfSpawn
  PROVE  Spec => []SpawnNeedsGrant
<1>1. IInv => SpawnNeedsGrant
  BY DEF IInv, Sound, Granted, SpawnNeedsGrant
<1>. QED BY <1>1, Invariance, PTL

\* An application that lets next_event run to its end sees None only after a ban,
\* a wrong password or too many failed attempts, whatever its scripts do; one
\* that drops next_event may cancel a reconnect, and then sees it without cause.
THEOREM NoneHasACause ==
  ASSUME ~Stdin
  PROVE  Spec => []EndsForCause
<1>1. IInv => EndsForCause
  BY DEF IInv, GivenUp, EndsForCause
<1>. QED BY <1>1, Invariance, PTL

\* A walk belongs to the session it was started in, where no script asks for a
\* reconnect: that one leaves the walk behind (poll_bot_actions stops none).
THEOREM WalksStayInTheirSession ==
  ASSUME ~SelfSpawn, "reconnect" \notin Scripts
  PROVE  Spec => []WalkIsThisSession
<1>1. IInv => WalkIsThisSession
  BY DEF IInv, Sound, Walked, WalkIsThisSession, Calm
<1>. QED BY <1>1, Invariance, PTL

\* Between two stable sessions the client reconnects at most MaxAttempts times
\* (on_disconnect), where neither the application nor a script asks for more.
THEOREM RetriesAreCapped ==
  ASSUME ~SelfSpawn, "reconnect" \notin Scripts, ~Stdin
  PROVE  Spec => []RetriesCapped
<1>1. IInv => RetriesCapped
  BY DEF IInv, Dials, Rests, Counted, RetriesCapped, Calm
<1>. QED BY <1>1, Invariance, PTL

\* After a ban or a wrong password no reconnect is scheduled or under way, where
\* nothing sends, in the same pass, on the connection that has just ended: a
\* script's packet or an application's line that finds it dead reconnects.
THEOREM TheEndIsFinal ==
  ASSUME ~Stdin, Scripts \cap {"spawn", "outbox", "reconnect"} = {}
  PROVE  Spec => []TerminalIsFinal
<1>1. IInv => TerminalIsFinal
  BY DEF IInv, Sound, Ended, Dials, TerminalIsFinal, Quiet
<1>. QED BY <1>1, Invariance, PTL

-----------------------------------------------------------------------------
(* The transport the driver is written against.                              *)

\* In the driver's words: it tells a ban from other ends, and those from its own.
End(reason) == [id |-> reason, arg |-> 0]
Peer == INSTANCE Transport WITH
            Capacity <- MaxInbox, Hello <- [id : {"Connected"}, arg : 0..1], Says <- ServerRpcs,
            Ends <- {End("Banned"), End("ConnectionLost"), End("Local")}, Own <- End("Local"),
            alive <- peer.alive, up <- peer.up, leaving <- peer.leaving, inbox <- peer.inbox

\* The driver allows its peer whatever a Transport may do on its own, so what
\* is proved of the driver holds over every implementation of Transport, of
\* which PeerTask is one (driver.rs next_event; transport.rs:350-429).
THEOREM EveryTransportWillDo ==
  ASSUME peer \in PeerRecord, peer' \in PeerRecord, ~done, UNCHANGED <<d, dialing, done>>,
         Peer!Connect \/ Peer!Say \/ Peer!End
  PROVE  PeerEmits \/ PeerEnds
<1>2. CASE Peer!Connect
  <2>1. PICK e \in [id : {"Connected"}, arg : 0..1] :
          /\ peer.alive /\ ~peer.up /\ Len(peer.inbox) < MaxInbox
          /\ peer'.inbox = Append(peer.inbox, e) /\ peer'.up = TRUE
          /\ peer'.alive = peer.alive /\ peer'.leaving = peer.leaving
    BY <1>2 DEF Peer!Connect, Peer!Put
  <2>2. PICK garbled \in 0..1 : e = [id |-> "Connected", arg |-> garbled]
    BY <2>1
  <2>3. peer' = [peer EXCEPT !.up = TRUE, !.inbox = Append(@, e)]
    BY <2>1 DEF PeerRecord
  <2>. QED BY <2>1, <2>2, <2>3 DEF PeerEmits
<1>3. CASE Peer!Say
  <2>1. PICK e \in ServerRpcs :
          /\ peer.alive /\ peer.up /\ Len(peer.inbox) < MaxInbox
          /\ peer'.inbox = Append(peer.inbox, e) /\ peer'.up = peer.up
          /\ peer'.alive = peer.alive /\ peer'.leaving = peer.leaving
    BY <1>3 DEF Peer!Say, Peer!Put
  <2>2. peer' = [peer EXCEPT !.inbox = Append(@, e)]
    BY <2>1 DEF PeerRecord
  <2>. QED BY <2>1, <2>2 DEF PeerEmits
<1>4. CASE Peer!End
  <2>1. PICK reason \in {"Banned", "ConnectionLost", "Local"} :
          /\ peer.alive /\ (reason = "Local" => peer.leaving)
          /\ peer'.inbox = Append(peer.inbox, End(reason)) /\ peer'.alive = FALSE
          /\ peer'.up = peer.up /\ peer'.leaving = peer.leaving
    BY <1>4 DEF Peer!End, Peer!Put, End
  <2>2. reason \in PeerReasons
    BY <2>1 DEF PeerReasons
  <2>3. peer' = [peer EXCEPT !.alive = FALSE, !.inbox = Append(@, [id |-> reason, arg |-> 0])]
    BY <2>1 DEF PeerRecord, End
  <2>. QED BY <2>1, <2>2, <2>3 DEF PeerEnds
<1>. QED BY <1>2, <1>3, <1>4
=============================================================================
