-------------------------------- MODULE Driver --------------------------------
(***************************************************************************)
(* The connection state machine (crates/samp-client/src/driver.rs): what    *)
(* next_event does with the events of the transport, its timers, the wishes *)
(* of scripts and the lines the application sends, over several sessions.   *)
(*                                                                          *)
(* The driver is one record d, and a method of it an operator from d to d;  *)
(* an action is one pass of next_event's loop: a handler, then flush_outbox *)
(* and poll_bot_actions.  A send fails when the task of the transport in    *)
(* use is gone, which is looked up once in a pass.  Positions, aim and       *)
(* emulation are left out.                                                   *)
(***************************************************************************)
EXTENDS Integers, Sequences, FiniteSets, SequencesExt

CONSTANTS MaxAttempts,  \* MAX_RECONNECT_ATTEMPTS
          Delay,        \* reconnect_delay, in sync intervals
          SelfSpawn,    \* self_spawn_timeout is set
          Scripts,      \* what the attached scripts do
          Stdin,        \* the application reads lines
          MaxFlags,     \* bound: flags set in the bot state before one poll
          MaxInbox      \* bound: events waiting in the transport's channel

ScriptDeeds == {"outbox", "drop", "stop", "walk", "spawn", "sync", "reconnect"}

ASSUME DriverAssumption ==
    /\ MaxAttempts \in Nat \ {0} /\ Delay \in Nat \ {0}
    /\ SelfSpawn \in BOOLEAN /\ Stdin \in BOOLEAN /\ Scripts \subseteq ScriptDeeds
    /\ MaxFlags \in Nat /\ MaxInbox \in Nat \ {0}

VARIABLES
    d,        \* the driver
    dialing,  \* it is inside transport.reconnect().await
    done,     \* next_event has returned None
    peer      \* the transport: its task, and the events it has ready

vars == <<d, dialing, done, peer>>

States == {"Connecting", "RakNetConnected", "Joining", "Joined", "ClassSelection",
           "ClassSelected", "Spawned", "Disconnected"}
Rpcs == {"ClientJoin", "RequestClass", "RequestSpawn", "Spawn", "Chat"}
Unset == -1

\* connected_since is kept as "recent" or "stable" (STABLE_SESSION old), and
\* linked is whether the transport of this pass takes what is sent.  The last
\* five fields are history: the RPCs of this pass and why it asked for a
\* spawn, the milestones and the notable events of this session, and the
\* reconnects since a session was stable.
NewDriver ==
    [state |-> "Connecting", spectating |-> FALSE, spawn_requested |-> FALSE,
     server_spectating |-> FALSE, spawn_info |-> FALSE, class_selected |-> FALSE,
     sync_timer |-> FALSE, timer |-> Unset, closed |-> FALSE, attempts |-> 0,
     connected_since |-> "never", walk |-> FALSE, walking |-> FALSE,
     terminal |-> FALSE, linked |-> TRUE,
     sent |-> {}, asked |-> "no", told |-> << >>, seen |-> {}, dials |-> 0]

NewPeer == [alive |-> TRUE, up |-> FALSE, leaving |-> FALSE, inbox |-> << >>]

Init == d = NewDriver /\ dialing = FALSE /\ done = FALSE /\ peer = NewPeer

-----------------------------------------------------------------------------
(* Transitions and the reconnect policy.                                     *)

Transition(x, next) ==
    [x EXCEPT !.state = next,
              !.connected_since = IF next = "Spawned" THEN "recent" ELSE @,
              !.sync_timer = next = "Spawned" \/ x.spectating]

\* Mutants: a pending reconnect is put off, a walk outlives the connection, the
\* end leaves the timer as it is.
PutOffReconnect(x) == [x EXCEPT !.timer = IF @ = Unset THEN Delay ELSE @ + Delay]
WalkOn(x) == x
LeaveTimer(x) == [x EXCEPT !.closed = TRUE]

ScheduleReconnect(x) == [x EXCEPT !.timer = IF @ = Unset THEN Delay ELSE @]
StopWalk(x) == [x EXCEPT !.walk = FALSE, !.walking = @ /\ ~x.walk]
Stop(x) == [x EXCEPT !.timer = Unset, !.closed = TRUE]

TerminalReasons == {"Banned", "InvalidPassword"}
Reasons == TerminalReasons \cup {"Local", "ConnectionLost", "Rejected"}

\* The attempts a drop makes; mutant: any spawn counts as a stable session.
TriesForgiven(x) == IF x.connected_since # "never" THEN 1 ELSE x.attempts + 1
Tries(x) == IF x.connected_since = "stable" THEN 1 ELSE x.attempts + 1

\* attempts stops growing where it no longer makes a difference.
OnDisconnect(x, reason) ==
    LET gone    == Transition(StopWalk(x), "Disconnected")
        counted == [gone EXCEPT !.attempts = Tries(x), !.connected_since = "never"]
    IN  CASE reason = "Local" -> gone
          [] reason \in TerminalReasons -> [Stop(gone) EXCEPT !.terminal = TRUE]
          [] OTHER -> IF Tries(x) > MaxAttempts
                      THEN [Stop(counted) EXCEPT !.attempts = MaxAttempts + 1]
                      ELSE ScheduleReconnect(counted)

-----------------------------------------------------------------------------
(* Sending.  An RPC passes the onSendRPC handlers, which may drop it.        *)

SendPacket(x) == IF x.linked THEN x ELSE OnDisconnect(x, "ConnectionLost")

SendRpc(x, rpc, drops) ==
    IF drops THEN x
    ELSE SendPacket([x EXCEPT !.sent = IF x.linked THEN @ \cup {rpc} ELSE @])

RequestSpawn(x, why, drops) ==
    SendRpc([x EXCEPT !.spawn_requested = TRUE, !.asked = why], "RequestSpawn", drops)

Milestone(x, m) == [x EXCEPT !.told = Append(@, m)]
Note(x, what) == [x EXCEPT !.seen = @ \cup {what}]

-----------------------------------------------------------------------------
(* The handlers of next_event.                                               *)

EnterSpawned(x, drops) ==
    Milestone(Transition(SendRpc(x, "Spawn", drops), "Spawned"), "Spawned")

OnConnected(x, garbled, drops) ==
    IF garbled THEN OnDisconnect(x, "Rejected")
    ELSE LET hailed == Milestone(Transition(x, "RakNetConnected"), "Connected")
         IN  Transition(SendRpc(hailed, "ClientJoin", drops), "Joining")

RequestSpawnClass(x, drops) ==
    SendRpc(Transition([x EXCEPT !.spectating = TRUE], "ClassSelection"),
            "RequestClass", drops)

\* The outbox is flushed in the middle (onInitGame), whatever comes of it.
OnInitGame(x, queued, drops) ==
    LET joined == Milestone(Transition(x, "Joined"), "Joined")
    IN  RequestSpawnClass(IF queued THEN SendPacket(joined) ELSE joined, drops)

OnClassResponse(x, drops) ==
    LET chosen == [Transition(x, "ClassSelected") EXCEPT !.class_selected = TRUE]
    IN  IF x.spawn_info /\ x.spectating THEN RequestSpawn(chosen, "class", drops)
        ELSE chosen

OnSpawnResponse(x, allow, drops) ==
    IF allow = 2 \/ (allow # 0 /\ x.spawn_requested)
    THEN EnterSpawned([x EXCEPT !.spectating = FALSE, !.spawn_requested = FALSE], drops)
    ELSE x

OnToggleSpectating(x, toggle, drops) ==
    LET toggled == [x EXCEPT !.server_spectating = toggle,
                             !.class_selected = @ \/ toggle]
    IN  IF x.server_spectating /\ ~toggle /\ x.state # "Spawned"
        THEN RequestSpawn(toggled, "toggle", drops)
        ELSE toggled

\* Mutant: every SetSpawnInfo is answered with a Spawn.
AnswersSpawnInfoAlways(x) == TRUE
AnswersSpawnInfo(x) == x.state = "Spawned"

OnSetSpawnInfo(x, drops) ==
    LET informed == [x EXCEPT !.spawn_info = TRUE]
    IN  IF AnswersSpawnInfo(x) THEN SendRpc(informed, "Spawn", drops) ELSE informed

\* What the server may send, and the states on_rpc heeds it in.
Spawning == {"ClassSelection", "ClassSelected"}
Heeded(x, id) ==
    /\ id = "InitGame" => x.state = "Joining"
    /\ id \in {"RequestClass", "RequestSpawn"} => x.state \in Spawning

ServerRpcs ==
    [id : {"InitGame", "RequestClass", "SetSpawnInfo", "ConnectionRejected",
           "ClientCheck", "Other"}, arg : {0}]
    \cup [id : {"RequestSpawn"}, arg : 0..2]
    \cup [id : {"TogglePlayerSpectating"}, arg : 0..1]

OnRpc(x, e, queued, drops) ==
    IF ~Heeded(x, e.id) THEN x
    ELSE CASE e.id = "InitGame" -> OnInitGame(x, queued, drops)
           [] e.id = "RequestClass" -> OnClassResponse(x, drops)
           [] e.id = "RequestSpawn" -> OnSpawnResponse(x, e.arg, drops)
           [] e.id = "TogglePlayerSpectating" -> OnToggleSpectating(x, e.arg = 1, drops)
           [] e.id = "SetSpawnInfo" -> OnSetSpawnInfo(x, drops)
           [] e.id = "ConnectionRejected" -> OnDisconnect(x, "Rejected")
           [] e.id = "ClientCheck" -> IF Scripts = {} THEN x ELSE SendPacket(x)
           [] OTHER -> x

\* History: what of this event later properties ask about.
Noted(x, e) ==
    CASE e.id = "SetSpawnInfo" -> Note(x, "info")
      [] e.id = "RequestSpawn" /\ e.arg # 0 -> Note(x, "grant")
      [] OTHER -> x

\* `elapsed`: the walk has reached its end, or self_spawn_timeout is over.
StepWalk(x, elapsed) == IF x.walk /\ elapsed
                        THEN [x EXCEPT !.walk = FALSE, !.walking = FALSE] ELSE x

PrespawnPoll(x, elapsed, drops) ==
    IF SelfSpawn /\ x.class_selected /\ elapsed
    THEN EnterSpawned([x EXCEPT !.spectating = FALSE], drops) ELSE x

OnSyncTick(x, elapsed, drops) ==
    IF x.spectating /\ x.state # "Spawned"
    THEN PrespawnPoll(SendPacket(x), elapsed, drops)
    ELSE SendPacket(StepWalk(x, elapsed))

\* Mutant: the silent end of the transport is not a disconnect.
OnTransportClosedOnly(x) == [x EXCEPT !.closed = TRUE]
OnTransportClosed(x) ==
    IF x.timer = Unset /\ x.state # "Disconnected"
    THEN OnDisconnect([x EXCEPT !.closed = TRUE], "ConnectionLost")
    ELSE [x EXCEPT !.closed = TRUE]

\* What a reconnect forgets of the session before; mutant: not the spawn info.
ForgetLess(x) == [x EXCEPT !.class_selected = FALSE]
Forget(x) == [x EXCEPT !.spawn_info = FALSE, !.class_selected = FALSE]

-----------------------------------------------------------------------------
(* The scripts' wishes.                                                      *)

StartWalk(x, path) ==
    IF path /\ x.state = "Spawned"
    THEN Note([x EXCEPT !.walk = TRUE, !.walking = TRUE], "walk")
    ELSE [x EXCEPT !.walking = FALSE]

PollBotActions(x, flags, path, drops) ==
    LET stopped == IF "stop" \in flags THEN StopWalk(x) ELSE x
        walked  == IF "walk" \in flags THEN StartWalk(stopped, path) ELSE stopped
        asked   == IF "spawn" \in flags /\ walked.spectating
                   THEN RequestSpawn(walked, "script", drops) ELSE walked
        synced  == IF "sync" \in flags /\ asked.state = "Spawned"
                   THEN OnSyncTick(asked, path, drops) ELSE asked
    IN  IF "reconnect" \in flags
        THEN [Transition(synced, "Disconnected") EXCEPT !.closed = TRUE, !.timer = Delay]
        ELSE synced

Can(deed) == IF deed \in Scripts THEN BOOLEAN ELSE {FALSE}
Flags == {"stop", "walk", "spawn", "sync", "reconnect"} \cap Scripts

\* The end of a pass of next_event, and the transport it leaves.
Finish(x, p, drops) ==
    \E queued \in Can("outbox"), path \in Can("walk"),
       flags \in {f \in SUBSET Flags : Cardinality(f) <= MaxFlags} :
        /\ d' = PollBotActions(IF queued THEN SendPacket(x) ELSE x, flags, path, drops)
        /\ peer' = [p EXCEPT !.leaving = @ \/ "reconnect" \in flags]

-----------------------------------------------------------------------------
(* Actions of the driver.  select! is biased: a reconnect that is due comes  *)
(* first.  While the sync interval ticks it is the clock of the timer.       *)

Fresh == [d EXCEPT !.sent = {}, !.asked = "no", !.linked = peer.alive]
Pumped == ~done /\ ~dialing /\ ~(d.closed /\ d.timer = Unset)
Ticking == d.sync_timer /\ (d.state = "Spawned" \/ d.spectating)

\* Mutant: a closed driver does not look at its timer.
ReconnectDueOpen == ~d.closed /\ d.timer # Unset /\ (d.timer = 0 \/ ~Ticking)
ReconnectDue == d.timer # Unset /\ (d.timer = 0 \/ ~Ticking)

SyncTick ==
    /\ Pumped /\ Ticking /\ d.timer # 0
    /\ \E drops \in Can("drop"), elapsed \in BOOLEAN :
        LET timed == [Fresh EXCEPT !.timer = IF @ = Unset THEN @ ELSE @ - 1]
        IN  Finish(OnSyncTick(timed, elapsed, drops), peer, drops)
    /\ UNCHANGED <<dialing, done>>

\* Periodic or lifecycle handlers in the registry arm the update timer; the
\* scripts of the app register both.
UpdateArmed == Scripts # {}

Update ==
    /\ Pumped /\ UpdateArmed /\ d.timer # 0
    /\ \E drops \in Can("drop") : Finish(Fresh, peer, drops)
    /\ UNCHANGED <<dialing, done>>

Receive ==
    /\ Pumped /\ ~d.closed /\ d.timer # 0 /\ peer.inbox # << >>
    /\ LET e    == Head(peer.inbox)
           rest == [peer EXCEPT !.inbox = Tail(@)]
       IN  \E drops \in Can("drop"), queued \in Can("outbox"), consumed \in Can("drop") :
            CASE e.id = "Connected" ->
                    Finish(OnConnected(Fresh, e.arg = 1, drops), rest, drops)
              [] e.id \in Reasons ->
                    Finish(OnDisconnect(Fresh, e.id), rest, drops)
              [] OTHER ->
                    Finish(IF consumed THEN Fresh
                           ELSE OnRpc(Noted(Fresh, e), e, queued, drops), rest, drops)
    /\ UNCHANGED <<dialing, done>>

ReceiveNone ==
    /\ Pumped /\ ~d.closed /\ d.timer # 0 /\ peer.inbox = << >> /\ ~peer.alive
    /\ \E drops \in Can("drop") : Finish(OnTransportClosed(Fresh), peer, drops)
    /\ UNCHANGED <<dialing, done>>

StartReconnect ==
    /\ Pumped /\ ReconnectDue
    /\ d' = [Fresh EXCEPT !.timer = Unset, !.closed = FALSE,
                      !.dials = IF @ > MaxAttempts THEN @ ELSE @ + 1]
    /\ dialing' = TRUE
    /\ UNCHANGED <<done, peer>>

Reconnected ==
    /\ dialing /\ dialing' = FALSE
    /\ LET again == [Forget(Fresh) EXCEPT !.linked = TRUE, !.told = << >>, !.seen = {}]
       IN  \E drops \in Can("drop") : Finish(Transition(again, "Connecting"), NewPeer, drops)
    /\ UNCHANGED done

ReconnectFailed ==
    /\ dialing /\ dialing' = FALSE
    /\ \E drops \in Can("drop") : Finish(OnDisconnect(Fresh, "ConnectionLost"), peer, drops)
    /\ UNCHANGED done

ReturnNone ==
    /\ ~done /\ ~dialing /\ d.closed /\ d.timer = Unset
    /\ done' = TRUE
    /\ UNCHANGED <<d, dialing, peer>>

-----------------------------------------------------------------------------
(* Actions of the application: main's select! drops next_event when a line   *)
(* (or the end of stdin) comes first, and sends the line unless it is empty. *)

SendChat ==
    /\ ~done /\ ~dialing /\ Stdin
    /\ \E drops \in Can("drop") : d' = SendRpc(Fresh, "Chat", drops)
    /\ UNCHANGED <<dialing, done, peer>>

CancelReconnect ==
    /\ dialing /\ Stdin /\ dialing' = FALSE
    /\ UNCHANGED <<d, done, peer>>

-----------------------------------------------------------------------------
(* The transport's task, as PeerTask checks it, and time.                    *)

PeerEmits ==
    /\ ~done /\ peer.alive /\ Len(peer.inbox) < MaxInbox
    /\ \/ /\ ~peer.up
          /\ \E garbled \in 0..1 :
                peer' = [peer EXCEPT !.up = TRUE,
                                     !.inbox = Append(@, [id |-> "Connected", arg |-> garbled])]
       \/ /\ peer.up
          /\ \E e \in ServerRpcs : peer' = [peer EXCEPT !.inbox = Append(@, e)]
    /\ UNCHANGED <<d, dialing, done>>

\* It ends with its reason (a wrong password ends as a ban does), or, when it
\* panics, without one.
PeerReasons == {"Banned", "ConnectionLost"} \cup (IF peer.leaving THEN {"Local"} ELSE {})
PeerEnds ==
    /\ ~done /\ peer.alive
    /\ \/ \E reason \in PeerReasons :
            peer' = [peer EXCEPT !.alive = FALSE,
                                 !.inbox = Append(@, [id |-> reason, arg |-> 0])]
       \/ peer' = [peer EXCEPT !.alive = FALSE]
    /\ UNCHANGED <<d, dialing, done>>

\* STABLE_SESSION is longer than reconnect_delay.
SessionAges ==
    /\ ~done /\ d.connected_since = "recent" /\ d.timer = Unset
    /\ d' = [d EXCEPT !.connected_since = "stable",
                      !.dials = IF d.state = "Spawned" THEN 0 ELSE @]
    /\ UNCHANGED <<dialing, done, peer>>

Step == \/ SyncTick \/ Update \/ Receive \/ ReceiveNone
        \/ StartReconnect \/ Reconnected \/ ReconnectFailed \/ ReturnNone
Next == Step \/ SendChat \/ CancelReconnect \/ PeerEmits \/ PeerEnds \/ SessionAges

Spec == Init /\ [][Next]_vars

\* next_event is awaited again and again; no step of it waits for another one.
Fairness ==
    /\ WF_vars(Receive) /\ WF_vars(ReceiveNone) /\ WF_vars(SyncTick)
    /\ WF_vars(StartReconnect) /\ WF_vars(Reconnected \/ ReconnectFailed)
    /\ WF_vars(ReturnNone)
FairSpec == Spec /\ Fairness

-----------------------------------------------------------------------------
(* Properties.                                                               *)

\* The driver's fields have their types; the attempts never pass the cap by
\* more than the one that trips it.
TypeOK ==
    /\ d.state \in States /\ d.timer \in Unset..Delay
    /\ d.attempts \in 0..(MaxAttempts + 1)
    /\ d.connected_since \in {"never", "recent", "stable"}
    /\ d.sent \subseteq Rpcs /\ d.asked \in {"no", "class", "toggle", "script"}
    /\ d.seen \subseteq {"info", "grant", "walk"}
    /\ {d.spectating, d.spawn_requested, d.server_spectating, d.spawn_info,
        d.class_selected, d.sync_timer, d.closed, d.walk, d.walking,
        d.terminal, d.linked, dialing, done, peer.alive, peer.up, peer.leaving} \subseteq BOOLEAN
    /\ Len(peer.inbox) <= MaxInbox + 1

\* Spawn goes on the wire only in a session whose server has granted one: an
\* unsolicited Spawn is what the anti-cheat kicks for (on_toggle_spectating).
SpawnNeedsGrant == "Spawn" \in d.sent => "grant" \in d.seen

\* A class response makes the client ask for a spawn only when the spawn info
\* of this session has come (on_class_response).
NoEarlyRequest == d.asked = "class" => "info" \in d.seen

\* Between two stable sessions the client reconnects at most MaxAttempts times
\* (on_disconnect).
RetriesCapped == d.dials <= MaxAttempts

\* A ban or a wrong password is the end: no reconnect is scheduled or under
\* way after it (on_disconnect).
TerminalIsFinal == d.terminal => d.timer = Unset /\ ~dialing

\* next_event returns None only after such a reason or when the attempts are
\* used up.
EndsForCause == done => d.terminal \/ d.attempts > MaxAttempts

\* A walk belongs to the session it was started in: a dropped connection ends
\* it (on_disconnect).
WalkIsThisSession == d.walk => "walk" \in d.seen

\* A client whose transport has died gets a new one, or ends.
NoLimbo == (~peer.alive /\ ~done) ~> (peer.alive \/ done)

-----------------------------------------------------------------------------
(* What the code's own words promise and its steps do not keep.              *)

\* A client that had joined and lost its session does not end, short of a
\* terminal reason, before it has reconnected once.
LostSessionIsRetried ==
    done /\ ~d.terminal /\ peer.inbox = << >> /\ Len(d.told) > 1 => d.dials > 0

\* The consumer is told Connected, Joined and Spawned, in this order and each
\* once in a session: with the self-spawn fallback on, it is not.
MilestonesInOrder == IsPrefix(d.told, <<"Connected", "Joined", "Spawned">>)

\* With a class chosen and the spawn info there, the class is requested again,
\* its response asks for the spawn, and the state moves on.
SpawnIsRequested ==
    (d.state = "ClassSelected" /\ d.spawn_info /\ peer.alive)
        ~> (d.spawn_requested \/ d.state # "ClassSelected" \/ ~peer.alive)
================================================================================
