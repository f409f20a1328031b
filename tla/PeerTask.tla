------------------------------- MODULE PeerTask -------------------------------
(***************************************************************************)
(* The transport actor (crates/raknet/src/transport.rs), with what it talks *)
(* to: the two bounded channels to its consumer, the kernel's receive queue *)
(* and a server.                                                            *)
(*                                                                          *)
(* Time is counted in units of WHITELIST_FALLBACK; every timestamp of the   *)
(* task is kept as its age, which stops growing at the limit it is compared *)
(* with.  A task that has something to do is taken to do it before a unit   *)
(* has passed (Pass), unless it waits for room in the event channel.        *)
(*                                                                          *)
(* The reliability layer appears as what ReliabilityLayer checks of it: a   *)
(* framed datagram in the receive queue is the list of messages on_receive  *)
(* hands over for it, and reliable messages put on the wire arrive.         *)
(***************************************************************************)
EXTENDS Integers, Sequences, SequencesExt

CONSTANTS Fallback, Retry, QueryInterval, Keepalive, ConnectTimeout, PeerTimeout,
          EventCapacity, CommandCapacity, SocketCapacity,  \* the three queues
          MaxBurst,     \* bound: commands the consumer sends on one event
          MaxRpcs,      \* bound: RPCs the server sends
          Cookie,       \* the server asks for its anti-flood cookie
          Freezes,      \* bound: the server may fall silent
          Quits         \* bound: the consumer may ask to disconnect, or leave

ASSUME TimesAssumption ==
    /\ {Fallback, Retry, QueryInterval, Keepalive, ConnectTimeout, PeerTimeout} \subseteq Nat \ {0}
    /\ Fallback < QueryInterval /\ Retry < ConnectTimeout
    /\ QueryInterval <= Keepalive /\ Fallback < ConnectTimeout
    /\ Keepalive < PeerTimeout

ASSUME CapacityAssumption ==
    /\ EventCapacity \in Nat \ {0} /\ CommandCapacity \in Nat \ {0}
    /\ SocketCapacity \in Nat \ {0} /\ MaxBurst \in Nat /\ MaxRpcs \in Nat
    /\ Cookie \in BOOLEAN /\ Freezes \in BOOLEAN /\ Quits \in BOOLEAN

VARIABLES
    \* the task
    phase, open_sent, cookie, stopped,
    age,          \* record of ages, in units of time
    tick,         \* the 20 ms interval is due
    rel,          \* kinds of messages enqueued and not yet flushed
    job,          \* [event, rest, stop]: the handler run() is in the middle of
    \* its queues
    socket, commands, events,
    \* the consumer of the events
    handle,       \* it still holds the handle and the receiver
    burst,        \* commands it has yet to send before it receives again
    taken,        \* history: what it received
    asked,        \* history: it has asked to disconnect
    \* the server and the network
    server, to_server, offline, stream,
    rpcs,         \* RPCs the server has sent
    handed,       \* history: RPCs the reliability layer handed over
    heard         \* history: units since a datagram of the peer last arrived

task     == <<phase, open_sent, cookie, stopped, age, tick, rel, job>>
queues   == <<socket, commands, events>>
consumer == <<handle, burst, taken, asked>>
outside  == <<server, to_server, offline, stream, rpcs>>
vars     == <<task, queues, consumer, outside, handed, heard>>

\* Messages and events: an RPC has its number, the others their kind.
Rpc(n) == [id |-> "Rpc", n |-> n]
Message(id) == [id |-> id, n |-> 0]
IsRpc(e) == e.id = "Rpc"

\* The RPCs of a sequence, in its order.
RpcsIn(s) ==
    LET upTo[i \in 0 .. Len(s)] ==
            IF i = 0 THEN << >>
            ELSE IF IsRpc(s[i]) THEN Append(upTo[i - 1], s[i]) ELSE upTo[i - 1]
    IN  upTo[Len(s)]

Nothing == Message("nothing")
Idle == [event |-> Nothing, rest |-> << >>, stop |-> FALSE]
Ages == [query |-> 0, handshake |-> 0, start |-> 0, recv |-> 0, keepalive |-> 0]

\* run() sends the whitelist query before its loop.
Init ==
    /\ phase = "OpenRequest" /\ open_sent = FALSE /\ cookie = FALSE /\ stopped = FALSE
    /\ age = Ages /\ tick = FALSE /\ rel = {} /\ job = Idle
    /\ socket = << >> /\ commands = << >> /\ events = << >>
    /\ handle = TRUE /\ burst = 0 /\ taken = << >> /\ asked = FALSE
    /\ server = "listening" /\ to_server = {"query"} /\ offline = {} /\ stream = << >>
    /\ rpcs = 0 /\ handed = 0 /\ heard = 0

Running == ~stopped /\ job = Idle
DisconnectIds == {"Closed", "Banned", "Full", "Refused"}
Disconnected == {"Local", "Timeout", "Lost"} \cup DisconnectIds

-----------------------------------------------------------------------------
(* What the task puts on the wire.                                           *)

OpenRequest(cookied) == IF cookied THEN "open cookie" ELSE "open"

\* Of what is sent, only what the server heeds is followed further.
Heeded == {"query", "open", "open cookie", "connect", "incoming"}

\* flush_reliability: everything enqueued leaves, with `also`.
Flush(also) == rel' = {} /\ to_server' = to_server \cup (also \cap Heeded)

\* The handler is to emit an event and then to end the task, or not; mutant:
\* a handler that goes on.
EmitAndGoOn(id, stop) == job' = [event |-> Message(id), rest |-> << >>, stop |-> FALSE]
Emit(id, stop) == job' = [event |-> Message(id), rest |-> << >>, stop |-> stop]

\* send_connection_request leaves a connected task alone.
SendConnectionRequest ==
    IF phase = "Connected"
    THEN UNCHANGED <<phase, age, rel, to_server>>
    ELSE /\ phase' = "ConnectionRequest"
         /\ age' = [age EXCEPT !.handshake = 0]
         /\ Flush({"connect"})

-----------------------------------------------------------------------------
(* on_tick.                                                                  *)

\* Mutants: a fallback that waits for the reply, and a deadline that starts
\* anew with every try.
FallbackNever == FALSE
DeadlinePerTry == age.handshake >= ConnectTimeout

HandshakeOver == age.start >= ConnectTimeout
Silent == age.recv >= PeerTimeout
FallbackDue == ~open_sent /\ age.query >= Fallback

\* The query goes out first, and its age counts from then on.
Queried == IF age.query >= QueryInterval THEN {"query"} ELSE {}
QueryAge == IF Queried = {} THEN age.query ELSE 0

TickHandshake ==
    /\ phase # "Connected"
    /\ IF HandshakeOver
       THEN /\ Emit("Timeout", TRUE)
            /\ age' = [age EXCEPT !.query = QueryAge]
            /\ to_server' = to_server \cup Queried
            /\ UNCHANGED <<open_sent, rel>>
       ELSE LET resend == \/ FallbackDue /\ Queried = {}
                          \/ open_sent /\ age.handshake >= Retry
                opens  == resend /\ (phase = "OpenRequest" \/ ~open_sent)
            IN  /\ open_sent' = (open_sent \/ opens)
                /\ age' = [age EXCEPT !.query = QueryAge,
                                      !.handshake = IF resend THEN 0 ELSE @]
                /\ Flush(Queried \cup (IF opens THEN {OpenRequest(cookie)} ELSE {}))
                /\ UNCHANGED job

TickConnected ==
    /\ phase = "Connected"
    /\ UNCHANGED open_sent
    /\ IF Silent
       THEN /\ Emit("Timeout", TRUE)
            /\ age' = [age EXCEPT !.query = QueryAge]
            /\ to_server' = to_server \cup Queried
            /\ UNCHANGED rel
       ELSE LET keep == age.keepalive >= Keepalive
            IN  /\ age' = [age EXCEPT !.query = QueryAge,
                                      !.keepalive = IF keep THEN 0 ELSE @]
                /\ Flush(Queried \cup (IF keep THEN {"keepalive"} ELSE {}))
                /\ UNCHANGED job

\* The interval is shorter than a unit: it may fire at any time, and does before
\* the next unit passes.
OnTick ==
    /\ Running /\ tick' = FALSE
    /\ TickHandshake \/ TickConnected
    /\ UNCHANGED <<phase, cookie, stopped, queues, consumer, server, offline, stream,
                   rpcs, handed, heard>>

-----------------------------------------------------------------------------
(* on_command, and the end of the command channel.                           *)

OnCommand ==
    /\ Running /\ commands # << >>
    /\ commands' = Tail(commands)
    /\ CASE Head(commands) = "Send" ->
              Flush({"application"}) /\ UNCHANGED job
         [] Head(commands) = "Disconnect" ->
              Flush({"notification"}) /\ Emit("Local", TRUE)
    /\ UNCHANGED <<phase, open_sent, cookie, stopped, age, tick, socket, events,
                   consumer, server, offline, stream, rpcs, handed, heard>>

\* cmd_rx yields None: the handle is gone and its commands are used up.
CommandsClosed ==
    /\ Running /\ ~handle /\ commands = << >>
    /\ stopped' = TRUE
    /\ UNCHANGED <<phase, open_sent, cookie, age, tick, rel, job, queues, consumer,
                   outside, handed, heard>>

\* Mutant: an error of the socket ends the task as a request of the consumer does.
SocketErrorUnasked ==
    /\ Running
    /\ Emit("Local", TRUE)
    /\ UNCHANGED <<phase, open_sent, cookie, stopped, age, tick, rel, queues, consumer,
                   outside, handed, heard>>

\* recv_from fails with an error that is not a transient one.
SocketError ==
    /\ Running
    /\ Emit("Lost", TRUE)
    /\ UNCHANGED <<phase, open_sent, cookie, stopped, age, tick, rel, queues, consumer,
                   outside, handed, heard>>

-----------------------------------------------------------------------------
(* on_datagram.                                                              *)

\* Mutant: the query's answer counts as a life sign.
LifeSignAny(datagram) == TRUE
LifeSign(datagram) == datagram.kind # "samp"

OnSamp ==
    /\ Head(socket).kind = "samp"
    /\ open_sent' = TRUE
    /\ to_server' = to_server \cup (IF open_sent THEN {} ELSE {OpenRequest(cookie)})
    /\ age' = [age EXCEPT !.handshake = IF open_sent THEN @ ELSE 0,
                          !.recv = IF LifeSign(Head(socket)) THEN 0 ELSE @]
    /\ UNCHANGED <<phase, cookie, rel, job, handed>>

\* handle_offline: an offline id once connected is no message of any use.
OnOffline ==
    /\ Head(socket).kind = "offline"
    /\ UNCHANGED handed
    /\ LET id == Head(socket).id
           heardNow == [age EXCEPT !.recv = 0]
       IN CASE phase = "Connected" ->
                 age' = heardNow /\ UNCHANGED <<phase, open_sent, cookie, rel, job, to_server>>
            [] phase # "Connected" /\ id = "cookie" ->
                 /\ cookie' = TRUE /\ open_sent' = TRUE
                 /\ age' = [heardNow EXCEPT !.handshake = 0]
                 /\ to_server' = to_server \cup {OpenRequest(TRUE)}
                 /\ UNCHANGED <<phase, rel, job>>
            [] phase # "Connected" /\ id = "reply" ->
                 /\ phase' = "ConnectionRequest"
                 /\ age' = [heardNow EXCEPT !.handshake = 0]
                 /\ Flush({"connect"})
                 /\ UNCHANGED <<open_sent, cookie, job>>
            [] phase # "Connected" /\ id \in DisconnectIds ->
                 /\ age' = heardNow
                 /\ Emit(id, TRUE)
                 /\ UNCHANGED <<phase, open_sent, cookie, rel, to_server>>

\* A framed datagram: the messages it completes wait their turn in `job`.
OnFramed ==
    /\ Head(socket).kind = "framed"
    /\ age' = [age EXCEPT !.recv = 0]
    /\ job' = [Idle EXCEPT !.rest = Head(socket).messages]
    /\ handed' = handed + Len(RpcsIn(Head(socket).messages))
    /\ UNCHANGED <<phase, open_sent, cookie, rel, to_server>>

OnDatagram ==
    /\ Running /\ socket # << >>
    /\ socket' = Tail(socket)
    /\ OnSamp \/ OnOffline \/ OnFramed
    /\ UNCHANGED <<stopped, tick, commands, events, consumer, server, offline, stream,
                   rpcs, heard>>

-----------------------------------------------------------------------------
(* handle_message, one message of the datagram in hand.                      *)

\* A challenge or a ping ("Service") is answered by the task itself, with the
\* next flush.  Mutant: an acceptance counts every time.
AcceptsAgain == TRUE
Accepts == phase # "Connected"

HandleMessage ==
    LET m == Head(job.rest)
        emits(event, stop) == job' = [event |-> event, rest |-> Tail(job.rest), stop |-> stop]
        silent == job' = [job EXCEPT !.rest = Tail(@)]
    IN  /\ ~stopped /\ job.event = Nothing /\ job.rest # << >>
        /\ CASE m.id \in DisconnectIds ->
                  emits(m, TRUE) /\ UNCHANGED <<phase, age, rel, to_server>>
             [] m.id = "Accepted" /\ Accepts ->
                  /\ phase' = "Connected"
                  /\ age' = [age EXCEPT !.keepalive = 0, !.start = 0, !.handshake = 0]
                  /\ Flush({"incoming"})
                  /\ emits(Message("Connected"), FALSE)
             [] m.id = "Accepted" /\ ~Accepts ->
                  silent /\ UNCHANGED <<phase, age, rel, to_server>>
             [] m.id = "Service" ->
                  /\ rel' = rel \cup {"answer"}
                  /\ silent /\ UNCHANGED <<phase, age, to_server>>
             [] m.id = "Rpc" ->
                  emits(m, FALSE) /\ UNCHANGED <<phase, age, rel, to_server>>
        /\ UNCHANGED <<open_sent, cookie, stopped, tick, queues, consumer, server,
                       offline, stream, rpcs, handed, heard>>

\* Mutants: an event that finds the channel full is dropped, and a channel
\* without a bound.
EmittedOrDropped ==
    events' = IF Len(events) < EventCapacity THEN Append(events, job.event) ELSE events
EmittedUnbounded == events' = Append(events, job.event)
Emitted ==
    /\ Len(events) < EventCapacity
    /\ events' = Append(events, job.event)

\* emit: waits for room; a stopping handler ends the task once it is through.
EmitEvent ==
    /\ ~stopped /\ job.event # Nothing /\ handle
    /\ Emitted
    /\ stopped' = job.stop
    /\ job' = IF job.stop THEN Idle ELSE [job EXCEPT !.event = Nothing]
    /\ UNCHANGED <<phase, open_sent, cookie, age, tick, rel, socket, commands, consumer,
                   outside, handed, heard>>

\* emit fails: the receiver is gone.
EmitFails ==
    /\ ~stopped /\ job.event # Nothing /\ ~handle
    /\ stopped' = TRUE /\ job' = Idle
    /\ UNCHANGED <<phase, open_sent, cookie, age, tick, rel, queues, consumer, outside,
                   handed, heard>>

-----------------------------------------------------------------------------
(* Time.                                                                     *)

Blocked == ~stopped /\ job.event # Nothing /\ handle /\ Len(events) = EventCapacity

\* Ages that no handler would read before it resets them stand still.
Older ==
    LET Grown(a, limit, read) == IF read /\ a < limit THEN a + 1 ELSE a
        connected == phase = "Connected"
    IN  [query     |-> Grown(age.query, QueryInterval, TRUE),
         handshake |-> Grown(age.handshake, Retry, ~connected),
         start     |-> Grown(age.start, ConnectTimeout, ~connected),
         recv      |-> Grown(age.recv, PeerTimeout, connected \/ job # Idle),
         keepalive |-> Grown(age.keepalive, Keepalive, connected)]

\* A unit passes: the task has nothing to do, or waits for room.
Pass ==
    /\ ~stopped
    /\ Blocked \/ (Running /\ ~tick /\ socket = << >> /\ commands = << >>)
    /\ age' = Older /\ tick' = TRUE
    /\ heard' = IF heard < PeerTimeout /\ phase = "Connected" THEN heard + 1 ELSE heard
    /\ UNCHANGED <<phase, open_sent, cookie, stopped, rel, job, queues, consumer,
                   outside, handed>>

-----------------------------------------------------------------------------
(* The consumer: receives an event, then sends what that made it send before *)
(* it receives again (driver.rs next_event).                                 *)

TakeEvent ==
    /\ handle /\ burst = 0 /\ events # << >>
    /\ taken' = Append(taken, Head(events))
    /\ events' = Tail(events)
    /\ burst' \in 0 .. MaxBurst
    /\ UNCHANGED <<task, socket, commands, handle, asked, outside, handed, heard>>

\* A send waits for room; it fails when the task has stopped, and the
\* consumer then gives up the rest.
SendCommand ==
    /\ handle /\ burst > 0
    /\ \/ /\ ~stopped /\ Len(commands) < CommandCapacity
          /\ commands' = Append(commands, "Send") /\ burst' = burst - 1
       \/ /\ stopped /\ burst' = 0 /\ UNCHANGED commands
    /\ UNCHANGED <<task, socket, events, handle, taken, asked, outside, handed, heard>>

AskDisconnect ==
    /\ Quits /\ handle /\ burst = 0 /\ ~stopped
    /\ Len(commands) < CommandCapacity
    /\ \A i \in DOMAIN commands : commands[i] # "Disconnect"
    /\ commands' = Append(commands, "Disconnect") /\ asked' = TRUE
    /\ UNCHANGED <<task, socket, events, handle, burst, taken, outside, handed, heard>>

\* The transport is replaced or the client is gone (samp-client transport.rs).
DropHandle ==
    /\ Quits /\ handle /\ burst = 0
    /\ handle' = FALSE /\ events' = << >>
    /\ UNCHANGED <<task, socket, commands, burst, taken, asked, outside, handed, heard>>

-----------------------------------------------------------------------------
(* The server as the handshake expects it, and the network; neither is        *)
(* followed past the end of the task.                                        *)

\* It answers a query, an open request with its cookie or a reply, the
\* connection request with an acceptance; it speaks RPC once it has the
\* client's "incoming".
Answers(request) ==
    CASE request = "query" -> {[kind |-> "samp"]}
      [] request = "open" -> {[kind |-> "offline", id |-> IF Cookie THEN "cookie" ELSE "reply"],
                              [kind |-> "offline", id |-> "Full"]}
      [] request = "open cookie" -> {[kind |-> "offline", id |-> "reply"],
                                     [kind |-> "offline", id |-> "Banned"]}
      [] OTHER -> {}

Framed(messages) == [kind |-> "framed", messages |-> messages]

ServerAnswers(request) ==
    /\ ~stopped
    /\ request \in {"query", "open", "open cookie"}
    /\ server # "frozen" \/ request = "query"
    /\ to_server' = to_server \ {request}
    /\ \E answer \in Answers(request) : offline' = offline \cup {answer}
    /\ UNCHANGED <<task, queues, consumer, server, stream, rpcs, handed, heard>>

ServerReceives(message) ==
    /\ ~stopped
    /\ message \in {"connect", "incoming"} /\ server # "frozen"
    /\ message = "connect" => Len(stream) < SocketCapacity
    /\ to_server' = to_server \ {message}
    /\ server' = IF message = "connect" /\ server = "listening" THEN "handling"
                 ELSE IF message = "incoming" /\ server = "handling" THEN "open"
                 ELSE server
    /\ stream' = IF message = "connect" /\ server \in {"listening", "handling"}
                 THEN Append(stream, Framed(<<Message("Accepted")>>)) ELSE stream
    /\ UNCHANGED <<task, queues, consumer, offline, rpcs, handed, heard>>

\* RPCs become deliverable with one datagram, perhaps behind a ping or a
\* challenge; or the server ends the session.
ServerStreams ==
    /\ ~stopped /\ server = "open" /\ Len(stream) < SocketCapacity
    /\ \/ \E n \in 1 .. (MaxRpcs - rpcs), before \in {<< >>, <<Message("Service")>>} :
            /\ rpcs' = rpcs + n
            /\ stream' = Append(stream, Framed(before \o [i \in 1 .. n |-> Rpc(rpcs + i)]))
            /\ UNCHANGED server
       \/ /\ stream' = Append(stream, Framed(<<Message("Closed")>>))
          /\ server' = "closed"
          /\ UNCHANGED rpcs
    /\ UNCHANGED <<task, queues, consumer, to_server, offline, handed, heard>>

ServerFreezes ==
    /\ ~stopped /\ Freezes /\ server = "open"
    /\ server' = "frozen"
    /\ UNCHANGED <<task, queues, consumer, to_server, offline, stream, rpcs, handed, heard>>

\* A datagram reaches the receive queue.  One that is lost is one that never
\* does: nothing is promised of this action, nor of ServerAnswers.
Arrive ==
    /\ ~stopped /\ Len(socket) < SocketCapacity
    /\ \/ \E d \in offline : /\ socket' = Append(socket, d)
                             /\ offline' = offline \ {d}
                             /\ heard' = IF d.kind = "samp" THEN heard ELSE 0
                             /\ UNCHANGED stream
       \/ /\ stream # << >>
          /\ socket' = Append(socket, Head(stream)) /\ stream' = Tail(stream)
          /\ heard' = 0
          /\ UNCHANGED offline
    /\ UNCHANGED <<task, commands, events, consumer, server, to_server, rpcs, handed>>

-----------------------------------------------------------------------------
Requests == {"query", "open", "open cookie"}

Next == \/ OnTick \/ OnCommand \/ CommandsClosed \/ SocketError
        \/ OnDatagram \/ HandleMessage \/ EmitEvent \/ EmitFails
        \/ Pass
        \/ TakeEvent \/ SendCommand \/ AskDisconnect \/ DropHandle
        \/ \E m \in to_server : ServerAnswers(m) \/ ServerReceives(m)
        \/ ServerStreams \/ ServerFreezes \/ Arrive

Spec == Init /\ [][Next]_vars

\* select! polls its branches in random order, so none that is ready again and
\* again is passed over for ever; what a handler awaits goes on when it can;
\* the consumer keeps receiving; a server that is there answers queries.
Fairness ==
    /\ SF_vars(tick /\ OnTick) /\ SF_vars(OnDatagram) /\ SF_vars(OnCommand)
    /\ SF_vars(CommandsClosed)
    /\ WF_vars(HandleMessage) /\ WF_vars(EmitEvent) /\ WF_vars(EmitFails)
    /\ WF_vars(Pass) /\ WF_vars(TakeEvent) /\ WF_vars(SendCommand)

FairSpec == Spec /\ Fairness

-----------------------------------------------------------------------------
(* Properties.                                                               *)

Messages == {Message(id) : id \in DisconnectIds \cup {"Accepted", "Service"}}
            \cup {Rpc(n) : n \in 1 .. MaxRpcs}
Events   == {Message(id) : id \in {"Connected"} \cup Disconnected} \cup {Rpc(n) : n \in 1 .. MaxRpcs}
Datagram(d) == \/ d.kind = "samp" \/ d.kind = "offline"
               \/ d.kind = "framed" /\ d.messages \in Seq(Messages)

\* The type invariant (transport.rs:242-275).
TypeOK ==
    /\ phase \in {"OpenRequest", "ConnectionRequest", "Connected"}
    /\ open_sent \in BOOLEAN /\ cookie \in BOOLEAN /\ stopped \in BOOLEAN
    /\ age.query \in 0 .. QueryInterval /\ age.handshake \in 0 .. Retry
    /\ age.start \in 0 .. ConnectTimeout /\ age.recv \in 0 .. PeerTimeout
    /\ age.keepalive \in 0 .. Keepalive
    /\ Len(socket) <= SocketCapacity /\ \A i \in DOMAIN socket : Datagram(socket[i])
    /\ Len(commands) <= CommandCapacity /\ Len(events) <= EventCapacity
    /\ asked \in BOOLEAN
    /\ job.event \in Events \cup {Nothing} /\ job.rest \in Seq(Messages)
    /\ job.stop => job.event.id \in Disconnected

Received == taken \o events

\* Every RPC the reliability layer handed over comes out of the event channel
\* once and in order: however long the consumer lets the task wait in the
\* middle of a datagram, nothing is dropped, and at any time what has been
\* handed over is received, in the channel, being emitted or next in line
\* (transport.rs:427-429, 625-636; the test at 906-975).
BackpressureKeepsOrder ==
    handle =>
    LET inHand == (IF IsRpc(job.event) THEN <<job.event>> ELSE << >>)
                      \o RpcsIn(job.rest)
        all == RpcsIn(Received) \o (IF stopped THEN << >> ELSE inHand)
    IN  /\ \A i \in DOMAIN all : all[i] = Rpc(i)
        /\ ~stopped /\ ~job.stop => Len(all) = handed

\* The consumer learns of every end: a task that stopped has put exactly one
\* Disconnected into the channel, as its last event, whichever handler ended
\* it (transport.rs:350-429; driver.rs on_transport_closed counts on it).
EndsWithAReason ==
    handle =>
    /\ stopped => Received # << >> /\ Last(Received).id \in Disconnected
    /\ \A i \in DOMAIN Received :
          Received[i].id \in Disconnected => stopped /\ i = Len(Received)

\* No RPC reaches the consumer before Connected, and Connected comes once: the
\* server holds its RPCs back until it has the client's "incoming", which the
\* task sends only after the acceptance (transport.rs:703-719).
ConnectedFirst ==
    \A i \in DOMAIN Received :
        /\ IsRpc(Received[i]) => \E k \in 1 .. (i - 1) : Received[k].id = "Connected"
        /\ Received[i].id = "Connected" => \A k \in 1 .. (i - 1) : Received[k].id # "Connected"

\* The task is the transport its consumer is written against: one Connected,
\* then RPCs, then one end, each put into the channel only where there is room,
\* and the end that is the consumer's own only when it has asked: the driver
\* takes that one for a quit and never reconnects (transport.rs:350-429,
\* 570-583; driver.rs:1397-1400).
Greeted == handle /\ \E i \in DOMAIN Received : Received[i].id = "Connected"
Link == INSTANCE Transport WITH
            Capacity <- EventCapacity, Hello <- {Message("Connected")},
            Says <- {Rpc(n) : n \in 1 .. MaxRpcs}, Ends <- {Message(id) : id \in Disconnected},
            Own <- Message("Local"),
            alive <- handle /\ ~stopped, up <- Greeted, leaving <- handle /\ asked, inbox <- events
ImplementsTransport == Link!Spec

\* A handshake is not given up before it was tried: with the answer to the
\* whitelist query lost, the fallback still gets the open request out well
\* before the deadline (transport.rs:55-59, 516-533).
TriedBeforeTimeout ==
    (age.start = ConnectTimeout /\ phase # "Connected") => open_sent

\* A peer whose game stream froze is found dead although its query port still
\* answers (transport.rs:601-604).
FrozenPeerIsNoticed == (phase = "Connected" /\ server = "frozen") ~> stopped

\* A connect never stalls: it ends connected or with the task stopped
\* (transport.rs:55-58, 516-522).
HandshakeDecides == <>(phase = "Connected" \/ stopped)

\* The task takes a connected peer for gone only if nothing arrived for
\* PEER_TIMEOUT: what its doc says (transport.rs:39-40).
TimeoutMeansSilence ==
    [][(phase = "Connected" /\ job.event.id # "Timeout" /\ job'.event.id = "Timeout")
           => heard >= PeerTimeout]_vars

\* Backpressure delays: a handler that waits for room in the event channel
\* gets it when the consumer catches up, as the test of it says
\* (transport.rs:896-906, 969-973) - which the consumer then can.
ConsumerCanCatchUp == Blocked => burst = 0 \/ Len(commands) < CommandCapacity
=============================================================================
