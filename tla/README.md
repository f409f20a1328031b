# A verification of RakClient

RakClient is a headless SA-MP client in Rust. This directory holds TLA+ models of the
parts of it that run concurrently, retry, reorder or recover: the reliability layer, the
transport actor, the way to a socket through a pool of proxies, and the driver of the session; and of what
every packet goes through, the codecs and the chain of handlers and scripts. TLC checks them on small
instances; TLAPS proves the safety properties of the reliability layer, the peer task, the driver, the proxy pool and the search
for an exit for every value of the constants. Paths below are relative to the repository unless they name a module here.

Contents: [1 Inventory](#1-inventory), [2 Modules and code](#2-modules-and-code),
[3 Runs](#3-runs), [4 Fairness](#4-fairness), [5 Proofs](#5-proofs),
[6 Where the code and its words differ](#6-where-the-code-and-its-words-differ),
[7 Abstractions](#7-abstractions), [8 Not modelled](#8-not-modelled), [9 Plan](#9-plan).

## 1 Inventory

Data flows down and up one stack; every arrow is a bounded queue or a direct call.

    proxy.txt <-> app (main.rs)  claims a proxy; select! over ctrl-c, stdin lines, next_event
       |  next_event / send_chat          ^ ClientEvent
    driver (samp-client/driver.rs)  state machine, timers, walker
       |  bodies through the registry's chain (registry.rs, samp-script), coded by samp-proto
       |  RakHandle: commands (128)       ^ RakEvent (128)
    peer task (raknet/transport.rs) select! over socket, 20 ms tick, commands
       |  enqueue / update / on_receive   ^ delivered messages
    reliability layer (raknet/reliability.rs)
       |  UDP, perhaps through a SOCKS5 relay (raknet/socks5.rs)
    server

| Component | State it keeps | Operations | What makes it correct |
|---|---|---|---|
| Reliability layer `raknet/src/reliability.rs` | per layer: send queue, resend map, counters of message numbers, split ids and ordering and sequencing indices; received numbers and their highest, acks owed, split buffers; per channel the next index, the heap, the abandoned indices | `enqueue`, `update` (acks, send queue, resends), `on_receive` (acks, packets), RTT samples | an ack frees only what was taken; ordered messages come in order, once, and the channel never waits for what nobody owes; sequenced ones never go back; payloads come intact; everything reliable is eventually acknowledged |
| Peer task `raknet/src/transport.rs`, `lib.rs` | phase, cookie, whether the open request went out, five timestamps, the reliability layer | handlers of the tick, of a datagram (offline or framed), of a command, of the closed command channel and of a socket error; `connect` and the hunt for a proxy exit before it | no event is lost or reordered by backpressure; every end is told, once and last; the handshake decides; a frozen peer is noticed and a live one is not dropped |
| Driver `samp-client/src/driver.rs`, `transport.rs`, `lib.rs` | connection state, spectating, spawn and class flags, sync interval, reconnect timer, attempt count, walk, `closed`; a shared bot state | `next_event` with its handlers of RPCs, sync ticks, script requests, the end of the transport; `send_chat`; `on_disconnect`, `on_reconnect` | the sync interval is armed exactly when needed; `Spawn` is sent only when granted; nothing of one session leaks into the next; reconnects are capped, terminal reasons final, and the client never ends without a cause or waits for nothing |
| SOCKS5 relay `raknet/src/socks5.rs` | none of its own: the control connection and the relay address of an attempt | associate, CONNECT, STUN and TCP address questions, whitelist request | an exit is used only if the server answers through it; one that splits TCP and UDP is not; the hunt ends |
| App `app/src/main.rs` | the driver, the stdin channel, the script engine; the file `proxy.txt`, shared with other clients | one `select!`; claims a proxy from the file | a line cancels `next_event` harmlessly; no proxy is lost or used twice; a bad line is not read for ever |
| Registry `samp-client/src/registry.rs` | lists of handlers | dispatch with pass, drop, rewrite | each handler sees the latest payload; a drop is final; what no handler touched is unchanged |
| Emulation, aim, bot state `samp-client/src/*.rs` | vehicle, follow target, cadence, money, weapons | updates from RPCs, replies | answers match what the server was told |
| Codecs `samp-proto/src` | a bit cursor; the script stream's two cursors and bit count | encode, decode, edit in place | decode gives back what was meant, a cut body is refused, an edit changes only the bits it writes |
| Script host `samp-script` | Luau VM, scheduled tasks, one bit stream and dirty flag per dispatch | chokepoint callbacks, bit stream methods, sends, timers | a script that writes rewrites, one that returns false drops, and nothing else changes a packet |
| Maps, navigation, viewer, tools | loaded files, meshes | loaders, path search | geometric |

What is hard here: two `select!` loops, one random and one biased, joined by bounded channels
that both sides fill; a handler that awaits in the middle of its work; a UDP network
that loses, repeats and reorders under a protocol that resends under fresh numbers; refusals
(of too large, too many or conflicting fragments) that must not stall a channel; timers that
race late answers; sessions that follow one another in one driver that resets its
flags one by one; a future that is dropped at an await; several processes that rewrite one file
without a lock; replies that come late to a socket that asks two questions; fields at any bit offset in bodies
that may end anywhere. `PROJECT.json` lists each hazard at its line with
the properties that watch it.

## 2 Modules and code

**ChannelOps** has the receiver's ordered channel as pure operators:
`DeliverOrdered` is the ordered branch of `deliver`, `AbandonOrdered` is `abandon_ordered`,
`Drain` is `advance_ordering`. The loop of `advance_ordering` is stated by
what it computes: the first index past `expected` that is neither buffered nor abandoned
(`FirstMissing`), and the buffered messages below it in ascending order.
No operator is recursive, so the proofs can use them.

**OrderingChannel** is one such channel fed with every message and every abandonment in any
order (`Deliver`, `Abandon`). **OrderedStream** is what it promises: a position that moves
forward, delivering or skipping one index at a time. OrderingChannel instantiates it with
the delivered log and the next expected index, as the property `ImplementsStream`.

**ReliabilityLayer** composes the channels into a link: the sending half of one layer, a
network, the receiving half of another. Its variables have the names of the struct's fields.
`Enqueue` is `enqueue`; `SenderUpdate` is `flush_send_queue` and `flush_resends`;
`ReceiverUpdate` sends the acks owed; `ReceiveData` is `on_receive` down through
`process_packet` and its refusals; `ReceiveAck` is `handle_acks`; `LoseData` and
`LoseAck` are the network. `rx.got`, `log`, `rx.discarded`, `processed` and `sent` are history.

**PeerTask** is `PeerTask::run` with its surroundings. A handler that emits stops in
the middle (`job` holds the event it waits to place and the messages of the datagram
still to handle) and nothing else in the task moves until there is room, as in the code. The consumer
takes events and may send commands for each; the server goes through its side of the
handshake. Time passes in units of the whitelist fallback (`Pass`), and every timestamp is kept as its age.

**Transport** is what the holder of a `RakHandle` may rely on: an inbox of bounded size, one hello, then what the session says, then one end, which is the holder's own only
after it asked. PeerTask instantiates it (`Link`): it is alive while there is a holder and the task has not stopped, up once `Connected` has
been put into the channel, `leaving` once the holder has sent `Disconnect` (`asked`). DriverProofs instantiates it with the driver's `peer` and its names of events.

**Driver** is `next_event` and its handlers. A method of the driver is an operator on the
record `d`; an action is one pass of the loop, which ends with `flush_outbox` and
`poll_bot_actions` (`Finish`). `dialing` is the await inside `on_reconnect`. `peer` does at least what a
Transport may do; it may also end without a word.
Whether a send of the pass succeeds (`linked`) is looked up once, as it begins.
`SendChat` and `CancelReconnect` are the app's `select!`.

**ProxyPool** is `claim_proxy_from_file` run by several clients over one file. A client's read, the truncation and the
write of `std::fs::write`, and the parse are steps of their own (`Read`, `Truncate`, `Write`, `Claim`, `Drop`); each may fail
(`ReadFails`, `OpenFails`, `WriteFails`, `DropUnresolved`), and a client may be killed. `rest` is `kept`. `taken`, `overlapped`, `failed` and `halved` are history.

**Tunnel** is `connect` and `establish_proxied` with one `probe_exit` per attempt and the SOCKS5 exchanges it makes. `stage` is what the code awaits, `inbox` what
waits in the attempt's UDP socket. The STUN server, the game server and its address filter are the actions under
"The network" and the variables `egress`, `replies`, `answer` and `admitted`.

**Launch** composes the two: a client takes a line from the pool beside the others, then connects with it, or directly if it got none.

**BitStream** has the bit writer and reader of `bitstream.rs` as pure operators on bytes, each the loop of the code over its bytes.
**Fields** has the wire types of `fields.rs` and the `read_field!` and `write_field!` macros; **Events** the field
list of every event of `events/mod.rs`; **Packets** the bodies written and read by hand (`codec.rs`, `sync.rs`, `weapon.rs`), where reader and writer are
separate code and so have a list each; **Huffman** `encoded.rs`; **RwBitStream** the seekable stream of scripts. **Messages** says of
each message what its sender means (`Meaning`), what goes on the wire (`Wire`) and what a receiver makes of it (`Received`).
**HandlerChain** is one body's way through `run_chain`: catch-all handlers that run the scripts of
`dispatch_chokepoint` over one shared stream, method call by method call, then the typed handlers of `register`, that pass, drop or rewrite.

**MC...** modules give TLC its instances; **NatLemmas**, **ChannelOpsProofs**,
**OrderingChannelProofs**, **ReliabilityLayerProofs**, **PeerTaskProofs**, **DriverProofs**, **LaunchProofs** (with those
of ProxyPool and Tunnel) and **HandlerChainProofs** (with those of BitStream and RwBitStream) hold the proofs. The operators
named as mutants in the comments belong to no specification: each is a plausible
mistake in the definition it stands beside, and its property is violated when it is put in that definition's place.

## 3 Runs

States are distinct states found.

| Run | Instance | Shows |
|---|---|---|
| `channel` | 2 payloads, indices 0..3, window 2; 81 thousand states | types; ascending log; every passed index delivered or abandoned; nothing deliverable held back; implements OrderedStream |
| `reliability_mixed` | 2 messages, of any class and whole, or ordered and of 1, 2 or 3 chunks where 2 are the most that is reassembled; 4 numbers, 1 reassembly slot, any datagram late or repeated, acks lost; 504 thousand | acks free only what was taken; payloads intact; no channel waits for what nobody owes; refusals skip nothing else; sequenced never stale; at most once but for plain Reliable |
| `reliability_liveness` | 1 message of 1 or 2 chunks, the first copies may be lost | everything is acknowledged and delivered |
| `peer_events` | all queues of size 1, 2 RPCs, consumer that bursts, asks to disconnect or leaves; 3.7 million | RPCs once and in order under backpressure; one reason, last; implements Transport, which has Connected first and once |
| `peer_handshake` | cookie, lost offline datagrams, a server that freezes; 220 thousand | tried before given up; a frozen peer is noticed; the handshake decides |
| `driver_scripts` | 1 attempt, delay 1, scripts that ask for spawns and reconnects; 2.4 million | Spawn only when granted; no early request |
| `driver_retries` | 2 attempts, delay 2, scripts that drop, stop, walk, sync; 230 thousand | retries capped; terminal is final; ends only for a cause; a walk belongs to its session |
| `driver_liveness` | 1 attempt, stdin, outbox; 180 thousand | a dead transport is replaced or the client ends |
| `handler_chain` | every event, RPC body and sync packet in four variants of its values, whole or without its last byte, through 2 typed handlers; bodies of one and two bytes through 2 scripts of 3 calls; dialogs; runs of bits and compressed numbers at every bit offset; 24 thousand states | a message is read as it was meant, fields rewritten by typed handlers included; a cut body is refused; a bit no script wrote survives; a writer appends |
| `launch` | 2 clients, a pool of a comment, a bad line, a proxy with a session in its name and one without, 1 fault; 2 attempts, 2 STUN requests, 2 addresses; 1.2 million | no line lost; claims exclusive; direct only when the pool is empty; an exit in use was admitted; a split exit is not used; every launch ends |
| `reliability_stale_slot`, `driver_gives_up` | one property each | expected violations, see [section 6](#6-where-the-code-and-its-words-differ) |

**Why the bounds are enough.** What the reliability properties tell apart is a message before,
at and behind the next index, a fragment first, last, or of another message, and a copy under an old or
a new number: two messages of two fragments and one spare number give all
of them, and one reassembly slot for two split messages makes every refusal happen. The limits
(`OrderWindow`, `DedupWindow`, `MaxSplitCount`, `MaxAckSpan`) keep their order in the code and are small
where a run is about them. In the runs of the link that pass, `OrderWindow` and `DedupWindow` exceed what is sent; the `channel` run
stands on both sides of its window, and `ReliabilityOrderWindow.cfg` shows what lies beyond it for a link. The pool needs two clients for every overlap of two claims; with its four lines each of
the three ways through a line (kept, dropped, claimed) comes before and after the others, and one fault reaches each error branch.
Two addresses tell equal from different, two attempts make a reply of the first come in the second, two STUN requests
leave one unanswered. The proofs remove these bounds. The code has 15 attempts and 3 requests. In
HandlerChain the variants have zeroes, high bits, absent groups, text longer than
its prefix counts and text that ends in zeroes; five characters, two of them equally frequent and one absent, give codes of different lengths;
three calls are a seek, a write and a read in any order. Queues of size one in PeerTask meet every full and
empty case; larger ones only delay them. Ages stop at the limit they
are compared with. Driver's delays and attempts of one or two keep every comparison
(`Delay > MaxAttempts` matters only to `driver_gives_up`, which has it; in the code the delay is 5 s,
the tick 100 or 200 ms and the cap 5).

Every specification may stop (a finished task, a finished client, a bound reached), so the
configurations say `CHECK_DEADLOCK FALSE`, except `channel`. What a deadlock check would
find is stated instead: `ConsumerCanCatchUp`, `EndsWithAReason`, `NoLimbo`.

## 4 Fairness

*ReliabilityLayer.* Weak fairness of both updates (the tick runs them for ever) and of the
receipt of each datagram that stays receivable. A datagram is lost only below `LossyData` and `LossyAcks`: the
network may lose, but not for ever.

*PeerTask.* The `select!` in `run` is random, so a branch ready again and again is taken: strong fairness
of the tick, the datagram, the command and the closed channel. Weak fairness of what a handler does after an await and
of the consumer, which receives in a loop. Nothing is promised of the server or of the network. `Pass`
waits while the task has something to do and could do it: handlers take far less than the 300 ms of a unit.

*Driver.* Weak fairness of each kind of step of `next_event`, which the app awaits again and again, and
none for the peer, the scripts, stdin or the cancellation. The `select!` there is biased and the reconnect timer is its
first branch, hence the guards `d.timer # 0` of the others. While the sync interval ticks it is the
clock of the timer (`Delay` ticks make the reconnect due); without it the timer is due at once.

*Launch.* Weak fairness of each client's steps at the pool (file operations and look-ups return) and of the connecting client. That
includes the steps that end with a proxy's reply: the code has no timeout there, so `LaunchDecides` needs a proxy that answers or closes the connection.
`LaunchSilentProxy.cfg` leaves that assumption out and finds the client waiting for ever. Nothing is assumed of the UDP
network: every wait for a datagram has a timer.

*HandlerChain* has no liveness property: the host runs a script until it returns.

## 5 Proofs

| Theorem | Module | Property |
|---|---|---|
| `TypeCorrect` | OrderingChannelProofs | `TypeOK` |
| `OrderedDelivery` | OrderingChannelProofs | `InOrderAtMostOnce`: the log has strictly ascending indices |
| `NoSilentGap` | OrderingChannelProofs | `PassedIsExplained`: every index below the next one was delivered or abandoned |
| `PromptDelivery` | OrderingChannelProofs | `NothingDeliverableWaits` |
| `Refinement` | OrderingChannelProofs | `ImplementsStream`: the channel implements OrderedStream |
| `TypeCorrect` | ReliabilityLayerProofs | `TypeOK` |
| `AckSafety` | ReliabilityLayerProofs | `AckedWasAccepted` |
| `StreamHasNoGap` | ReliabilityLayerProofs | `NothingSkipped` |
| `PayloadsAreMessages` | ReliabilityLayerProofs | `IntactPayload`, if `IdsSuffice` |
| `OnceUnlessReliable` | ReliabilityLayerProofs | `AtMostOnceUnlessReliable`, if `IdsSuffice` |
| `SequencedInOrder` | ReliabilityLayerProofs | `SequencedNeverStale`, if `IdsSuffice` |
| `HolesAreOwed` | ReliabilityLayerProofs | `HoleIsOwed`, if `IdsSuffice` and as long as no window overflows |
| `HolesAreOwedWithinWindows` | ReliabilityLayerProofs | `HoleIsOwed` of `Spec`, if `IdsSuffice` and the session is shorter than the windows |
| `TypeCorrect` | PeerTaskProofs | `TypeOK` |
| `BackpressureIsLossless` | PeerTaskProofs | `BackpressureKeepsOrder` |
| `EveryEndHasAReason` | PeerTaskProofs | `EndsWithAReason` |
| `ConnectedComesFirst` | PeerTaskProofs | `ConnectedFirst`: Connected once, before any RPC (runs check it as a part of `ImplementsTransport`) |
| `HandshakesAreTried` | PeerTaskProofs | `TriedBeforeTimeout` |
| `IsTheTransport` | PeerTaskProofs | `ImplementsTransport`: the peer task implements Transport |
| `TypeCorrect` | DriverProofs | `TypeOK` |
| `EveryTransportWillDo` | DriverProofs | every step of Transport's own is one the driver's model allows its peer |
| `RequestsAreInformed` | DriverProofs | `NoEarlyRequest` |
| `SpawnsAreGranted` | DriverProofs | `SpawnNeedsGrant`, if `~SelfSpawn` |
| `NoneHasACause` | DriverProofs | `EndsForCause`, if `~Stdin` |
| `WalksStayInTheirSession` | DriverProofs | `WalkIsThisSession`, if `~SelfSpawn` and no script reconnects |
| `RetriesAreCapped` | DriverProofs | `RetriesCapped`, if moreover `~Stdin` |
| `TheEndIsFinal` | DriverProofs | `TerminalIsFinal`, if `~Stdin` and no script spawns, sends or reconnects |
| `PoolTypeCorrect` | LaunchProofs | `TypeOK` |
| `PoolLosesNothing` | LaunchProofs | `NoLineLost` |
| `DirectIsLastResort` | LaunchProofs | `DirectMeansEmpty` |
| `PoolIsExclusive` | LaunchProofs | `ClaimIsExclusive` |
| `TunnelTypeCorrect` | LaunchProofs | `TunnelTypeOK` |
| `TunnelInvariant` | LaunchProofs | `TunnelInv`, the inductive invariant |
| `TunnelExitAdmitted` | LaunchProofs | `ExitIsAdmitted` |
| `TunnelSplitRefused` | LaunchProofs | `SplitNeverConnects` |
| `TunnelBlamesJustly` | LaunchProofs | `BlameIsJust`: the final error blames a split only if some exit had one |
| `LaunchTypeCorrect` | LaunchProofs | `LaunchTypeOK` |
| `LaunchUsesPool`, `LaunchUsesTunnel` | LaunchProofs | a launch implements ProxyPool's and Tunnel's specification |
| `LaunchIsSafe` | LaunchProofs | the safety properties above, of the composition |
| `UntouchedBitsArrive` | HandlerChainProofs | `UntouchedBitsSurvive` |
| `WritesAreAppended` | HandlerChainProofs | `WritesAppend` |
| `RunsArriveAsMeant` | HandlerChainProofs | `ReadAsMeant`, for messages that are runs of bits |

The proofs assume only the named assumptions on the constants, which TLC
evaluates in every run: limits and bounds are naturals (a message may have a chunk, so `MaxSplitCount` is not 0), outgoing messages are messages, and
message numbers stay in one session's 16 bits; the lines of the pool are
different occurrences, at least one attempt is allowed, and no address is mistaken for another kind of datagram; the six durations of
the peer task are in the order of the code's (the fallback is the shortest, a keepalive shorter than the peer's timeout) and its queues hold at least one;
the driver has an attempt and a delay; encoders make bytes, a script writes bits and seeks to naturals, and `write_bits` is handed the bytes its bits take
(`AreWrites`, what the comment at `bitstream.rs:22` asks of its callers and each of them does).

*The channel.* `ChannelOpsProofs` shows what `Drain` does to a channel: the next index is
the first one missing, the buffer below it is logged in ascending order, the rest is kept. `FirstMissing` is a
minimum of a set of naturals, so that it exists and is unique comes from `NatLemmas`. A channel is `Healthy`, for a set of messages offered and one of indices
given up, when it is `Sound` (the log is ascending and below the next index, what is logged or buffered was offered, each abandoned index given up, each passed one
explained, nothing buffered too far ahead), the buffer is in the window, and nothing deliverable waits. The last is needed in the induction: without it
a buffered message at the next index could be passed and lose its explanation. `DeliverHealthy` and `AbandonHealthy` say that the two operations keep
a channel healthy and lose no index it passed or holds; `IInv` of OrderingChannel is this with the types, and the link uses the same lemmas for each of its channels.

*The link, acknowledgements.* `AckedWasAccepted` says that a reliable packet ever sent is still tracked under some number, or
the receiver took it under some number, or refused one as too old. It is not inductive: an acknowledgement in flight
might name a number nobody answered for (`AcksAnswered` excludes it), and the entry it frees might hold another
packet (`ResendMatchesData` excludes that). `IInv` is these with the types; the proof has one lemma per action.

*The link, payloads.* `LinkInv` relates what the application is handed to what was enqueued, in three layers.
`SentInv` is about the sender alone: a packet queued or sent is one chunk of an enqueued message and says so, each chunk is there, waits once and is sent again only
if it is reliable, chunks of one message share a split id, indices ascend in the order of enqueuing.
`Shaped` says that every channel of the receiver is `Healthy`: `NothingSkipped` follows. `Faithful` says, while ids last, that a reassembly buffer holds
chunks of one message under its header, not all of them; that what was pushed is whole messages; that the pushes of a
sequenced message are at or below its channel's mark; that an unreliable message was pushed only when all its chunks were accepted, each of which has
one number (`Deduped`: an accepted number is not accepted again); and that only plain Reliable messages are pushed twice.
One lemma per way `Accepted` can end (`AcceptsWhole`, `AcceptsRefused`, `AcceptsOverCapacity`, `AcceptsFragment`, `AcceptsLast`) shows that the link after it is
`Accepts` of the one before.

*The link, holes.* `HoleIsOwed` needs that what was acknowledged is not forgotten. `OwedInv` says that a reliable packet is tracked or a copy was accepted (`Tracked`),
and that each accepted packet of an ordered message is `Safe`: its channel passed, holds or has given up the index, or its chunk is in a buffer (`Kept`). If no packet of the message
at the next index were queued or tracked, each of its chunks would be in the one buffer of its id, which would be complete.

Hypotheses. `IdsSuffice` is that at most `SplitIdMod` messages are enqueued, the limit of 65536 that the module's doc sets a session (`reliability.rs:13-16`); beyond it two
messages can share a split id and a buffer. `HolesAreOwed` holds as long as no acknowledged packet was dropped as too old (`AckedAccepted`)
and no ordered message is more than `OrderWindow` ahead of its channel (`Reach`): the code acknowledges both kinds and drops them, and
`ReliabilityOrderWindow.cfg` shows the stall. That these hold throughout every session no longer than the windows is
`HolesAreOwedWithinWindows`, whose hypotheses the run `reliability_mixed` satisfies.

*The peer task.* What is lost under backpressure would be lost in the middle of a handler, so `BackpressureKeepsOrder` counts the RPCs from the server's
hand to the consumer's: received, in the channel, in the job in progress, in the datagrams of the socket, in those still to come. Datagrams carry
runs of them, and `Chain` says that there is a division of the numbers among the datagrams of a queue such that each carries its own; taking the first or appending
one more keeps that. `InOrder` has the half up to the job, `OnTheirWay` the half behind it. That the RPCs of two sequences
together are those of one and then the other is by induction on the length of the sequence, written as the least counterexample (`RpcsInConcat`). `ConnectedFirst` needs what holds
before the acceptance (`Unaccepted`: no RPC can be anywhere yet, because the server sends none before its own handshake is done)
and after it (`Accepted`). `TriedBeforeTimeout` needs that until the first open request the age of the query is that of the attempt (`Untried`).

*Task and driver.* `IsTheTransport` needs one more invariant: each event the task hands over is a step of Transport (`EmitMaps`; a hello because `Unaccepted` and `Accepted` leave no other
before it, an RPC because they put one there, an end because `stop` and the kind of the event agree), and for the rest one has to know that `Local` is made by the command alone
(`LocalMade`), so that behind it, and behind a command that waits, is the consumer's request (`Owned`). The driver takes a `Local` for a quit and never reconnects (`driver.rs:1397-1400`).
`EveryTransportWillDo` is the other half: the driver's model allows its peer every step a Transport takes on its own. The theorems of the driver thus hold over any implementation
of Transport, of which the task is one, whatever its timers, queues and handshake.

*The driver.* A method is an operator on the record, so its lemma is about two records: `Carries`, `KeepsGrant`, `KeepsCalm` and `Idles` are what a
method keeps, they compose, and a step is a chain of methods. `IInv` ties the driver to what its transport has in store (`Waiting`: a `Connected`
is the first event, and met only by a driver that waits for it) and has one condition for a driver inside `reconnect` (`Dials`) and one for the others (`Rests`).
The hypotheses of the theorems are the circumstances in which the properties hold at all: for each of them TLC finds a violation when it is dropped,
and [section 6](#6-where-the-code-and-its-words-differ) has the ones that contradict a comment. The default configuration of the client has no self-spawn.

*The pool.* `NoLineLost` is inductive once strengthened with where each line a client may drop still is: every line nobody picked is in the file,
or among the lines of a client that has truncated the file, and a client between its read and its write holds all of them but the
picked ones (`KeptInv`). `ClaimIsExclusive` rests on what a client that met nobody knows of the file: that it is the one it read (`AloneInv`).
`DirectMeansEmpty` needs `EmptyInv`: while no call failed, every rewrite worked, so that no client gives up after a line it could not drop.

*The exit.* `ExitIsAdmitted` says that the query decides, but for a STUN reply that is still owed. It needs a count of replies: `OwedInv` says that the reply to a
single request is either on its way or in the socket, once, and gone when its address has been read, so that with nothing
owed the datagram accepted is the game server's; `AnswerInv` says that one comes only from a server that lets the exit in.
`TruthInv`, that replies in the socket are about the exit in use, depends on the new socket of each attempt (the mutant that keeps the old one breaks it);
`SplitNeverConnects` follows with `ComparedInv`. The composition adds only that a step of a launch is one of the pool's, one of the connection's, or
`Begin`, which is one of the connection's.

*The scripts' stream.* `UntouchedBitsSurvive` is about the end of the chain; `IntactInv` says it of every moment, of the three places where the body may be:
what came, what the next handler gets, the stream the scripts share (with enough bytes for its bits). Two facts about bytes carry it:
`ByteOf` and `ByteBits` are inverse, so that a stream taken as bytes and read as bits again is the same up to its length (`BitsOfBytes`, `BytesOfBits`), and `WriteAt` changes
the positions it writes and no other, whether it extends the buffer or overwrites (`WriteAtKeeps`). `replaced`, a history variable, keeps out the bodies that a typed handler
encoded anew.

*The writer.* `WriteBits` shifts and ors bytes, `WritesAppend` speaks of bits. `ShiftLeftBits`, `ShiftRightBits` and `OrBits` say what each byte
operation does to each bit. `Holds(w, bits)` says that a writer's buffer is those bits and zeroes behind them; `ByteWritten` looks at one byte of the buffer, which may have the end of
a chunk spilled into it, the start of the next, both or neither, and `WriteBitsAppends` concludes that a writer that holds `bits` holds them with the new ones appended
afterwards. The zeroes matter: the first chunk is ored into the free bits. The body of a whole list of writes is a loop; its turns are followed from `NewWriter` by least
counterexample (`WritesHold`).

*The reader.* `RunsArriveAsMeant` is `ReadAsMeant` for the messages that are runs of bits, those that `write_bits` and `read_bits` are the whole of. `ChunkRead` says which bits of the body
`ReadChunk` puts where, `LowBitsAdded` which bits of its input a write adds; both say it of the low bits of a byte, so `ReadBitsReads` can conclude that a read over the bits
of one write makes what the write carried (`Carried`: the bits of a last byte above the width are gone, in the code too) and stops where the next write's begin. `RunsAreRead` follows the turns of the loop:
`ReadSoFar` is what they should have made after each, satisfies the recursion, and is therefore what they made. From the writer to the reader the body is `IntactInv`'s with nothing touched, and `Arrived` adds
that what the receiver made and what it should make are not changed on the way.

*Only model-checked.* Liveness (the prover has no rule for it here) and, in HandlerChain, `CutIsRefused` and the rest of `ReadAsMeant`: that what a decoder reads is what its encoder
wrote is an induction over the fields of each message, nested for strings and Huffman codes. The provers have no induction over data, and one
spelled out as a least counterexample, as in `WritesHold` and `RunsAreRead`, would be needed for each layout.

## 6 Where the code and its words differ

The property is what a comment, a doc or a test says, and TLC's trace is what the code does.
Two are runs of the project that expect the violation:

| Run, property | What happens |
|---|---|
| `reliability_stale_slot`, `SlotsAreInProgress` | a late copy of a fragment opens a buffer that never completes; 32 of them refuse all split messages |
| `driver_gives_up`, `LostSessionIsRetried` | a session lost before its spawn keeps its tick; each failed tick counts an attempt until none is left, before the first reconnect |

The others have a configuration each, run as `tlc -config X.cfg MCReliabilityLayer` (`PeerTask`, `Driver`, `MCHandlerChain`, `MCLaunch`); each ends in a trace:

| Configuration, property | What happens |
|---|---|
| `ReliabilityDuplicate`, `AtMostOnce` | a plain Reliable message whose ack is late is resent under a fresh number and delivered twice (`reliability/tests.rs:44`: "duplicate must be dropped") |
| `ReliabilityAckSpan`, `AckFreesResend` | one ack range wider than the limit discards itself and every range after it (`reliability/tests.rs:59`: "ACK frees the resend queue") |
| `ReliabilityOrderWindow`, `HoleIsOwed` | an ordered message too far ahead is acked and dropped but not abandoned, and the channel later waits for it for ever (`reliability.rs:683-685`) |
| `PeerSpuriousTimeout`, `TimeoutMeansSilence` | after a long wait for the consumer the tick may be taken before the datagrams that arrived meanwhile (`transport.rs:39-40`) |
| `PeerStandstill`, `ConsumerCanCatchUp` | the task waits for room in the event channel, the consumer for room in the command channel (`transport.rs:894-898`) |
| `DriverStaleWalk`, `WalkIsThisSession` | a script's reconnect does not end the walk (`driver.rs:1387`) |
| `DriverBannedLine`, `TerminalIsFinal` | a line sent just after a ban, typed or from a script's handler of the disconnect, schedules a reconnect (`driver.rs:1402-1403`: "stop cleanly instead of looping") |
| `DriverSelfSpawn`, `MilestonesInOrder` | with the self-spawn fallback on, flags of an old session spawn a client before it has joined (`driver/tests.rs:164`) |
| `DriverCancelled`, `EndsForCause` | a line that arrives while a reconnect is awaited (up to seconds behind a proxy) drops it with the timer already taken, and the client ends with attempts left (`driver.md:329`) |
| `DriverNoRequest`, `SpawnIsRequested` | spawn info after the class response is never followed by a request: the repeated class request of the comment `driver.rs:820-821` is gone |
| `HandlerReset`, `WritingRewrites` | one script's `reset` clears the dirty flag another script's write had set, and its rewrite is lost (`samp-script/src/lib.rs:61`: "any handler that writes to the bitStream rewrites it") |
| `HandlerCursor`, `ScriptsReadFromTheStart` | scripts share one stream: the second reads on where the first stopped (`samp-script/src/lib.rs:60`: "over a copy of `payload`") |
| `HandlerEmptyWrite`, `StreamHoldsItsBits` | an empty write past the end counts bits the buffer does not have; the slice `as_bytes` then takes is out of its bounds (`rwbitstream.rs:33`) |
| `LaunchNoSharedProxy`, `NoSharedProxy` | two clients that read the pool before either has rewritten it use one proxy (`main.rs:185-186`: "so a concurrent or subsequent agent can't reuse it") |
| `LaunchConnectedWasAnswered`, `ConnectedWasAnswered` | a late STUN reply passes for the answer of the game server, and an exit its filter refuses is taken (`transport.rs:172-174`: "no query reply") |
| `LaunchSilentProxy`, `LaunchDecides` | a proxy that accepts the connection and says nothing is waited for for ever (`socks5.rs:96`); the next session is never tried |

Read off the code without a run: `DecodeEvent` accepts a body longer than its event, and a typed rewrite drops the surplus (`from_values`, which "errors on an arity or type mismatch", takes surplus values too); the bit count of a Huffman string is `as u16`; a
compressed vector of NaNs is written as its magnitude alone and read as three components; a proxy whose name does not resolve
while DNS is down is dropped from the pool for good; a pool that cannot be rewritten and has a malformed line first gives no proxy at all
though it has others.

`TerminalIsFinal`, `EndsForCause`, `WalkIsThisSession`, `LaunchDecides` and `HoleIsOwed` are also checked, and hold, in runs without
the ingredient that breaks them (stdin, a script's reconnect, a silent proxy, a message beyond the window).

## 7 Abstractions

*ReliabilityLayer.* One ack datagram per update and one packet per data datagram: batching decides only which packets share a fate, and
separate ones may share any. The split loss of a datagram that carries several is a loss of each. RTT and RTO are left out: an entry may be
overdue at any update, but never before an older one. Message numbers do not wrap (the limit
stated in `reliability.rs:13-16`). The opposite direction is a second copy; a layer's halves share no state.

*PeerTask.* A framed datagram is the list of messages `on_receive` hands over for it. Messages and RPCs are their kind and
number. Offline datagrams arrive at most once or never. The cipher, the contents of the auth key and the bodies are left out.

*Driver.* `connected_since` is "recent" or "stable"; `STABLE_SESSION` (60 s) is longer than a reconnect delay. A send fails exactly when the peer task has
ended, looked up once in a pass. A wrong password ends as a ban does. A script's `reconnect(ms)` uses the configured delay. At most `MaxFlags` script
requests wait at one poll. Of all awaits only that of a reconnect is cancelled: the others are sends, which wait only at a full command
channel. A peer task that panics ends without a reason. Packets other than RPCs are one
kind of send.

*ProxyPool.* Lines of the file are model values, all different and of one length, so that writing over a longer text leaves whole lines of it. A line's trimming and syntax are the sets `Comments` and
`Malformed`. A client given `--proxy` never touches the file. `MaxFaults` bounds the calls that fail.

*Tunnel.* A SOCKS5 exchange is one step, accepted or refused or closed at any of its reads. The four queries are one: any answer decides. All addresses are IPv4. `admitted` grows by
the TCP address of an exit when the whitelist request gets to the server; that the server answers only addresses it let in is the assumption under which the code
was written, and `ExitIsAdmitted` is about such a server. The proxy gives any session any two addresses.

*Codecs.* A number is its little-endian bytes; a float is told apart only where the code compares it. A string is its bytes; that a name must be UTF-8 is modelled
where a reader demands it. The components of a vector are not told apart. Huffman's table has five characters instead of 256, with the code's way to build the tree.

*HandlerChain.* Scripts are any sequence of calls; their return values are pass, drop or fail. Handlers of ids see the event; what one replaces is one field.

## 8 Not modelled

The cipher and its tables, the datagram header, the auth table: conversions without state. Bot state, emulation and aim: fields set by the event that names them, and floating point. Maps, navigation meshes, the viewer: files and geometry. Luau
scripts: arbitrary programs, here a set of deeds; the Luau library and its timers. Tools and test support: not part of the client; the
fake server of the tests guided the server side of the models.

## 9 Plan

Done, in this order, because each part rests on what the one before it promises: ChannelOps, OrderingChannel with OrderedStream, ReliabilityLayer, PeerTask with Transport,
Driver; ProxyPool, Tunnel and Launch; BitStream up to HandlerChain; the proofs of the channel, the link, the pool, the exit, the peer task, the driver, the scripts' stream and the bit writer.

What would come next:

1. **ClientLink**: Driver and PeerTask composed over the two channels, with sends that wait and cancellation at each of them.
2. **WireNumbers**: message numbers, split ids and ordering indices at their widths, the dedup window at the wrap.
3. **ScriptTasks**, **Emulation**: the Luau scheduler and the anti-cheat answers.
4. Proofs: that a decoder reads what its encoder wrote, layout by layout.
