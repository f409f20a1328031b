-------------------------------- MODULE Tunnel --------------------------------
(***************************************************************************)
(* How a client gets its socket: connect, establish_proxied and probe_exit  *)
(* (crates/raknet/src/transport.rs) with the SOCKS5 exchanges they make     *)
(* (crates/raknet/src/socks5.rs).  A proxy name that carries a session is   *)
(* tried with a new session, another exit, up to MaxRotations times.  Each  *)
(* attempt has a new UDP socket, asks a STUN server which address the UDP   *)
(* leaves from and a web server which one the TCP leaves from, refuses an   *)
(* exit where the two differ, has the game server's filter let the TCP      *)
(* address in, and takes the exit if the game server's answer comes back.   *)
(*                                                                          *)
(*    stage    what the code awaits;  attempt, of attempts at most          *)
(*    tries    STUN requests sent in this attempt                           *)
(*    udpIp, tcpIp       what the two questions found, Unknown if nothing   *)
(*    lastSplit          whether some exit was refused for its split        *)
(*    inbox    what waits in the socket: the address a STUN reply reports,  *)
(*             "game", or "other" from elsewhere than the relay             *)
(*                                                                          *)
(* The rest is outside: egress, the addresses this session leaves from;     *)
(* replies, the STUN replies on their way; answer, whether the game         *)
(* server's is; admitted, the addresses its filter lets in.                 *)
(* History: splitSeen, whether some exit asked was split.                   *)
(*                                                                          *)
(* A SOCKS5 exchange (method, credentials, command) is one step: accepted,  *)
(* or refused or closed at any of them.  The four queries are one: the      *)
(* first answer decides.  Addresses are model values, IPv4 all of them.     *)
(***************************************************************************)
EXTENDS Integers, Sequences

CONSTANTS Address, Unknown,
          MaxRotations,  \* MAX_PROXY_ROTATIONS
          StunTries      \* the requests stun_exit_ip sends

ASSUME TunnelAssumption ==
    /\ {Unknown, "game", "other"} \cap Address = {}
    /\ MaxRotations \in Nat \ {0} /\ StunTries \in Nat

VARIABLES stage, attempt, attempts, tries, udpIp, tcpIp, lastSplit, inbox,
          egress, replies, answer, admitted, splitSeen

probe == <<udpIp, tcpIp, tries>>
outside == <<egress, replies, answer, admitted>>
tunnelVars == <<stage, attempt, attempts, probe, lastSplit, inbox, outside, splitSeen>>

TunnelInit ==
    /\ stage = "idle"
    /\ attempt = 0 /\ attempts = 0
    /\ udpIp = Unknown /\ tcpIp = Unknown /\ tries = 0
    /\ lastSplit = FALSE
    /\ inbox = << >>
    /\ egress = [udp |-> Unknown, tcp |-> Unknown]
    /\ replies = 0 /\ answer = FALSE
    /\ admitted = {}
    /\ splitSeen = FALSE

-----------------------------------------------------------------------------
(* connect.                                                                  *)

\* Mutant: one attempt too many.
AttemptsFromZero(rotatable) == IF rotatable THEN MaxRotations + 1 ELSE 1

\* A name without a session always leads to the same exit.
Attempts(rotatable) == IF rotatable THEN MaxRotations ELSE 1

\* establish_proxied: a rotatable name carries "-session-".
StartProxied(rotatable) ==
    /\ stage = "idle"
    /\ attempts' = Attempts(rotatable)
    /\ attempt' = 1
    /\ stage' = "associate"
    /\ UNCHANGED <<probe, lastSplit, inbox, outside, splitSeen>>

\* Without a proxy: the HTTP request is sent, whatever comes of it.
StartDirect ==
    /\ stage = "idle"
    /\ stage' = "direct"
    /\ UNCHANGED <<attempt, attempts, probe, lastSplit, inbox, outside, splitSeen>>

\* The loop of establish_proxied goes on to another session, or reports.
NextAttempt ==
    IF attempt < attempts
    THEN stage' = "associate" /\ attempt' = attempt + 1 /\ UNCHANGED attempts
    ELSE stage' = "failed" /\ UNCHANGED <<attempt, attempts>>

\* Whether the message of the final error names a split.
NamesSplit == stage = "failed" /\ lastSplit

-----------------------------------------------------------------------------
(* probe_exit.                                                               *)

\* Mutant: the socket of the attempt before is used again.
OldSocket == UNCHANGED <<inbox, replies, answer>>

\* A new socket: what comes for the old one is lost.
NewSocket == inbox' = << >> /\ replies' = 0 /\ answer' = FALSE

\* udp_associate: a new session, which may leave from other addresses.
Associate ==
    /\ stage = "associate"
    /\ egress' \in [udp : Address, tcp : Address]
    /\ NewSocket
    /\ udpIp' = Unknown /\ tcpIp' = Unknown /\ tries' = 0
    /\ stage' = "stun"
    /\ UNCHANGED <<attempt, attempts, lastSplit, admitted, splitSeen>>

\* Refused, closed, or a relay address that is not IPv4: NoUdpRelay.
AssociateRefused ==
    /\ stage = "associate"
    /\ NextAttempt
    /\ UNCHANGED <<probe, lastSplit, inbox, outside, splitSeen>>

\* stun_exit_ip: the next request ...
AskStun ==
    /\ stage = "stun" /\ tries < StunTries
    /\ tries' = tries + 1
    /\ replies' = replies + 1
    /\ stage' = "await"
    /\ UNCHANGED <<attempt, attempts, udpIp, tcpIp, lastSplit, inbox, egress, answer, admitted,
                   splitSeen>>

\* ... no more of them, or the name does not resolve, or the send fails: None ...
StunGivesUp ==
    /\ stage = "stun"
    /\ stage' = "tcp"
    /\ UNCHANGED <<attempt, attempts, probe, lastSplit, inbox, outside, splitSeen>>

\* ... one datagram within two seconds: only the relay's is read as a reply ...
StunReads ==
    /\ stage = "await" /\ inbox # << >>
    /\ inbox' = Tail(inbox)
    /\ IF Head(inbox) \in Address
       THEN udpIp' = Head(inbox) /\ stage' = "tcp"
       ELSE UNCHANGED udpIp /\ stage' = "stun"
    /\ UNCHANGED <<attempt, attempts, tcpIp, tries, lastSplit, outside, splitSeen>>

\* ... or none.
StunTimesOut ==
    /\ stage = "await" /\ inbox = << >>
    /\ stage' = "stun"
    /\ UNCHANGED <<attempt, attempts, probe, lastSplit, inbox, outside, splitSeen>>

\* A confirmed mismatch: both answers are there and differ.
ConfirmedSplit(udp, tcp) == udp # Unknown /\ tcp # Unknown /\ udp # tcp

\* tcp_exit_ip, answered or not, and the verdict on the two addresses.
AskTcp ==
    /\ stage = "tcp"
    /\ tcpIp' \in {egress.tcp, Unknown}
    /\ IF ConfirmedSplit(udpIp, tcpIp')
       THEN lastSplit' = TRUE /\ NextAttempt
       ELSE stage' = "whitelist" /\ UNCHANGED <<attempt, attempts, lastSplit>>
    /\ splitSeen' = (splitSeen \/ egress.udp # egress.tcp)
    /\ UNCHANGED <<udpIp, tries, inbox, outside>>

\* http_whitelist through the proxy within six seconds: the request got to the
\* server's filter or did not, and nobody looks at the outcome.
Whitelist ==
    /\ stage = "whitelist"
    /\ stage' = "query"
    /\ admitted' \in {admitted, admitted \cup {egress.tcp}}
    /\ UNCHANGED <<attempt, attempts, probe, lastSplit, inbox, egress, replies, answer, splitSeen>>

\* The same from this host's own address; then the socket is connected, unless
\* the system refuses.
ConnectDirect ==
    /\ stage = "direct"
    /\ stage' \in {"connected", "failed"}
    /\ UNCHANGED <<attempt, attempts, probe, lastSplit, inbox, outside, splitSeen>>

\* The queries.  The server answers an address its filter lets in.
Query ==
    /\ stage = "query"
    /\ answer' = (egress.udp \in admitted)
    /\ stage' = "listen"
    /\ UNCHANGED <<attempt, attempts, probe, lastSplit, inbox, egress, replies, admitted, splitSeen>>

\* Mutant: a datagram from anywhere counts.
FromAnywhere(datagram) == TRUE

\* Whether it has the relay's address, on any port.
FromRelay(datagram) == datagram # "other"

Received == inbox # << >> /\ FromRelay(Head(inbox))

\* One receive: anything from the relay is the answer ...
Accept ==
    /\ stage = "listen" /\ Received
    /\ stage' = "connected"
    /\ inbox' = Tail(inbox)
    /\ UNCHANGED <<attempt, attempts, probe, lastSplit, outside, splitSeen>>

\* ... and anything else, or nothing within four seconds, refuses the exit.
Refuse ==
    /\ stage = "listen" /\ ~Received
    /\ NextAttempt
    /\ UNCHANGED <<probe, lastSplit, inbox, outside, splitSeen>>

\* What the proxy must answer, and what a timer or a datagram moves on.
ProxyAnswers == Associate \/ AssociateRefused \/ AskTcp

OwnStep == \/ AskStun \/ StunGivesUp \/ StunReads \/ StunTimesOut
           \/ Whitelist \/ ConnectDirect \/ Query \/ Accept \/ Refuse

-----------------------------------------------------------------------------
(* The network.  Nothing on its way need arrive.                             *)

EchoComes == /\ replies > 0
             /\ replies' = replies - 1
             /\ inbox' = Append(inbox, egress.udp)
             /\ UNCHANGED answer

AnswerComes == /\ answer
               /\ answer' = FALSE
               /\ inbox' = Append(inbox, "game")
               /\ UNCHANGED replies

\* One that comes behind others, or earlier, is read at the same place or never.
StrayComes == /\ stage \in {"await", "listen"} /\ inbox = << >>
              /\ inbox' = << "other" >>
              /\ UNCHANGED <<replies, answer>>

\* While the code awaits, with the socket there and no one else to read it.
Network == /\ stage \in {"await", "tcp", "whitelist", "listen"}
           /\ EchoComes \/ AnswerComes \/ StrayComes
           /\ UNCHANGED <<stage, attempt, attempts, probe, lastSplit, egress, admitted, splitSeen>>

TunnelNext ==
    \/ \E rotatable \in BOOLEAN : StartProxied(rotatable)
    \/ StartDirect
    \/ ProxyAnswers
    \/ OwnStep
    \/ Network

TunnelSpec == TunnelInit /\ [][TunnelNext]_tunnelVars

-----------------------------------------------------------------------------
(* Properties.                                                               *)

\* The variables keep their types, and no attempt is begun beyond the allowed.
TunnelTypeOK ==
    /\ stage \in {"idle", "direct", "associate", "stun", "await", "tcp", "whitelist", "query",
                  "listen", "connected", "failed"}
    /\ attempts \in {0, 1, MaxRotations} /\ attempt \in 0 .. attempts
    /\ tries \in 0 .. StunTries
    /\ udpIp \in Address \cup {Unknown} /\ tcpIp \in Address \cup {Unknown}
    /\ lastSplit \in BOOLEAN
    /\ inbox \in Seq(Address \cup {"game", "other"})
    /\ egress \in [udp : Address \cup {Unknown}, tcp : Address \cup {Unknown}]
    /\ replies \in Nat /\ answer \in BOOLEAN
    /\ admitted \subseteq Address
    /\ splitSeen \in BOOLEAN

\* STUN requests of this attempt whose replies have not been read.
StunOwed == tries > (IF udpIp = Unknown THEN 0 ELSE 1)

\* The query is the ultimate pass or fail (probe_exit): the exit in use is one
\* the server's filter let in - if no STUN reply can still have been on its way.
ExitIsAdmitted ==
    (stage = "connected" /\ attempt > 0 /\ ~StunOwed) => egress.udp \in admitted

\* An exit whose two addresses are known to differ is not used, whatever
\* earlier sessions' late replies say of other exits.
SplitNeverConnects ==
    (stage = "connected" /\ udpIp # Unknown /\ tcpIp # Unknown) => egress.udp = egress.tcp

\* The final error blames a split only if an exit of this connection had one.
BlameIsJust == NamesSplit => splitSeen

\* ProbeFail::NoUdpRelay is for an exit with no query reply.  A late STUN reply
\* comes from the relay too, and passes for one.
ConnectedWasAnswered == (stage = "connected" /\ attempt > 0) => egress.udp \in admitted
=============================================================================
