-------------------------------- MODULE Launch --------------------------------
(***************************************************************************)
(* A client's way to its socket, the other clients' beside it: Self takes a *)
(* proxy from the pool (ProxyPool; into_config in crates/app/src/main.rs),  *)
(* then connects through it, or directly if it got none (Tunnel; connect in *)
(* crates/raknet/src/transport.rs).                                         *)
(***************************************************************************)
EXTENDS ProxyPool, Tunnel

CONSTANTS Self,       \* the client that connects
          Rotatable  \* the lines whose user name carries a session

ASSUME LaunchAssumption == Self \in Client /\ Rotatable \subseteq Line

launchVars == <<vars, tunnelVars>>

LaunchInit == Init /\ TunnelInit

\* The clients and the pool.
PoolStep == Next /\ UNCHANGED tunnelVars

\* username.contains("-session-").
Rotates(line) == line \in Rotatable

\* connect, with the configuration into_config returned.
Begin == /\ \/ pc[Self] = "claimed" /\ StartProxied(Rotates(spec[Self]))
            \/ pc[Self] = "direct" /\ StartDirect
         /\ UNCHANGED vars

Connecting == (ProxyAnswers \/ OwnStep) /\ UNCHANGED vars

NetworkStep == Network /\ UNCHANGED vars

LaunchNext == PoolStep \/ Begin \/ Connecting \/ NetworkStep

LaunchSpec == LaunchInit /\ [][LaunchNext]_launchVars

\* Processes are scheduled, timers run out, and the proxy answers or closes.
LaunchFairSpec ==
    /\ LaunchSpec
    /\ \A c \in Client : WF_launchVars(Claims(c) /\ UNCHANGED tunnelVars)
    /\ WF_launchVars(Begin)
    /\ WF_launchVars(Connecting)

\* A proxy that takes the TCP connection and then says nothing.
SilentProxySpec ==
    /\ LaunchSpec
    /\ \A c \in Client : WF_launchVars(Claims(c) /\ UNCHANGED tunnelVars)
    /\ WF_launchVars(Begin)
    /\ WF_launchVars(OwnStep /\ UNCHANGED vars)

-----------------------------------------------------------------------------
(* Properties.                                                               *)

\* Both parts keep their types.
LaunchTypeOK == TypeOK /\ TunnelTypeOK

\* A client ends up connected or with an error, whatever the others do to the
\* pool, whatever exits the proxy gives and whatever gets lost on the way.
LaunchDecides == <>(stage \in {"connected", "failed"} \/ pc[Self] = "killed")
=============================================================================
