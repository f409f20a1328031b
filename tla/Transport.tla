------------------------------ MODULE Transport ------------------------------
(***************************************************************************)
(* What whoever holds a RakHandle may rely on, stated without handshakes,   *)
(* sockets, timers or handlers: an inbox of bounded size into which a       *)
(* session that is up speaks, after one hello, until one end comes as its   *)
(* last word.  The end may be the holder's own only after the holder asked  *)
(* for it.  PeerTask implements it, and the driver is written against it.   *)
(***************************************************************************)
EXTENDS Naturals, Sequences

CONSTANTS Capacity,  \* how many events wait at most
          Hello,     \* the events that tell of the connection
          Says,      \* the events of a session that is up
          Ends,      \* the events that end it
          Own        \* the end the holder asked for

VARIABLES alive,     \* there is more to come
          up,        \* the hello was said
          leaving,   \* the holder has asked for the end
          inbox      \* what waits to be received

vars == <<alive, up, leaving, inbox>>

Init == alive = TRUE /\ up = FALSE /\ leaving = FALSE /\ inbox = << >>

\* An event is put in only where there is room, and while there is a session.
Put(e) == alive /\ Len(inbox) < Capacity /\ inbox' = Append(inbox, e)

Connect == /\ ~up /\ \E e \in Hello : Put(e)
           /\ up' = TRUE /\ UNCHANGED <<alive, leaving>>

Say == /\ up /\ \E e \in Says : Put(e)
       /\ UNCHANGED <<alive, up, leaving>>

End == /\ \E e \in Ends : Put(e) /\ (e = Own => leaving)
       /\ alive' = FALSE /\ UNCHANGED <<up, leaving>>

Receive == /\ inbox # << >> /\ inbox' = Tail(inbox)
           /\ UNCHANGED <<alive, up, leaving>>

Leave == /\ alive /\ leaving' = TRUE
         /\ UNCHANGED <<alive, up, inbox>>

\* The holder lets go, and learns no more.
Abandon == /\ alive' = FALSE /\ up' = FALSE /\ leaving' = FALSE
           /\ inbox' = << >>

Next == Connect \/ Say \/ End \/ Receive \/ Leave \/ Abandon

Spec == Init /\ [][Next]_vars
=============================================================================
