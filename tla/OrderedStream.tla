---------------------------- MODULE OrderedStream ----------------------------
(***************************************************************************)
(* What a ReliableOrdered channel promises the application, stated without  *)
(* heaps, windows, message numbers or retransmission: a frontier that only  *)
(* moves forward, and a log that only grows, by messages whose index lies   *)
(* between the old frontier and the new one, in ascending order.  Indices   *)
(* the stream passes without logging them are the messages it gave up.      *)
(***************************************************************************)
EXTENDS Naturals, Sequences

CONSTANT Message     \* what is logged: pairs whose first component is the index

VARIABLES frontier,  \* every index below it is decided
          log        \* the messages handed to the application, in order

vars == <<frontier, log>>

\* The messages of s have indices in lo .. hi - 1, in ascending order.
AscendingBetween(s, lo, hi) ==
    /\ \A n \in DOMAIN s : lo <= s[n][1] /\ s[n][1] < hi
    /\ \A m, n \in DOMAIN s : m < n => s[m][1] < s[n][1]

\* What newLog adds to oldLog.
Added(oldLog, newLog) == SubSeq(newLog, Len(oldLog) + 1, Len(newLog))

Init == /\ frontier = 0
        /\ log = << >>

\* The frontier moves to a later index; what it passes is logged or given up.
Advance == /\ frontier' \in Nat
           /\ frontier' > frontier
           /\ log' \in Seq(Message)
           /\ Len(log') >= Len(log)
           /\ SubSeq(log', 1, Len(log)) = log
           /\ AscendingBetween(Added(log, log'), frontier, frontier')

Spec == Init /\ [][Advance]_vars
=============================================================================
