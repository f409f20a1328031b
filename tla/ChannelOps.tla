------------------------------ MODULE ChannelOps ------------------------------
(***************************************************************************)
(* The receive side of one ReliableOrdered channel of the reliability layer *)
(* (crates/raknet/src/reliability.rs) as functions of a channel record:     *)
(*                                                                          *)
(*    expected   recv_ordering_index[ch]                                    *)
(*    heap       ordering_heap[ch], a partial function index -> payload     *)
(*    abandoned  abandoned_ordering[ch]                                     *)
(*    log        what was pushed to `out` on this channel, in push order;   *)
(*               the code returns the payloads, the model keeps the index   *)
(*               each one was sent under beside it                          *)
(*                                                                          *)
(* OrderingChannel drives one channel with every order of arrivals;         *)
(* ReliabilityLayer composes the channels with the rest of the layer.       *)
(***************************************************************************)
EXTENDS Naturals, Sequences, FiniteSets

CONSTANT OrderWindow  \* ORDER_WINDOW

ASSUME OrderWindowAssumption == OrderWindow \in Nat \ {0}

EmptyChannel == [expected |-> 0, heap |-> << >>, abandoned |-> {}, log |-> << >>]

\* Mutant: every waiting index taken for one of the run at e.
FirstMissingByCount(waiting, e) == e + Cardinality(waiting)

\* The first index from e on that is neither buffered nor abandoned: where
\* the loop of advance_ordering breaks.
FirstMissing(waiting, e) ==
    CHOOSE k \in e .. (e + Cardinality(waiting)) :
        /\ k \notin waiting
        /\ (e .. (k - 1)) \subseteq waiting

\* Mutant: the same in descending order.
Descending(D) ==
    CHOOSE s \in [1 .. Cardinality(D) -> D] :
        \A i, j \in 1 .. Cardinality(D) : i < j => s[i] > s[j]

\* The members of a finite set of indices in the order the loop meets them.
Ascending(D) ==
    CHOOSE s \in [1 .. Cardinality(D) -> D] :
        \A i, j \in 1 .. Cardinality(D) : i < j => s[i] < s[j]

\* advance_ordering after `expected` became e: drain the run of buffered and
\* abandoned indices that starts at e.  An index that is both is delivered,
\* and its abandoned mark stays behind.
Drain(ch, e) ==
    LET buffered == DOMAIN ch.heap
        stop     == FirstMissing(buffered \cup ch.abandoned, e)
        passed   == e .. (stop - 1)
        run      == Ascending(passed \cap buffered)
    IN  [expected  |-> stop,
         heap      |-> [i \in buffered \ passed |-> ch.heap[i]],
         abandoned |-> ch.abandoned \ (passed \ buffered),
         log       |-> ch.log \o [n \in DOMAIN run |-> <<run[n], ch.heap[run[n]]>>]]

\* How far ahead of the expected index a message is still accepted.
InWindow(ch, i) == i > ch.expected /\ i <= ch.expected + OrderWindow

\* Mutants: a late copy of a delivered index is pushed again; an index ahead of
\* the expected one is pushed at once.
DeliverStale(ch, i, p) ==
    IF i <= ch.expected
    THEN Drain([ch EXCEPT !.log = Append(@, <<i, p>>)], i + 1)
    ELSE ch
DeliverAhead(ch, i, p) ==
    IF i >= ch.expected
    THEN Drain([ch EXCEPT !.log = Append(@, <<i, p>>)], i + 1)
    ELSE ch

\* deliver, for an ordered message: push and drain, buffer, or drop.
DeliverOrdered(ch, i, p) ==
    IF i = ch.expected
    THEN Drain([ch EXCEPT !.log = Append(@, <<i, p>>)], ch.expected + 1)
    ELSE IF InWindow(ch, i)
         THEN [ch EXCEPT !.heap =
                  [j \in DOMAIN @ \cup {i} |-> IF j = i THEN p ELSE ch.heap[j]]]
         ELSE ch

\* Mutants: the index after the abandoned one is marked; the frontier moves
\* without draining what waits behind it.
AbandonNext(ch, i) == [ch EXCEPT !.abandoned = @ \cup {i + 1}]
AbandonUndrained(ch, i) ==
    IF i = ch.expected THEN [ch EXCEPT !.expected = @ + 1] ELSE ch

\* abandon_ordered, for an ordered message whose payload was discarded.
AbandonOrdered(ch, i) ==
    IF i = ch.expected
    THEN Drain(ch, ch.expected + 1)
    ELSE IF InWindow(ch, i)
         THEN [ch EXCEPT !.abandoned = @ \cup {i}]
         ELSE ch

=============================================================================
