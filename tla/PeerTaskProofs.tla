---------------------------- MODULE PeerTaskProofs ----------------------------
(* Proofs about PeerTask, for every size of its queues, every timing that     *)
(* keeps the order of the code's constants, and any number of RPCs.           *)
EXTENDS PeerTask, NatLemmas, SequenceTheorems

-----------------------------------------------------------------------------
(* The RPCs of a sequence.                                                   *)

\* f has the RPCs of each of the first n prefixes of s.
RpcsUpTo(f, s, n) ==
    /\ f = [i \in 0..n |-> f[i]]
    /\ f[0] = << >>
    /\ \A i \in 1..n : f[i] = IF IsRpc(s[i]) THEN Append(f[i - 1], s[i]) ELSE f[i - 1]

LEMMA PrefixesExist ==
  ASSUME NEW S, NEW s \in Seq(S), NEW n \in 0..Len(s)
  PROVE  \E f : RpcsUpTo(f, s, n)
<1> DEFINE Bad == {k \in 0..Len(s) : ~\E f : RpcsUpTo(f, s, k)}
<1>1. SUFFICES ASSUME Bad # {} PROVE FALSE
  BY <1>1
<1>2. PICK k \in Bad : \A j \in Bad : k <= j
  <2>1. Bad \in SUBSET Nat
    OBVIOUS
  <2>. QED BY <1>1, <2>1, NatLeast
<1>3. CASE k = 0
  <2>1. RpcsUpTo([i \in 0..0 |-> << >>], s, 0)
    BY DEF RpcsUpTo
  <2>. QED BY <1>2, <1>3, <2>1
<1>4. CASE k # 0
  <2>1. k - 1 \in 0..Len(s) /\ k - 1 \notin Bad /\ k \in Nat
    BY <1>2, <1>4
  <2>2. PICK f : RpcsUpTo(f, s, k - 1)
    BY <2>1
  <2> DEFINE next == IF IsRpc(s[k]) THEN Append(f[k - 1], s[k]) ELSE f[k - 1]
             g == [i \in 0..k |-> IF i = k THEN next ELSE f[i]]
  <2>3. g[0] = << >> /\ g[k] = next /\ \A i \in 0..(k - 1) : g[i] = f[i]
    BY <1>4, <2>1, <2>2 DEF RpcsUpTo
  <2>4. g = [i \in 0..k |-> g[i]]
    OBVIOUS
  <2>. HIDE DEF g
  <2>5. ASSUME NEW i \in 1..k
        PROVE  g[i] = IF IsRpc(s[i]) THEN Append(g[i - 1], s[i]) ELSE g[i - 1]
    <3>1. CASE i = k
      BY <2>1, <2>3, <3>1
    <3>2. CASE i # k
      <4>1. i \in 1..(k - 1) /\ i - 1 \in 0..(k - 1) /\ i \in 0..(k - 1)
        BY <2>1, <3>2
      <4>. QED BY <2>2, <2>3, <4>1 DEF RpcsUpTo
    <3>. QED BY <3>1, <3>2
  <2>6. RpcsUpTo(g, s, k)
    BY <2>3, <2>4, <2>5 DEF RpcsUpTo
  <2>. QED BY <1>2, <2>6
<1>. QED BY <1>3, <1>4

LEMMA PrefixesAgree ==
  ASSUME NEW S, NEW s \in Seq(S), NEW t \in Seq(S), NEW n \in Nat, NEW m \in Nat, n <= m,
         NEW f, NEW g, RpcsUpTo(f, s, n), RpcsUpTo(g, t, m),
         \A i \in 1..n : s[i] = t[i]
  PROVE  \A i \in 0..n : f[i] = g[i]
<1> DEFINE Bad == {k \in 0..n : f[k] # g[k]}
<1>1. SUFFICES ASSUME Bad # {} PROVE FALSE
  BY <1>1
<1>2. PICK k \in Bad : \A j \in Bad : k <= j
  <2>1. Bad \in SUBSET Nat
    OBVIOUS
  <2>. QED BY <1>1, <2>1, NatLeast
<1>3. CASE k = 0
  BY <1>2, <1>3 DEF RpcsUpTo
<1>4. CASE k # 0
  <2>1. k - 1 \in 0..n /\ k - 1 \notin Bad /\ k \in 1..n /\ k \in 1..m
    BY <1>2, <1>4
  <2>. QED BY <1>2, <2>1 DEF RpcsUpTo
<1>. QED BY <1>3, <1>4

LEMMA RpcsInUpTo ==
  ASSUME NEW S, NEW s \in Seq(S), NEW f, RpcsUpTo(f, s, Len(s))
  PROVE  RpcsIn(s) = f[Len(s)]
<1> DEFINE Is(h) == h = [i \in 0..Len(s) |->
                           IF i = 0 THEN << >>
                           ELSE IF IsRpc(s[i]) THEN Append(h[i - 1], s[i]) ELSE h[i - 1]]
           g == CHOOSE h : Is(h)
<1>1. Len(s) \in Nat
  OBVIOUS
<1>2. Is(f)
  BY <1>1 DEF RpcsUpTo
<1>3. Is(g)
  BY <1>2, Zenon
<1>4. RpcsIn(s) = g[Len(s)]
  BY DEF RpcsIn
<1>. HIDE DEF g
<1>5. RpcsUpTo(g, s, Len(s))
  <2>1. DOMAIN g = 0..Len(s) /\ g = [i \in 0..Len(s) |-> g[i]]
    BY <1>3
  <2>2. g[0] = << >>
    BY <1>1, <1>3
  <2>3. ASSUME NEW i \in 1..Len(s)
        PROVE  g[i] = IF IsRpc(s[i]) THEN Append(g[i - 1], s[i]) ELSE g[i - 1]
    <3>1. i \in 0..Len(s) /\ i # 0
      BY <1>1
    <3>. QED BY <1>3, <3>1
  <2>. QED BY <2>1, <2>2, <2>3 DEF RpcsUpTo
<1>6. f[Len(s)] = g[Len(s)]
  BY <1>1, <1>5, PrefixesAgree
<1>. QED BY <1>4, <1>6

LEMMA RpcsInEmpty == RpcsIn(<< >>) = << >>
<1> DEFINE f == [i \in 0..0 |-> << >>]
<1>1. RpcsUpTo(f, << >>, 0) /\ Len(<< >>) = 0 /\ << >> \in Seq({})
  BY DEF RpcsUpTo
<1>. QED BY <1>1, RpcsInUpTo

LEMMA RpcsInAppend ==
  ASSUME NEW S, NEW s \in Seq(S), NEW e \in S
  PROVE  RpcsIn(Append(s, e)) = IF IsRpc(e) THEN Append(RpcsIn(s), e) ELSE RpcsIn(s)
<1> DEFINE t == Append(s, e)
           n == Len(s)
<1>1. t \in Seq(S) /\ n \in Nat /\ Len(t) = n + 1 /\ t[n + 1] = e /\ \A i \in 1..n : s[i] = t[i]
  OBVIOUS
<1>. HIDE DEF t
<1>2. n \in 0..Len(s) /\ n + 1 \in 0..Len(t)
  BY <1>1
<1>3. PICK f : RpcsUpTo(f, s, n)
  BY <1>2, PrefixesExist
<1>4. PICK g : RpcsUpTo(g, t, n + 1)
  BY <1>1, <1>2, PrefixesExist
<1>5. f[n] = g[n]
  <2>1. n + 1 \in Nat /\ n <= n + 1 /\ n \in 0..n
    BY <1>1
  <2>. QED BY <1>1, <1>3, <1>4, <2>1, PrefixesAgree
<1>6. g[n + 1] = IF IsRpc(e) THEN Append(g[n], e) ELSE g[n]
  <2>1. n + 1 \in 1..(n + 1) /\ (n + 1) - 1 = n
    BY <1>1
  <2>2. \A i \in 1..(n + 1) : g[i] = IF IsRpc(t[i]) THEN Append(g[i - 1], t[i]) ELSE g[i - 1]
    BY <1>4 DEF RpcsUpTo
  <2>. HIDE DEF n
  <2>3. g[n + 1] = IF IsRpc(t[n + 1]) THEN Append(g[(n + 1) - 1], t[n + 1]) ELSE g[(n + 1) - 1]
    BY <2>1, <2>2, Zenon
  <2>4. t[n + 1] = e
    BY <1>1
  <2>. QED BY <2>1, <2>3, <2>4, Zenon
<1>7. RpcsIn(s) = f[n]
  BY <1>3, RpcsInUpTo
<1>8. RpcsIn(t) = g[n + 1]
  BY <1>1, <1>4, RpcsInUpTo
<1>. QED BY <1>5, <1>6, <1>7, <1>8 DEF t

\* Induction on the length of a sequence takes its last element away.
LEMMA FrontAndLast ==
  ASSUME NEW S, NEW s \in Seq(S), s # << >>
  PROVE  \E u \in Seq(S), e \in S : s = Append(u, e) /\ Len(u) = Len(s) - 1
<1> DEFINE n == Len(s)
           u == [i \in 1..(n - 1) |-> s[i]]
<1>1. n \in Nat /\ n # 0 /\ n \in 1..n /\ s[n] \in S
  OBVIOUS
<1>2. u \in Seq(S) /\ Len(u) = n - 1
  BY <1>1
<1>3. Append(u, s[n]) \in Seq(S) /\ Len(Append(u, s[n])) = n
  BY <1>1, <1>2
<1>4. \A i \in 1..n : Append(u, s[n])[i] = s[i]
  <2>1. \A i \in 1..(n - 1) : u[i] = s[i]
    OBVIOUS
  <2>. HIDE DEF u
  <2>. TAKE i \in 1..n
  <2>2. CASE i = n
    BY <1>1, <1>2, <2>2
  <2>3. CASE i # n
    BY <1>1, <1>2, <2>1, <2>3
  <2>. QED BY <2>2, <2>3
<1>5. s = Append(u, s[n])
  <2>. HIDE DEF u
  <2>. QED BY <1>1, <1>3, <1>4, SeqEqual
<1>. HIDE DEF u, n
<1>6. u \in Seq(S) /\ s[n] \in S /\ s = Append(u, s[n]) /\ Len(u) = n - 1
  BY <1>1, <1>2, <1>5, Zenon
<1>. QED BY <1>6, Zenon DEF n

LEMMA AppendToConcat ==
  ASSUME NEW S, NEW s \in Seq(S), NEW t \in Seq(S), NEW e \in S
  PROVE  s \o t \in Seq(S) /\ s \o Append(t, e) = Append(s \o t, e)
<1>1. <<e>> \in Seq(S)
  OBVIOUS
<1>2. Append(t, e) = t \o <<e>>
  BY AppendIsConcat
<1>3. s \o t \in Seq(S)
  OBVIOUS
<1>4. Append(s \o t, e) = (s \o t) \o <<e>>
  BY <1>3, AppendIsConcat
<1>5. (s \o t) \o <<e>> = s \o (t \o <<e>>)
  BY <1>1, ConcatAssociative
<1>. QED BY <1>2, <1>3, <1>4, <1>5

LEMMA RpcsInType ==
  ASSUME NEW S, NEW s \in Seq(S)
  PROVE  RpcsIn(s) \in Seq(S)
<1> DEFINE Bad == {k \in Nat : \E t \in Seq(S) : Len(t) = k /\ RpcsIn(t) \notin Seq(S)}
<1>1. SUFFICES ASSUME Bad # {} PROVE FALSE
  BY <1>1
<1>2. PICK k \in Bad : \A j \in Bad : k <= j
  BY <1>1, NatLeast
<1>3. PICK t \in Seq(S) : Len(t) = k /\ RpcsIn(t) \notin Seq(S)
  BY <1>2
<1>4. t # << >>
  BY <1>3, RpcsInEmpty
<1>5. PICK u \in Seq(S), e \in S : t = Append(u, e) /\ Len(u) = Len(t) - 1
  BY <1>4, FrontAndLast, Zenon
<1>6. RpcsIn(u) \in Seq(S)
  <2>1. k - 1 \in Nat /\ Len(u) = k - 1
    BY <1>3, <1>5
  <2>. QED BY <1>2, <2>1
<1>. HIDE DEF Bad
<1>7. RpcsIn(t) = IF IsRpc(e) THEN Append(RpcsIn(u), e) ELSE RpcsIn(u)
  BY <1>5, RpcsInAppend
<1>. QED BY <1>3, <1>6, <1>7

LEMMA RpcsInConcat ==
  ASSUME NEW S, NEW s \in Seq(S), NEW t \in Seq(S)
  PROVE  RpcsIn(s \o t) = RpcsIn(s) \o RpcsIn(t)
<1> DEFINE Bad == {k \in Nat : \E v \in Seq(S) :
                      Len(v) = k /\ RpcsIn(s \o v) # RpcsIn(s) \o RpcsIn(v)}
<1>1. SUFFICES ASSUME Bad # {} PROVE FALSE
  BY <1>1
<1>2. PICK k \in Bad : \A j \in Bad : k <= j
  BY <1>1, NatLeast
<1>3. PICK v \in Seq(S) : Len(v) = k /\ RpcsIn(s \o v) # RpcsIn(s) \o RpcsIn(v)
  BY <1>2
<1>0. RpcsIn(s) \in Seq(S)
  BY RpcsInType
<1>4. v # << >>
  <2>1. s \o << >> = s /\ RpcsIn(s) \o << >> = RpcsIn(s)
    BY <1>0
  <2>. QED BY <1>3, <2>1, RpcsInEmpty
<1>5. PICK u \in Seq(S), e \in S : v = Append(u, e) /\ Len(u) = Len(v) - 1
  BY <1>4, FrontAndLast, Zenon
<1>6. RpcsIn(s \o u) = RpcsIn(s) \o RpcsIn(u)
  <2>1. k - 1 \in Nat /\ Len(u) = k - 1
    BY <1>3, <1>5
  <2>. QED BY <1>2, <2>1
<1>. HIDE DEF Bad
<1>7. s \o u \in Seq(S) /\ s \o v = Append(s \o u, e)
  BY <1>5, AppendToConcat
<1>8. RpcsIn(s \o v) = IF IsRpc(e) THEN Append(RpcsIn(s \o u), e) ELSE RpcsIn(s \o u)
  BY <1>7, RpcsInAppend
<1>9. RpcsIn(v) = IF IsRpc(e) THEN Append(RpcsIn(u), e) ELSE RpcsIn(u)
  BY <1>5, RpcsInAppend
<1>10. RpcsIn(u) \in Seq(S) /\ e \in S
  BY RpcsInType
<1>11. RpcsIn(s) \o Append(RpcsIn(u), e) = Append(RpcsIn(s) \o RpcsIn(u), e)
  BY <1>0, <1>10, AppendToConcat
<1>. QED BY <1>3, <1>6, <1>8, <1>9, <1>11

LEMMA RpcsInOne ==
  ASSUME NEW S, NEW e \in S
  PROVE  RpcsIn(<<e>>) = IF IsRpc(e) THEN <<e>> ELSE << >>
<1>1. << >> \in Seq(S) /\ Append(<< >>, e) = <<e>>
  OBVIOUS
<1>2. RpcsIn(Append(<< >>, e)) = IF IsRpc(e) THEN Append(RpcsIn(<< >>), e) ELSE RpcsIn(<< >>)
  BY <1>1, RpcsInAppend
<1>. QED BY <1>1, <1>2, RpcsInEmpty

\* The RPCs after the first a, up to the b-th.
Run(a, b) == [i \in 1..(b - a) |-> Rpc(a + i)]

RpcSet == {Rpc(n) : n \in Nat}

LEMMA RunType ==
  ASSUME NEW a \in Nat, NEW b \in Nat, a <= b
  PROVE  Run(a, b) \in Seq(RpcSet) /\ Len(Run(a, b)) = b - a
<1>1. \A i \in 1..(b - a) : Rpc(a + i) \in RpcSet
  BY DEF RpcSet
<1>. QED BY <1>1 DEF Run

LEMMA RunGrows ==
  ASSUME NEW a \in Nat, NEW b \in Nat, a <= b
  PROVE  Run(a, b + 1) = Append(Run(a, b), Rpc(b + 1))
<1> DEFINE r == Run(a, b)
           x == Append(r, Rpc(b + 1))
           y == Run(a, b + 1)
           n == b + 1 - a
<1>1. r \in Seq(RpcSet) /\ Len(r) = b - a /\ \A i \in 1..(b - a) : r[i] = Rpc(a + i)
  BY RunType DEF Run
<1>2. y \in Seq(RpcSet) /\ Len(y) = n /\ \A i \in 1..n : y[i] = Rpc(a + i)
  <2>1. b + 1 \in Nat /\ a <= b + 1
    OBVIOUS
  <2>2. y \in Seq(RpcSet) /\ Len(y) = n
    BY <2>1, RunType
  <2>. QED BY <2>2 DEF Run
<1>3. Rpc(b + 1) \in RpcSet
  BY DEF RpcSet
<1>. HIDE DEF r, y
<1>4. x \in Seq(RpcSet) /\ Len(x) = n
  BY <1>1, <1>3
<1>5. \A i \in 1..n : x[i] = y[i]
  BY <1>1, <1>2
<1>6. x = y
  <2>. HIDE DEF x
  <2>. QED BY <1>2, <1>4, <1>5, SeqEqual
<1>. QED BY <1>6 DEF r, y

LEMMA RunsJoin ==
  ASSUME NEW a \in Nat, NEW b \in Nat, NEW c \in Nat, a <= b, b <= c
  PROVE  Run(a, b) \o Run(b, c) = Run(a, c)
<1> DEFINE r == Run(a, b)
           q == Run(b, c)
           x == r \o q
           y == Run(a, c)
<1>1. r \in Seq(RpcSet) /\ Len(r) = b - a /\ \A i \in 1..(b - a) : r[i] = Rpc(a + i)
  BY RunType DEF Run
<1>2. q \in Seq(RpcSet) /\ Len(q) = c - b /\ \A i \in 1..(c - b) : q[i] = Rpc(b + i)
  BY RunType DEF Run
<1>3. y \in Seq(RpcSet) /\ Len(y) = c - a /\ \A i \in 1..(c - a) : y[i] = Rpc(a + i)
  <2>1. a <= c
    OBVIOUS
  <2>. QED BY <2>1, RunType DEF Run
<1>. HIDE DEF r, q, y
<1>4. x \in Seq(RpcSet) /\ Len(x) = c - a
  BY <1>1, <1>2
<1>5. ASSUME NEW i \in 1..(c - a) PROVE x[i] = y[i]
  <2>1. CASE i <= b - a
    BY <1>1, <1>2, <1>3, <2>1
  <2>2. CASE i > b - a
    <3>1. i - (b - a) \in 1..(c - b) /\ b + (i - (b - a)) = a + i
      BY <2>2
    <3>2. x[i] = q[i - (b - a)]
      BY <1>1, <1>2, <2>2, ConcatProperties, SMTT(30)
    <3>. QED BY <1>2, <1>3, <3>1, <3>2
  <2>3. i <= b - a \/ i > b - a
    OBVIOUS
  <2>. QED BY <2>1, <2>2, <2>3
<1>6. x = y
  <2>. HIDE DEF x
  <2>. QED BY <1>3, <1>4, <1>5, SeqEqual
<1>. QED BY <1>6 DEF r, q, y

LEMMA RpcsInRun ==
  ASSUME NEW a \in Nat, NEW b \in Nat, a <= b
  PROVE  RpcsIn(Run(a, b)) = Run(a, b)
<1> DEFINE Bad == {k \in Nat : a <= k /\ RpcsIn(Run(a, k)) # Run(a, k)}
<1>1. SUFFICES ASSUME Bad # {} PROVE FALSE
  BY <1>1
<1>2. PICK k \in Bad : \A j \in Bad : k <= j
  BY <1>1, NatLeast
<1>3. CASE k = a
  <2>1. Run(a, k) = << >>
    BY <1>3, RunType
  <2>. QED BY <1>2, <2>1, RpcsInEmpty
<1>4. CASE k # a
  <2>1. k - 1 \in Nat /\ a <= k - 1 /\ (k - 1) + 1 = k /\ k - 1 \notin Bad
    BY <1>2, <1>4
  <2>2. Run(a, k) = Append(Run(a, k - 1), Rpc(k))
    BY <2>1, RunGrows
  <2>3. Run(a, k - 1) \in Seq(RpcSet) /\ Rpc(k) \in RpcSet /\ IsRpc(Rpc(k))
    BY <2>1, RunType DEF RpcSet, IsRpc, Rpc
  <2>4. RpcsIn(Run(a, k)) = Append(RpcsIn(Run(a, k - 1)), Rpc(k))
    BY <2>2, <2>3, RpcsInAppend
  <2>. QED BY <1>2, <2>1, <2>2, <2>4
<1>. QED BY <1>3, <1>4

-----------------------------------------------------------------------------
(* The inductive invariant, in parts.                                        *)

AgeRecord == [query : 0..QueryInterval, handshake : 0..Retry, start : 0..ConnectTimeout,
              recv : 0..PeerTimeout, keepalive : 0..Keepalive]
JobRecord == [event : Events \cup {Nothing}, rest : Seq(Messages), stop : BOOLEAN]
Answer(id) == [kind |-> "offline", id |-> id]
Unframed == {[kind |-> "samp"]} \cup {Answer(id) : id \in {"cookie", "reply"} \cup DisconnectIds}
Frames == [kind : {"framed"}, messages : Seq(Messages)]
Servers == {"listening", "handling", "open", "closed", "frozen"}

\* What is where; a handler that ends the task has a Disconnected to emit.
Typed ==
    /\ phase \in {"OpenRequest", "ConnectionRequest", "Connected"}
    /\ open_sent \in BOOLEAN /\ cookie \in BOOLEAN /\ stopped \in BOOLEAN
    /\ handle \in BOOLEAN /\ tick \in BOOLEAN /\ asked \in BOOLEAN
    /\ age \in AgeRecord /\ job \in JobRecord
    /\ job.stop <=> job.event.id \in Disconnected
    /\ stopped => job = Idle
    /\ socket \in Seq(Unframed \cup Frames) /\ Len(socket) <= SocketCapacity
    /\ commands \in Seq({"Send", "Disconnect"}) /\ Len(commands) <= CommandCapacity
    /\ events \in Seq(Events) /\ Len(events) <= EventCapacity
    /\ taken \in Seq(Events)
    /\ server \in Servers /\ to_server \in SUBSET Heeded
    /\ offline \in SUBSET Unframed /\ stream \in Seq(Frames)
    /\ rpcs \in 0..MaxRpcs /\ handed \in Nat

\* Before the acceptance the server has not sent an RPC, nor has the task
\* emitted anything that follows Connected.
NoRpc(s) == \A i \in DOMAIN s : ~IsRpc(s[i])
NoRpcIn(q) == \A i \in DOMAIN q : q[i].kind = "framed" => NoRpc(q[i].messages)
Unaccepted ==
    phase # "Connected" =>
    /\ server \in {"listening", "handling"} /\ "incoming" \notin to_server
    /\ NoRpcIn(socket) /\ NoRpcIn(stream) /\ NoRpc(job.rest) /\ NoRpc(Received)
    /\ ~IsRpc(job.event) /\ job.event.id # "Connected"
    /\ \A i \in DOMAIN Received : Received[i].id # "Connected"

\* From the acceptance on Connected is being emitted or was.
Accepted ==
    phase = "Connected" =>
    IF job.event.id = "Connected" THEN \A i \in DOMAIN Received : Received[i].id # "Connected"
    ELSE handle /\ ~stopped => \E i \in DOMAIN Received : Received[i].id = "Connected"

\* Until the first open request nothing can have come of the handshake, and
\* the time until the fallback has not run out unseen.
Untried ==
    ~open_sent =>
    /\ phase = "OpenRequest" /\ to_server \subseteq {"query"}
    /\ \A d \in offline : d.kind = "samp"
    /\ \A i \in DOMAIN socket : socket[i].kind = "samp"
    /\ stream = << >> /\ job.rest = << >> /\ (job.event = Nothing \/ job.stop)
    /\ ~stopped => events = << >>
    /\ age.start = age.query /\ age.query <= Fallback
    /\ ~tick => age.query < Fallback

\* A datagram takes the number of RPCs handed over from a to b.
Carries(d, a, b) ==
    IF d.kind = "framed" THEN a <= b /\ RpcsIn(d.messages) = Run(a, b) ELSE a = b

\* Those of q take it from a to b together.
Chain(q, a, b) ==
    \E f \in [0..Len(q) -> Nat] :
        /\ f[0] = a /\ f[Len(q)] = b
        /\ \A i \in 1..Len(q) : Carries(q[i], f[i - 1], f[i])

OnTheirWay == \E mid \in Nat : Chain(socket, handed, mid) /\ Chain(stream, mid, rpcs)

InHand == (IF IsRpc(job.event) THEN <<job.event>> ELSE << >>) \o RpcsIn(job.rest)

InOrder ==
    handle =>
    /\ ~stopped => RpcsIn(Received) \o InHand = Run(0, handed)
    /\ stopped => \A i \in DOMAIN RpcsIn(Received) : RpcsIn(Received)[i] = Rpc(i)

\* A request to disconnect, waiting or taken, is the consumer's.
Requested == \E i \in DOMAIN commands : commands[i] = "Disconnect"
Owned == Requested \/ job.event.id = "Local" => asked

IInv == /\ Typed /\ EndsWithAReason /\ Unaccepted /\ Accepted /\ ConnectedFirst
        /\ Untried /\ OnTheirWay /\ InOrder /\ Owned

-----------------------------------------------------------------------------
(* What the alternatives of the handlers are, one by one.                    *)

LEMMA Sizes ==
    /\ Fallback \in Nat \ {0} /\ Retry \in Nat \ {0} /\ QueryInterval \in Nat
    /\ Fallback < QueryInterval /\ Fallback < ConnectTimeout
    /\ SocketCapacity \in Nat \ {0} /\ EventCapacity \in Nat \ {0} /\ MaxRpcs \in Nat
BY TimesAssumption, CapacityAssumption

LEMMA Resting ==
    /\ Idle \in JobRecord /\ Idle.event = Nothing /\ Idle.rest = << >> /\ Idle.stop = FALSE
    /\ Nothing.id = "nothing" /\ ~IsRpc(Nothing) /\ Nothing.id \notin Disconnected
    /\ Nothing.id # "Connected"
  BY DEF Idle, JobRecord, Nothing, Message, IsRpc, Disconnected, DisconnectIds

LEMMA KindsOfMessages ==
  ASSUME NEW m \in Messages
  PROVE  \/ m.id \in DisconnectIds /\ m \in Events
         \/ m.id = "Accepted" \/ m.id = "Service"
         \/ m.id = "Rpc" /\ m \in Events /\ \E n \in 1..MaxRpcs : m = Rpc(n)
  BY DEF Messages, Events, Message, Rpc, DisconnectIds, Disconnected

\* The four things handle_message does.
Ends(m) ==
    /\ m.id \in DisconnectIds
    /\ job' = [event |-> m, rest |-> Tail(job.rest), stop |-> TRUE]
    /\ UNCHANGED <<phase, age, rel, to_server>>
Connects(m) ==
    /\ m.id = "Accepted" /\ phase # "Connected"
    /\ phase' = "Connected"
    /\ age' = [age EXCEPT !.keepalive = 0, !.start = 0, !.handshake = 0]
    /\ to_server' = to_server \cup {"incoming"}
    /\ job' = [event |-> Message("Connected"), rest |-> Tail(job.rest), stop |-> FALSE]
KeepsQuiet(m) ==
    /\ m.id \in {"Accepted", "Service"}
    /\ job' = [job EXCEPT !.rest = Tail(@)]
    /\ UNCHANGED <<phase, age, to_server>>
HandsOver(m) ==
    /\ m.id = "Rpc"
    /\ job' = [event |-> m, rest |-> Tail(job.rest), stop |-> FALSE]
    /\ UNCHANGED <<phase, age, to_server>>

LEMMA MessageCases ==
  ASSUME Typed, HandleMessage
  PROVE  LET m == Head(job.rest)
         IN  /\ m \in Messages /\ Tail(job.rest) \in Seq(Messages)
             /\ ~stopped /\ job.event = Nothing /\ job.rest # << >>
             /\ UNCHANGED <<open_sent, cookie, stopped, tick, queues, consumer, server,
                            offline, stream, rpcs, handed>>
             /\ Ends(m) \/ Connects(m) \/ KeepsQuiet(m) \/ HandsOver(m)
<1> DEFINE m == Head(job.rest)
<1>1. job.rest # << >> /\ job.rest \in Seq(Messages)
  BY DEF HandleMessage, Typed, JobRecord
<1>2. m \in Messages /\ Tail(job.rest) \in Seq(Messages)
  BY <1>1
<1>3. m.id \in DisconnectIds => Ends(m)
  BY DEF HandleMessage, DisconnectIds, Ends, Accepts
<1>4. m.id = "Accepted" /\ phase # "Connected" => Connects(m)
  BY DEF HandleMessage, DisconnectIds, Connects, Accepts, Flush, Heeded
<1>5. m.id = "Accepted" /\ phase = "Connected" => KeepsQuiet(m)
  BY DEF HandleMessage, DisconnectIds, KeepsQuiet, Accepts
<1>6. m.id = "Service" => KeepsQuiet(m)
  BY DEF HandleMessage, DisconnectIds, KeepsQuiet, Accepts
<1>7. m.id = "Rpc" => HandsOver(m)
  BY DEF HandleMessage, DisconnectIds, HandsOver, Accepts
<1>8. Ends(m) \/ Connects(m) \/ KeepsQuiet(m) \/ HandsOver(m)
  BY <1>2, <1>3, <1>4, <1>5, <1>6, <1>7, KindsOfMessages
<1>. QED BY <1>1, <1>2, <1>8 DEF HandleMessage

\* on_tick gives up, with Timeout, or goes on; and it only gives up a connected
\* peer, or a handshake at its deadline.
GivesUp ==
    /\ job' = [event |-> Message("Timeout"), rest |-> << >>, stop |-> TRUE]
    /\ phase # "Connected" => HandshakeOver
    /\ age' = [age EXCEPT !.query = QueryAge]
    /\ UNCHANGED open_sent /\ to_server' = to_server \cup Queried
Tries ==
    /\ UNCHANGED job
    /\ age'.query = QueryAge /\ age' \in AgeRecord /\ age'.start = age.start
    /\ IF ~open_sent /\ open_sent' THEN TRUE
       ELSE UNCHANGED open_sent /\ (FallbackDue => Queried # {} \/ phase = "Connected")
    /\ ~open_sent /\ ~open_sent' => to_server' = to_server \cup Queried
    /\ \E also \in SUBSET (Heeded \ {"incoming"}) : to_server' = to_server \cup also

LEMMA HandshakeAgeSet ==
  ASSUME NEW a \in AgeRecord, NEW q \in 0..QueryInterval, NEW v \in 0..Retry,
         NEW x, x = [a EXCEPT !.query = q, !.handshake = v]
  PROVE  x \in AgeRecord
<1> DEFINE w == [a EXCEPT !.query = q]
<1>1. w \in AgeRecord
  BY DEF AgeRecord
<1>2. x = [w EXCEPT !.handshake = v]
  OBVIOUS
<1>. HIDE DEF w
<1>. QED BY <1>1, <1>2 DEF AgeRecord

LEMMA KeepaliveAgeSet ==
  ASSUME NEW a \in AgeRecord, NEW q \in 0..QueryInterval, NEW v \in 0..Keepalive,
         NEW x, x = [a EXCEPT !.query = q, !.keepalive = v]
  PROVE  x \in AgeRecord
<1> DEFINE w == [a EXCEPT !.query = q]
<1>1. w \in AgeRecord
  BY DEF AgeRecord
<1>2. x = [w EXCEPT !.keepalive = v]
  OBVIOUS
<1>. HIDE DEF w
<1>. QED BY <1>1, <1>2 DEF AgeRecord

LEMMA TickCases ==
  ASSUME Typed, OnTick
  PROVE  /\ Running /\ tick' = FALSE /\ age' \in AgeRecord
         /\ Queried \in SUBSET {"query"} /\ open_sent' \in BOOLEAN
         /\ GivesUp \/ Tries
         /\ UNCHANGED <<phase, cookie, stopped, queues, consumer, server, offline, stream,
                        rpcs, handed>>
<1>1. Queried \in SUBSET {"query"}
  BY DEF Queried
<1>2. age \in AgeRecord /\ QueryAge \in 0..QueryInterval
  BY Sizes DEF Typed, AgeRecord, QueryAge
<1>3. Retry \in Nat /\ Keepalive \in Nat
  BY TimesAssumption
<1>4. phase # "Connected" /\ HandshakeOver => GivesUp /\ age' \in AgeRecord
  BY <1>2 DEF OnTick, TickHandshake, TickConnected, GivesUp, Emit, AgeRecord
<1>5. phase = "Connected" /\ Silent => GivesUp /\ age' \in AgeRecord
  BY <1>2 DEF OnTick, TickHandshake, TickConnected, GivesUp, Emit, AgeRecord
<1>6. ASSUME phase = "Connected", ~Silent
      PROVE  Tries
  <2>1. age' \in AgeRecord /\ age'.query = QueryAge /\ age'.start = age.start
    <3>1. (IF age.keepalive >= Keepalive THEN 0 ELSE age.keepalive) \in 0..Keepalive
      BY <1>2, <1>3 DEF AgeRecord
    <3>2. PICK k \in 0..Keepalive : age' = [age EXCEPT !.query = QueryAge, !.keepalive = k]
      BY <1>6, <3>1 DEF OnTick, TickHandshake, TickConnected
    <3>3. age' \in AgeRecord
      BY <1>2, <3>2, KeepaliveAgeSet
    <3>4. age'.query = QueryAge /\ age'.start = age.start
      BY <1>2, <3>2 DEF AgeRecord
    <3>. QED BY <3>3, <3>4
  <2>2. to_server' = to_server \cup Queried
    BY <1>1, <1>6 DEF OnTick, TickHandshake, TickConnected, Flush, Heeded
  <2>3. UNCHANGED <<job, open_sent>>
    BY <1>6 DEF OnTick, TickHandshake, TickConnected
  <2>. QED BY <1>1, <1>6, <2>1, <2>2, <2>3 DEF Tries, Heeded
<1>7. ASSUME phase # "Connected", ~HandshakeOver
      PROVE  Tries
  <2> DEFINE resend == \/ FallbackDue /\ Queried = {}
                       \/ open_sent /\ age.handshake >= Retry
             opens  == resend /\ (phase = "OpenRequest" \/ ~open_sent)
             also   == IF opens THEN {OpenRequest(cookie)} ELSE {}
  <2>1. /\ open_sent' = (open_sent \/ opens) /\ UNCHANGED job
        /\ age' = [age EXCEPT !.query = QueryAge, !.handshake = IF resend THEN 0 ELSE @]
        /\ Flush(Queried \cup also)
    BY <1>7 DEF OnTick, TickHandshake, TickConnected
  <2>2. age' \in AgeRecord /\ age'.query = QueryAge /\ age'.start = age.start
    <3>1. (IF resend THEN 0 ELSE age.handshake) \in 0..Retry
      BY <1>2, <1>3 DEF AgeRecord
    <3>2. PICK h \in 0..Retry : age' = [age EXCEPT !.query = QueryAge, !.handshake = h]
      BY <2>1, <3>1
    <3>3. age' \in AgeRecord
      BY <1>2, <3>2, HandshakeAgeSet
    <3>4. age'.query = QueryAge /\ age'.start = age.start
      BY <1>2, <3>2 DEF AgeRecord
    <3>. QED BY <3>3, <3>4
  <2>3. also \in SUBSET {"open", "open cookie"}
    BY DEF OpenRequest
  <2>4. to_server' = to_server \cup (Queried \cup also)
    BY <1>1, <2>1, <2>3 DEF Flush, Heeded
  <2>5. Queried \cup also \in SUBSET (Heeded \ {"incoming"})
    BY <1>1, <2>3 DEF Heeded
  <2>6. open_sent \in BOOLEAN
    BY DEF Typed
  <2>7. FallbackDue => ~open_sent
    BY DEF FallbackDue
  <2>8. IF ~open_sent /\ open_sent' THEN TRUE
        ELSE UNCHANGED open_sent /\ (FallbackDue => Queried # {} \/ phase = "Connected")
    BY <2>1, <2>6, <2>7
  <2>9. ~open_sent /\ ~open_sent' => to_server' = to_server \cup Queried
    BY <2>1, <2>4
  <2>. QED BY <2>1, <2>2, <2>4, <2>5, <2>8, <2>9 DEF Tries
<1>8. open_sent' \in BOOLEAN
  BY <1>4, <1>5, <1>6, <1>7 DEF GivesUp, Tries, Typed
<1>. QED BY <1>1, <1>4, <1>5, <1>6, <1>7, <1>8 DEF OnTick, Tries, TickHandshake

\* What on_datagram makes of a datagram, by its kind.
TakesSamp(d) ==
    /\ d.kind = "samp"
    /\ open_sent' = TRUE
    /\ to_server' = to_server \cup (IF open_sent THEN {} ELSE {OpenRequest(cookie)})
    /\ UNCHANGED <<phase, cookie, job, handed>>
PassesOver(d) ==
    /\ d.kind = "offline" /\ phase = "Connected"
    /\ UNCHANGED <<phase, open_sent, cookie, job, to_server, handed>>
OpensAgain(d) ==
    /\ d.kind = "offline" /\ phase # "Connected"
    /\ cookie' = TRUE /\ open_sent' = TRUE
    /\ to_server' = to_server \cup {OpenRequest(TRUE)}
    /\ UNCHANGED <<phase, job, handed>>
AsksToConnect(d) ==
    /\ d.kind = "offline" /\ phase # "Connected"
    /\ phase' = "ConnectionRequest"
    /\ to_server' = to_server \cup {"connect"}
    /\ UNCHANGED <<open_sent, cookie, job, handed>>
IsRefused(d) ==
    /\ d.kind = "offline" /\ phase # "Connected" /\ d.id \in DisconnectIds
    /\ job' = [event |-> Message(d.id), rest |-> << >>, stop |-> TRUE]
    /\ UNCHANGED <<phase, open_sent, cookie, to_server, handed>>
TakesFrame(d) ==
    /\ d \in Frames /\ d.kind = "framed"
    /\ job' = [event |-> Nothing, rest |-> d.messages, stop |-> FALSE]
    /\ handed' = handed + Len(RpcsIn(d.messages))
    /\ UNCHANGED <<phase, open_sent, cookie, to_server>>

LEMMA KindsOfDatagrams ==
  ASSUME NEW d \in Unframed \cup Frames
  PROVE  \/ d.kind = "samp"
         \/ d.kind = "offline" /\ d.id \in {"cookie", "reply"} \cup DisconnectIds
         \/ d.kind = "framed" /\ d \in Frames /\ d.messages \in Seq(Messages)
  BY DEF Unframed, Frames, Answer

LEMMA AgeZeroed ==
  ASSUME age \in AgeRecord
  PROVE  /\ [age EXCEPT !.recv = 0] \in AgeRecord
         /\ [age EXCEPT !.handshake = 0] \in AgeRecord
         /\ [[age EXCEPT !.recv = 0] EXCEPT !.handshake = 0] \in AgeRecord
<1>1. 0 \in 0..PeerTimeout /\ 0 \in 0..Retry
  BY TimesAssumption
<1>2. \A a \in AgeRecord : [a EXCEPT !.recv = 0] \in AgeRecord
  BY <1>1 DEF AgeRecord
<1>3. \A a \in AgeRecord : [a EXCEPT !.handshake = 0] \in AgeRecord
  BY <1>1 DEF AgeRecord
<1>. QED BY <1>2, <1>3

LEMMA DatagramCases ==
  ASSUME Typed, OnDatagram
  PROVE  LET d == Head(socket)
         IN  /\ Running /\ socket # << >> /\ socket' = Tail(socket)
             /\ d \in Unframed \cup Frames /\ age' \in AgeRecord
             /\ UNCHANGED <<stopped, tick, commands, events, consumer, server, offline,
                            stream, rpcs>>
             /\ \/ TakesSamp(d) \/ PassesOver(d) \/ OpensAgain(d)
                \/ AsksToConnect(d) \/ IsRefused(d) \/ TakesFrame(d)
<1> DEFINE d == Head(socket)
<1>1. d \in Unframed \cup Frames
  BY DEF OnDatagram, Typed
<1>2. age \in AgeRecord
  BY DEF Typed
<1>3. d.kind = "samp" => TakesSamp(d) /\ age' \in AgeRecord
  <2> SUFFICES ASSUME d.kind = "samp" PROVE TakesSamp(d) /\ age' \in AgeRecord
    OBVIOUS
  <2>1. OnSamp /\ ~LifeSign(d)
    BY DEF OnDatagram, OnOffline, OnFramed, LifeSign
  <2>2. TakesSamp(d)
    BY <2>1 DEF OnSamp, TakesSamp
  <2>3. age' = [age EXCEPT !.handshake = IF open_sent THEN @ ELSE 0, !.recv = @]
    BY <2>1 DEF OnSamp
  <2>4. (IF open_sent THEN age.handshake ELSE 0) \in 0..Retry
    BY <1>2, TimesAssumption DEF AgeRecord
  <2>5. PICK h \in 0..Retry : age' = [age EXCEPT !.handshake = h, !.recv = @]
    BY <2>3, <2>4
  <2> DEFINE w == [age EXCEPT !.handshake = h]
  <2>6. w \in AgeRecord
    BY <1>2 DEF AgeRecord
  <2>7. age' = [w EXCEPT !.recv = @]
    BY <2>5
  <2>. HIDE DEF w
  <2>8. age' \in AgeRecord
    BY <2>6, <2>7 DEF AgeRecord
  <2>. QED BY <2>2, <2>8
<1>4. d.kind = "offline" =>
        /\ age' \in AgeRecord
        /\ PassesOver(d) \/ OpensAgain(d) \/ AsksToConnect(d) \/ IsRefused(d)
  <2> SUFFICES ASSUME d.kind = "offline"
               PROVE  /\ age' \in AgeRecord
                      /\ PassesOver(d) \/ OpensAgain(d) \/ AsksToConnect(d) \/ IsRefused(d)
    OBVIOUS
  <2>1. OnOffline /\ d.id \in {"cookie", "reply"} \cup DisconnectIds
    BY <1>1, KindsOfDatagrams DEF OnDatagram, OnSamp, OnFramed
  <2>2. CASE phase = "Connected"
    <3>1. age' = [age EXCEPT !.recv = 0] /\ PassesOver(d)
      BY <2>1, <2>2 DEF OnOffline, PassesOver
    <3>. QED BY <1>2, <3>1, AgeZeroed
  <2>3. CASE phase # "Connected" /\ d.id = "cookie"
    <3>1. age' = [[age EXCEPT !.recv = 0] EXCEPT !.handshake = 0] /\ OpensAgain(d)
      BY <2>1, <2>3 DEF OnOffline, OpensAgain, DisconnectIds
    <3>. QED BY <1>2, <3>1, AgeZeroed
  <2>4. CASE phase # "Connected" /\ d.id = "reply"
    <3>1. age' = [[age EXCEPT !.recv = 0] EXCEPT !.handshake = 0] /\ AsksToConnect(d)
      BY <2>1, <2>4 DEF OnOffline, AsksToConnect, DisconnectIds, Flush, Heeded
    <3>. QED BY <1>2, <3>1, AgeZeroed
  <2>5. CASE phase # "Connected" /\ d.id \in DisconnectIds
    <3>1. age' = [age EXCEPT !.recv = 0] /\ IsRefused(d)
      BY <2>1, <2>5 DEF OnOffline, IsRefused, DisconnectIds, Emit
    <3>. QED BY <1>2, <3>1, AgeZeroed
  <2>. QED BY <2>1, <2>2, <2>3, <2>4, <2>5
<1>5. d.kind = "framed" => TakesFrame(d) /\ age' \in AgeRecord
  <2> SUFFICES ASSUME d.kind = "framed" PROVE TakesFrame(d) /\ age' \in AgeRecord
    OBVIOUS
  <2>1. OnFramed /\ d \in Frames
    BY <1>1, KindsOfDatagrams DEF OnDatagram, OnSamp, OnOffline
  <2>. QED BY <1>2, <2>1, AgeZeroed DEF OnFramed, TakesFrame, Idle
<1>. QED BY <1>1, <1>3, <1>4, <1>5, KindsOfDatagrams DEF OnDatagram

-----------------------------------------------------------------------------
(* The types.                                                                *)

LEMMA TypedInit == Init => Typed
<1> SUFFICES ASSUME Init PROVE Typed
  OBVIOUS
<1>1. age \in AgeRecord
  BY TimesAssumption DEF Init, Ages, AgeRecord
<1>2. job \in JobRecord /\ ~job.stop /\ job.event.id \notin Disconnected
  BY Resting DEF Init
<1>3. /\ socket \in Seq(Unframed \cup Frames) /\ commands \in Seq({"Send", "Disconnect"})
      /\ events \in Seq(Events) /\ taken \in Seq(Events) /\ stream \in Seq(Frames)
      /\ Len(socket) = 0 /\ Len(commands) = 0 /\ Len(events) = 0
  BY DEF Init
<1>4. to_server \in SUBSET Heeded /\ server \in Servers
  BY DEF Init, Heeded, Servers
<1>5. rpcs \in 0..MaxRpcs /\ handed \in Nat /\ offline \in SUBSET Unframed
  BY Sizes DEF Init
<1>6. SocketCapacity \in Nat /\ EventCapacity \in Nat /\ CommandCapacity \in Nat
  BY CapacityAssumption
<1>7. Len(socket) <= SocketCapacity /\ Len(commands) <= CommandCapacity /\ Len(events) <= EventCapacity
  BY <1>3, <1>6
<1>. QED BY <1>1, <1>2, <1>3, <1>4, <1>5, <1>7 DEF Init, Typed

\* What a handler may leave in `job`.
LEMMA JobsMade ==
  ASSUME NEW rest \in Seq(Messages)
  PROVE  /\ \A id \in Disconnected :
              LET j == [event |-> Message(id), rest |-> rest, stop |-> TRUE]
              IN  j \in JobRecord /\ (j.stop <=> j.event.id \in Disconnected)
         /\ \A e \in Events \cup {Nothing} :
              LET j == [event |-> e, rest |-> rest, stop |-> FALSE]
              IN  e.id \notin Disconnected => j \in JobRecord /\ (j.stop <=> j.event.id \in Disconnected)
  BY DEF JobRecord, Events, Message

LEMMA TypedTask ==
  ASSUME Typed, OnTick \/ OnCommand \/ CommandsClosed \/ SocketError \/ EmitEvent \/ EmitFails
  PROVE  Typed'
<1>1. << >> \in Seq(Messages)
  OBVIOUS
<1>2. {"Timeout", "Local", "Lost"} \subseteq Disconnected
  BY DEF Disconnected
<1>3. CASE OnTick
  <2>0. ~stopped /\ (GivesUp \/ Tries)
    BY <1>3, TickCases DEF Running
  <2>1. job' \in JobRecord /\ (job'.stop <=> job'.event.id \in Disconnected) /\ ~stopped
    <3>1. CASE GivesUp
      <4>1. PICK id \in Disconnected : job' = [event |-> Message(id), rest |-> << >>, stop |-> TRUE]
        BY <1>2, <3>1 DEF GivesUp
      <4>. QED BY <1>1, <2>0, <4>1, JobsMade
    <3>2. CASE Tries
      BY <2>0, <3>2 DEF Tries, Typed
    <3>. QED BY <2>0, <3>1, <3>2
  <2>2. to_server' \in SUBSET Heeded
    BY <1>3, TickCases DEF GivesUp, Tries, Typed, Heeded
  <2>3. /\ tick' = FALSE /\ age' \in AgeRecord /\ open_sent' \in BOOLEAN
        /\ UNCHANGED <<phase, cookie, stopped, queues, consumer, server, offline, stream,
                       rpcs, handed>>
    BY <1>3, TickCases
  <2>. QED BY <2>1, <2>2, <2>3 DEF Typed, queues, consumer
<1>4. CASE OnCommand
  <2>1. Head(commands) \in {"Send", "Disconnect"} /\ commands # << >>
    BY <1>4 DEF OnCommand, Typed
  <2>2. /\ commands' \in Seq({"Send", "Disconnect"}) /\ Len(commands') <= CommandCapacity
        /\ ~stopped /\ UNCHANGED to_server
    <3>1. commands \in Seq({"Send", "Disconnect"}) /\ Len(commands) <= CommandCapacity
      BY DEF Typed
    <3>2. commands' = Tail(commands) /\ ~stopped
      BY <1>4 DEF OnCommand, Running
    <3>3. UNCHANGED to_server
      BY <1>4, <2>1 DEF OnCommand, Flush, Heeded
    <3>. QED BY <2>1, <3>1, <3>2, <3>3, CapacityAssumption
  <2>3. job' \in JobRecord /\ (job'.stop <=> job'.event.id \in Disconnected)
    <3>1. CASE Head(commands) = "Send"
      BY <1>4, <3>1 DEF OnCommand, Typed
    <3>2. CASE Head(commands) = "Disconnect"
      <4>1. job' = [event |-> Message("Local"), rest |-> << >>, stop |-> TRUE]
        BY <1>4, <3>2 DEF OnCommand, Emit
      <4>. QED BY <1>1, <1>2, <4>1, JobsMade
    <3>. QED BY <2>1, <3>1, <3>2
  <2>. QED BY <1>4, <2>2, <2>3 DEF OnCommand, Typed, consumer
<1>5. CASE CommandsClosed
  BY <1>5 DEF CommandsClosed, Typed, Running, queues, consumer, outside
<1>6. CASE SocketError
  <2>1. job' \in JobRecord /\ (job'.stop <=> job'.event.id \in Disconnected) /\ ~stopped
    BY <1>1, <1>2, <1>6, JobsMade DEF SocketError, Emit, Running
  <2>2. UNCHANGED to_server
    BY <1>6 DEF SocketError, Emit, Flush, outside
  <2>. QED BY <1>6, <2>1, <2>2 DEF SocketError, Typed, queues, consumer, outside
<1>7. CASE EmitEvent
  <2>1. job.event \in Events
    BY <1>7 DEF EmitEvent, Typed, JobRecord
  <2>2. events' \in Seq(Events) /\ Len(events') <= EventCapacity
    BY <1>7, <2>1, CapacityAssumption DEF EmitEvent, Emitted, Typed
  <2>3. /\ job' \in JobRecord /\ (job'.stop <=> job'.event.id \in Disconnected)
        /\ stopped' \in BOOLEAN /\ (stopped' => job' = Idle)
    <3>1. job.stop \in BOOLEAN
      BY DEF Typed, JobRecord
    <3>2. CASE job.stop
      BY <1>7, <3>1, <3>2, Resting DEF EmitEvent
    <3>3. CASE ~job.stop
      <4>1. job' = [job EXCEPT !.event = Nothing]
        BY <1>7, <3>3 DEF EmitEvent
      <4>2. job' \in JobRecord /\ job'.stop = job.stop /\ job'.event = Nothing
        BY <4>1 DEF Typed, JobRecord
      <4>. QED BY <1>7, <3>1, <3>3, <4>2, Resting DEF EmitEvent
    <3>. QED BY <3>1, <3>2, <3>3
  <2>. QED BY <1>7, <2>2, <2>3 DEF EmitEvent, Typed, consumer, outside
<1>8. CASE EmitFails
  <2>1. job' \in JobRecord /\ (job'.stop <=> job'.event.id \in Disconnected)
    BY <1>8, Resting DEF EmitFails
  <2>. QED BY <1>8, <2>1 DEF EmitFails, Typed, queues, consumer, outside
<1>. QED BY <1>3, <1>4, <1>5, <1>6, <1>7, <1>8

LEMMA TypedMessages ==
  ASSUME Typed, HandleMessage
  PROVE  Typed'
<1> DEFINE m == Head(job.rest)
           rest == Tail(job.rest)
<1>1. /\ m \in Messages /\ rest \in Seq(Messages)
      /\ ~stopped /\ job.event = Nothing /\ ~job.stop
      /\ UNCHANGED <<open_sent, cookie, stopped, tick, queues, consumer, server,
                     offline, stream, rpcs, handed>>
      /\ Ends(m) \/ Connects(m) \/ KeepsQuiet(m) \/ HandsOver(m)
  BY MessageCases, Resting DEF Typed
<1>. HIDE DEF m, rest
<1>2. CASE Ends(m)
  <2>1. m = Message(m.id) /\ m.id \in Disconnected
    BY <1>1, <1>2 DEF Ends, Messages, Message, Rpc, DisconnectIds, Disconnected
  <2>2. job' = [event |-> Message(m.id), rest |-> rest, stop |-> TRUE]
    BY <1>2, <2>1 DEF Ends, rest
  <2>3. job' \in JobRecord /\ (job'.stop <=> job'.event.id \in Disconnected)
    BY <1>1, <2>1, <2>2, JobsMade
  <2>. QED BY <1>1, <1>2, <2>3 DEF Ends, Typed, queues, consumer
<1>3. CASE Connects(m)
  <2>1. Message("Connected") \in Events /\ Message("Connected").id \notin Disconnected
    BY DEF Events, Message, Disconnected, DisconnectIds
  <2>2. job' \in JobRecord /\ (job'.stop <=> job'.event.id \in Disconnected)
    BY <1>1, <1>3, <2>1, JobsMade DEF Connects, rest
  <2>3. age' \in AgeRecord
    <3>1. 0 \in 0..Retry /\ 0 \in 0..ConnectTimeout /\ 0 \in 0..Keepalive
      BY TimesAssumption
    <3> DEFINE w == [age EXCEPT !.keepalive = 0]
               v == [w EXCEPT !.start = 0]
    <3>2. w \in AgeRecord
      BY <3>1 DEF Typed, AgeRecord
    <3>. HIDE DEF w
    <3>3. v \in AgeRecord
      BY <3>1, <3>2 DEF AgeRecord
    <3>4. age' = [v EXCEPT !.handshake = 0]
      BY <1>3 DEF Connects, w
    <3>. HIDE DEF v
    <3>. QED BY <3>1, <3>3, <3>4 DEF AgeRecord
  <2>. QED BY <1>1, <1>3, <2>2, <2>3 DEF Connects, Typed, queues, consumer, Heeded
<1>4. CASE KeepsQuiet(m)
  <2>1. job' = [job EXCEPT !.rest = rest]
    BY <1>4 DEF KeepsQuiet, rest
  <2>2. job' \in JobRecord /\ job'.stop = job.stop /\ job'.event = job.event
    BY <1>1, <2>1 DEF Typed, JobRecord
  <2>. QED BY <1>1, <1>4, <2>2 DEF KeepsQuiet, Typed, queues, consumer
<1>5. CASE HandsOver(m)
  <2>1. m \in Events /\ m.id \notin Disconnected
    BY <1>1, <1>5, KindsOfMessages DEF HandsOver, Disconnected, DisconnectIds
  <2>2. job' \in JobRecord /\ (job'.stop <=> job'.event.id \in Disconnected)
    BY <1>1, <1>5, <2>1, JobsMade DEF HandsOver, rest
  <2>. QED BY <1>1, <1>5, <2>2 DEF HandsOver, Typed, queues, consumer
<1>. QED BY <1>1, <1>2, <1>3, <1>4, <1>5

LEMMA RunMessages ==
  ASSUME NEW a \in Nat, NEW n \in 1..(MaxRpcs - a)
  PROVE  /\ [i \in 1..n |-> Rpc(a + i)] = Run(a, a + n)
         /\ Run(a, a + n) \in Seq(Messages)
<1>1. n \in Nat /\ (a + n) - a = n
  BY Sizes
<1>2. \A i \in 1..n : a + i \in 1..MaxRpcs
  BY Sizes
<1>3. \A i \in 1..n : Rpc(a + i) \in Messages
  BY <1>2 DEF Messages
<1>4. [i \in 1..n |-> Rpc(a + i)] = Run(a, a + n)
  BY <1>1 DEF Run
<1>5. [i \in 1..n |-> Rpc(a + i)] \in Seq(Messages)
  BY <1>1, <1>3
<1>. QED BY <1>4, <1>5

LEMMA TypedDatagram ==
  ASSUME Typed, OnDatagram
  PROVE  Typed'
<1> DEFINE d == Head(socket)
<1>1. /\ Running /\ socket # << >> /\ socket' = Tail(socket)
      /\ d \in Unframed \cup Frames /\ age' \in AgeRecord
      /\ UNCHANGED <<stopped, tick, commands, events, consumer, server, offline, stream, rpcs>>
      /\ \/ TakesSamp(d) \/ PassesOver(d) \/ OpensAgain(d)
         \/ AsksToConnect(d) \/ IsRefused(d) \/ TakesFrame(d)
  BY DatagramCases
<1>. HIDE DEF d
<1>2. socket' \in Seq(Unframed \cup Frames) /\ Len(socket') <= SocketCapacity
  BY <1>1, CapacityAssumption DEF Typed
<1>3. {OpenRequest(cookie), OpenRequest(TRUE), "connect"} \subseteq Heeded
  BY DEF OpenRequest, Heeded
<1>4. /\ phase' \in {"OpenRequest", "ConnectionRequest", "Connected"}
      /\ open_sent' \in BOOLEAN /\ cookie' \in BOOLEAN /\ to_server' \in SUBSET Heeded
  BY <1>1, <1>3 DEF Typed, TakesSamp, PassesOver, OpensAgain, AsksToConnect, IsRefused, TakesFrame
<1>5. ~stopped /\ job = Idle /\ job \in JobRecord /\ ~job.stop /\ job.event.id \notin Disconnected
  BY <1>1, Resting DEF Running
<1>6. job' \in JobRecord /\ (job'.stop <=> job'.event.id \in Disconnected)
  <2>1. CASE IsRefused(d)
    <3>1. << >> \in Seq(Messages) /\ d.id \in Disconnected
      BY <2>1 DEF IsRefused, Disconnected
    <3>. QED BY <2>1, <3>1, JobsMade DEF IsRefused
  <2>2. CASE TakesFrame(d)
    <3>1. d.messages \in Seq(Messages) /\ Nothing.id \notin Disconnected
      BY <2>2, Resting DEF TakesFrame, Frames
    <3>. QED BY <2>2, <3>1, JobsMade DEF TakesFrame
  <2>3. CASE UNCHANGED job
    BY <1>5, <2>3
  <2>. QED BY <1>1, <2>1, <2>2, <2>3 DEF TakesSamp, PassesOver, OpensAgain, AsksToConnect
<1>7. handed' \in Nat
  <2>1. CASE TakesFrame(d)
    <3>1. d.messages \in Seq(Messages)
      BY <2>1 DEF TakesFrame, Frames
    <3>2. Len(RpcsIn(d.messages)) \in Nat
      BY <3>1, RpcsInType
    <3>. QED BY <2>1, <3>2 DEF TakesFrame, Typed
  <2>2. CASE UNCHANGED handed
    BY <2>2 DEF Typed
  <2>. QED BY <1>1, <2>1, <2>2
           DEF TakesSamp, PassesOver, OpensAgain, AsksToConnect, IsRefused
<1>. QED BY <1>1, <1>2, <1>4, <1>5, <1>6, <1>7 DEF Typed, consumer

LEMMA TypedPass ==
  ASSUME Typed, Pass
  PROVE  Typed'
<1>1. age' = Older /\ age \in AgeRecord
  BY DEF Pass, Typed
<1> DEFINE Grown(a, limit, read) == IF read /\ a < limit THEN a + 1 ELSE a
<1>2. \A limit \in Nat : \A a \in 0..limit : \A read : Grown(a, limit, read) \in 0..limit
  OBVIOUS
<1>3. {QueryInterval, Retry, ConnectTimeout, PeerTimeout, Keepalive} \subseteq Nat
  BY TimesAssumption
<1>4. /\ age.query \in 0..QueryInterval /\ age.handshake \in 0..Retry
      /\ age.start \in 0..ConnectTimeout /\ age.recv \in 0..PeerTimeout
      /\ age.keepalive \in 0..Keepalive
  BY <1>1 DEF AgeRecord
<1>5. Older \in AgeRecord
  BY <1>2, <1>3, <1>4 DEF Older, AgeRecord
<1>6. UNCHANGED <<phase, open_sent, cookie, stopped, rel, job, queues, consumer, outside, handed>>
      /\ tick' = TRUE
  BY DEF Pass
<1>. QED BY <1>1, <1>5, <1>6 DEF Typed, queues, consumer, outside

LEMMA TypedConsumer ==
  ASSUME Typed, TakeEvent \/ SendCommand \/ AskDisconnect \/ DropHandle
  PROVE  Typed'
<1>1. CASE TakeEvent
  <2>1. /\ Head(events) \in Events /\ taken' \in Seq(Events)
        /\ events' \in Seq(Events) /\ Len(events') <= EventCapacity
    BY <1>1, CapacityAssumption DEF TakeEvent, Typed
  <2>. QED BY <1>1, <2>1 DEF TakeEvent, Typed, task, outside
<1>2. CASE SendCommand
  <2>1. commands' \in Seq({"Send", "Disconnect"}) /\ Len(commands') <= CommandCapacity
    <3>1. commands \in Seq({"Send", "Disconnect"}) /\ Len(commands) <= CommandCapacity
      BY DEF Typed
    <3>2. \/ UNCHANGED commands
          \/ Len(commands) < CommandCapacity /\ commands' = Append(commands, "Send")
      BY <1>2 DEF SendCommand
    <3>. QED BY <3>1, <3>2, CapacityAssumption
  <2>. QED BY <1>2, <2>1 DEF SendCommand, Typed, task, outside
<1>3. CASE AskDisconnect
  <2>1. commands' \in Seq({"Send", "Disconnect"}) /\ Len(commands') <= CommandCapacity
    BY <1>3, CapacityAssumption DEF AskDisconnect, Typed
  <2>. QED BY <1>3, <2>1 DEF AskDisconnect, Typed, task, consumer, outside
<1>4. CASE DropHandle
  <2>1. events' \in Seq(Events) /\ Len(events') <= EventCapacity
    BY <1>4, CapacityAssumption DEF DropHandle
  <2>. QED BY <1>4, <2>1 DEF DropHandle, Typed, task, outside
<1>. QED BY <1>1, <1>2, <1>3, <1>4

LEMMA TypedRequest ==
  ASSUME Typed, NEW r \in to_server, ServerAnswers(r) \/ ServerReceives(r)
  PROVE  Typed'
<1>1. CASE ServerAnswers(r)
  <2>1. Answers(r) \subseteq Unframed
    BY DEF Answers, Unframed, Answer, DisconnectIds
  <2>2. offline' \in SUBSET Unframed /\ to_server' \in SUBSET Heeded
    BY <1>1, <2>1 DEF ServerAnswers, Typed
  <2>. QED BY <1>1, <2>2 DEF ServerAnswers, Typed, task, queues, consumer
<1>2. CASE ServerReceives(r)
  <2>1. Framed(<<Message("Accepted")>>) \in Frames
    BY DEF Framed, Frames, Messages
  <2>2. stream' \in Seq(Frames)
    BY <1>2, <2>1 DEF ServerReceives, Typed
  <2>3. server' \in Servers /\ to_server' \in SUBSET Heeded
    BY <1>2 DEF ServerReceives, Typed, Servers
  <2>. QED BY <1>2, <2>2, <2>3 DEF ServerReceives, Typed, task, queues, consumer
<1>. QED BY <1>1, <1>2

LEMMA TypedServer ==
  ASSUME Typed, ServerStreams \/ ServerFreezes \/ Arrive
  PROVE  Typed'
<1>3. CASE ServerStreams
  <2>1. Framed(<<Message("Closed")>>) \in Frames
    BY DEF Framed, Frames, Messages, DisconnectIds
  <2>2. \A n \in 1..(MaxRpcs - rpcs) :
          \A before \in {<< >>, <<Message("Service")>>} :
            /\ Framed(before \o [i \in 1..n |-> Rpc(rpcs + i)]) \in Frames
            /\ rpcs + n \in 0..MaxRpcs
    <3>. TAKE n \in 1..(MaxRpcs - rpcs)
    <3>. TAKE before \in {<< >>, <<Message("Service")>>}
    <3>1. rpcs \in Nat /\ rpcs + n \in 0..MaxRpcs
      BY Sizes DEF Typed
    <3>2. [i \in 1..n |-> Rpc(rpcs + i)] \in Seq(Messages)
      BY <3>1, RunMessages
    <3>3. before \in Seq(Messages)
      <4>1. Message("Service") \in Messages
        BY DEF Messages
      <4>2. << >> \in Seq(Messages) /\ <<Message("Service")>> \in Seq(Messages)
        BY <4>1
      <4>. QED BY <4>2
    <3>4. before \o [i \in 1..n |-> Rpc(rpcs + i)] \in Seq(Messages)
      BY <3>2, <3>3, ConcatProperties
    <3>. QED BY <3>1, <3>4 DEF Framed, Frames
  <2>3. CASE stream' = Append(stream, Framed(<<Message("Closed")>>)) /\ server' = "closed" /\ UNCHANGED rpcs
    <3>1. stream' \in Seq(Frames) /\ rpcs' \in 0..MaxRpcs /\ server' \in Servers
      BY <2>1, <2>3 DEF Typed, Servers
    <3>. QED BY <1>3, <3>1 DEF ServerStreams, Typed, task, queues, consumer
  <2>4. ASSUME NEW n \in 1..(MaxRpcs - rpcs), NEW before \in {<< >>, <<Message("Service")>>},
               rpcs' = rpcs + n, UNCHANGED server,
               stream' = Append(stream, Framed(before \o [i \in 1..n |-> Rpc(rpcs + i)]))
        PROVE  Typed'
    <3> DEFINE d == Framed(before \o [i \in 1..n |-> Rpc(rpcs + i)])
    <3>1. d \in Frames /\ rpcs' \in 0..MaxRpcs
      BY <2>2, <2>4
    <3>. HIDE DEF d
    <3>2. stream' \in Seq(Frames) /\ server' \in Servers
      BY <2>4, <3>1 DEF Typed, d
    <3>. QED BY <1>3, <3>1, <3>2 DEF ServerStreams, Typed, task, queues, consumer
  <2>. QED BY <1>3, <2>3, <2>4 DEF ServerStreams
<1>4. CASE ServerFreezes
  BY <1>4 DEF ServerFreezes, Typed, task, queues, consumer, Servers
<1>5. CASE Arrive
  <2>1. socket' \in Seq(Unframed \cup Frames) /\ Len(socket') <= SocketCapacity
    <3>1. ASSUME NEW d \in Unframed \cup Frames
          PROVE  Append(socket, d) \in Seq(Unframed \cup Frames)
                 /\ Len(Append(socket, d)) = Len(socket) + 1
      BY DEF Typed
    <3>2. Len(socket) \in Nat /\ Len(socket) + 1 <= SocketCapacity
      BY <1>5, CapacityAssumption DEF Arrive, Typed
    <3>3. PICK d \in Unframed \cup Frames : socket' = Append(socket, d)
      BY <1>5 DEF Arrive, Typed
    <3>. QED BY <3>1, <3>2, <3>3
  <2>2. offline' \in SUBSET Unframed /\ stream' \in Seq(Frames)
    <3>1. offline \in SUBSET Unframed /\ stream \in Seq(Frames)
      BY DEF Typed
    <3>2. offline' \subseteq offline /\ (UNCHANGED stream \/ (stream # << >> /\ stream' = Tail(stream)))
      BY <1>5 DEF Arrive
    <3>. QED BY <3>1, <3>2
  <2>. QED BY <1>5, <2>1, <2>2 DEF Arrive, Typed, task, consumer
<1>. QED BY <1>3, <1>4, <1>5

LEMMA TypedStep ==
  ASSUME Typed, [Next]_vars
  PROVE  Typed'
<1>1. CASE UNCHANGED vars
  BY <1>1 DEF Typed, vars, task, queues, consumer, outside
<1>2. CASE ServerStreams \/ ServerFreezes \/ Arrive \/ \E m \in to_server : ServerAnswers(m) \/ ServerReceives(m)
  BY <1>2, TypedServer, TypedRequest
<1>. QED BY <1>1, <1>2, TypedTask, TypedMessages, TypedDatagram, TypedPass, TypedConsumer DEF Next

-----------------------------------------------------------------------------
(* What the consumer receives.                                               *)

LEMMA ReceivedGrows ==
  ASSUME Typed, EmitEvent
  PROVE  /\ Received \in Seq(Events) /\ job.event \in Events
         /\ Received' = Append(Received, job.event)
         /\ handle /\ handle' /\ ~stopped /\ stopped' = job.stop /\ UNCHANGED handed
         /\ IF job.stop THEN job' = Idle
            ELSE job'.event = Nothing /\ job'.rest = job.rest
<1>1. job.event \in Events /\ job.stop \in BOOLEAN /\ job \in JobRecord
  BY DEF EmitEvent, Typed, JobRecord
<1>2. taken \in Seq(Events) /\ events \in Seq(Events)
  BY DEF Typed
<1>3. events' = Append(events, job.event) /\ taken' = taken
  BY DEF EmitEvent, Emitted, consumer
<1>4. Received' = Append(Received, job.event) /\ Received \in Seq(Events)
  BY <1>1, <1>2, <1>3, AppendToConcat DEF Received
<1>5. IF job.stop THEN job' = Idle ELSE job'.event = Nothing /\ job'.rest = job.rest
  BY <1>1 DEF EmitEvent, JobRecord
<1>. QED BY <1>1, <1>4, <1>5 DEF EmitEvent, consumer

LEMMA ReceivedStays ==
  ASSUME Typed, [Next]_vars, ~EmitEvent, ~DropHandle
  PROVE  UNCHANGED <<Received, handle>>
<1>1. CASE TakeEvent
  <2>1. events # << >> /\ events \in Seq(Events) /\ taken \in Seq(Events)
    BY <1>1 DEF TakeEvent, Typed
  <2>2. Head(events) \in Events /\ Tail(events) \in Seq(Events)
    BY <2>1
  <2>3. events = <<Head(events)>> \o Tail(events)
    <3> DEFINE x == <<Head(events)>> \o Tail(events)
    <3>1. <<Head(events)>> \in Seq(Events)
      BY <2>2
    <3>2. x \in Seq(Events) /\ Len(x) = Len(events)
      BY <2>1, <2>2, <3>1, ConcatProperties
    <3>3. \A i \in 1..Len(events) : x[i] = events[i]
      BY <2>1, <2>2
    <3>. HIDE DEF x
    <3>4. x = events
      BY <2>1, <3>2, <3>3, SeqEqual
    <3>. QED BY <3>4 DEF x
  <2>4. Append(taken, Head(events)) = taken \o <<Head(events)>>
    BY <2>1, <2>2, AppendIsConcat
  <2>5. <<Head(events)>> \in Seq(Events)
    BY <2>2
  <2>6. (taken \o <<Head(events)>>) \o Tail(events) = taken \o (<<Head(events)>> \o Tail(events))
    BY <2>1, <2>2, <2>5, ConcatAssociative
  <2>7. Received' = Append(taken, Head(events)) \o Tail(events)
    BY <1>1 DEF TakeEvent, Received
  <2>. QED BY <1>1, <2>3, <2>4, <2>6, <2>7 DEF Received, TakeEvent
<1>2. CASE UNCHANGED <<taken, events, handle>>
  BY <1>2 DEF Received
<1>3. CASE UNCHANGED vars
  BY <1>2, <1>3 DEF vars, consumer, queues
<1>4. CASE OnTick \/ OnCommand \/ CommandsClosed \/ SocketError \/ OnDatagram
           \/ HandleMessage \/ EmitFails \/ Pass
  BY <1>2, <1>4 DEF OnTick, OnCommand, CommandsClosed, SocketError, OnDatagram, HandleMessage,
                    EmitFails, Pass, queues, consumer
<1>5. CASE SendCommand \/ AskDisconnect \/ ServerStreams \/ ServerFreezes \/ Arrive
           \/ \E m \in to_server : ServerAnswers(m) \/ ServerReceives(m)
  BY <1>2, <1>5 DEF SendCommand, AskDisconnect, ServerStreams, ServerFreezes, Arrive,
                    ServerAnswers, ServerReceives, queues, consumer
<1>. QED BY <1>1, <1>3, <1>4, <1>5 DEF Next

\* The task is stopped by its handlers alone, and never again started.
LEMMA StopsOnce ==
  ASSUME Typed, [Next]_vars, ~EmitEvent, ~EmitFails, ~CommandsClosed
  PROVE  UNCHANGED stopped
<1>1. CASE UNCHANGED vars
  BY <1>1 DEF vars, task
<1>2. CASE OnTick \/ OnCommand \/ SocketError \/ OnDatagram \/ HandleMessage \/ Pass
  BY <1>2 DEF OnTick, OnCommand, SocketError, OnDatagram, HandleMessage, Pass
<1>3. CASE TakeEvent \/ SendCommand \/ AskDisconnect \/ DropHandle
  BY <1>3 DEF TakeEvent, SendCommand, AskDisconnect, DropHandle, task
<1>4. CASE ServerStreams \/ ServerFreezes \/ Arrive
           \/ \E m \in to_server : ServerAnswers(m) \/ ServerReceives(m)
  BY <1>4 DEF ServerStreams, ServerFreezes, Arrive, ServerAnswers, ServerReceives, task
<1>. QED BY <1>1, <1>2, <1>3, <1>4 DEF Next

LEMMA EndsStep ==
  ASSUME Typed, EndsWithAReason, [Next]_vars
  PROVE  EndsWithAReason'
<1> SUFFICES ASSUME handle'
             PROVE  /\ stopped' => Received' # << >> /\ Last(Received').id \in Disconnected
                    /\ \A i \in DOMAIN Received' :
                         Received'[i].id \in Disconnected => stopped' /\ i = Len(Received')
  BY DEF EndsWithAReason
<1>1. CASE EmitEvent
  <2> DEFINE n == Len(Received)
             e == job.event
  <2>1. /\ Received \in Seq(Events) /\ e \in Events /\ Received' = Append(Received, e)
        /\ handle /\ ~stopped /\ stopped' = job.stop
    BY <1>1, ReceivedGrows
  <2>2. /\ n \in Nat /\ DOMAIN Received = 1..n /\ DOMAIN Received' = 1..(n + 1)
        /\ Len(Received') = n + 1 /\ Received'[n + 1] = e
        /\ \A i \in 1..n : Received'[i] = Received[i]
        /\ Received' # << >>
    BY <2>1
  <2>3. \A i \in 1..n : Received[i].id \notin Disconnected
    BY <2>1, <2>2 DEF EndsWithAReason
  <2>4. job.stop <=> e.id \in Disconnected
    BY DEF Typed
  <2>5. \A i \in 1..(n + 1) : i \in 1..n \/ i = n + 1
    BY <2>2
  <2>. QED BY <2>1, <2>2, <2>3, <2>4, <2>5 DEF Last
<1>2. CASE DropHandle
  BY <1>2 DEF DropHandle
<1>3. CASE ~EmitEvent /\ ~DropHandle
  <2>1. UNCHANGED <<Received, handle>>
    BY <1>3, ReceivedStays
  <2>2. UNCHANGED stopped
    BY <1>3, <2>1, StopsOnce DEF EmitFails, CommandsClosed
  <2>. QED BY <2>1, <2>2 DEF EndsWithAReason
<1>. QED BY <1>1, <1>2, <1>3

-----------------------------------------------------------------------------
(* Connected comes before the RPCs.                                          *)

LEMMA NoRpcTail ==
  ASSUME NEW S, NEW s \in Seq(S), s # << >>, NoRpc(s)
  PROVE  NoRpc(Tail(s)) /\ ~IsRpc(Head(s))
<1>1. /\ Len(s) \in Nat \ {0} /\ DOMAIN s = 1..Len(s) /\ DOMAIN Tail(s) = 1..(Len(s) - 1)
      /\ Head(s) = s[1] /\ \A i \in 1..(Len(s) - 1) : Tail(s)[i] = s[i + 1]
  OBVIOUS
<1>2. \A i \in 1..(Len(s) - 1) : i + 1 \in 1..Len(s)
  BY <1>1
<1>. QED BY <1>1, <1>2 DEF NoRpc

LEMMA NoRpcInTail ==
  ASSUME NEW S, NEW q \in Seq(S), q # << >>, NoRpcIn(q)
  PROVE  NoRpcIn(Tail(q)) /\ (Head(q).kind = "framed" => NoRpc(Head(q).messages))
<1>1. /\ Len(q) \in Nat \ {0} /\ DOMAIN q = 1..Len(q) /\ DOMAIN Tail(q) = 1..(Len(q) - 1)
      /\ Head(q) = q[1] /\ \A i \in 1..(Len(q) - 1) : Tail(q)[i] = q[i + 1]
  OBVIOUS
<1>2. \A i \in 1..(Len(q) - 1) : i + 1 \in 1..Len(q)
  BY <1>1
<1>. QED BY <1>1, <1>2 DEF NoRpcIn

LEMMA NoRpcInAppend ==
  ASSUME NEW S, NEW q \in Seq(S), NEW d, NoRpcIn(q), d.kind = "framed" => NoRpc(d.messages)
  PROVE  NoRpcIn(Append(q, d))
<1>1. /\ Len(q) \in Nat /\ DOMAIN q = 1..Len(q) /\ DOMAIN Append(q, d) = 1..(Len(q) + 1)
      /\ Append(q, d)[Len(q) + 1] = d /\ \A i \in 1..Len(q) : Append(q, d)[i] = q[i]
  OBVIOUS
<1>2. \A i \in 1..(Len(q) + 1) : i \in 1..Len(q) \/ i = Len(q) + 1
  BY <1>1
<1>. QED BY <1>1, <1>2 DEF NoRpcIn

\* Nothing takes a connected task back, and only an acceptance connects it.
LEMMA PhaseSteps ==
  ASSUME Typed, [Next]_vars
  PROVE  /\ phase = "Connected" => phase' = "Connected"
         /\ phase # "Connected" /\ phase' = "Connected" => HandleMessage /\ Connects(Head(job.rest))
<1>1. CASE UNCHANGED phase
  BY <1>1
<1>2. CASE HandleMessage
  BY <1>2, MessageCases DEF Ends, Connects, KeepsQuiet, HandsOver
<1>3. CASE OnDatagram
  BY <1>3, DatagramCases
     DEF TakesSamp, PassesOver, OpensAgain, AsksToConnect, IsRefused, TakesFrame
<1>4. CASE UNCHANGED vars
  BY <1>1, <1>4 DEF vars, task
<1>5. CASE OnTick \/ OnCommand \/ CommandsClosed \/ SocketError \/ EmitEvent \/ EmitFails \/ Pass
  BY <1>1, <1>5 DEF OnTick, OnCommand, CommandsClosed, SocketError, EmitEvent, EmitFails, Pass
<1>6. CASE TakeEvent \/ SendCommand \/ AskDisconnect \/ DropHandle
  BY <1>1, <1>6 DEF TakeEvent, SendCommand, AskDisconnect, DropHandle, task
<1>7. CASE ServerStreams \/ ServerFreezes \/ Arrive
           \/ \E m \in to_server : ServerAnswers(m) \/ ServerReceives(m)
  BY <1>1, <1>7 DEF ServerStreams, ServerFreezes, Arrive, ServerAnswers, ServerReceives, task
<1>. QED BY <1>2, <1>3, <1>4, <1>5, <1>6, <1>7 DEF Next

LEMMA RestingIsNoRpc ==
  /\ NoRpc(<< >>) /\ ~IsRpc(Idle.event) /\ NoRpc(Idle.rest) /\ Idle.event.id # "Connected"
  /\ \A id \in Disconnected : ~IsRpc(Message(id)) /\ Message(id).id # "Connected"
  BY Resting DEF NoRpc, IsRpc, Message, Disconnected, DisconnectIds

\* What of Unaccepted is about the job, the network, and the events.
QuietJob == NoRpc(job.rest) /\ ~IsRpc(job.event) /\ job.event.id # "Connected"
QuietServer == server \in {"listening", "handling"} /\ "incoming" \notin to_server
QuietQueues == NoRpcIn(socket) /\ NoRpcIn(stream)
QuietEvents == NoRpc(Received) /\ \A i \in DOMAIN Received : Received[i].id # "Connected"

LEMMA QuietTask ==
  ASSUME Typed, QuietJob, QuietServer, QuietQueues, QuietEvents, phase' # "Connected",
         OnTick \/ OnCommand \/ SocketError \/ HandleMessage
  PROVE  QuietJob' /\ QuietServer' /\ UNCHANGED <<socket, stream>>
<1>1. CASE OnTick
  <2>1. QuietServer' /\ UNCHANGED <<socket, stream>>
    BY <1>1, TickCases DEF GivesUp, Tries, QuietServer, queues
  <2>2. job' = [event |-> Message("Timeout"), rest |-> << >>, stop |-> TRUE] \/ UNCHANGED job
    BY <1>1, TickCases DEF GivesUp, Tries
  <2>3. QuietJob'
    BY <2>2, RestingIsNoRpc DEF QuietJob, Disconnected
  <2>. QED BY <2>1, <2>3
<1>2. CASE OnCommand
  <2>1. Head(commands) \in {"Send", "Disconnect"}
    BY <1>2 DEF OnCommand, Typed
  <2>2. QuietServer' /\ UNCHANGED <<socket, stream>>
    BY <1>2, <2>1 DEF OnCommand, Flush, Heeded, QuietServer
  <2>3. job' = [event |-> Message("Local"), rest |-> << >>, stop |-> TRUE] \/ UNCHANGED job
    BY <1>2, <2>1 DEF OnCommand, Emit
  <2>4. QuietJob'
    BY <2>3, RestingIsNoRpc DEF QuietJob, Disconnected
  <2>. QED BY <2>2, <2>4
<1>3. CASE SocketError
  <2>1. QuietServer' /\ UNCHANGED <<socket, stream>>
    BY <1>3 DEF SocketError, QuietServer, queues, outside
  <2>2. job' = [event |-> Message("Lost"), rest |-> << >>, stop |-> TRUE]
    BY <1>3 DEF SocketError, Emit
  <2>3. QuietJob'
    BY <2>2, RestingIsNoRpc DEF QuietJob, Disconnected
  <2>. QED BY <2>1, <2>3
<1>4. CASE HandleMessage
  <2> DEFINE m == Head(job.rest)
  <2>1. /\ m \in Messages /\ job.rest # << >> /\ ~IsRpc(m) /\ NoRpc(Tail(job.rest))
        /\ UNCHANGED <<queues, server, stream>>
        /\ Ends(m) \/ KeepsQuiet(m)
    <3>1. job.rest \in Seq(Messages) /\ NoRpc(job.rest)
      BY DEF Typed, JobRecord, QuietJob
    <3>. QED BY <1>4, <3>1, MessageCases, NoRpcTail DEF Connects, HandsOver, IsRpc
  <2>. HIDE DEF m
  <2>2. CASE Ends(m)
    <3>1. job'.event = m /\ job'.rest = Tail(job.rest) /\ UNCHANGED to_server
      BY <2>2 DEF Ends
    <3>2. m.id # "Connected"
      BY <2>2 DEF Ends, DisconnectIds
    <3>. QED BY <2>1, <3>1, <3>2 DEF QuietJob, QuietServer, queues
  <2>3. CASE KeepsQuiet(m)
    <3>1. job'.event = job.event /\ job'.rest = Tail(job.rest) /\ UNCHANGED to_server
      BY <2>3 DEF KeepsQuiet, Typed, JobRecord
    <3>. QED BY <2>1, <3>1 DEF QuietJob, QuietServer, queues
  <2>. QED BY <2>1, <2>2, <2>3
<1>. QED BY <1>1, <1>2, <1>3, <1>4

LEMMA QuietDatagram ==
  ASSUME Typed, QuietJob, QuietServer, QuietQueues, phase' # "Connected", OnDatagram
  PROVE  QuietJob' /\ QuietServer' /\ QuietQueues'
<1> DEFINE d == Head(socket)
<1>1. socket \in Seq(Unframed \cup Frames)
  BY DEF Typed
<1>2. /\ socket # << >> /\ socket' = Tail(socket) /\ UNCHANGED <<server, stream>>
      /\ \/ TakesSamp(d) \/ PassesOver(d) \/ OpensAgain(d)
         \/ AsksToConnect(d) \/ IsRefused(d) \/ TakesFrame(d)
  BY DatagramCases
<1>3. QuietQueues' /\ (d.kind = "framed" => NoRpc(d.messages))
  BY <1>1, <1>2, NoRpcInTail DEF QuietQueues
<1>4. QuietServer'
  BY <1>2 DEF QuietServer, TakesSamp, PassesOver, OpensAgain, AsksToConnect, IsRefused,
              TakesFrame, OpenRequest
<1>5. QuietJob'
  <2>1. CASE IsRefused(d)
    <3>1. d.id \in Disconnected
      BY <2>1 DEF IsRefused, Disconnected
    <3>. QED BY <2>1, <3>1, RestingIsNoRpc DEF IsRefused, QuietJob
  <2>2. CASE TakesFrame(d)
    BY <1>3, <2>2, Resting DEF TakesFrame, QuietJob
  <2>3. CASE UNCHANGED job
    BY <2>3 DEF QuietJob
  <2>. QED BY <1>2, <2>1, <2>2, <2>3 DEF TakesSamp, PassesOver, OpensAgain, AsksToConnect
<1>. QED BY <1>3, <1>4, <1>5

LEMMA QuietOutside ==
  ASSUME Typed, QuietServer, QuietQueues,
         \/ ServerStreams \/ ServerFreezes \/ Arrive
         \/ \E m \in to_server : ServerAnswers(m) \/ ServerReceives(m)
  PROVE  QuietServer' /\ QuietQueues' /\ UNCHANGED job
<1>1. ~ServerStreams /\ ~ServerFreezes
  BY DEF ServerStreams, ServerFreezes, QuietServer
<1>2. ASSUME NEW m \in to_server, ServerAnswers(m)
      PROVE  QuietServer' /\ QuietQueues' /\ UNCHANGED job
  BY <1>2 DEF ServerAnswers, QuietServer, QuietQueues, queues, task
<1>3. ASSUME NEW m \in to_server, ServerReceives(m)
      PROVE  QuietServer' /\ QuietQueues' /\ UNCHANGED job
  <2>1. m = "connect" /\ UNCHANGED <<socket, job>> /\ QuietServer'
    BY <1>3 DEF ServerReceives, QuietServer, queues, task
  <2>2. stream' = Append(stream, Framed(<<Message("Accepted")>>))
    BY <1>3, <2>1 DEF ServerReceives, QuietServer
  <2>3. NoRpc(<<Message("Accepted")>>)
    BY DEF NoRpc, IsRpc, Message
  <2>4. NoRpcIn(stream')
    BY <2>2, <2>3, NoRpcInAppend DEF Framed, Typed, QuietQueues
  <2>. QED BY <2>1, <2>4 DEF QuietQueues
<1>4. CASE Arrive
  <2>1. UNCHANGED <<server, to_server, job>>
    BY <1>4 DEF Arrive, task
  <2>2. CASE \E d \in offline : socket' = Append(socket, d) /\ UNCHANGED stream
    <3>1. PICK d \in offline : socket' = Append(socket, d) /\ UNCHANGED stream
      BY <2>2
    <3>2. d.kind # "framed"
      BY DEF Typed, Unframed, Answer
    <3>. QED BY <2>1, <3>1, <3>2, NoRpcInAppend DEF Typed, QuietQueues, QuietServer
  <2>3. CASE stream # << >> /\ socket' = Append(socket, Head(stream)) /\ stream' = Tail(stream)
    <3>1. NoRpcIn(stream') /\ (Head(stream).kind = "framed" => NoRpc(Head(stream).messages))
      BY <2>3, NoRpcInTail DEF Typed, QuietQueues
    <3>2. NoRpcIn(socket')
      BY <2>3, <3>1, NoRpcInAppend DEF Typed, QuietQueues
    <3>. QED BY <2>1, <3>1, <3>2 DEF QuietQueues, QuietServer
  <2>. QED BY <1>4, <2>2, <2>3 DEF Arrive
<1>. QED BY <1>1, <1>2, <1>3, <1>4

\* A handler that waits to emit is gone on with by emit alone.
LEMMA JobWaits ==
  ASSUME Typed, [Next]_vars, job.event # Nothing, ~EmitEvent, ~EmitFails
  PROVE  UNCHANGED <<job, phase, handed>>
<1>1. ~Running
  BY Resting DEF Running
<1>2. ~(OnTick \/ OnCommand \/ CommandsClosed \/ SocketError \/ OnDatagram \/ HandleMessage)
  BY <1>1 DEF OnTick, OnCommand, CommandsClosed, SocketError, OnDatagram, HandleMessage
<1>3. CASE Pass \/ TakeEvent \/ SendCommand \/ AskDisconnect \/ DropHandle
  BY <1>3 DEF Pass, TakeEvent, SendCommand, AskDisconnect, DropHandle, task
<1>4. CASE ServerStreams \/ ServerFreezes \/ Arrive
           \/ \E m \in to_server : ServerAnswers(m) \/ ServerReceives(m)
  BY <1>4 DEF ServerStreams, ServerFreezes, Arrive, ServerAnswers, ServerReceives, task
<1>5. CASE UNCHANGED vars
  BY <1>5 DEF vars, task
<1>. QED BY <1>2, <1>3, <1>4, <1>5 DEF Next

\* The other steps leave `job` alone, or have the task end.
LEMMA JobSteps ==
  ASSUME Typed, [Next]_vars, job.event = Nothing, ~HandleMessage, ~OnDatagram
  PROVE  /\ \/ UNCHANGED job
            \/ job = Idle /\ \E id \in Disconnected :
                 job' = [event |-> Message(id), rest |-> << >>, stop |-> TRUE]
         /\ UNCHANGED <<phase, handed>>
<1>1. {"Timeout", "Local", "Lost"} \subseteq Disconnected
  BY DEF Disconnected
<1>2. CASE OnTick
  BY <1>1, <1>2, TickCases, Resting DEF GivesUp, Tries, Running
<1>3. CASE OnCommand
  <2>1. Head(commands) \in {"Send", "Disconnect"} /\ job = Idle
    BY <1>3, Resting DEF OnCommand, Typed, Running
  <2>2. UNCHANGED job \/ job' = [event |-> Message("Local"), rest |-> << >>, stop |-> TRUE]
    BY <1>3, <2>1 DEF OnCommand, Emit
  <2>3. UNCHANGED <<phase, handed>>
    BY <1>3 DEF OnCommand
  <2>. QED BY <1>1, <2>1, <2>2, <2>3
<1>4. CASE CommandsClosed \/ SocketError
  BY <1>1, <1>4, Resting DEF CommandsClosed, SocketError, Emit, Running
<1>5. ~EmitEvent /\ ~EmitFails
  BY DEF EmitEvent, EmitFails
<1>6. CASE Pass \/ TakeEvent \/ SendCommand \/ AskDisconnect \/ DropHandle
  BY <1>6 DEF Pass, TakeEvent, SendCommand, AskDisconnect, DropHandle, task
<1>7. CASE ServerStreams \/ ServerFreezes \/ Arrive
           \/ \E m \in to_server : ServerAnswers(m) \/ ServerReceives(m)
  BY <1>7 DEF ServerStreams, ServerFreezes, Arrive, ServerAnswers, ServerReceives, task
<1>8. CASE UNCHANGED vars
  BY <1>8 DEF vars, task
<1>. QED BY <1>2, <1>3, <1>4, <1>5, <1>6, <1>7, <1>8 DEF Next

LEMMA UnacceptedStep ==
  ASSUME Typed, Unaccepted, [Next]_vars
  PROVE  Unaccepted'
<1> SUFFICES ASSUME phase' # "Connected"
             PROVE  QuietJob' /\ QuietServer' /\ QuietQueues' /\ QuietEvents'
  BY DEF Unaccepted, QuietJob, QuietServer, QuietQueues, QuietEvents
<1>1. QuietJob /\ QuietServer /\ QuietQueues /\ QuietEvents
  BY PhaseSteps DEF Unaccepted, QuietJob, QuietServer, QuietQueues, QuietEvents
<1>2. taken \in Seq(Events) /\ events \in Seq(Events)
  BY DEF Typed
<1>3. CASE EmitEvent
  <2>1. /\ Received \in Seq(Events) /\ job.event \in Events /\ Received' = Append(Received, job.event)
        /\ IF job.stop THEN job' = Idle ELSE job'.event = Nothing /\ job'.rest = job.rest
    BY <1>3, ReceivedGrows
  <2>2. QuietJob'
    BY <1>1, <2>1, RestingIsNoRpc, Resting DEF QuietJob
  <2>3. QuietEvents'
    <3> DEFINE n == Len(Received)
    <3>1. /\ n \in Nat /\ DOMAIN Received = 1..n /\ DOMAIN Received' = 1..(n + 1)
          /\ Received'[n + 1] = job.event /\ \A i \in 1..n : Received'[i] = Received[i]
      BY <2>1
    <3>2. \A i \in 1..(n + 1) : i \in 1..n \/ i = n + 1
      BY <3>1
    <3>. QED BY <1>1, <3>1, <3>2 DEF QuietEvents, QuietJob, NoRpc
  <2>. QED BY <1>1, <1>3, <2>2, <2>3 DEF EmitEvent, QuietServer, QuietQueues, outside
<1>4. CASE DropHandle
  <2>1. Received' = taken
    BY <1>2, <1>4, ConcatEmptySeq DEF DropHandle, Received
  <2>2. DOMAIN taken \subseteq DOMAIN Received /\ \A i \in DOMAIN taken : taken[i] = Received[i]
    BY <1>2 DEF Received
  <2>3. QuietEvents'
    BY <1>1, <2>1, <2>2 DEF QuietEvents, NoRpc
  <2>. QED BY <1>1, <1>4, <2>3 DEF DropHandle, QuietJob, QuietServer, QuietQueues, task, outside
<1>5. CASE ~EmitEvent /\ ~DropHandle
  <2>1. QuietEvents'
    BY <1>1, <1>5, ReceivedStays DEF QuietEvents
  <2>2. CASE OnTick \/ OnCommand \/ SocketError \/ HandleMessage
    BY <1>1, <2>1, <2>2, QuietTask DEF QuietQueues
  <2>3. CASE OnDatagram
    BY <1>1, <2>1, <2>3, QuietDatagram
  <2>4. CASE ServerStreams \/ ServerFreezes \/ Arrive
             \/ \E m \in to_server : ServerAnswers(m) \/ ServerReceives(m)
    BY <1>1, <2>1, <2>4, QuietOutside DEF QuietJob
  <2>5. CASE CommandsClosed \/ EmitFails \/ Pass
    BY <1>1, <2>1, <2>5, RestingIsNoRpc
       DEF CommandsClosed, EmitFails, Pass, QuietJob, QuietServer, QuietQueues, queues, outside
  <2>6. CASE TakeEvent \/ SendCommand \/ AskDisconnect \/ UNCHANGED vars
    BY <1>1, <2>1, <2>6
       DEF TakeEvent, SendCommand, AskDisconnect, vars, QuietJob, QuietServer, QuietQueues, queues,
           outside, task
  <2>. QED BY <1>5, <2>2, <2>3, <2>4, <2>5, <2>6 DEF Next
<1>. QED BY <1>3, <1>4, <1>5

\* An event Connected is made by the acceptance only, and waits to be emitted.
LEMMA ConnectedMade ==
  ASSUME Typed, [Next]_vars, job'.event.id = "Connected"
  PROVE  UNCHANGED <<job, phase>> \/ (HandleMessage /\ Connects(Head(job.rest)))
<1>1. CASE job.event # Nothing /\ ~EmitEvent /\ ~EmitFails
  BY <1>1, JobWaits
<1>2. CASE EmitEvent \/ EmitFails
  BY <1>2, ReceivedGrows, Resting DEF EmitFails
<1>3. CASE HandleMessage
  <2> DEFINE m == Head(job.rest)
  <2>1. /\ m \in Messages /\ job.event = Nothing /\ job \in JobRecord
        /\ Ends(m) \/ Connects(m) \/ KeepsQuiet(m) \/ HandsOver(m)
    BY <1>3, MessageCases DEF Typed
  <2>2. ~Ends(m) /\ ~HandsOver(m)
    BY DEF Ends, HandsOver, DisconnectIds
  <2>3. ~KeepsQuiet(m)
    BY <2>1, Resting DEF KeepsQuiet, JobRecord
  <2>. QED BY <1>3, <2>1, <2>2, <2>3
<1>4. CASE OnDatagram
  <2>1. job.event = Nothing
    BY <1>4, Resting DEF OnDatagram, Running
  <2> DEFINE d == Head(socket)
  <2>2. ~IsRefused(d) /\ ~TakesFrame(d)
    BY Resting DEF IsRefused, TakesFrame, DisconnectIds, Message
  <2>3. UNCHANGED job
    BY <1>4, <2>2, DatagramCases DEF TakesSamp, PassesOver, OpensAgain, AsksToConnect
  <2>4. job'.event.id = "nothing"
    BY <2>1, <2>3, Resting
  <2>. QED BY <2>4
<1>5. CASE job.event = Nothing /\ ~HandleMessage /\ ~OnDatagram
  BY <1>5, JobSteps, RestingIsNoRpc, Resting
<1>. QED BY <1>1, <1>2, <1>3, <1>4, <1>5

LEMMA AcceptedStep ==
  ASSUME Typed, Unaccepted, Accepted, [Next]_vars
  PROVE  Accepted'
<1> DEFINE None == \A i \in DOMAIN Received : Received[i].id # "Connected"
           Some == \E i \in DOMAIN Received : Received[i].id = "Connected"
<1> SUFFICES ASSUME phase' = "Connected"
             PROVE  IF job'.event.id = "Connected" THEN None' ELSE handle' /\ ~stopped' => Some'
  BY DEF Accepted
<1>1. CASE phase # "Connected"
  <2>1. HandleMessage /\ Connects(Head(job.rest)) /\ None
    BY <1>1, PhaseSteps DEF Unaccepted
  <2>2. UNCHANGED Received
    BY <2>1 DEF HandleMessage, Received, queues, consumer
  <2>3. job'.event.id = "Connected"
    BY <2>1 DEF Connects, Message
  <2>. QED BY <2>1, <2>2, <2>3
<1>2. CASE phase = "Connected" /\ EmitEvent
  <2>1. /\ Received \in Seq(Events) /\ Received' = Append(Received, job.event)
        /\ handle /\ ~stopped /\ job'.event = Nothing
    BY <1>2, ReceivedGrows, Resting
  <2> DEFINE n == Len(Received)
  <2>2. /\ n \in Nat /\ DOMAIN Received = 1..n /\ DOMAIN Received' = 1..(n + 1)
        /\ Received'[n + 1] = job.event /\ \A i \in 1..n : Received'[i] = Received[i]
        /\ n + 1 \in 1..(n + 1) /\ \A i \in 1..n : i \in 1..(n + 1)
    BY <2>1
  <2>3. Some'
    <3>1. CASE job.event.id = "Connected"
      BY <2>2, <3>1
    <3>2. CASE job.event.id # "Connected"
      <4>1. Some
        BY <1>2, <2>1, <3>2 DEF Accepted
      <4>. QED BY <2>2, <4>1
    <3>. QED BY <3>1, <3>2
  <2>. QED BY <2>1, <2>3, Resting
<1>3. CASE phase = "Connected" /\ ~EmitEvent /\ job'.event.id = "Connected"
  <2>1. UNCHANGED job
    BY <1>3, ConnectedMade DEF Connects
  <2>2. None
    BY <1>3, <2>1 DEF Accepted
  <2>3. CASE DropHandle
    <3>1. taken \in Seq(Events) /\ events \in Seq(Events)
      BY DEF Typed
    <3>2. Received' = taken
      BY <2>3, <3>1, ConcatEmptySeq DEF DropHandle, Received
    <3>3. DOMAIN taken \subseteq DOMAIN Received /\ \A i \in DOMAIN taken : taken[i] = Received[i]
      BY <3>1 DEF Received
    <3>. QED BY <1>3, <2>2, <3>2, <3>3
  <2>4. CASE ~DropHandle
    BY <1>3, <2>2, <2>4, ReceivedStays
  <2>. QED BY <2>3, <2>4
<1>4. CASE phase = "Connected" /\ ~EmitEvent /\ job'.event.id # "Connected"
  <2> SUFFICES ASSUME handle', ~stopped' PROVE Some'
    BY <1>4
  <2>1. ~DropHandle /\ ~EmitFails
    BY DEF DropHandle, EmitFails
  <2>2. UNCHANGED <<Received, handle>>
    BY <1>4, <2>1, ReceivedStays
  <2>3. ~stopped
    BY <1>4, <2>1, StopsOnce DEF CommandsClosed
  <2>4. job.event.id # "Connected"
    BY <1>4, <2>1, JobWaits, Resting
  <2>. QED BY <1>4, <2>2, <2>3, <2>4 DEF Accepted
<1>. QED BY <1>1, <1>2, <1>3, <1>4

LEMMA ConnectedFirstStep ==
  ASSUME Typed, Unaccepted, Accepted, ConnectedFirst, [Next]_vars
  PROVE  ConnectedFirst'
<1>1. CASE EmitEvent
  <2> DEFINE n == Len(Received)
             e == job.event
  <2>1. /\ Received \in Seq(Events) /\ e \in Events /\ Received' = Append(Received, e)
        /\ handle /\ ~stopped
    BY <1>1, ReceivedGrows
  <2>2. /\ n \in Nat /\ DOMAIN Received = 1..n /\ DOMAIN Received' = 1..(n + 1)
        /\ Received'[n + 1] = e /\ \A i \in 1..n : Received'[i] = Received[i]
    BY <2>1
  <2>. HIDE DEF n
  <2>3. ASSUME NEW i \in DOMAIN Received'
        PROVE  /\ IsRpc(Received'[i]) => \E k \in 1..(i - 1) : Received'[k].id = "Connected"
               /\ Received'[i].id = "Connected" =>
                    \A k \in 1..(i - 1) : Received'[k].id # "Connected"
    <3>1. CASE i \in 1..n
      <4>1. \A k \in 1..(i - 1) : Received'[k] = Received[k]
        BY <2>2, <3>1
      <4>. QED BY <2>2, <3>1, <4>1 DEF ConnectedFirst
    <3>2. CASE i = n + 1
      <4>1. i - 1 = n
        BY <2>2, <3>2
      <4>2. IsRpc(e) => \E k \in 1..n : Received[k].id = "Connected"
        <5>. SUFFICES ASSUME IsRpc(e) PROVE \E k \in 1..n : Received[k].id = "Connected"
          OBVIOUS
        <5>1. phase = "Connected" /\ e.id # "Connected"
          BY DEF Unaccepted, IsRpc
        <5>. QED BY <2>1, <2>2, <5>1 DEF Accepted
      <4>3. e.id = "Connected" => \A k \in 1..n : Received[k].id # "Connected"
        BY <2>2 DEF Unaccepted, Accepted
      <4>. QED BY <2>2, <3>2, <4>1, <4>2, <4>3
    <3>. QED BY <2>2, <2>3, <3>1, <3>2
  <2>. QED BY <2>3 DEF ConnectedFirst
<1>2. CASE DropHandle
  <2>1. taken \in Seq(Events) /\ events \in Seq(Events)
    BY DEF Typed
  <2>2. Received' = taken
    BY <1>2, <2>1, ConcatEmptySeq DEF DropHandle, Received
  <2> DEFINE n == Len(taken)
  <2>3. /\ n \in Nat /\ DOMAIN taken = 1..n
        /\ DOMAIN taken \subseteq DOMAIN Received /\ \A i \in 1..n : taken[i] = Received[i]
    BY <2>1 DEF Received
  <2>. HIDE DEF n
  <2>4. ASSUME NEW i \in 1..n
        PROVE  /\ IsRpc(taken[i]) => \E k \in 1..(i - 1) : taken[k].id = "Connected"
               /\ taken[i].id = "Connected" => \A k \in 1..(i - 1) : taken[k].id # "Connected"
    <3>1. \A k \in 1..(i - 1) : taken[k] = Received[k]
      BY <2>3
    <3>. QED BY <2>3, <3>1 DEF ConnectedFirst
  <2>. QED BY <2>2, <2>3, <2>4 DEF ConnectedFirst
<1>3. CASE ~EmitEvent /\ ~DropHandle
  BY <1>3, ReceivedStays DEF ConnectedFirst
<1>. QED BY <1>1, <1>2, <1>3

-----------------------------------------------------------------------------
(* The first open request leaves before the deadline.                        *)

LEMMA UntriedTask ==
  ASSUME Typed, Untried, ~open_sent, ~open_sent',
         OnTick \/ OnCommand \/ CommandsClosed \/ SocketError \/ EmitEvent \/ EmitFails
  PROVE  Untried'
<1>1. /\ phase = "OpenRequest" /\ to_server \subseteq {"query"}
      /\ stream = << >> /\ job.rest = << >> /\ (job.event = Nothing \/ job.stop)
      /\ age.start = age.query /\ age.query <= Fallback
  BY DEF Untried
<1>2. age.query \in Nat
  BY DEF Typed, AgeRecord
<1>3. CASE OnTick
  <2>1. ~GivesUp
    BY <1>1, <1>2, Sizes, TimesAssumption DEF GivesUp, HandshakeOver
  <2>2. Tries
    BY <1>3, <2>1, TickCases
  <2>3. Queried = {} /\ QueryAge = age.query
    BY <1>1, <1>2, Sizes DEF Queried, QueryAge
  <2>4. age.query < Fallback
    BY <1>1, <1>2, <2>2, <2>3, Sizes DEF Tries, FallbackDue
  <2>5. /\ age'.query = age.query /\ age'.start = age.start /\ UNCHANGED <<job, to_server>>
    BY <2>2, <2>3 DEF Tries
  <2>6. UNCHANGED <<phase, stopped, queues, offline, stream>>
    BY <1>3, TickCases
  <2>. QED BY <1>1, <2>4, <2>5, <2>6 DEF Untried, queues
<1>4. CASE OnCommand
  <2>1. Head(commands) \in {"Send", "Disconnect"}
    BY <1>4 DEF OnCommand, Typed
  <2>2. UNCHANGED <<to_server, phase, offline, socket, stream, stopped, events, age, tick>>
    BY <1>4, <2>1 DEF OnCommand, Flush, Heeded
  <2>3. UNCHANGED job \/ job' = [event |-> Message("Local"), rest |-> << >>, stop |-> TRUE]
    BY <1>4, <2>1 DEF OnCommand, Emit
  <2>. QED BY <2>2, <2>3 DEF Untried
<1>5. CASE CommandsClosed
  BY <1>5 DEF CommandsClosed, Untried, queues, outside
<1>6. CASE SocketError
  <2>1. UNCHANGED <<to_server, phase, offline, socket, stream, stopped, events, age, tick>>
    BY <1>6 DEF SocketError, queues, outside
  <2>2. job' = [event |-> Message("Lost"), rest |-> << >>, stop |-> TRUE]
    BY <1>6 DEF SocketError, Emit
  <2>. QED BY <1>1, <2>1, <2>2 DEF Untried
<1>7. CASE EmitEvent
  <2>1. job.stop
    BY <1>1, <1>7 DEF EmitEvent
  <2>2. job' = Idle /\ stopped'
    BY <1>7, <2>1 DEF EmitEvent
  <2>3. UNCHANGED <<phase, to_server, offline, socket, stream, age, tick>>
    BY <1>7 DEF EmitEvent, outside
  <2>. QED BY <2>2, <2>3, Resting DEF Untried
<1>8. CASE EmitFails
  BY <1>8, Resting DEF EmitFails, Untried, queues, outside
<1>. QED BY <1>3, <1>4, <1>5, <1>6, <1>7, <1>8

LEMMA UntriedPass ==
  ASSUME Typed, Untried, ~open_sent, Pass
  PROVE  Untried'
<1>1. /\ phase = "OpenRequest" /\ (job.event = Nothing \/ job.stop)
      /\ age.start = age.query /\ age.query <= Fallback
      /\ (~stopped => events = << >>) /\ (~tick => age.query < Fallback)
  BY DEF Untried
<1>2. ~Blocked
  <2>1. Len(<< >>) = 0 /\ EventCapacity # 0
    BY Sizes
  <2>. QED BY <1>1, <2>1 DEF Blocked, Pass
<1>3. age.query \in Nat /\ age.query < Fallback
  BY <1>1, <1>2 DEF Typed, AgeRecord, Pass
<1>4. age.query < QueryInterval /\ age.start < ConnectTimeout
  BY <1>1, <1>3, Sizes, TimesAssumption
<1>5. age'.query = age.query + 1 /\ age'.start = age.start + 1
  BY <1>1, <1>4 DEF Pass, Older
<1>6. age'.query <= Fallback
  BY <1>3, <1>5, Sizes
<1>7. /\ UNCHANGED <<phase, to_server, offline, stream, job, stopped, queues>>
      /\ tick' = TRUE
  BY DEF Pass, outside
<1>. QED BY <1>1, <1>5, <1>6, <1>7 DEF Untried, queues

LEMMA UntriedServer ==
  ASSUME Typed, Untried, Unaccepted, ~open_sent,
         \/ ServerStreams \/ ServerFreezes \/ Arrive
         \/ \E m \in to_server : ServerAnswers(m) \/ ServerReceives(m)
  PROVE  Untried'
<1>1. /\ phase = "OpenRequest" /\ to_server \subseteq {"query"}
      /\ \A d \in offline : d.kind = "samp"
      /\ \A i \in DOMAIN socket : socket[i].kind = "samp"
      /\ stream = << >>
  BY DEF Untried
<1>2. ~ServerStreams /\ ~ServerFreezes
  BY <1>1 DEF ServerStreams, ServerFreezes, Unaccepted
<1>3. ASSUME NEW m \in to_server, ServerAnswers(m)
      PROVE  Untried'
  <2>1. m = "query"
    BY <1>1
  <2>2. \A d \in offline' : d.kind = "samp"
    <3>1. \A d \in Answers(m) : d.kind = "samp"
      BY <2>1 DEF Answers
    <3>2. offline' \subseteq offline \cup Answers(m)
      BY <1>3 DEF ServerAnswers
    <3>. QED BY <1>1, <3>1, <3>2
  <2>3. to_server' \subseteq {"query"} /\ UNCHANGED <<task, queues, stream>>
    BY <1>1, <1>3 DEF ServerAnswers
  <2>. QED BY <2>2, <2>3 DEF Untried, task, queues
<1>4. ASSUME NEW m \in to_server, ServerReceives(m)
      PROVE  Untried'
  BY <1>1, <1>4 DEF ServerReceives
<1>5. CASE Arrive
  <2>1. PICK d \in offline : socket' = Append(socket, d) /\ offline' = offline \ {d} /\ UNCHANGED stream
    BY <1>1, <1>5 DEF Arrive
  <2>2. socket \in Seq(Unframed \cup Frames)
    BY DEF Typed
  <2> DEFINE n == Len(socket)
  <2>3. /\ n \in Nat /\ DOMAIN socket = 1..n /\ DOMAIN socket' = 1..(n + 1)
        /\ socket'[n + 1] = d /\ \A i \in 1..n : socket'[i] = socket[i]
        /\ \A i \in 1..(n + 1) : i \in 1..n \/ i = n + 1
    BY <2>1, <2>2
  <2>4. \A i \in DOMAIN socket' : socket'[i].kind = "samp"
    BY <1>1, <2>1, <2>3
  <2>5. \A e \in offline' : e.kind = "samp"
    BY <1>1, <2>1
  <2>6. UNCHANGED <<task, events, to_server>>
    BY <1>5 DEF Arrive
  <2>. QED BY <2>1, <2>4, <2>5, <2>6 DEF Untried, task
<1>. QED BY <1>2, <1>3, <1>4, <1>5

LEMMA UntriedStep ==
  ASSUME Typed, Untried, Unaccepted, [Next]_vars
  PROVE  Untried'
<1> SUFFICES ASSUME ~open_sent' PROVE Untried'
  BY DEF Untried
<1>1. CASE OnTick \/ OnCommand \/ CommandsClosed \/ SocketError \/ EmitEvent \/ EmitFails
  <2>1. ~open_sent
    BY <1>1, TickCases DEF GivesUp, Tries, OnCommand, CommandsClosed, SocketError, EmitEvent, EmitFails
  <2>. QED BY <1>1, <2>1, UntriedTask
<1>2. CASE OnDatagram
  <2> DEFINE d == Head(socket)
  <2>1. /\ socket # << >>
        /\ \/ TakesSamp(d) \/ PassesOver(d) \/ OpensAgain(d)
           \/ AsksToConnect(d) \/ IsRefused(d) \/ TakesFrame(d)
    BY <1>2, DatagramCases
  <2>2. ~open_sent
    BY <2>1 DEF TakesSamp, PassesOver, OpensAgain, AsksToConnect, IsRefused, TakesFrame
  <2>3. socket \in Seq(Unframed \cup Frames)
    BY DEF Typed
  <2>4. 1 \in DOMAIN socket /\ d = socket[1]
    BY <2>1, <2>3
  <2>5. d.kind = "samp"
    BY <2>2, <2>4 DEF Untried
  <2>6. ~TakesSamp(d)
    BY DEF TakesSamp
  <2>. QED BY <2>1, <2>5, <2>6
           DEF PassesOver, OpensAgain, AsksToConnect, IsRefused, TakesFrame
<1>3. CASE HandleMessage
  BY <1>3 DEF HandleMessage, Untried
<1>4. CASE Pass
  BY <1>4, UntriedPass DEF Pass
<1>5. CASE TakeEvent \/ SendCommand \/ AskDisconnect \/ DropHandle
  <2>1. UNCHANGED <<task, socket, outside>> /\ (events = << >> => events' = << >>)
    BY <1>5 DEF TakeEvent, SendCommand, AskDisconnect, DropHandle
  <2>. QED BY <2>1 DEF Untried, task, outside
<1>6. CASE ServerStreams \/ ServerFreezes \/ Arrive
           \/ \E m \in to_server : ServerAnswers(m) \/ ServerReceives(m)
  <2>1. ~open_sent
    BY <1>6 DEF ServerStreams, ServerFreezes, Arrive, ServerAnswers, ServerReceives, task
  <2>. QED BY <1>6, <2>1, UntriedServer
<1>7. CASE UNCHANGED vars
  BY <1>7 DEF vars, task, queues, outside, Untried
<1>. QED BY <1>1, <1>2, <1>3, <1>4, <1>5, <1>6, <1>7 DEF Next

-----------------------------------------------------------------------------
(* RPCs on their way.                                                        *)

LEMMA ChainEmpty ==
  ASSUME NEW a \in Nat
  PROVE  Chain(<< >>, a, a)
<1> DEFINE f == [i \in 0..0 |-> a]
<1>1. f \in [0..0 -> Nat] /\ f[0] = a
  OBVIOUS
<1>2. Len(<< >>) = 0 /\ 1..0 = {}
  OBVIOUS
<1>. QED BY <1>1, <1>2 DEF Chain

LEMMA ChainAppend ==
  ASSUME NEW S, NEW q \in Seq(S), NEW d, NEW a \in Nat, NEW b \in Nat, NEW c \in Nat,
         Chain(q, a, b), Carries(d, b, c)
  PROVE  Chain(Append(q, d), a, c)
<1> DEFINE n == Len(q)
           p == Append(q, d)
<1>1. PICK f \in [0..n -> Nat] :
         f[0] = a /\ f[n] = b /\ \A i \in 1..n : Carries(q[i], f[i - 1], f[i])
  BY DEF Chain
<1>2. n \in Nat /\ Len(p) = n + 1 /\ p[n + 1] = d /\ \A i \in 1..n : p[i] = q[i]
  OBVIOUS
<1>. HIDE DEF n, p
<1> DEFINE g == [i \in 0..(n + 1) |-> IF i = n + 1 THEN c ELSE f[i]]
<1>3. /\ g \in [0..(n + 1) -> Nat] /\ g[0] = a /\ g[n + 1] = c
      /\ \A i \in 0..n : g[i] = f[i]
  BY <1>1, <1>2
<1>. HIDE DEF g
<1>4. ASSUME NEW i \in 1..(n + 1)
      PROVE  Carries(p[i], g[i - 1], g[i])
  <2>1. CASE i = n + 1
    <3>1. i - 1 = n /\ n \in 0..n
      BY <1>2, <2>1
    <3>2. g[i - 1] = b /\ g[i] = c /\ p[i] = d
      BY <1>1, <1>2, <1>3, <2>1, <3>1
    <3>. QED BY <3>2
  <2>2. CASE i # n + 1
    <3>1. i \in 1..n /\ i - 1 \in 0..n /\ i \in 0..n
      BY <1>2, <2>2
    <3>2. g[i - 1] = f[i - 1] /\ g[i] = f[i] /\ p[i] = q[i]
      BY <1>2, <1>3, <3>1
    <3>. QED BY <1>1, <3>1, <3>2
  <2>. QED BY <2>1, <2>2
<1>5. Chain(p, a, c)
  BY <1>2, <1>3, <1>4 DEF Chain
<1>. QED BY <1>5 DEF p

LEMMA ChainTail ==
  ASSUME NEW S, NEW q \in Seq(S), q # << >>, NEW a \in Nat, NEW c \in Nat, Chain(q, a, c)
  PROVE  \E b \in Nat : Carries(Head(q), a, b) /\ Chain(Tail(q), b, c)
<1> DEFINE n == Len(q)
           p == Tail(q)
<1>1. PICK f \in [0..n -> Nat] :
         f[0] = a /\ f[n] = c /\ \A i \in 1..n : Carries(q[i], f[i - 1], f[i])
  BY DEF Chain
<1>2. n \in Nat \ {0} /\ Len(p) = n - 1 /\ Head(q) = q[1] /\ \A i \in 1..(n - 1) : p[i] = q[i + 1]
  OBVIOUS
<1>. HIDE DEF n, p
<1> DEFINE g == [i \in 0..(n - 1) |-> f[i + 1]]
<1>3. \A i \in 0..(n - 1) : i + 1 \in 0..n
  BY <1>2
<1>4. g \in [0..(n - 1) -> Nat] /\ \A i \in 0..(n - 1) : g[i] = f[i + 1]
  BY <1>1, <1>3
<1>. HIDE DEF g
<1>5. g[0] = f[1] /\ g[n - 1] = c /\ f[1] \in Nat
  BY <1>1, <1>2, <1>4
<1>6. ASSUME NEW i \in 1..(n - 1)
      PROVE  Carries(p[i], g[i - 1], g[i])
  <2>1. i + 1 \in 1..n /\ (i + 1) - 1 = i /\ i - 1 \in 0..(n - 1) /\ i \in 0..(n - 1) /\ (i - 1) + 1 = i
    BY <1>2
  <2>2. g[i - 1] = f[i] /\ g[i] = f[i + 1] /\ p[i] = q[i + 1]
    BY <1>2, <1>4, <2>1
  <2>3. Carries(q[i + 1], f[(i + 1) - 1], f[i + 1])
    BY <1>1, <2>1
  <2>. QED BY <2>1, <2>2, <2>3
<1>7. Chain(p, f[1], c)
  BY <1>2, <1>4, <1>5, <1>6 DEF Chain
<1>8. Carries(Head(q), a, f[1])
  <2>1. 1 \in 1..n /\ 1 - 1 = 0
    BY <1>2
  <2>. QED BY <1>1, <1>2, <2>1
<1>. QED BY <1>5, <1>7, <1>8 DEF p

\* The server's datagrams carry the RPCs that follow the last one sent.
LEMMA FramesCarry ==
  ASSUME NEW a \in Nat
  PROVE  /\ Carries(Framed(<<Message("Accepted")>>), a, a)
         /\ Carries(Framed(<<Message("Closed")>>), a, a)
         /\ \A n \in 1..(MaxRpcs - a) : \A before \in {<< >>, <<Message("Service")>>} :
              Carries(Framed(before \o [i \in 1..n |-> Rpc(a + i)]), a, a + n)
<1>1. Run(a, a) = << >>
  BY RunType
<1>2. \A m \in Messages : ~IsRpc(m) => RpcsIn(<<m>>) = << >>
  BY RpcsInOne
<1>3. \A id \in {"Accepted", "Closed", "Service"} : Message(id) \in Messages /\ ~IsRpc(Message(id))
  BY DEF Messages, DisconnectIds, IsRpc, Message
<1>4. \A id \in {"Accepted", "Closed"} : Carries(Framed(<<Message(id)>>), a, a)
  BY <1>1, <1>2, <1>3 DEF Carries, Framed
<1>5. ASSUME NEW n \in 1..(MaxRpcs - a), NEW before \in {<< >>, <<Message("Service")>>}
      PROVE  Carries(Framed(before \o [i \in 1..n |-> Rpc(a + i)]), a, a + n)
  <2>1. /\ [i \in 1..n |-> Rpc(a + i)] = Run(a, a + n)
        /\ Run(a, a + n) \in Seq(Messages)
    BY RunMessages
  <2>2. n \in Nat /\ a <= a + n /\ a + n \in Nat
    BY Sizes
  <2>3. before \in Seq(Messages) /\ RpcsIn(before) = << >>
    <3>1. RpcsIn(<<Message("Service")>>) = << >> /\ <<Message("Service")>> \in Seq(Messages)
      BY <1>2, <1>3
    <3>2. << >> \in Seq(Messages)
      OBVIOUS
    <3>. QED BY <3>1, <3>2, RpcsInEmpty
  <2>4. RpcsIn(before \o Run(a, a + n)) = << >> \o RpcsIn(Run(a, a + n))
    BY <2>1, <2>3, RpcsInConcat
  <2>5. RpcsIn(Run(a, a + n)) = Run(a, a + n)
    BY <2>2, RpcsInRun
  <2>6. << >> \o Run(a, a + n) = Run(a, a + n)
    BY <2>1, ConcatEmptySeq
  <2>. QED BY <2>1, <2>2, <2>4, <2>5, <2>6 DEF Carries, Framed
<1>. QED BY <1>4, <1>5

\* What on_datagram hands over is what the datagram carries.
LEMMA HandedOver ==
  ASSUME Typed, OnDatagram, NEW b \in Nat, Carries(Head(socket), handed, b)
  PROVE  handed' = b
<1> DEFINE d == Head(socket)
<1>1. \/ TakesSamp(d) \/ PassesOver(d) \/ OpensAgain(d)
      \/ AsksToConnect(d) \/ IsRefused(d) \/ TakesFrame(d)
  BY DatagramCases
<1>2. CASE TakesFrame(d)
  <2>1. handed <= b /\ RpcsIn(d.messages) = Run(handed, b) /\ handed \in Nat
    BY <1>2 DEF Carries, TakesFrame, Typed
  <2>2. Len(RpcsIn(d.messages)) = b - handed
    BY <2>1, RunType
  <2>. QED BY <1>2, <2>1, <2>2 DEF TakesFrame
<1>3. CASE ~TakesFrame(d)
  BY <1>1, <1>3 DEF Carries, TakesSamp, PassesOver, OpensAgain, AsksToConnect, IsRefused
<1>. QED BY <1>2, <1>3

LEMMA OnTheirWayStep ==
  ASSUME Typed, OnTheirWay, [Next]_vars
  PROVE  OnTheirWay'
<1>1. PICK mid \in Nat : Chain(socket, handed, mid) /\ Chain(stream, mid, rpcs)
  BY DEF OnTheirWay
<1>2. /\ socket \in Seq(Unframed \cup Frames) /\ stream \in Seq(Frames)
      /\ rpcs \in Nat /\ handed \in Nat
  BY Sizes DEF Typed
<1>3. CASE OnDatagram
  <2>1. socket # << >> /\ socket' = Tail(socket) /\ UNCHANGED <<stream, rpcs>>
    BY <1>3 DEF OnDatagram
  <2>2. PICK b \in Nat : Carries(Head(socket), handed, b) /\ Chain(Tail(socket), b, mid)
    BY <1>1, <1>2, <2>1, ChainTail
  <2>3. handed' = b
    BY <1>3, <2>2, HandedOver
  <2>. QED BY <1>1, <2>1, <2>2, <2>3 DEF OnTheirWay
<1>4. ASSUME NEW d, NEW c \in Nat, stream' = Append(stream, d), Carries(d, rpcs, c), rpcs' = c,
             UNCHANGED <<socket, handed>>
      PROVE  OnTheirWay'
  <2>1. Chain(Append(stream, d), mid, c)
    BY <1>1, <1>2, <1>4, ChainAppend
  <2>. QED BY <1>1, <1>4, <2>1 DEF OnTheirWay
<1>5. CASE \E m \in to_server : ServerReceives(m)
  <2>1. /\ UNCHANGED <<socket, handed, rpcs>>
        /\ UNCHANGED stream \/ stream' = Append(stream, Framed(<<Message("Accepted")>>))
    BY <1>5 DEF ServerReceives, queues
  <2>2. Carries(Framed(<<Message("Accepted")>>), rpcs, rpcs)
    BY <1>2, FramesCarry
  <2>3. CASE UNCHANGED stream
    BY <1>1, <2>1, <2>3 DEF OnTheirWay
  <2>. QED BY <1>2, <1>4, <2>1, <2>2, <2>3
<1>6. CASE ServerStreams
  <2>1. UNCHANGED <<socket, handed>>
    BY <1>6 DEF ServerStreams, queues
  <2>2. CASE stream' = Append(stream, Framed(<<Message("Closed")>>)) /\ UNCHANGED rpcs
    BY <1>2, <1>4, <2>1, <2>2, FramesCarry
  <2>3. ASSUME NEW n \in 1..(MaxRpcs - rpcs), NEW before \in {<< >>, <<Message("Service")>>},
               rpcs' = rpcs + n,
               stream' = Append(stream, Framed(before \o [i \in 1..n |-> Rpc(rpcs + i)]))
        PROVE  OnTheirWay'
    <3> DEFINE d == Framed(before \o [i \in 1..n |-> Rpc(rpcs + i)])
    <3>1. Carries(d, rpcs, rpcs + n)
      BY <1>2, FramesCarry
    <3>0. rpcs + n \in Nat
      BY <1>2, Sizes
    <3>. HIDE DEF d
    <3>2. stream' = Append(stream, d)
      BY <2>3 DEF d
    <3>. QED BY <1>4, <2>1, <2>3, <3>0, <3>1, <3>2
  <2>. QED BY <1>6, <2>2, <2>3 DEF ServerStreams
<1>7. CASE Arrive
  <2>1. UNCHANGED <<rpcs, handed>>
    BY <1>7 DEF Arrive
  <2>2. CASE \E d \in offline : socket' = Append(socket, d) /\ UNCHANGED stream
    <3>1. PICK d \in offline : socket' = Append(socket, d) /\ UNCHANGED stream
      BY <2>2
    <3>2. Carries(d, mid, mid)
      BY SMTT(30) DEF Typed, Unframed, Answer, Carries
    <3>3. Chain(socket', handed, mid)
      BY <1>1, <1>2, <3>1, <3>2, ChainAppend
    <3>. QED BY <1>1, <2>1, <3>1, <3>3 DEF OnTheirWay
  <2>3. CASE stream # << >> /\ socket' = Append(socket, Head(stream)) /\ stream' = Tail(stream)
    <3>1. PICK b \in Nat : Carries(Head(stream), mid, b) /\ Chain(Tail(stream), b, rpcs)
      BY <1>1, <1>2, <2>3, ChainTail
    <3>2. Chain(socket', handed, b)
      BY <1>1, <1>2, <2>3, <3>1, ChainAppend
    <3>. QED BY <2>1, <2>3, <3>1, <3>2 DEF OnTheirWay
  <2>. QED BY <1>7, <2>2, <2>3 DEF Arrive
<1>8. CASE UNCHANGED <<socket, stream, rpcs, handed>>
  BY <1>1, <1>8 DEF OnTheirWay
<1>9. CASE OnTick \/ OnCommand \/ CommandsClosed \/ SocketError \/ HandleMessage
           \/ EmitEvent \/ EmitFails \/ Pass \/ UNCHANGED vars
  BY <1>8, <1>9 DEF OnTick, OnCommand, CommandsClosed, SocketError, HandleMessage,
                    EmitEvent, EmitFails, Pass, vars, queues, outside
<1>10. CASE TakeEvent \/ SendCommand \/ AskDisconnect \/ DropHandle \/ ServerFreezes
            \/ \E m \in to_server : ServerAnswers(m)
  BY <1>8, <1>10 DEF TakeEvent, SendCommand, AskDisconnect, DropHandle, ServerFreezes,
                     ServerAnswers, queues, outside
<1>. QED BY <1>3, <1>5, <1>6, <1>7, <1>9, <1>10 DEF Next

\* RPCs in hand, with the sequences they come from.
Items == Events \cup Messages

LEMMA InHandTypes ==
  ASSUME Typed
  PROVE  /\ RpcsIn(Received) \in Seq(Items) /\ RpcsIn(job.rest) \in Seq(Items)
         /\ Received \in Seq(Events) /\ job.rest \in Seq(Messages)
         /\ IsRpc(job.event) => <<job.event>> \in Seq(Items)
<1>1. taken \in Seq(Events) /\ events \in Seq(Events) /\ job \in JobRecord
  BY DEF Typed
<1>2. Received \in Seq(Events) /\ job.rest \in Seq(Messages)
  BY <1>1 DEF Received, JobRecord
<1>3. RpcsIn(Received) \in Seq(Events) /\ RpcsIn(job.rest) \in Seq(Messages)
  BY <1>2, RpcsInType
<1>4. IsRpc(job.event) => job.event \in Items
  BY <1>1, Resting DEF JobRecord, Items
<1>. QED BY <1>2, <1>3, <1>4, SeqMonotonic DEF Items

LEMMA InOrderEmits ==
  ASSUME Typed, InOrder, EmitEvent
  PROVE  InOrder'
<1> DEFINE R == RpcsIn(Received)
           t == RpcsIn(job.rest)
           e == job.event
           h == IF IsRpc(e) THEN <<e>> ELSE << >>
<1>1. /\ Received \in Seq(Events) /\ e \in Events /\ Received' = Append(Received, e)
      /\ handle /\ ~stopped /\ stopped' = job.stop /\ handed' = handed
      /\ IF job.stop THEN job' = Idle ELSE job'.event = Nothing /\ job'.rest = job.rest
  BY ReceivedGrows
<1>2. R \in Seq(Items) /\ t \in Seq(Items) /\ h \in Seq(Items)
  BY InHandTypes
<1>3. R \o (h \o t) = Run(0, handed)
  BY <1>1 DEF InOrder, InHand
<1>4. RpcsIn(Received') = R \o h
  <2>1. RpcsIn(Received') = IF IsRpc(e) THEN Append(R, e) ELSE R
    BY <1>1, RpcsInAppend
  <2>2. CASE IsRpc(e)
    <3>1. e \in Items
      BY <1>1 DEF Items
    <3>2. Append(R, e) = R \o <<e>>
      BY <1>2, <3>1, AppendIsConcat
    <3>. QED BY <2>1, <2>2, <3>2
  <2>3. CASE ~IsRpc(e)
    BY <1>2, <2>1, <2>3, ConcatEmptySeq
  <2>. QED BY <2>2, <2>3
<1>5. (R \o h) \o t = R \o (h \o t)
  <2>. HIDE DEF R, h, t
  <2>. QED BY <1>2, ConcatAssociative
<1>6. CASE ~job.stop
  <2>1. InHand' = << >> \o t
    BY <1>1, <1>6, Resting DEF InHand
  <2>2. << >> \o t = t
    BY <1>2, ConcatEmptySeq
  <2>. QED BY <1>1, <1>3, <1>4, <1>5, <1>6, <2>1, <2>2 DEF InOrder
<1>7. CASE job.stop
  <2>1. h = << >>
    BY <1>7 DEF Typed, IsRpc, Disconnected, DisconnectIds
  <2>2. R \o h = R /\ h \o t = t
    BY <1>2, <2>1, ConcatEmptySeq
  <2>3. R \o t = Run(0, handed)
    BY <1>3, <2>2
  <2>4. handed \in Nat
    BY DEF Typed
  <2>5. ASSUME NEW i \in DOMAIN R
        PROVE  R[i] = Rpc(i)
    <3>. HIDE DEF R, t, h
    <3>1. i \in 1..Len(R) /\ Len(R) \in Nat /\ Len(t) \in Nat
      BY <1>2, <2>5
    <3>2. (R \o t)[i] = R[i] /\ Len(R \o t) = Len(R) + Len(t)
      BY <1>2, <3>1, ConcatProperties
    <3>3. Len(Run(0, handed)) = handed
      BY <2>4, RunType
    <3>4. i \in 1..handed
      BY <2>3, <2>4, <3>1, <3>2, <3>3
    <3>5. Run(0, handed)[i] = Rpc(0 + i) /\ 0 + i = i
      BY <2>4, <3>4 DEF Run
    <3>. QED BY <2>3, <3>2, <3>5
  <2>6. RpcsIn(Received') = R
    BY <1>4, <2>2
  <2>. QED BY <1>1, <1>7, <2>5, <2>6 DEF InOrder
<1>. QED BY <1>6, <1>7

LEMMA InOrderMessages ==
  ASSUME Typed, HandleMessage
  PROVE  InHand' = InHand
<1> DEFINE m == Head(job.rest)
           t == Tail(job.rest)
<1>1. /\ m \in Messages /\ t \in Seq(Messages) /\ job.event = Nothing /\ job.rest # << >>
      /\ Ends(m) \/ Connects(m) \/ KeepsQuiet(m) \/ HandsOver(m)
  BY MessageCases
<1>2. job.rest = <<m>> \o t
  <2> DEFINE x == <<m>> \o t
  <2>1. job.rest \in Seq(Messages) /\ <<m>> \in Seq(Messages)
    BY <1>1 DEF Typed, JobRecord
  <2>2. x \in Seq(Messages) /\ Len(x) = Len(job.rest)
    BY <1>1, <2>1, ConcatProperties
  <2>3. \A i \in 1..Len(job.rest) : x[i] = job.rest[i]
    BY <1>1, <2>1
  <2>. HIDE DEF x
  <2>4. x = job.rest
    BY <2>1, <2>2, <2>3, SeqEqual
  <2>. QED BY <2>4 DEF x
<1> DEFINE h == IF IsRpc(m) THEN <<m>> ELSE << >>
           r == RpcsIn(t)
<1>3. RpcsIn(job.rest) = h \o r
  <2>1. <<m>> \in Seq(Messages) /\ RpcsIn(<<m>>) = h
    BY <1>1, RpcsInOne
  <2>. QED BY <1>1, <1>2, <2>1, RpcsInConcat
<1>4. h \o r \in Seq(Messages)
  <2>1. r \in Seq(Messages)
    BY <1>1, RpcsInType
  <2>2. h \in Seq(Messages)
    BY <1>1
  <2>. HIDE DEF h, r
  <2>. QED BY <2>1, <2>2
<1>5. InHand = h \o r
  <2>1. InHand = << >> \o (h \o r)
    BY <1>1, <1>3, Resting DEF InHand
  <2>. QED BY <1>4, <2>1, ConcatEmptySeq
<1>6. job'.rest = t /\ (IF IsRpc(job'.event) THEN <<job'.event>> ELSE << >>) = h
  <2>1. CASE Ends(m)
    BY <2>1 DEF Ends, IsRpc, DisconnectIds
  <2>2. CASE Connects(m)
    BY <2>2 DEF Connects, IsRpc, Message
  <2>3. CASE KeepsQuiet(m)
    <3>1. job'.rest = t /\ job'.event = Nothing
      BY <1>1, <2>3 DEF KeepsQuiet, Typed, JobRecord
    <3>2. ~IsRpc(m)
      BY <2>3 DEF KeepsQuiet, IsRpc
    <3>. QED BY <3>1, <3>2, Resting
  <2>4. CASE HandsOver(m)
    BY <2>4 DEF HandsOver
  <2>. QED BY <1>1, <2>1, <2>2, <2>3, <2>4
<1>7. InHand' = h \o r
  BY <1>6 DEF InHand
<1>. QED BY <1>5, <1>7

LEMMA InOrderDatagram ==
  ASSUME Typed, OnTheirWay, InOrder, OnDatagram
  PROVE  InOrder'
<1> DEFINE d == Head(socket)
           R == RpcsIn(Received)
<1>1. /\ socket # << >> /\ UNCHANGED <<stopped, events, consumer>> /\ ~stopped /\ job = Idle
      /\ \/ TakesSamp(d) \/ PassesOver(d) \/ OpensAgain(d)
         \/ AsksToConnect(d) \/ IsRefused(d) \/ TakesFrame(d)
  BY DatagramCases DEF Running
<1>2. UNCHANGED <<Received, handle>>
  BY <1>1 DEF Received, consumer
<1>3. PICK b \in Nat : Carries(d, handed, b)
  <2>1. PICK mid \in Nat : Chain(socket, handed, mid)
    BY DEF OnTheirWay
  <2>2. socket \in Seq(Unframed \cup Frames) /\ handed \in Nat
    BY DEF Typed
  <2>. QED BY <1>1, <2>1, <2>2, ChainTail
<1>4. handed' = b /\ handed \in Nat
  BY <1>3, HandedOver DEF Typed
<1>5. InHand = << >>
  <2>1. InHand = << >> \o << >>
    BY <1>1, Resting, RpcsInEmpty DEF InHand
  <2>. QED BY <2>1
<1> SUFFICES ASSUME handle PROVE R \o InHand' = Run(0, b)
  BY <1>1, <1>2, <1>4 DEF InOrder
<1>6. R \in Seq(Items)
  BY InHandTypes
<1>7. R = Run(0, handed)
  BY <1>1, <1>5, <1>6, ConcatEmptySeq DEF InOrder
<1>8. CASE TakesFrame(d)
  <2>1. handed <= b /\ RpcsIn(d.messages) = Run(handed, b)
    BY <1>3, <1>8 DEF Carries, TakesFrame
  <2>2. InHand' = << >> \o RpcsIn(d.messages)
    BY <1>8, Resting DEF TakesFrame, InHand
  <2>3. Run(handed, b) \in Seq(RpcSet)
    BY <1>4, <2>1, RunType
  <2>4. InHand' = Run(handed, b)
    BY <2>1, <2>2, <2>3, ConcatEmptySeq
  <2>5. Run(0, handed) \o Run(handed, b) = Run(0, b)
    <3>1. 0 \in Nat /\ 0 <= handed
      BY <1>4
    <3>. QED BY <1>4, <2>1, <3>1, RunsJoin
  <2>. QED BY <1>7, <2>4, <2>5
<1>9. CASE ~TakesFrame(d)
  <2>1. handed = b
    BY <1>1, <1>4, <1>9 DEF TakesSamp, PassesOver, OpensAgain, AsksToConnect, IsRefused
  <2>2. job'.rest = << >> /\ ~IsRpc(job'.event)
    <3>1. CASE IsRefused(d)
      BY <3>1 DEF IsRefused, IsRpc, Message, DisconnectIds
    <3>2. CASE UNCHANGED job
      BY <1>1, <3>2, Resting
    <3>. QED BY <1>1, <1>9, <3>1, <3>2 DEF TakesSamp, PassesOver, OpensAgain, AsksToConnect
  <2>3. InHand' = << >> \o << >>
    BY <2>2, RpcsInEmpty DEF InHand
  <2>4. R \o << >> = R /\ << >> \o << >> = << >>
    BY <1>6, ConcatEmptySeq
  <2>. QED BY <1>7, <2>1, <2>3, <2>4
<1>. QED BY <1>8, <1>9

LEMMA InOrderStep ==
  ASSUME Typed, OnTheirWay, InOrder, [Next]_vars
  PROVE  InOrder'
<1>1. CASE EmitEvent
  BY <1>1, InOrderEmits
<1>2. CASE OnDatagram
  BY <1>2, InOrderDatagram
<1>3. CASE ~handle'
  BY <1>3 DEF InOrder
<1>4. CASE handle' /\ ~EmitEvent /\ ~OnDatagram
  <2>1. ~DropHandle /\ ~EmitFails
    BY <1>4 DEF DropHandle, EmitFails, consumer
  <2>2. UNCHANGED <<Received, handle>>
    BY <1>4, <2>1, ReceivedStays
  <2>3. UNCHANGED stopped
    BY <1>4, <2>1, <2>2, StopsOnce DEF CommandsClosed
  <2>4. handed' = handed /\ InHand' = InHand
    <3>1. CASE HandleMessage
      BY <3>1, InOrderMessages DEF HandleMessage
    <3>2. CASE job.event # Nothing /\ ~HandleMessage
      BY <1>4, <2>1, <3>2, JobWaits DEF InHand
    <3>3. CASE job.event = Nothing /\ ~HandleMessage
      <4>1. UNCHANGED handed
        BY <1>4, <3>3, JobSteps
      <4>2. CASE UNCHANGED job
        BY <4>1, <4>2 DEF InHand
      <4>3. ASSUME job = Idle, NEW id \in Disconnected,
                   job' = [event |-> Message(id), rest |-> << >>, stop |-> TRUE]
            PROVE  InHand' = InHand
        <5>1. ~IsRpc(job'.event) /\ ~IsRpc(job.event) /\ job'.rest = << >> /\ job.rest = << >>
          BY <4>3, RestingIsNoRpc, Resting
        <5>. QED BY <5>1 DEF InHand
      <4>. QED BY <1>4, <3>3, <4>1, <4>2, <4>3, JobSteps
    <3>. QED BY <3>1, <3>2, <3>3
  <2>. QED BY <1>4, <2>2, <2>3, <2>4 DEF InOrder
<1>. QED BY <1>1, <1>2, <1>3, <1>4

-----------------------------------------------------------------------------
(* Who asks for the end.                                                     *)

\* Only the command makes the end the consumer asked for.
LEMMA LocalMade ==
  ASSUME Typed, [Next]_vars, job'.event.id = "Local"
  PROVE  UNCHANGED job \/ (OnCommand /\ Head(commands) = "Disconnect")
<1>1. "Local" # "Timeout" /\ "Local" # "Lost" /\ "Local" \notin DisconnectIds /\ Nothing.id # "Local"
  BY Resting DEF DisconnectIds
<1>2. CASE job.event # Nothing /\ ~EmitEvent /\ ~EmitFails
  BY <1>2, JobWaits
<1>3. CASE EmitEvent \/ EmitFails
  BY <1>1, <1>3, ReceivedGrows, Resting DEF EmitFails
<1>4. CASE HandleMessage
  <2> DEFINE m == Head(job.rest)
  <2>1. /\ m \in Messages /\ job.event = Nothing /\ job \in JobRecord
        /\ Ends(m) \/ Connects(m) \/ KeepsQuiet(m) \/ HandsOver(m)
    BY <1>4, MessageCases DEF Typed
  <2>2. ~Ends(m) /\ ~HandsOver(m) /\ ~Connects(m)
    BY <1>1 DEF Ends, HandsOver, Connects, Message
  <2>3. ~KeepsQuiet(m)
    BY <1>1, <2>1 DEF KeepsQuiet, JobRecord
  <2>. QED BY <2>1, <2>2, <2>3
<1>5. CASE OnDatagram
  <2> DEFINE d == Head(socket)
  <2>1. ~IsRefused(d) /\ ~TakesFrame(d)
    BY <1>1 DEF IsRefused, TakesFrame, Message
  <2>. QED BY <1>5, <2>1, DatagramCases DEF TakesSamp, PassesOver, OpensAgain, AsksToConnect
<1>6. CASE OnTick
  BY <1>1, <1>6, TickCases DEF GivesUp, Tries, Message
<1>7. CASE OnCommand
  <2>1. Head(commands) \in {"Send", "Disconnect"}
    BY <1>7 DEF OnCommand, Typed
  <2>. QED BY <1>7, <2>1 DEF OnCommand
<1>8. CASE CommandsClosed \/ SocketError
  BY <1>1, <1>8 DEF CommandsClosed, SocketError, Emit, Message
<1>9. CASE Pass \/ TakeEvent \/ SendCommand \/ AskDisconnect \/ DropHandle
  BY <1>9 DEF Pass, TakeEvent, SendCommand, AskDisconnect, DropHandle, task
<1>10. CASE ServerStreams \/ ServerFreezes \/ Arrive
           \/ \E m \in to_server : ServerAnswers(m) \/ ServerReceives(m)
  BY <1>10 DEF ServerStreams, ServerFreezes, Arrive, ServerAnswers, ServerReceives, task
<1>11. CASE UNCHANGED vars
  BY <1>11 DEF vars, task
<1>. QED BY <1>3, <1>4, <1>5, <1>6, <1>7, <1>8, <1>9, <1>10, <1>11 DEF Next

\* The commands only grow by the consumer and only shrink by on_command.
LEMMA CommandsStay ==
  ASSUME [Next]_vars, ~OnCommand, ~SendCommand, ~AskDisconnect
  PROVE  UNCHANGED commands
<1>1. CASE UNCHANGED vars
  BY <1>1 DEF vars, queues
<1>2. CASE OnTick \/ CommandsClosed \/ SocketError \/ OnDatagram \/ HandleMessage
           \/ EmitEvent \/ EmitFails \/ Pass \/ TakeEvent \/ DropHandle
  BY <1>2 DEF OnTick, CommandsClosed, SocketError, OnDatagram, HandleMessage, EmitEvent, EmitFails,
              Pass, TakeEvent, DropHandle, queues
<1>3. CASE ServerStreams \/ ServerFreezes \/ Arrive
           \/ \E m \in to_server : ServerAnswers(m) \/ ServerReceives(m)
  BY <1>3 DEF ServerStreams, ServerFreezes, Arrive, ServerAnswers, ServerReceives, queues
<1>. QED BY <1>1, <1>2, <1>3 DEF Next

\* Nobody but the consumer asks.
LEMMA AskedStays ==
  ASSUME [Next]_vars, ~AskDisconnect
  PROVE  UNCHANGED asked
<1>1. CASE UNCHANGED vars
  BY <1>1 DEF vars, consumer
<1>2. CASE OnTick \/ OnCommand \/ CommandsClosed \/ SocketError \/ OnDatagram \/ HandleMessage
           \/ EmitEvent \/ EmitFails \/ Pass
  BY <1>2 DEF OnTick, OnCommand, CommandsClosed, SocketError, OnDatagram, HandleMessage, EmitEvent,
              EmitFails, Pass, consumer
<1>3. CASE TakeEvent \/ SendCommand \/ DropHandle
  BY <1>3 DEF TakeEvent, SendCommand, DropHandle
<1>4. CASE ServerStreams \/ ServerFreezes \/ Arrive
           \/ \E m \in to_server : ServerAnswers(m) \/ ServerReceives(m)
  BY <1>4 DEF ServerStreams, ServerFreezes, Arrive, ServerAnswers, ServerReceives, consumer
<1>. QED BY <1>1, <1>2, <1>3, <1>4 DEF Next

\* The end the consumer asked for has its request behind it.
LEMMA OwnedStep ==
  ASSUME Typed, Owned, [Next]_vars
  PROVE  Owned'
<1>1. commands \in Seq({"Send", "Disconnect"})
  BY DEF Typed
<1>2. CASE AskDisconnect
  BY <1>2 DEF AskDisconnect, Owned
<1>3. CASE ~AskDisconnect
  <2>1. UNCHANGED asked
    BY <1>3, AskedStays
  <2>2. job'.event.id = "Local" => asked
    <3>1. SUFFICES ASSUME job'.event.id = "Local" PROVE asked
      OBVIOUS
    <3>2. CASE UNCHANGED job
      BY <3>1, <3>2 DEF Owned
    <3>3. CASE OnCommand /\ Head(commands) = "Disconnect"
      <4>1. 1 \in DOMAIN commands /\ commands[1] = "Disconnect"
        BY <1>1, <3>3 DEF OnCommand
      <4>. QED BY <4>1 DEF Owned, Requested
    <3>. QED BY <3>1, <3>2, <3>3, LocalMade
  <2>3. Requested' => Requested
    <3>1. CASE OnCommand
      <4> DEFINE n == Len(commands)
      <4>1. /\ n \in Nat \ {0} /\ DOMAIN commands = 1..n /\ DOMAIN commands' = 1..(n - 1)
            /\ \A i \in 1..(n - 1) : commands'[i] = commands[i + 1] /\ i + 1 \in 1..n
        BY <1>1, <3>1 DEF OnCommand
      <4>. QED BY <4>1 DEF Requested
    <3>2. CASE SendCommand /\ commands' = Append(commands, "Send")
      <4> DEFINE n == Len(commands)
      <4>1. /\ n \in Nat /\ DOMAIN commands = 1..n /\ DOMAIN commands' = 1..(n + 1)
            /\ commands'[n + 1] = "Send" /\ \A i \in 1..n : commands'[i] = commands[i]
        BY <1>1, <3>2
      <4>2. \A i \in 1..(n + 1) : i \in 1..n \/ i = n + 1
        BY <4>1
      <4>. QED BY <4>1, <4>2 DEF Requested
    <3>3. CASE UNCHANGED commands
      BY <3>3 DEF Requested
    <3>4. SendCommand => commands' = Append(commands, "Send") \/ UNCHANGED commands
      BY DEF SendCommand
    <3>. QED BY <1>3, <3>1, <3>2, <3>3, <3>4, CommandsStay
  <2>. QED BY <2>1, <2>2, <2>3 DEF Owned
<1>. QED BY <1>2, <1>3

-----------------------------------------------------------------------------
(* The invariant and what follows from it.                                   *)

LEMMA IInvInit == Init => IInv
<1> SUFFICES ASSUME Init PROVE IInv
  OBVIOUS
<1>1. Typed
  BY TypedInit
<1>2. Received = << >> /\ DOMAIN << >> = {}
  BY DEF Init, Received
<1>3. EndsWithAReason /\ ConnectedFirst
  BY <1>2 DEF Init, EndsWithAReason, ConnectedFirst
<1>4. Unaccepted /\ Accepted
  <2>1. ~IsRpc(job.event) /\ NoRpc(job.rest) /\ job.event.id # "Connected"
    BY RestingIsNoRpc DEF Init
  <2>2. NoRpcIn(socket) /\ NoRpcIn(stream) /\ NoRpc(Received)
    BY <1>2 DEF Init, NoRpcIn, NoRpc
  <2>. QED BY <1>2, <2>1, <2>2 DEF Init, Unaccepted, Accepted
<1>5. Untried
  <2>1. 0 < Fallback /\ Ages.query = 0 /\ Ages.start = 0
    BY Sizes DEF Ages
  <2>. QED BY <2>1, Resting, Sizes DEF Init, Untried
<1>6. OnTheirWay
  BY ChainEmpty DEF Init, OnTheirWay
<1>7. InOrder
  <2>1. Run(0, 0) = << >>
    BY RunType
  <2>2. RpcsIn(Received) = << >> /\ InHand = << >> \o << >>
    BY <1>2, Resting, RpcsInEmpty DEF Init, InHand
  <2>3. << >> \o (<< >> \o << >>) = << >>
    OBVIOUS
  <2>. QED BY <2>1, <2>2, <2>3 DEF Init, InOrder
<1>8. Owned
  <2>1. commands = << >> /\ job.event.id # "Local" /\ DOMAIN << >> = {}
    BY Resting DEF Init, Disconnected
  <2>. QED BY <2>1 DEF Owned, Requested
<1>. QED BY <1>1, <1>3, <1>4, <1>5, <1>6, <1>7, <1>8 DEF IInv

LEMMA IInvStep == IInv /\ [Next]_vars => IInv'
  BY TypedStep, EndsStep, UnacceptedStep, AcceptedStep, ConnectedFirstStep, UntriedStep,
     OnTheirWayStep, InOrderStep, OwnedStep
  DEF IInv

\* The parts of IInv hold in every reachable state.
THEOREM Invariance == Spec => []IInv
  BY IInvInit, IInvStep, PTL DEF Spec

\* The task's state, its queues and its ages stay within their types and
\* bounds; a handler ends the task exactly if the event it emits is a
\* Disconnected (transport.rs:242-275).
THEOREM TypeCorrect == Spec => []TypeOK
<1>1. IInv => TypeOK
  <2> SUFFICES ASSUME Typed PROVE TypeOK
    BY DEF IInv
  <2>1. \A d \in Unframed \cup Frames : Datagram(d)
    BY DEF Unframed, Frames, Answer, Datagram
  <2>2. \A i \in DOMAIN socket : Datagram(socket[i])
    BY <2>1 DEF Typed
  <2>. QED BY <2>2 DEF Typed, TypeOK, AgeRecord, JobRecord
<1>. QED BY <1>1, Invariance, PTL

\* Whatever ends the task, the consumer that still listens gets exactly one
\* Disconnected, as the last event (transport.rs:350-429).
THEOREM EveryEndHasAReason == Spec => []EndsWithAReason
<1>1. IInv => EndsWithAReason
  BY DEF IInv
<1>. QED BY <1>1, Invariance, PTL

\* Connected reaches the consumer once and before every RPC, with any number
\* of acceptances and RPCs on their way (transport.rs:703-719).
THEOREM ConnectedComesFirst == Spec => []ConnectedFirst
<1>1. IInv => ConnectedFirst
  BY DEF IInv
<1>. QED BY <1>1, Invariance, PTL

\* No handshake runs into its deadline without an open request sent, if only
\* the fallback is shorter than the query interval and the deadline
\* (transport.rs:55-59, 516-533).
THEOREM HandshakesAreTried == Spec => []TriedBeforeTimeout
<1>1. IInv => TriedBeforeTimeout
  <2> SUFFICES ASSUME Typed, Untried, ~open_sent, age.start = ConnectTimeout PROVE FALSE
    BY DEF IInv, TriedBeforeTimeout
  <2>. QED BY TimesAssumption DEF Untried, Typed, AgeRecord
<1>. QED BY <1>1, Invariance, PTL

\* Backpressure loses no RPC and reorders none: with queues of any size and a
\* consumer of any slowness, what the reliability layer handed over is what
\* was received, is in the channel, is being emitted or is next, in order
\* (transport.rs:427-429, 625-636).
THEOREM BackpressureIsLossless == Spec => []BackpressureKeepsOrder
<1>1. ASSUME Typed, InOrder, handle
      PROVE  LET all == RpcsIn(Received) \o (IF stopped THEN << >> ELSE InHand)
             IN  /\ \A i \in DOMAIN all : all[i] = Rpc(i)
                 /\ ~stopped /\ ~job.stop => Len(all) = handed
  <2>1. CASE stopped
    <3>1. RpcsIn(Received) \o << >> = RpcsIn(Received)
      BY InHandTypes, ConcatEmptySeq
    <3>. QED BY <1>1, <2>1, <3>1 DEF InOrder
  <2>2. CASE ~stopped
    <3>1. RpcsIn(Received) \o InHand = Run(0, handed) /\ handed \in Nat
      BY <1>1, <2>2 DEF InOrder, Typed
    <3>2. /\ Len(Run(0, handed)) = handed /\ DOMAIN Run(0, handed) = 1..handed
          /\ \A i \in 1..handed : Run(0, handed)[i] = Rpc(i)
      BY <3>1, RunType DEF Run
    <3>. QED BY <2>2, <3>1, <3>2
  <2>. QED BY <2>1, <2>2
<1>2. IInv => BackpressureKeepsOrder
  BY <1>1 DEF IInv, BackpressureKeepsOrder, InHand
<1>. QED BY <1>2, Invariance, PTL

-----------------------------------------------------------------------------
(* The task is the transport of its consumer.                                *)

\* The events only grow by the task and only shrink by the consumer.
LEMMA EventsStay ==
  ASSUME [Next]_vars, ~EmitEvent, ~TakeEvent, ~DropHandle
  PROVE  UNCHANGED events
<1>1. CASE UNCHANGED vars
  BY <1>1 DEF vars, queues
<1>2. CASE OnTick \/ OnCommand \/ CommandsClosed \/ SocketError \/ OnDatagram \/ HandleMessage
           \/ EmitFails \/ Pass \/ SendCommand \/ AskDisconnect
  BY <1>2 DEF OnTick, OnCommand, CommandsClosed, SocketError, OnDatagram, HandleMessage, EmitFails,
              Pass, SendCommand, AskDisconnect, queues
<1>3. CASE ServerStreams \/ ServerFreezes \/ Arrive
           \/ \E m \in to_server : ServerAnswers(m) \/ ServerReceives(m)
  BY <1>3 DEF ServerStreams, ServerFreezes, Arrive, ServerAnswers, ServerReceives, queues
<1>. QED BY <1>1, <1>2, <1>3 DEF Next

\* What handing an event to the channel does to the mapped variables.
LEMMA EmitMaps ==
  ASSUME Typed, EmitEvent
  PROVE  /\ Greeted' <=> Greeted \/ job.event.id = "Connected"
         /\ UNCHANGED asked
         /\ handle /\ ~stopped /\ handle' /\ stopped' = job.stop
         /\ events \in Seq(Events) /\ Len(events) < EventCapacity
         /\ events' = Append(events, job.event) /\ job.event \in Events
<1> DEFINE n == Len(Received)
           e == job.event
<1>1. /\ Received \in Seq(Events) /\ e \in Events /\ Received' = Append(Received, e)
      /\ handle /\ handle' /\ ~stopped /\ stopped' = job.stop
      /\ job' = Idle \/ job'.event = Nothing
  BY ReceivedGrows
<1>2. /\ n \in Nat /\ DOMAIN Received = 1..n /\ DOMAIN Received' = 1..(n + 1)
      /\ Received'[n + 1] = e /\ \A i \in 1..n : Received'[i] = Received[i]
      /\ \A i \in 1..(n + 1) : i \in 1..n \/ i = n + 1
      /\ n + 1 \in 1..(n + 1) /\ \A i \in 1..n : i \in 1..(n + 1)
  BY <1>1
<1>. HIDE DEF n
<1>3. Greeted' <=> Greeted \/ e.id = "Connected"
  BY <1>1, <1>2 DEF Greeted
<1>4. UNCHANGED asked
  BY DEF EmitEvent, consumer
<1>5. events \in Seq(Events) /\ Len(events) < EventCapacity /\ events' = Append(events, e)
  BY DEF Typed, EmitEvent, Emitted
<1>. QED BY <1>1, <1>3, <1>4, <1>5

\* A step of the task, of its consumer or of the server is one of the
\* transport, or none.
LEMMA LinkStep ==
  ASSUME IInv, [Next]_vars
  PROVE  Link!Next \/ UNCHANGED <<handle /\ ~stopped, Greeted, handle /\ asked, events>>
<1>1. Typed /\ Unaccepted /\ Accepted /\ ConnectedFirst /\ Owned
  BY DEF IInv
<1>2. handle \in BOOLEAN /\ stopped \in BOOLEAN /\ Greeted \in BOOLEAN /\ asked \in BOOLEAN
  BY <1>1 DEF Typed, Greeted
<1>3. handle' \in BOOLEAN /\ stopped' \in BOOLEAN /\ Greeted' \in BOOLEAN /\ asked' \in BOOLEAN
  BY <1>1, TypedStep DEF Typed, Greeted
<1>4. CASE EmitEvent
  <2> DEFINE e == job.event
  <2>1. /\ Greeted' <=> Greeted \/ e.id = "Connected"
        /\ UNCHANGED asked
        /\ handle /\ ~stopped /\ handle' /\ stopped' = job.stop
        /\ Len(events) < EventCapacity /\ events' = Append(events, e) /\ e \in Events
        /\ job.stop <=> e.id \in Disconnected
    BY <1>1, <1>4, EmitMaps DEF Typed
  <2>2. CASE e = Message("Connected")
    <3>1. e.id = "Connected" /\ e.id \notin Disconnected
      BY <2>2 DEF Message, Disconnected, DisconnectIds
    <3>2. ~Greeted
      BY <1>1, <3>1 DEF Greeted, Unaccepted, Accepted
    <3>3. Greeted' /\ ~stopped'
      BY <1>2, <1>3, <2>1, <3>1
    <3>4. Link!Connect
      BY <1>2, <1>3, <2>1, <2>2, <3>2, <3>3 DEF Link!Connect, Link!Put
    <3>. QED BY <3>4 DEF Link!Next
  <2>3. CASE \E n \in 1..MaxRpcs : e = Rpc(n)
    <3>1. IsRpc(e) /\ e.id # "Connected" /\ e.id \notin Disconnected
      BY <2>3 DEF Rpc, IsRpc, Disconnected, DisconnectIds
    <3>2. Greeted
      <4>1. phase = "Connected"
        BY <1>1, <3>1 DEF Unaccepted
      <4>. QED BY <1>1, <2>1, <3>1, <4>1 DEF Greeted, Accepted
    <3>3. Greeted' /\ ~stopped'
      BY <1>2, <1>3, <2>1, <3>1, <3>2
    <3>4. Link!Say
      BY <1>2, <1>3, <2>1, <2>3, <3>2, <3>3 DEF Link!Say, Link!Put
    <3>. QED BY <3>4 DEF Link!Next
  <2>4. CASE \E id \in Disconnected : e = Message(id)
    <3>1. e.id \in Disconnected /\ e.id # "Connected"
      BY <2>4 DEF Message, Disconnected, DisconnectIds
    <3>2. e = Message("Local") => asked
      BY <1>1 DEF Owned, Message
    <3>3. stopped' /\ (Greeted' <=> Greeted)
      BY <1>3, <2>1, <3>1
    <3>4. Link!End
      BY <1>2, <1>3, <2>1, <2>4, <3>2, <3>3 DEF Link!End, Link!Put
    <3>. QED BY <3>4 DEF Link!Next
  <2>. QED BY <2>1, <2>2, <2>3, <2>4 DEF Events
<1>5. CASE DropHandle
  <2>1. ~handle' /\ events' = << >>
    BY <1>5 DEF DropHandle
  <2>2. (handle /\ ~stopped)' = FALSE /\ Greeted' = FALSE /\ (handle /\ asked)' = FALSE
    BY <1>3, <2>1 DEF Greeted
  <2>. QED BY <2>1, <2>2 DEF Link!Next, Link!Abandon
<1>6. CASE ~EmitEvent /\ ~DropHandle
  <2>1. UNCHANGED <<Received, handle>>
    BY <1>1, <1>6, ReceivedStays
  <2>2. Greeted' = Greeted
    BY <2>1 DEF Greeted
  <2>3. (handle /\ ~stopped)' = (handle /\ ~stopped)
    <3>1. CASE handle
      BY <1>1, <1>6, <2>1, <3>1, StopsOnce DEF EmitFails, CommandsClosed
    <3>2. CASE ~handle
      BY <2>1, <3>2
    <3>. QED BY <3>1, <3>2
  <2>4. CASE ~handle
    <3>1. (handle /\ asked)' = (handle /\ asked)
      BY <2>1, <2>4
    <3>2. ~TakeEvent
      BY <2>4 DEF TakeEvent
    <3>3. events' = events
      BY <1>6, <3>2, EventsStay
    <3>. QED BY <2>2, <2>3, <3>1, <3>3
  <2>5. CASE handle /\ AskDisconnect
    <3>1. ~stopped /\ UNCHANGED events /\ (handle /\ asked)' = TRUE
      BY <2>1, <2>5 DEF AskDisconnect
    <3>2. Link!Leave
      BY <1>2, <2>2, <2>3, <2>5, <3>1 DEF Link!Leave
    <3>. QED BY <3>2 DEF Link!Next
  <2>6. CASE handle /\ ~AskDisconnect
    <3>1. (handle /\ asked)' = (handle /\ asked)
      BY <2>1, <2>6, AskedStays
    <3>2. CASE TakeEvent
      <4>1. events # << >> /\ events' = Tail(events)
        BY <3>2 DEF TakeEvent
      <4>2. Link!Receive
        BY <2>2, <2>3, <3>1, <4>1 DEF Link!Receive
      <4>. QED BY <4>2 DEF Link!Next
    <3>3. CASE ~TakeEvent
      <4>1. events' = events
        BY <1>6, <3>3, EventsStay
      <4>. QED BY <2>2, <2>3, <3>1, <4>1
    <3>. QED BY <3>2, <3>3
  <2>. QED BY <2>4, <2>5, <2>6
<1>. QED BY <1>4, <1>5, <1>6

\* The peer task implements the transport its consumer is written against, for
\* queues of every size and every order of the consumer's, the network's and
\* the server's steps (transport.rs:350-429, 570-583; driver.rs on_disconnect).
THEOREM IsTheTransport == Spec => ImplementsTransport
<1>1. Init => Link!Init
  <2> SUFFICES ASSUME Init PROVE Link!Init
    OBVIOUS
  <2>1. Received = << >> /\ DOMAIN << >> = {}
    BY DEF Init, Received
  <2>2. Greeted = FALSE /\ (handle /\ asked) = FALSE
    BY <2>1 DEF Greeted, Init
  <2>. QED BY <2>2 DEF Init, Link!Init
<1>2. IInv /\ [Next]_vars => [Link!Next]_(Link!vars)
  BY LinkStep DEF Link!vars
<1>. QED BY <1>1, <1>2, Invariance, PTL DEF Spec, ImplementsTransport, Link!Spec
=============================================================================
