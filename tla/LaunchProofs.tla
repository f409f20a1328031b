----------------------------- MODULE LaunchProofs -----------------------------
(* Proofs about ProxyPool, Tunnel and Launch.  For every set of clients, every *)
(* pool and every number of faults, no line nobody picked gets lost, clients   *)
(* that do not overlap never share a proxy, and one goes without only when all *)
(* are taken.  For every number of sessions and STUN requests and every set of *)
(* addresses, an exit is only used if the game server's filter let it in or a  *)
(* STUN reply was owed, a known split is never used, and the error blames a    *)
(* split only if there was one.  A launch is the pool and the tunnel at once,  *)
(* so that what is proved of either is proved of it.                           *)
EXTENDS Launch, NatLemmas, TLAPS

-----------------------------------------------------------------------------
(* The pool.                                                                 *)

\* The lines no client has picked: the comments, and the proxies left.
Left == Line \ taken

\* A client between read and rewrite has every line nobody picked in hand, and
\* the file has all of them too, unless someone has just truncated it.
KeptInv ==
    halved \/ /\ \A c \in Client : Holding(c) => Left \subseteq LinesOf(rest[c])
              /\ \/ Left \subseteq LinesOf(file)
                 \/ file = << >> /\ \E c \in Client : pc[c] = "write"

\* While no two clients overlap and no call fails ...
Alone == ~overlapped /\ ~failed

Distinct(s) == \A i, j \in DOMAIN s : s[i] = s[j] => i = j

\* ... one of them at a time is between read and rewrite, ...
OneHolds == \A c, d \in Client : Holding(c) /\ Holding(d) => c = d

\* ... what it will write back is free of doubles and of picked lines, ...
RestIsFresh == \A c \in Client : Holding(c) => Distinct(rest[c]) /\ LinesOf(rest[c]) \cap taken = {}

\* ... the file is empty while it has been truncated, ...
EmptyBetween == \A c \in Client : pc[c] = "write" => file = << >>

\* ... a picked line is in the file only until its client truncates it, ...
PickedIsOut == \A l \in LinesOf(file) \cap taken : \E c \in Client : pc[c] = "open" /\ spec[c] = l

\* ... and no two clients have one line.
OneEach == \A c, d \in Client : spec[c] = spec[d] /\ spec[c] # NoLine => c = d

AloneInv == Alone => OneHolds /\ Distinct(file) /\ RestIsFresh /\ EmptyBetween /\ PickedIsOut /\ OneEach

\* A client past its read has a line in hand, which is picked.
SpecInv ==
    /\ \A c \in Client : spec[c] \in taken \cup {NoLine}
    /\ \A c \in Client : pc[c] \in {"open", "write", "parse", "claimed"} => spec[c] \in taken

\* What a client that goes without a proxy tells: as long as no call failed,
\* every rewrite worked, so that none gives up after a bad line.
EmptyInv ==
    /\ halved => failed
    /\ ~failed => \A c \in Client : removed[c]
    /\ DirectMeansEmpty

-----------------------------------------------------------------------------
(* The operators on lines.                                                   *)

\* A pool with a candidate has a first one.
LEMMA FirstCandidateIsOne ==
  ASSUME NEW s \in Seq(Line), Candidates(s) # {}
  PROVE  FirstCandidate(s) \in Candidates(s)
<1>1. Candidates(s) \in SUBSET Nat
  BY DEF Candidates
<1>2. \E i \in Candidates(s) : \A j \in Candidates(s) : i <= j
  BY <1>1, NatLeast
<1>. QED BY <1>2 DEF FirstCandidate

\* Taking a line out keeps all the others, and a pool without doubles so.
LEMMA WithoutKeeps ==
  ASSUME NEW s \in Seq(Line), NEW i \in DOMAIN s
  PROVE  /\ Without(s, i) \in Seq(Line)
         /\ LinesOf(Without(s, i)) \subseteq LinesOf(s)
         /\ \A l \in LinesOf(s) : l # s[i] => l \in LinesOf(Without(s, i))
         /\ (\A j, k \in DOMAIN s : s[j] = s[k] => j = k) =>
              /\ s[i] \notin LinesOf(Without(s, i))
              /\ \A j, k \in DOMAIN Without(s, i) : Without(s, i)[j] = Without(s, i)[k] => j = k
<1> DEFINE w == Without(s, i)
           n == Len(s) - 1
<1>1. Len(s) \in Nat /\ DOMAIN s = 1 .. Len(s) /\ i \in 1 .. Len(s) /\ n \in Nat
      /\ \A k \in 1 .. Len(s) : s[k] \in Line
  OBVIOUS
<1>2. w = [k \in 1 .. n |-> IF k < i THEN s[k] ELSE s[k + 1]]
  BY DEF Without
<1>3. \A k \in 1 .. n : /\ k \in 1 .. Len(s) /\ k + 1 \in 1 .. Len(s)
                        /\ w[k] = IF k < i THEN s[k] ELSE s[k + 1]
  BY <1>1, <1>2
<1>4. DOMAIN w = 1 .. n
  BY <1>2
<1>5. w \in Seq(Line)
  <2>1. w \in [1 .. n -> Line]
    BY <1>1, <1>2, <1>3
  <2>. HIDE DEF w
  <2>. QED BY <2>1, <1>1
<1>6. LinesOf(w) \subseteq LinesOf(s)
  BY <1>1, <1>3, <1>4 DEF LinesOf
<1>7. ASSUME NEW l \in LinesOf(s), l # s[i]
      PROVE  l \in LinesOf(w)
  <2>1. PICK k \in 1 .. Len(s) : l = s[k]
    BY <1>1 DEF LinesOf
  <2>2. CASE k < i
    <3>1. k \in 1 .. n /\ w[k] = l
      BY <2>1, <2>2, <1>1, <1>3
    <3>. QED BY <3>1, <1>4 DEF LinesOf
  <2>3. CASE k > i
    <3>1. k - 1 \in 1 .. n /\ w[k - 1] = l
      BY <2>1, <2>3, <1>1, <1>3
    <3>. QED BY <3>1, <1>4 DEF LinesOf
  <2>. QED BY <2>1, <2>2, <2>3, <1>1, <1>7
<1>8. ASSUME \A j, k \in DOMAIN s : s[j] = s[k] => j = k
      PROVE  /\ s[i] \notin LinesOf(w)
             /\ \A j, k \in DOMAIN w : w[j] = w[k] => j = k
  <2>1. \A j, k \in 1 .. Len(s) : s[j] = s[k] => j = k
    BY <1>8, <1>1
  <2>2. ASSUME NEW k \in 1 .. n, w[k] = s[i]
        PROVE  FALSE
    BY <2>1, <2>2, <1>1, <1>3
  <2>3. ASSUME NEW j \in 1 .. n, NEW k \in 1 .. n, w[j] = w[k]
        PROVE  j = k
    BY <2>1, <2>3, <1>1, <1>3
  <2>. HIDE DEF w
  <2>. QED BY <2>2, <2>3, <1>4 DEF LinesOf
<1>. QED BY <1>5, <1>6, <1>7, <1>8

\* A write from the start loses nothing of what it writes; on an empty file
\* there is nothing else.
LEMMA OverKeeps ==
  ASSUME NEW new \in Seq(Line), NEW old \in Seq(Line)
  PROVE  /\ Over(new, old) \in Seq(Line)
         /\ LinesOf(new) \subseteq LinesOf(Over(new, old))
         /\ old = << >> => Over(new, old) = new
<1> DEFINE w == Over(new, old)
           n == IF Len(new) > Len(old) THEN Len(new) ELSE Len(old)
<1>1. Len(new) \in Nat /\ Len(old) \in Nat /\ n \in Nat /\ Len(new) <= n
      /\ DOMAIN new = 1 .. Len(new) /\ DOMAIN old = 1 .. Len(old)
      /\ (\A k \in 1 .. Len(new) : new[k] \in Line) /\ (\A k \in 1 .. Len(old) : old[k] \in Line)
  OBVIOUS
<1>2. w = [k \in 1 .. n |-> IF k <= Len(new) THEN new[k] ELSE old[k]]
  BY DEF Over
<1>3. w \in Seq(Line)
  <2>1. \A k \in 1 .. n : (IF k <= Len(new) THEN new[k] ELSE old[k]) \in Line
    BY <1>1
  <2>2. w \in [1 .. n -> Line]
    BY <2>1, <1>2
  <2>. HIDE DEF w
  <2>. QED BY <2>2, <1>1
<1>4. LinesOf(new) \subseteq LinesOf(w)
  <2>1. \A k \in 1 .. Len(new) : k \in 1 .. n /\ w[k] = new[k]
    BY <1>1, <1>2
  <2>2. DOMAIN w = 1 .. n
    BY <1>2
  <2>. HIDE DEF w
  <2>. QED BY <2>1, <2>2, <1>1 DEF LinesOf
<1>5. ASSUME old = << >>
      PROVE  w = new
  <2>1. Len(old) = 0 /\ n = Len(new)
    BY <1>5, <1>1
  <2>2. w = [k \in 1 .. Len(new) |-> new[k]]
    BY <2>1, <1>2
  <2>. HIDE DEF w
  <2>. QED BY <2>2, <1>1
<1>. QED BY <1>3, <1>4, <1>5

-----------------------------------------------------------------------------
(* Types.                                                                    *)

\* The variables keep their types, whatever the clients do to the file.
THEOREM PoolTypeCorrect == Spec => []TypeOK
<1>1. Init => TypeOK
  <2> SUFFICES ASSUME Init PROVE TypeOK
    OBVIOUS
  <2>1. file \in Seq(Line) /\ faults \in 0 .. MaxFaults
    BY PoolAssumption DEF Init
  <2>2. rest \in [Client -> Seq(Line)]
    BY DEF Init
  <2>3. writable \in BOOLEAN /\ removed \in [Client -> BOOLEAN]
    BY Zenon DEF Init
  <2>4. overlapped \in BOOLEAN /\ failed \in BOOLEAN /\ halved \in BOOLEAN
    BY DEF Init
  <2>5. pc \in [Client -> {"read", "open", "write", "parse", "claimed", "direct", "killed"}]
    BY DEF Init
  <2>6. spec \in [Client -> Line \cup {NoLine}] /\ taken \subseteq Line
    BY DEF Init
  <2>. QED BY <2>1, <2>2, <2>3, <2>4, <2>5, <2>6 DEF TypeOK
<1>2. TypeOK /\ [Next]_vars => TypeOK'
  <2> SUFFICES ASSUME TypeOK, [Next]_vars PROVE TypeOK'
    OBVIOUS
  <2>. USE PoolAssumption DEF TypeOK, history
  <2>1. ASSUME NEW c \in Client, Read(c) PROVE TypeOK'
    <3>1. /\ FirstCandidate(file) \in DOMAIN file
          /\ Without(file, FirstCandidate(file)) \in Seq(Line)
      <4>1. Candidates(file) # {}
        BY <2>1 DEF Read
      <4>2. FirstCandidate(file) \in Candidates(file)
        BY <4>1, FirstCandidateIsOne
      <4>3. FirstCandidate(file) \in DOMAIN file
        BY <4>2 DEF Candidates
      <4>. QED BY <4>3, WithoutKeeps
    <3>2. file[FirstCandidate(file)] \in Line
      BY <3>1
    <3>. QED BY <2>1, <3>1, <3>2 DEF Read
  <2>2. ASSUME NEW c \in Client, ReadNothing(c) PROVE TypeOK'
    BY <2>2 DEF ReadNothing
  <2>3. ASSUME NEW c \in Client, ReadFails(c) PROVE TypeOK'
    BY <2>3 DEF ReadFails, Fault, MayFail
  <2>4. ASSUME NEW c \in Client, Truncate(c) PROVE TypeOK'
    BY <2>4 DEF Truncate, Opened
  <2>5. ASSUME NEW c \in Client, OpenFails(c) PROVE TypeOK'
    BY <2>5 DEF OpenFails, Fault, MayFail
  <2>6. ASSUME NEW c \in Client, Write(c) PROVE TypeOK'
    BY <2>6, OverKeeps DEF Write
  <2>7. ASSUME NEW c \in Client, WriteFails(c) PROVE TypeOK'
    <3>1. PICK n \in 0 .. Len(rest[c]) - 1 : file' = Over([k \in 1 .. n |-> rest[c][k]], file)
      BY <2>7 DEF WriteFails
    <3>2. [k \in 1 .. n |-> rest[c][k]] \in Seq(Line)
      OBVIOUS
    <3>3. file' \in Seq(Line)
      BY <3>1, <3>2, OverKeeps
    <3>. QED BY <2>7, <3>3 DEF WriteFails, Fault, MayFail
  <2>8. ASSUME NEW c \in Client, Killed(c) PROVE TypeOK'
    BY <2>8 DEF Killed, Fault, MayFail
  <2>9. ASSUME NEW c \in Client, Claim(c) PROVE TypeOK'
    BY <2>9 DEF Claim
  <2>10. ASSUME NEW c \in Client, Drop(c) PROVE TypeOK'
    BY <2>10 DEF Drop, AfterBadLine
  <2>11. ASSUME NEW c \in Client, DropUnresolved(c) PROVE TypeOK'
    BY <2>11 DEF DropUnresolved, AfterBadLine, Fault, MayFail
  <2>12. CASE UNCHANGED vars
    BY <2>12 DEF vars
  <2>. QED BY <2>1, <2>2, <2>3, <2>4, <2>5, <2>6, <2>7, <2>8, <2>9, <2>10, <2>11, <2>12
           DEF Next, Claims, Fails
<1>. QED BY <1>1, <1>2, PTL DEF Spec

-----------------------------------------------------------------------------
(* No line gets lost.                                                        *)

LEMMA KeptStep == TypeOK /\ KeptInv /\ [Next]_vars => KeptInv'
<1> SUFFICES ASSUME TypeOK, KeptInv, [Next]_vars, ~halved' PROVE KeptInv'
  BY DEF KeptInv
<1>. USE DEF TypeOK, history, Holding, Left
<1>0. /\ ~halved
      /\ \A c \in Client : Holding(c) => Left \subseteq LinesOf(rest[c])
      /\ \/ Left \subseteq LinesOf(file)
         \/ file = << >> /\ \E c \in Client : pc[c] = "write"
  <2>1. halved => halved'
    BY DEF Next, Claims, Fails, Read, ReadNothing, ReadFails, Truncate, OpenFails, Write,
           WriteFails, Killed, Claim, Drop, DropUnresolved, vars
  <2>. QED BY <2>1 DEF KeptInv
<1>1. ASSUME NEW c \in Client, Read(c) PROVE KeptInv'
  <2> DEFINE i == FirstCandidate(file)
  <2>1. i \in DOMAIN file
    <3>1. Candidates(file) # {}
      BY <1>1 DEF Read
    <3>. QED BY <3>1, FirstCandidateIsOne DEF Candidates
  <2>2. Left \subseteq LinesOf(file)
    <3>1. file # << >>
      BY <2>1
    <3>. QED BY <3>1, <1>0
  <2>3. \A l \in LinesOf(file) : l # file[i] => l \in LinesOf(Without(file, i))
    BY <2>1, WithoutKeeps
  <2>4. /\ spec' = [spec EXCEPT ![c] = file[i]]
        /\ rest' = [rest EXCEPT ![c] = Without(file, i)]
        /\ pc' = [pc EXCEPT ![c] = "open"]
        /\ taken' = taken \cup {spec'[c]}
        /\ file' = file
    BY <1>1 DEF Read
  <2>. HIDE DEF i
  <2>5. Left' \subseteq Left /\ file[i] \notin Left'
    BY <2>4
  <2>6. Left' \subseteq LinesOf(rest[c])'
    <3>1. Left' \subseteq LinesOf(Without(file, i))
      BY <2>2, <2>3, <2>5
    <3>2. rest'[c] = Without(file, i)
      BY <2>4
    <3>. QED BY <3>1, <3>2
  <2>7. \A d \in Client : Holding(d)' => Left' \subseteq LinesOf(rest[d])'
    <3>. TAKE d \in Client
    <3>1. CASE d = c
      BY <3>1, <2>6
    <3>2. CASE d # c
      <4>1. pc'[d] = pc[d] /\ rest'[d] = rest[d]
        BY <3>2, <2>4
      <4>. QED BY <4>1, <1>0, <2>5
    <3>. QED BY <3>1, <3>2
  <2>8. Left' \subseteq LinesOf(file)'
    BY <2>2, <2>4, <2>5
  <2>. QED BY <2>7, <2>8 DEF KeptInv
<1>2. ASSUME NEW c \in Client, Truncate(c) PROVE KeptInv'
  BY <1>2, <1>0 DEF Truncate, Opened, KeptInv
<1>3. ASSUME NEW c \in Client, Write(c) PROVE KeptInv'
  <2>1. Left \subseteq LinesOf(rest[c])
    BY <1>3, <1>0 DEF Write
  <2>2. LinesOf(rest[c]) \subseteq LinesOf(Over(rest[c], file))
    BY OverKeeps
  <2>3. Left' = Left /\ file' = Over(rest[c], file)
    BY <1>3 DEF Write
  <2>4. Left' \subseteq LinesOf(file)'
    BY <2>1, <2>2, <2>3
  <2>5. \A d \in Client : Holding(d)' => Left' \subseteq LinesOf(rest[d])'
    BY <1>3, <1>0 DEF Write
  <2>. QED BY <2>4, <2>5 DEF KeptInv
<1>4. ASSUME NEW c \in Client, WriteFails(c) PROVE KeptInv'
  BY <1>4 DEF WriteFails
<1>5. ASSUME NEW c \in Client, Killed(c) PROVE KeptInv'
  BY <1>5, <1>0 DEF Killed, KeptInv
<1>6. ASSUME NEW c \in Client, \/ ReadNothing(c) \/ ReadFails(c) \/ OpenFails(c) \/ Claim(c)
                              \/ Drop(c) \/ DropUnresolved(c)
      PROVE KeptInv'
  <2>1. Left' = Left /\ file' = file /\ rest' = rest
    BY <1>6 DEF ReadNothing, ReadFails, OpenFails, Claim, Drop, DropUnresolved
  <2>2. pc[c] # "write" /\ pc'[c] \notin {"open", "write"}
    BY <1>6 DEF ReadNothing, ReadFails, OpenFails, Claim, Drop, DropUnresolved, AfterBadLine
  <2>3. \A d \in Client : d # c => pc'[d] = pc[d]
    BY <1>6 DEF ReadNothing, ReadFails, OpenFails, Claim, Drop, DropUnresolved
  <2>4. \A d \in Client : Holding(d)' => Holding(d)
    BY <2>2, <2>3
  <2>5. \A d \in Client : pc[d] = "write" => pc'[d] = "write"
    BY <2>2, <2>3
  <2>. QED BY <2>1, <2>4, <2>5, <1>0 DEF KeptInv
<1>7. CASE UNCHANGED vars
  BY <1>7, <1>0 DEF vars, KeptInv
<1>. QED BY <1>1, <1>2, <1>3, <1>4, <1>5, <1>6, <1>7 DEF Next, Claims, Fails

\* However any number of clients interleave their rewrites, a line nobody
\* picked stays in the file or in the hands of one about to write it.
THEOREM PoolLosesNothing == Spec => []NoLineLost
<1>1. Init => KeptInv
  BY PoolAssumption DEF Init, KeptInv, Holding, Left, LinesOf, Line
<1>2. KeptInv => NoLineLost
  BY DEF KeptInv, NoLineLost, Holding, Left
<1>. QED BY <1>1, <1>2, KeptStep, PoolTypeCorrect, PTL DEF Spec

-----------------------------------------------------------------------------
(* No proxy is shared.                                                       *)

LEMMA SpecStep == TypeOK /\ SpecInv /\ [Next]_vars => SpecInv'
<1> SUFFICES ASSUME TypeOK, SpecInv, [Next]_vars PROVE SpecInv'
  OBVIOUS
<1>. USE DEF TypeOK, SpecInv, history
<1>1. ASSUME NEW c \in Client, Read(c) PROVE SpecInv'
  <2>1. taken' = taken \cup {spec'[c]}
    BY <1>1 DEF Read
  <2>2. \A d \in Client : d # c => spec'[d] = spec[d] /\ pc'[d] = pc[d]
    BY <1>1 DEF Read
  <2>. QED BY <2>1, <2>2
<1>2. ASSUME NEW c \in Client, \/ ReadNothing(c) \/ ReadFails(c) \/ Truncate(c) \/ OpenFails(c)
                              \/ Write(c) \/ WriteFails(c) \/ Killed(c) \/ Claim(c) \/ Drop(c)
                              \/ DropUnresolved(c)
      PROVE SpecInv'
  <2>1. spec' = spec /\ taken' = taken
    BY <1>2 DEF ReadNothing, ReadFails, Truncate, OpenFails, Write, WriteFails, Killed, Claim, Drop,
                DropUnresolved
  <2>2. /\ \A d \in Client : d # c => pc'[d] = pc[d]
        /\ pc[c] \in {"open", "write", "parse"} \/ pc'[c] = "direct"
    BY <1>2 DEF ReadNothing, ReadFails, Truncate, OpenFails, Write, WriteFails, Killed, Claim, Drop,
                DropUnresolved, Holding
  <2>. QED BY <2>1, <2>2
<1>3. CASE UNCHANGED vars
  BY <1>3 DEF vars
<1>. QED BY <1>1, <1>2, <1>3 DEF Next, Claims, Fails

LEMMA AloneStep == TypeOK /\ SpecInv /\ AloneInv /\ [Next]_vars => AloneInv'
<1> SUFFICES ASSUME TypeOK, SpecInv, AloneInv, [Next]_vars, Alone'
             PROVE  (OneHolds /\ Distinct(file) /\ RestIsFresh /\ EmptyBetween /\ PickedIsOut /\ OneEach)'
  BY DEF AloneInv
<1>. USE DEF TypeOK, history
<1>0. OneHolds /\ Distinct(file) /\ RestIsFresh /\ EmptyBetween /\ PickedIsOut /\ OneEach
  <2>1. Alone
    BY DEF Alone, Next, Claims, Fails, Read, ReadNothing, ReadFails, Truncate, OpenFails, Write,
           WriteFails, Killed, Claim, Drop, DropUnresolved, vars
  <2>. QED BY <2>1 DEF AloneInv
<1>1. ASSUME NEW c \in Client, Read(c)
      PROVE  (OneHolds /\ Distinct(file) /\ RestIsFresh /\ EmptyBetween /\ PickedIsOut /\ OneEach)'
  <2> DEFINE i == FirstCandidate(file)
             w == Without(file, i)
  <2>1. i \in DOMAIN file
    <3>1. Candidates(file) # {}
      BY <1>1 DEF Read
    <3>. QED BY <3>1, FirstCandidateIsOne DEF Candidates
  <2>2. /\ LinesOf(w) \subseteq LinesOf(file)
        /\ file[i] \notin LinesOf(w)
        /\ Distinct(w)
    BY <2>1, <1>0, WithoutKeeps DEF Distinct
  <2>3. /\ spec' = [spec EXCEPT ![c] = file[i]]
        /\ rest' = [rest EXCEPT ![c] = w]
        /\ pc' = [pc EXCEPT ![c] = "open"]
        /\ taken' = taken \cup {spec'[c]}
        /\ file' = file
        /\ \A d \in Client \ {c} : ~Holding(d)
    BY <1>1 DEF Read, Alone
  <2>4. file[i] \in Line /\ file[i] \in LinesOf(file)
    BY <2>1 DEF LinesOf
  <2>. HIDE DEF i, w
  <2>5. spec'[c] = file[i] /\ rest'[c] = w /\ pc'[c] = "open"
        /\ \A d \in Client \ {c} : spec'[d] = spec[d] /\ rest'[d] = rest[d] /\ pc'[d] = pc[d]
    BY <2>3, <2>4
  <2>6. \A d \in Client : Holding(d)' => d = c
    BY <2>3, <2>5 DEF Holding
  <2>7. LinesOf(file) \cap taken = {}
    <3>1. \A d \in Client : pc[d] # "open"
      BY <2>3, <1>1 DEF Holding, Read
    <3>. QED BY <3>1, <1>0 DEF PickedIsOut
  <2>8. RestIsFresh'
    <3>1. LinesOf(w) \cap taken' = {}
      BY <2>2, <2>3, <2>5, <2>7
    <3>. QED BY <3>1, <2>2, <2>5, <2>6 DEF RestIsFresh
  <2>9. PickedIsOut'
    BY <2>3, <2>5, <2>7 DEF PickedIsOut
  <2>10. OneEach'
    <3>1. \A d \in Client : spec[d] # file[i]
      BY <2>4, <2>7, PoolAssumption DEF SpecInv
    <3>. QED BY <3>1, <2>5, <1>0 DEF OneEach
  <2>11. OneHolds' /\ EmptyBetween'
    BY <2>5, <2>6 DEF OneHolds, EmptyBetween, Holding
  <2>. QED BY <2>3, <2>8, <2>9, <2>10, <2>11, <1>0
<1>2. ASSUME NEW c \in Client, Truncate(c)
      PROVE  (OneHolds /\ Distinct(file) /\ RestIsFresh /\ EmptyBetween /\ PickedIsOut /\ OneEach)'
  <2>1. /\ file' = << >> /\ pc' = [pc EXCEPT ![c] = "write"] /\ pc[c] = "open"
        /\ rest' = rest /\ spec' = spec /\ taken' = taken
    BY <1>2 DEF Truncate, Opened
  <2>2. \A d \in Client : Holding(d)' => Holding(d)
    BY <2>1 DEF Holding
  <2>3. Distinct(file)' /\ PickedIsOut'
    BY <2>1 DEF Distinct, PickedIsOut, LinesOf
  <2>. QED BY <2>1, <2>2, <2>3, <1>0 DEF OneHolds, RestIsFresh, EmptyBetween, OneEach
<1>3. ASSUME NEW c \in Client, Write(c)
      PROVE  (OneHolds /\ Distinct(file) /\ RestIsFresh /\ EmptyBetween /\ PickedIsOut /\ OneEach)'
  <2>1. /\ pc[c] = "write" /\ pc' = [pc EXCEPT ![c] = "parse"] /\ file' = Over(rest[c], file)
        /\ rest' = rest /\ spec' = spec /\ taken' = taken
    BY <1>3 DEF Write
  <2>2. file' = rest[c]
    BY <2>1, <1>0, OverKeeps DEF EmptyBetween
  <2>3. \A d \in Client : ~Holding(d)'
    BY <2>1, <1>0 DEF Holding, OneHolds
  <2>4. Distinct(rest[c]) /\ LinesOf(rest[c]) \cap taken = {}
    BY <2>1, <1>0 DEF RestIsFresh, Holding
  <2>5. Distinct(file)' /\ PickedIsOut'
    BY <2>1, <2>2, <2>4 DEF Distinct, PickedIsOut
  <2>6. EmptyBetween'
    BY <2>3 DEF EmptyBetween, Holding
  <2>. QED BY <2>1, <2>3, <2>5, <2>6, <1>0 DEF OneHolds, RestIsFresh, OneEach
<1>4. ASSUME NEW c \in Client, ReadNothing(c) \/ Claim(c) \/ Drop(c) \/ DropUnresolved(c)
      PROVE  (OneHolds /\ Distinct(file) /\ RestIsFresh /\ EmptyBetween /\ PickedIsOut /\ OneEach)'
  <2>1. /\ file' = file /\ rest' = rest /\ spec' = spec /\ taken' = taken
        /\ \A d \in Client \ {c} : pc'[d] = pc[d]
        /\ pc[c] \in {"read", "parse"} /\ pc'[c] \in {"direct", "claimed", "read"}
    BY <1>4 DEF ReadNothing, Claim, Drop, DropUnresolved, AfterBadLine
  <2>2. \A d \in Client : /\ Holding(d)' = Holding(d)
                          /\ (pc'[d] = "open") = (pc[d] = "open")
                          /\ (pc'[d] = "write") = (pc[d] = "write")
    BY <2>1 DEF Holding
  <2>. QED BY <2>1, <2>2, <1>0 DEF OneHolds, Distinct, RestIsFresh, EmptyBetween, PickedIsOut, OneEach
<1>5. ASSUME NEW c \in Client, ReadFails(c) \/ OpenFails(c) \/ WriteFails(c) \/ Killed(c)
      PROVE  FALSE
  BY <1>5 DEF ReadFails, OpenFails, WriteFails, Killed, Alone
<1>6. CASE UNCHANGED vars
  BY <1>6, <1>0 DEF vars, Holding, OneHolds, Distinct, RestIsFresh, EmptyBetween, PickedIsOut, OneEach
<1>. QED BY <1>1, <1>2, <1>3, <1>4, <1>5, <1>6 DEF Next, Claims, Fails

\* Clients that follow one another, with no failed call, use each proxy once.
THEOREM PoolIsExclusive == Spec => []ClaimIsExclusive
<1>1. Init => SpecInv /\ AloneInv
  <2> SUFFICES ASSUME Init PROVE SpecInv /\ AloneInv
    OBVIOUS
  <2>1. SpecInv
    BY DEF Init, SpecInv
  <2>2. Distinct(file)
    BY PoolAssumption DEF Init, Distinct
  <2>3. OneHolds /\ RestIsFresh /\ EmptyBetween /\ PickedIsOut /\ OneEach
    BY DEF Init, OneHolds, RestIsFresh, EmptyBetween, PickedIsOut, OneEach, Holding
  <2>. QED BY <2>1, <2>2, <2>3 DEF AloneInv
<1>2. TypeOK /\ SpecInv /\ AloneInv => ClaimIsExclusive
  <2> SUFFICES ASSUME TypeOK, SpecInv, AloneInv, NEW c \in Client, pc[c] = "claimed", Alone
               PROVE  /\ spec[c] \notin LinesOf(file)
                      /\ \A d \in Client \ {c} : spec[d] # spec[c]
    BY DEF ClaimIsExclusive, Alone
  <2>1. spec[c] \in taken /\ spec[c] # NoLine
    BY PoolAssumption DEF SpecInv, TypeOK
  <2>2. \A d \in Client \ {c} : spec[d] # spec[c]
    BY <2>1 DEF AloneInv, OneEach
  <2>3. spec[c] \notin LinesOf(file)
    BY <2>1, <2>2 DEF AloneInv, PickedIsOut
  <2>. QED BY <2>2, <2>3
<1>. QED BY <1>1, <1>2, SpecStep, AloneStep, PoolTypeCorrect, PTL DEF Spec

-----------------------------------------------------------------------------
(* Nobody goes without a proxy while there is one.                           *)

\* A client that reads a pool without candidates, and overlaps nobody, reads all
\* the lines nobody picked: so all of them are comments.
LEMMA NothingReadMeansEmpty ==
  ASSUME TypeOK, KeptInv, NEW c \in Client, ReadNothing(c), ~overlapped', ~halved
  PROVE  Line \ Comments \subseteq taken
<1>1. pc[c] = "read" /\ Candidates(file) = {} /\ \A d \in Client \ {c} : ~Holding(d)
  BY DEF ReadNothing
<1>2. \A d \in Client : pc[d] # "write"
  BY <1>1 DEF Holding
<1>3. Left \subseteq LinesOf(file)
  BY <1>2 DEF KeptInv
<1>4. LinesOf(file) \subseteq Comments
  BY <1>1 DEF LinesOf, Candidates
<1>. QED BY <1>3, <1>4 DEF Left

LEMMA EmptyStep == TypeOK /\ KeptInv /\ EmptyInv /\ [Next]_vars => EmptyInv'
<1> SUFFICES ASSUME TypeOK, KeptInv, EmptyInv, [Next]_vars PROVE EmptyInv'
  OBVIOUS
<1>. USE DEF TypeOK, history, EmptyInv, DirectMeansEmpty
<1>1. ASSUME NEW c \in Client, Read(c) PROVE EmptyInv'
  <2>1. \A d \in Client : pc'[d] = "direct" => pc[d] = "direct"
    BY <1>1 DEF Read
  <2>2. /\ taken \subseteq taken' /\ (overlapped => overlapped')
        /\ failed' = failed /\ halved' = halved /\ removed' = removed
    BY <1>1 DEF Read
  <2>. QED BY <2>1, <2>2
<1>2. ASSUME NEW c \in Client, ReadNothing(c) PROVE EmptyInv'
  <2>1. /\ taken' = taken /\ failed' = failed /\ halved' = halved /\ removed' = removed
    BY <1>2 DEF ReadNothing
  <2>2. overlapped' \/ failed \/ Line \ Comments \subseteq taken
    BY <1>2, NothingReadMeansEmpty
  <2>. QED BY <2>1, <2>2
<1>3. ASSUME NEW c \in Client, Truncate(c) \/ Write(c) \/ Claim(c) PROVE EmptyInv'
  <2>1. \A d \in Client : pc'[d] = "direct" => pc[d] = "direct"
    BY <1>3 DEF Truncate, Write, Claim
  <2>2. /\ taken' = taken /\ overlapped' = overlapped /\ failed' = failed /\ halved' = halved
        /\ \A d \in Client : removed[d] => removed'[d]
    BY <1>3 DEF Truncate, Write, Claim
  <2>. QED BY <2>1, <2>2
<1>4. ASSUME NEW c \in Client, Drop(c) \/ DropUnresolved(c) PROVE EmptyInv'
  <2>1. ~failed => \A d \in Client : pc'[d] = "direct" => pc[d] = "direct"
    BY <1>4 DEF Drop, DropUnresolved, AfterBadLine
  <2>2. /\ taken' = taken /\ overlapped' = overlapped /\ failed' = failed /\ halved' = halved
        /\ removed' = removed
    BY <1>4 DEF Drop, DropUnresolved
  <2>. QED BY <2>1, <2>2
<1>5. ASSUME NEW c \in Client, ReadFails(c) \/ OpenFails(c) \/ WriteFails(c) \/ Killed(c)
      PROVE  EmptyInv'
  <2>1. failed'
    BY <1>5 DEF ReadFails, OpenFails, WriteFails, Killed
  <2>. QED BY <2>1
<1>6. CASE UNCHANGED vars
  BY <1>6 DEF vars
<1>. QED BY <1>1, <1>2, <1>3, <1>4, <1>5, <1>6 DEF Next, Claims, Fails

\* A client goes without a proxy only when every proxy has been picked, unless
\* it met another's rewrite or a call failed.
THEOREM DirectIsLastResort == Spec => []DirectMeansEmpty
<1>1. Init => KeptInv
  BY PoolAssumption DEF Init, KeptInv, Holding, Left, LinesOf, Line
<1>2. Init => EmptyInv
  BY DEF Init, EmptyInv, DirectMeansEmpty
<1>3. EmptyInv => DirectMeansEmpty
  BY DEF EmptyInv
<1>. QED BY <1>1, <1>2, <1>3, KeptStep, EmptyStep, PoolTypeCorrect, PTL DEF Spec

-----------------------------------------------------------------------------
(* The tunnel.                                                               *)

\* While an exit is probed it has addresses.
ExitInv ==
    stage \in {"stun", "await", "tcp", "whitelist", "query", "listen"} =>
        egress \in [udp : Address, tcp : Address]

\* Where the STUN replies are in the socket.
Replies == {k \in DOMAIN inbox : inbox[k] \in Address}

\* What the STUN replies on their way and the answers found say is true of the
\* exit in use.
TruthInv == /\ \A k \in Replies : inbox[k] = egress.udp
            /\ udpIp \in {Unknown, egress.udp}
            /\ tcpIp \in {Unknown, egress.tcp}

\* An exit past the comparison is not a confirmed split.
ComparedInv ==
    stage \in {"whitelist", "query", "listen", "connected"} => ~ConfirmedSplit(udpIp, tcpIp)

BlameInv == lastSplit => splitSeen

\* The game server answers only an exit its filter lets in.
AnswerInv == (answer \/ \E k \in DOMAIN inbox : inbox[k] = "game") => egress.udp \in admitted

\* Replies come for requests: the only one of a first request is on its way or
\* in the socket, and after it was read none is left.
OwedInv ==
    /\ tries = 0 => udpIp = Unknown /\ replies = 0 /\ Replies = {}
    /\ tries = 1 /\ udpIp = Unknown => \/ replies = 0 /\ \A j, k \in Replies : j = k
                                       \/ replies = 1 /\ Replies = {}
    /\ tries = 1 /\ udpIp # Unknown => replies = 0 /\ Replies = {}

\* A connection through a proxy has begun an attempt; a direct one has not, and
\* has asked nothing.
StageInv ==
    /\ stage \in {"idle", "direct"} => attempt = 0 /\ udpIp = Unknown
    /\ stage = "await" => tries > 0 /\ udpIp = Unknown
    /\ stage = "stun" => udpIp = Unknown

TunnelInv == /\ TunnelTypeOK /\ ExitInv
             /\ TruthInv /\ ComparedInv /\ BlameInv /\ AnswerInv /\ OwedInv /\ StageInv
             /\ ExitIsAdmitted

-----------------------------------------------------------------------------
(* Types.                                                                    *)

LEMMA NextAttemptTypes ==
  ASSUME attempt \in 0 .. attempts, attempts \in {0, 1, MaxRotations}, NextAttempt
  PROVE  /\ attempt' \in 0 .. attempts' /\ attempts' = attempts
         /\ stage' \in {"associate", "failed"}
         /\ attempt' = attempt \/ attempt' = attempt + 1
  BY TunnelAssumption DEF NextAttempt

\* The variables keep their types, and no attempt is begun beyond the allowed.
THEOREM TunnelTypeCorrect == TunnelSpec => [](TunnelTypeOK /\ ExitInv)
<1>1. TunnelInit => TunnelTypeOK /\ ExitInv
  <2> SUFFICES ASSUME TunnelInit PROVE TunnelTypeOK /\ ExitInv
    OBVIOUS
  <2>1. inbox \in Seq(Address \cup {"game", "other"})
    BY DEF TunnelInit
  <2>2. egress \in [udp : Address \cup {Unknown}, tcp : Address \cup {Unknown}]
    BY DEF TunnelInit
  <2>3. tries \in 0 .. StunTries /\ attempt \in 0 .. attempts /\ replies \in Nat
    BY TunnelAssumption DEF TunnelInit
  <2>4. attempts \in {0, 1, MaxRotations}
    BY DEF TunnelInit
  <2>5. lastSplit \in BOOLEAN /\ answer \in BOOLEAN /\ splitSeen \in BOOLEAN
    BY DEF TunnelInit
  <2>6. udpIp \in Address \cup {Unknown} /\ tcpIp \in Address \cup {Unknown} /\ admitted \subseteq Address
    BY DEF TunnelInit
  <2>7. stage = "idle"
    BY DEF TunnelInit
  <2>. QED BY <2>1, <2>2, <2>3, <2>4, <2>5, <2>6, <2>7 DEF TunnelTypeOK, ExitInv
<1>2. TunnelTypeOK /\ ExitInv /\ [TunnelNext]_tunnelVars => TunnelTypeOK' /\ ExitInv'
  <2> SUFFICES ASSUME TunnelTypeOK, ExitInv, [TunnelNext]_tunnelVars PROVE TunnelTypeOK' /\ ExitInv'
    OBVIOUS
  <2>. USE DEF probe, outside
  <2>a. StunTries \in Nat /\ tries \in 0 .. StunTries /\ replies \in Nat /\ answer \in BOOLEAN
    BY TunnelAssumption DEF TunnelTypeOK
  <2>b. inbox \in Seq(Address \cup {"game", "other"})
    BY DEF TunnelTypeOK
  <2>c. attempts \in {0, 1, MaxRotations} /\ attempt \in 0 .. attempts
    BY DEF TunnelTypeOK
  <2>1. ASSUME NEW rotatable \in BOOLEAN, StartProxied(rotatable) PROVE TunnelTypeOK' /\ ExitInv'
    BY <2>1, TunnelAssumption DEF StartProxied, Attempts, TunnelTypeOK, ExitInv
  <2>2. ASSUME StartDirect PROVE TunnelTypeOK' /\ ExitInv'
    BY <2>2 DEF StartDirect, TunnelTypeOK, ExitInv
  <2>3. ASSUME Associate PROVE TunnelTypeOK' /\ ExitInv'
    <3>1. egress' \in [udp : Address, tcp : Address]
      BY <2>3 DEF Associate
    <3>2. inbox' \in Seq(Address \cup {"game", "other"})
      <4>1. inbox' = << >>
        BY <2>3 DEF Associate, NewSocket
      <4>. QED BY <4>1
    <3>5. answer' \in BOOLEAN /\ replies' \in Nat
      BY <2>3 DEF Associate, NewSocket
    <3>3. /\ stage' = "stun" /\ tries' = 0 /\ udpIp' = Unknown /\ tcpIp' = Unknown
          /\ UNCHANGED <<attempt, attempts, lastSplit, admitted, splitSeen>>
      BY <2>3 DEF Associate, TunnelTypeOK, ExitInv
    <3>4. egress' \in [udp : Address \cup {Unknown}, tcp : Address \cup {Unknown}]
      BY <3>1 DEF TunnelTypeOK, ExitInv
    <3>. QED BY <3>1, <3>2, <3>3, <3>4, <3>5, <2>a DEF TunnelTypeOK, ExitInv
  <2>4. ASSUME AssociateRefused \/ Refuse PROVE TunnelTypeOK' /\ ExitInv'
    <3>1. NextAttempt /\ UNCHANGED <<probe, lastSplit, inbox, outside, splitSeen>>
      BY <2>4 DEF AssociateRefused, Refuse, TunnelTypeOK, ExitInv
    <3>. QED BY <3>1, NextAttemptTypes DEF TunnelTypeOK, ExitInv
  <2>5. ASSUME AskStun PROVE TunnelTypeOK' /\ ExitInv'
    <3>1. tries' \in 0 .. StunTries /\ replies' \in Nat /\ stage' = "await" /\ stage = "stun"
      BY <2>5, <2>a DEF AskStun
    <3>2. UNCHANGED <<attempt, attempts, udpIp, tcpIp, lastSplit, inbox, egress, answer, admitted,
                      splitSeen>>
      BY <2>5 DEF AskStun, TunnelTypeOK, ExitInv
    <3>. QED BY <3>1, <3>2 DEF TunnelTypeOK, ExitInv
  <2>6. ASSUME StunGivesUp \/ StunTimesOut \/ ConnectDirect PROVE TunnelTypeOK' /\ ExitInv'
    BY <2>6 DEF StunGivesUp, StunTimesOut, ConnectDirect, TunnelTypeOK, ExitInv
  <2>7. ASSUME StunReads PROVE TunnelTypeOK' /\ ExitInv'
    <3>1. inbox' \in Seq(Address \cup {"game", "other"})
      <4>1. inbox # << >> /\ inbox' = Tail(inbox)
        BY <2>7 DEF StunReads
      <4>. QED BY <4>1, <2>b
    <3>4. udpIp' \in Address \cup {Unknown}
      BY <2>7 DEF StunReads, TunnelTypeOK
    <3>2. stage' \in {"tcp", "stun"} /\ stage = "await"
      BY <2>7 DEF StunReads, TunnelTypeOK, ExitInv
    <3>3. UNCHANGED <<attempt, attempts, tcpIp, tries, lastSplit, outside, splitSeen>>
      BY <2>7 DEF StunReads
    <3>. QED BY <3>1, <3>2, <3>3, <3>4 DEF TunnelTypeOK, ExitInv
  <2>8. ASSUME AskTcp PROVE TunnelTypeOK' /\ ExitInv'
    <3>1. /\ tcpIp' \in Address \cup {Unknown} /\ splitSeen' \in BOOLEAN /\ lastSplit' \in BOOLEAN
          /\ stage = "tcp" /\ UNCHANGED <<udpIp, tries, inbox, outside>>
      BY <2>8 DEF AskTcp, TunnelTypeOK, ExitInv
    <3>2. /\ attempts' \in {0, 1, MaxRotations} /\ attempt' \in 0 .. attempts'
          /\ stage' \in {"associate", "failed", "whitelist"}
      BY <2>8, NextAttemptTypes DEF AskTcp, TunnelTypeOK, ExitInv
    <3>. QED BY <3>1, <3>2 DEF TunnelTypeOK, ExitInv
  <2>9. ASSUME Whitelist PROVE TunnelTypeOK' /\ ExitInv'
    <3>1. admitted' \subseteq Address /\ stage = "whitelist" /\ stage' = "query"
      BY <2>9 DEF Whitelist, TunnelTypeOK, ExitInv
    <3>2. UNCHANGED <<attempt, attempts, probe, lastSplit, inbox, egress, replies, answer, splitSeen>>
      BY <2>9 DEF Whitelist
    <3>. QED BY <3>1, <3>2 DEF TunnelTypeOK, ExitInv
  <2>10. ASSUME Query PROVE TunnelTypeOK' /\ ExitInv'
    BY <2>10 DEF Query, TunnelTypeOK, ExitInv
  <2>11. ASSUME Accept PROVE TunnelTypeOK' /\ ExitInv'
    BY <2>11 DEF Accept, Received, TunnelTypeOK, ExitInv
  <2>12. ASSUME Network PROVE TunnelTypeOK' /\ ExitInv'
    <3>1. /\ stage \in {"await", "tcp", "whitelist", "listen"} /\ egress.udp \in Address
          /\ UNCHANGED <<stage, attempt, attempts, probe, lastSplit, egress, admitted, splitSeen>>
      BY <2>12 DEF Network, TunnelTypeOK, ExitInv
    <3>2. inbox' \in Seq(Address \cup {"game", "other"})
      <4>1. CASE inbox' = Append(inbox, egress.udp)
        BY <4>1, <2>b, <3>1
      <4>2. CASE inbox' = Append(inbox, "game")
        BY <4>2, <2>b
      <4>3. CASE inbox' = << "other" >>
        BY <4>3
      <4>. QED BY <2>12, <4>1, <4>2, <4>3 DEF Network, EchoComes, AnswerComes, StrayComes
    <3>3. replies' \in Nat
      BY <2>12, <2>a DEF Network, EchoComes, AnswerComes, StrayComes
    <3>4. answer' \in BOOLEAN
      BY <2>12, <2>a, Zenon DEF Network, EchoComes, AnswerComes, StrayComes
    <3>. QED BY <3>1, <3>2, <3>3, <3>4 DEF TunnelTypeOK, ExitInv
  <2>13. CASE UNCHANGED tunnelVars
    BY <2>13 DEF tunnelVars, TunnelTypeOK, ExitInv
  <2>. QED BY <2>1, <2>2, <2>3, <2>4, <2>5, <2>6, <2>7, <2>8, <2>9, <2>10, <2>11, <2>12, <2>13
           DEF TunnelNext, ProxyAnswers, OwnStep
<1>. QED BY <1>1, <1>2, PTL DEF TunnelSpec

-----------------------------------------------------------------------------
(* The socket's queue.                                                       *)

LEMMA TailShifts ==
  ASSUME NEW S, NEW s \in Seq(S), s # << >>
  PROVE  /\ s[1] \in S /\ Head(s) = s[1]
         /\ 1 \in DOMAIN s
         /\ \A k \in DOMAIN Tail(s) : k + 1 \in DOMAIN s /\ Tail(s)[k] = s[k + 1] /\ k + 1 # 1
  OBVIOUS

LEMMA AppendAdds ==
  ASSUME NEW S, NEW s \in Seq(S), NEW x
  PROVE  /\ Len(s) + 1 \notin DOMAIN s
         /\ DOMAIN Append(s, x) = DOMAIN s \cup {Len(s) + 1}
         /\ Append(s, x)[Len(s) + 1] = x
         /\ \A k \in DOMAIN s : Append(s, x)[k] = s[k]
  OBVIOUS

\* Reading takes one datagram out and adds none.
LEMMA ReadingShifts ==
  ASSUME TunnelTypeOK, inbox # << >>, inbox' = Tail(inbox)
  PROVE  /\ inbox[1] \in Address \cup {"game", "other"} /\ Head(inbox) = inbox[1]
         /\ 1 \in DOMAIN inbox
         /\ \A k \in DOMAIN inbox' : k + 1 \in DOMAIN inbox /\ inbox'[k] = inbox[k + 1] /\ k + 1 # 1
         /\ \A k \in Replies' : k + 1 \in Replies /\ k + 1 # 1
<1>1. inbox \in Seq(Address \cup {"game", "other"})
  BY DEF TunnelTypeOK
<1>2. /\ inbox[1] \in Address \cup {"game", "other"} /\ Head(inbox) = inbox[1]
      /\ 1 \in DOMAIN inbox
      /\ \A k \in DOMAIN inbox' : k + 1 \in DOMAIN inbox /\ inbox'[k] = inbox[k + 1] /\ k + 1 # 1
  BY <1>1, TailShifts
<1>. QED BY <1>2 DEF Replies

\* What a datagram that comes in does to the replies in the socket.
LEMMA ComingAdds ==
  ASSUME TunnelTypeOK, ExitInv, Network
  PROVE  /\ EchoComes => /\ Replies' = Replies \cup {Len(inbox) + 1}
                         /\ inbox'[Len(inbox) + 1] = egress.udp
                         /\ Len(inbox) + 1 \notin DOMAIN inbox
         /\ EchoComes \/ AnswerComes => \A k \in DOMAIN inbox : inbox'[k] = inbox[k]
         /\ AnswerComes => Replies' = Replies
         /\ EchoComes => DOMAIN inbox' = DOMAIN inbox \cup {Len(inbox) + 1}
         /\ StrayComes => Replies' = {} /\ \A k \in DOMAIN inbox' : inbox'[k] = "other"
         /\ egress.udp \in Address /\ egress.udp # "game"
<1>1. inbox \in Seq(Address \cup {"game", "other"})
  BY DEF TunnelTypeOK
<1>2. egress.udp \in Address /\ egress.udp # "game"
  BY TunnelAssumption DEF Network, ExitInv
<1>3. ASSUME EchoComes
      PROVE  /\ Replies' = Replies \cup {Len(inbox) + 1} /\ inbox'[Len(inbox) + 1] = egress.udp
             /\ Len(inbox) + 1 \notin DOMAIN inbox
             /\ DOMAIN inbox' = DOMAIN inbox \cup {Len(inbox) + 1}
             /\ \A k \in DOMAIN inbox : inbox'[k] = inbox[k]
  BY <1>1, <1>2, <1>3, AppendAdds DEF EchoComes, Replies
<1>4. ASSUME AnswerComes
      PROVE  Replies' = Replies /\ \A k \in DOMAIN inbox : inbox'[k] = inbox[k]
  <2>1. inbox' = Append(inbox, "game") /\ "game" \notin Address
    BY <1>4, TunnelAssumption DEF AnswerComes
  <2>. QED BY <1>1, <2>1, AppendAdds DEF Replies
<1>5. ASSUME StrayComes
      PROVE  Replies' = {} /\ \A k \in DOMAIN inbox' : inbox'[k] = "other"
  <2>1. inbox' = << "other" >> /\ "other" \notin Address
    BY <1>5, TunnelAssumption DEF StrayComes
  <2>2. \A k \in DOMAIN inbox' : inbox'[k] = "other"
    BY <2>1
  <2>. QED BY <2>1, <2>2 DEF Replies
<1>. QED BY <1>2, <1>3, <1>4, <1>5

-----------------------------------------------------------------------------
(* The invariant: one lemma for each part, with the steps that disturb it.   *)

\* What is not one of the steps that move a datagram or learn an address.
Quiet == UNCHANGED <<inbox, egress, udpIp, tcpIp>>

LEMMA QuietSteps ==
  ASSUME TunnelNext, ~Associate, ~StunReads, ~AskTcp, ~Accept, ~Network
  PROVE  Quiet
BY DEF TunnelNext, ProxyAnswers, OwnStep, StartProxied, StartDirect, AssociateRefused, AskStun,
       StunGivesUp, StunTimesOut, Whitelist, ConnectDirect, Query, Refuse, Quiet, probe, outside

LEMMA TruthKept == ASSUME TunnelInv, TunnelNext PROVE TruthInv'
<1>. USE DEF TunnelInv, probe, outside
<1>1. CASE Associate
  BY <1>1 DEF Associate, NewSocket, TruthInv, Replies
<1>2. CASE StunReads
  <2>1. \A k \in Replies' : k + 1 \in Replies /\ inbox'[k] = inbox[k + 1]
    BY <1>2, ReadingShifts DEF StunReads, Replies
  <2>2. egress' = egress /\ tcpIp' = tcpIp
    BY <1>2 DEF StunReads
  <2>3. udpIp' \in {Unknown, egress.udp}
    BY <1>2, ReadingShifts DEF StunReads, TruthInv, Replies
  <2>. QED BY <2>1, <2>2, <2>3 DEF TruthInv
<1>3. CASE AskTcp
  BY <1>3 DEF AskTcp, TruthInv, Replies
<1>4. CASE Accept
  <2>1. \A k \in Replies' : k + 1 \in Replies /\ inbox'[k] = inbox[k + 1]
    BY <1>4, ReadingShifts DEF Accept, Received, Replies
  <2>. QED BY <1>4, <2>1 DEF Accept, TruthInv
<1>5. CASE Network
  <2>1. UNCHANGED <<egress, udpIp, tcpIp>>
    BY <1>5 DEF Network
  <2>2. \A k \in Replies' : inbox'[k] = egress.udp
    BY <1>5, ComingAdds DEF Network, TruthInv, Replies
  <2>. QED BY <2>1, <2>2 DEF TruthInv
<1>6. CASE Quiet
  BY <1>6 DEF Quiet, TruthInv, Replies
<1>. QED BY <1>1, <1>2, <1>3, <1>4, <1>5, <1>6, QuietSteps

LEMMA ComparedKept == ASSUME TunnelInv, TunnelNext PROVE ComparedInv'
<1>. USE DEF TunnelInv, probe, outside, ComparedInv, ConfirmedSplit
<1>1. CASE \E rotatable \in BOOLEAN : StartProxied(rotatable)
  BY <1>1 DEF StartProxied
<1>2. CASE StartDirect \/ ConnectDirect
  BY <1>2 DEF StartDirect, ConnectDirect, StageInv
<1>3. CASE Associate \/ AskStun \/ StunReads \/ StunGivesUp \/ StunTimesOut
  BY <1>3 DEF Associate, AskStun, StunReads, StunGivesUp, StunTimesOut
<1>4. CASE AssociateRefused \/ Refuse
  BY <1>4 DEF AssociateRefused, Refuse, NextAttempt
<1>5. CASE AskTcp
  BY <1>5 DEF AskTcp, NextAttempt
<1>6. CASE Whitelist \/ Query \/ Accept \/ Network
  BY <1>6 DEF Whitelist, Query, Accept, Network
<1>. QED BY <1>1, <1>2, <1>3, <1>4, <1>5, <1>6 DEF TunnelNext, ProxyAnswers, OwnStep

LEMMA BlameKept == ASSUME TunnelInv, TunnelNext PROVE BlameInv'
<1>. USE DEF TunnelInv, BlameInv
<1>1. CASE AskTcp
  BY <1>1 DEF AskTcp, TruthInv, ConfirmedSplit
<1>2. CASE ~AskTcp
  <2>1. UNCHANGED <<lastSplit, splitSeen>>
    BY <1>2 DEF TunnelNext, ProxyAnswers, OwnStep, StartProxied, StartDirect, Associate,
         AssociateRefused, AskStun, StunGivesUp, StunReads, StunTimesOut, Whitelist, ConnectDirect,
         Query, Accept, Refuse, Network
  <2>. QED BY <2>1
<1>. QED BY <1>1, <1>2

LEMMA AnswerKept == ASSUME TunnelInv, TunnelNext PROVE AnswerInv'
<1>. USE DEF TunnelInv, probe, outside
<1>1. CASE Associate
  BY <1>1 DEF Associate, NewSocket, AnswerInv
<1>2. CASE StunReads \/ Accept
  <2>1. \A k \in DOMAIN inbox' : k + 1 \in DOMAIN inbox /\ inbox'[k] = inbox[k + 1]
    BY <1>2, ReadingShifts DEF StunReads, Accept, Received
  <2>2. UNCHANGED <<egress, answer, admitted>>
    BY <1>2 DEF StunReads, Accept
  <2>. QED BY <2>1, <2>2 DEF AnswerInv
<1>3. CASE Query
  <2>1. answer' = (egress.udp \in admitted) /\ UNCHANGED <<inbox, egress, admitted>>
    BY <1>3 DEF Query
  <2>. QED BY <2>1 DEF AnswerInv
<1>4. CASE Whitelist
  <2>1. admitted \subseteq admitted' /\ UNCHANGED <<inbox, egress, answer>>
    BY <1>4 DEF Whitelist
  <2>. QED BY <2>1 DEF AnswerInv
<1>5. CASE Network
  <2>1. UNCHANGED <<egress, admitted>>
    BY <1>5 DEF Network
  <2>2. CASE EchoComes
    <3>1. \A k \in DOMAIN inbox' : inbox'[k] = "game" => k \in DOMAIN inbox /\ inbox[k] = "game"
      BY <1>5, <2>2, ComingAdds
    <3>. QED BY <2>1, <2>2, <3>1 DEF EchoComes, AnswerInv
  <2>3. CASE AnswerComes
    <3>1. egress.udp \in admitted
      BY <2>3 DEF AnswerComes, AnswerInv
    <3>. QED BY <2>1, <3>1 DEF AnswerInv
  <2>4. CASE StrayComes
    <3>1. \A k \in DOMAIN inbox' : inbox'[k] = "other"
      BY <1>5, <2>4, ComingAdds
    <3>2. answer' = answer
      BY <2>4 DEF StrayComes
    <3>. QED BY <2>1, <3>1, <3>2 DEF AnswerInv
  <2>. QED BY <1>5, <2>2, <2>3, <2>4 DEF Network
<1>6. CASE ~Associate /\ ~StunReads /\ ~Accept /\ ~Query /\ ~Whitelist /\ ~Network
  <2>1. UNCHANGED <<inbox, egress, answer, admitted>>
    BY <1>6 DEF TunnelNext, ProxyAnswers, OwnStep, StartProxied, StartDirect, AssociateRefused,
         AskStun, StunGivesUp, StunTimesOut, AskTcp, ConnectDirect, Refuse
  <2>. QED BY <2>1 DEF AnswerInv
<1>. QED BY <1>1, <1>2, <1>3, <1>4, <1>5, <1>6

LEMMA OwedKept == ASSUME TunnelInv, TunnelNext PROVE OwedInv'
<1>. USE DEF TunnelInv, probe, outside
<1>0. tries \in Nat /\ replies \in Nat
  BY TunnelAssumption DEF TunnelTypeOK
<1>1. CASE Associate
  BY <1>1 DEF Associate, NewSocket, OwedInv, Replies
<1>2. CASE AskStun
  <2>1. tries' = tries + 1 /\ replies' = replies + 1 /\ udpIp' = udpIp /\ udpIp = Unknown
    BY <1>2 DEF AskStun, StageInv
  <2>2. Replies' = Replies
    BY <1>2 DEF AskStun, Replies
  <2>3. CASE tries = 0
    BY <1>0, <2>1, <2>2, <2>3 DEF OwedInv
  <2>4. CASE tries # 0
    BY <1>0, <2>1, <2>2, <2>4 DEF OwedInv
  <2>. QED BY <2>3, <2>4
<1>3. CASE StunReads
  <2>1. tries > 0 /\ udpIp = Unknown /\ UNCHANGED <<tries, replies>>
    BY <1>3 DEF StunReads, StageInv
  <2>2. \A k \in Replies' : k + 1 \in Replies /\ k + 1 # 1
    BY <1>3, ReadingShifts DEF StunReads
  <2>3. udpIp' # Unknown => 1 \in Replies
    BY <1>3, <2>1, ReadingShifts DEF StunReads, Replies
  <2>4. ASSUME tries = 1, 1 \in Replies PROVE replies = 0 /\ Replies' = {}
    BY <2>1, <2>2, <2>4 DEF OwedInv
  <2>5. ASSUME tries = 1, udpIp' = Unknown
        PROVE  \/ replies' = 0 /\ \A j, k \in Replies' : j = k
               \/ replies' = 1 /\ Replies' = {}
    <3>1. \A k \in Replies' : k \in Int
      BY SMTT(30) DEF Replies, TunnelTypeOK
    <3>. QED BY <2>1, <2>2, <2>5, <3>1 DEF OwedInv
  <2>. QED BY <1>0, <2>1, <2>3, <2>4, <2>5 DEF OwedInv
<1>4. CASE Accept
  <2>1. UNCHANGED <<tries, replies, udpIp>>
    BY <1>4 DEF Accept
  <2>2. \A k \in Replies' : k + 1 \in Replies
    BY <1>4, ReadingShifts DEF Accept, Received
  <2>3. \A k \in Replies' : k \in Int
    BY <1>4 DEF Accept, Received, Replies, TunnelTypeOK
  <2>. QED BY <2>1, <2>2, <2>3 DEF OwedInv
<1>5. CASE Network
  <2>1. UNCHANGED <<tries, udpIp>>
    BY <1>5 DEF Network
  <2>2. CASE EchoComes
    <3>1. replies > 0 /\ replies' = replies - 1
      BY <2>2 DEF EchoComes
    <3>2. Replies' = Replies \cup {Len(inbox) + 1}
      BY <1>5, <2>2, ComingAdds
    <3>3. tries # 0 /\ ~(tries = 1 /\ udpIp # Unknown)
      BY <3>1 DEF OwedInv
    <3>4. ASSUME tries = 1, udpIp = Unknown PROVE replies' = 0 /\ \A j, k \in Replies' : j = k
      BY <3>1, <3>2, <3>4 DEF OwedInv
    <3>. QED BY <2>1, <3>3, <3>4 DEF OwedInv
  <2>3. CASE AnswerComes
    <3>1. Replies' = Replies /\ replies' = replies
      BY <1>5, <2>3, ComingAdds DEF AnswerComes
    <3>. QED BY <2>1, <3>1 DEF OwedInv
  <2>4. CASE StrayComes
    <3>1. Replies' = {} /\ replies' = replies
      BY <1>5, <2>4, ComingAdds DEF StrayComes
    <3>. QED BY <2>1, <3>1 DEF OwedInv
  <2>. QED BY <1>5, <2>2, <2>3, <2>4 DEF Network
<1>6. CASE ~Associate /\ ~AskStun /\ ~StunReads /\ ~Accept /\ ~Network
  <2>1. UNCHANGED <<inbox, tries, replies, udpIp>>
    BY <1>6 DEF TunnelNext, ProxyAnswers, OwnStep, StartProxied, StartDirect, AssociateRefused,
         StunGivesUp, StunTimesOut, AskTcp, Whitelist, ConnectDirect, Query, Refuse
  <2>. QED BY <2>1 DEF OwedInv, Replies
<1>. QED BY <1>1, <1>2, <1>3, <1>4, <1>5, <1>6

LEMMA StageKept == ASSUME TunnelInv, TunnelNext PROVE StageInv'
<1>. USE DEF TunnelInv, probe, outside, StageInv
<1>0. tries \in Nat
  BY TunnelAssumption DEF TunnelTypeOK
<1>1. CASE \E rotatable \in BOOLEAN : StartProxied(rotatable)
  BY <1>1 DEF StartProxied
<1>2. CASE StartDirect \/ ConnectDirect
  BY <1>2 DEF StartDirect, ConnectDirect
<1>3. CASE Associate \/ StunReads \/ StunGivesUp \/ StunTimesOut
  BY <1>3 DEF Associate, StunReads, StunGivesUp, StunTimesOut
<1>4. CASE AskStun
  BY <1>0, <1>4 DEF AskStun
<1>5. CASE AssociateRefused \/ Refuse \/ AskTcp
  BY <1>5 DEF AssociateRefused, Refuse, AskTcp, NextAttempt
<1>6. CASE Whitelist \/ Query \/ Accept \/ Network
  BY <1>6 DEF Whitelist, Query, Accept, Network
<1>. QED BY <1>1, <1>2, <1>3, <1>4, <1>5, <1>6 DEF TunnelNext, ProxyAnswers, OwnStep

LEMMA AdmittedKept == ASSUME TunnelInv, TunnelNext PROVE ExitIsAdmitted'
<1>. USE DEF TunnelInv, probe, outside, ExitIsAdmitted
<1>1. CASE Accept
  <2>1. UNCHANGED <<egress, admitted, tries, udpIp>>
    BY <1>1 DEF Accept
  <2>2. inbox[1] # "other" /\ inbox[1] \in Address \cup {"game", "other"} /\ 1 \in DOMAIN inbox
    BY <1>1, ReadingShifts DEF Accept, Received, FromRelay
  <2>3. CASE inbox[1] = "game"
    BY <2>1, <2>2, <2>3 DEF AnswerInv
  <2>4. CASE inbox[1] \in Address
    <3>1. 1 \in Replies
      BY <2>2, <2>4 DEF Replies
    <3>2. tries \in Nat
      BY TunnelAssumption DEF TunnelTypeOK
    <3>3. StunOwed
      BY <3>1, <3>2 DEF StunOwed, OwedInv
    <3>. QED BY <2>1, <3>3 DEF StunOwed
  <2>. QED BY <2>2, <2>3, <2>4
<1>2. CASE ConnectDirect
  BY <1>2 DEF ConnectDirect, StageInv
<1>3. CASE ~Accept /\ ~ConnectDirect
  <2>1. stage' # "connected"
    BY <1>3 DEF TunnelNext, ProxyAnswers, OwnStep, StartProxied, StartDirect, Associate,
         AssociateRefused, AskStun, StunGivesUp, StunReads, StunTimesOut, AskTcp, Whitelist, Query,
         Refuse, Network, NextAttempt
  <2>. QED BY <2>1
<1>. QED BY <1>1, <1>2, <1>3

-----------------------------------------------------------------------------
(* Theorems.                                                                 *)

LEMMA StutterKept ==
  ASSUME TunnelInv, UNCHANGED tunnelVars
  PROVE  /\ TruthInv' /\ ComparedInv' /\ BlameInv' /\ AnswerInv' /\ OwedInv' /\ StageInv'
         /\ ExitIsAdmitted'
<1>. USE DEF TunnelInv, tunnelVars, probe, outside
<1>1. TruthInv' /\ ComparedInv' /\ BlameInv' /\ AnswerInv'
  BY DEF TruthInv, ComparedInv, BlameInv, AnswerInv, Replies, ConfirmedSplit
<1>2. OwedInv' /\ StageInv' /\ ExitIsAdmitted'
  BY DEF OwedInv, StageInv, ExitIsAdmitted, Replies, StunOwed
<1>. QED BY <1>1, <1>2

\* The inductive invariant of a connection's way to its socket.
THEOREM TunnelInvariant == TunnelSpec => []TunnelInv
<1>1. TunnelInit /\ TunnelTypeOK /\ ExitInv => TunnelInv
  <2> SUFFICES ASSUME TunnelInit, TunnelTypeOK, ExitInv PROVE TunnelInv
    OBVIOUS
  <2>1. Replies = {} /\ inbox = << >>
    BY DEF TunnelInit, Replies
  <2>2. TruthInv /\ ComparedInv /\ BlameInv /\ StageInv
    BY <2>1 DEF TunnelInit, TruthInv, ComparedInv, BlameInv, StageInv, ConfirmedSplit
  <2>3. AnswerInv /\ OwedInv /\ ExitIsAdmitted
    BY <2>1 DEF TunnelInit, AnswerInv, OwedInv, ExitIsAdmitted
  <2>. QED BY <2>2, <2>3 DEF TunnelInv
<1>2. TunnelInv /\ (TunnelTypeOK /\ ExitInv)' /\ [TunnelNext]_tunnelVars => TunnelInv'
  <2> SUFFICES ASSUME TunnelInv, TunnelTypeOK', ExitInv', [TunnelNext]_tunnelVars PROVE TunnelInv'
    OBVIOUS
  <2>1. CASE TunnelNext
    <3>. HIDE DEF TunnelInv
    <3>1. TruthInv' /\ ComparedInv' /\ BlameInv' /\ AnswerInv' /\ OwedInv' /\ StageInv'
      BY <2>1, TruthKept, ComparedKept, BlameKept, AnswerKept, OwedKept, StageKept
    <3>2. ExitIsAdmitted'
      BY <2>1, AdmittedKept
    <3>. QED BY <3>1, <3>2 DEF TunnelInv
  <2>2. CASE UNCHANGED tunnelVars
    BY <2>2, StutterKept DEF TunnelInv
  <2>. QED BY <2>1, <2>2
<1>. QED BY <1>1, <1>2, TunnelTypeCorrect, PTL DEF TunnelSpec

\* An exit in use is one the game server's filter let in, or a STUN reply of
\* this attempt was never read: the query of probe_exit decides otherwise.
THEOREM TunnelExitAdmitted == TunnelSpec => []ExitIsAdmitted
<1>1. TunnelInv => ExitIsAdmitted
  BY DEF TunnelInv
<1>. QED BY <1>1, TunnelInvariant, PTL

\* An exit whose addresses are known to differ is not used (probe_exit).
THEOREM TunnelSplitRefused == TunnelSpec => []SplitNeverConnects
<1>1. TunnelInv => SplitNeverConnects
  BY DEF TunnelInv, TruthInv, ComparedInv, ConfirmedSplit, SplitNeverConnects
<1>. QED BY <1>1, TunnelInvariant, PTL

\* The error of establish_proxied blames a split only if some exit had one.
THEOREM TunnelBlamesJustly == TunnelSpec => []BlameIsJust
<1>1. TunnelInv => BlameIsJust
  BY DEF TunnelInv, BlameInv, BlameIsJust, NamesSplit
<1>. QED BY <1>1, TunnelInvariant, PTL

-----------------------------------------------------------------------------
(* The launch.                                                               *)

\* Seen from proxy.txt, a launch is a run of the pool alone.
THEOREM LaunchUsesPool == LaunchSpec => Spec
<1>1. LaunchInit => Init
  BY DEF LaunchInit
<1>2. [LaunchNext]_launchVars => [Next]_vars
  BY DEF LaunchNext, launchVars, PoolStep, Begin, Connecting, NetworkStep
<1>. QED BY <1>1, <1>2, PTL DEF LaunchSpec, Spec

\* Seen from its socket, it is a run of the connection alone.
THEOREM LaunchUsesTunnel == LaunchSpec => TunnelSpec
<1>1. LaunchInit => TunnelInit
  BY DEF LaunchInit
<1>2. [LaunchNext]_launchVars => [TunnelNext]_tunnelVars
  <2>1. \A line : Rotates(line) \in BOOLEAN
    BY DEF Rotates
  <2>. QED BY <2>1 DEF LaunchNext, launchVars, PoolStep, Begin, Connecting, NetworkStep, TunnelNext
<1>. QED BY <1>1, <1>2, PTL DEF LaunchSpec, TunnelSpec

\* The types of both parts.
THEOREM LaunchTypeCorrect == LaunchSpec => []LaunchTypeOK
<1>1. TypeOK /\ TunnelTypeOK => LaunchTypeOK
  BY DEF LaunchTypeOK
<1>. QED BY <1>1, LaunchUsesPool, LaunchUsesTunnel, PoolTypeCorrect, TunnelTypeCorrect, PTL

\* Whatever the clients do to the pool and the network to the connection: no
\* line that nobody picked is lost, a proxy is shared or forgone only by clients
\* that overlap or whose calls fail, an exit in use was let in by the server's
\* filter unless a STUN reply was owed, and a known split is never used.
THEOREM LaunchIsSafe ==
  LaunchSpec => [](/\ NoLineLost /\ ClaimIsExclusive /\ DirectMeansEmpty
                  /\ ExitIsAdmitted /\ SplitNeverConnects /\ BlameIsJust)
BY LaunchUsesPool, LaunchUsesTunnel, PoolLosesNothing, PoolIsExclusive, DirectIsLastResort,
   TunnelExitAdmitted, TunnelSplitRefused, TunnelBlamesJustly, PTL
=============================================================================
