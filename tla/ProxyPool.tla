------------------------------ MODULE ProxyPool ------------------------------
(***************************************************************************)
(* proxy.txt, the pool of proxies that clients started beside each other    *)
(* take their exits from (claim_proxy_from_file in crates/app/src/main.rs). *)
(* Nothing locks the file: a client reads it, and later truncates and       *)
(* writes it back, as two steps of the operating system (std::fs::write).   *)
(*                                                                          *)
(*    file     the lines of proxy.txt                                       *)
(*    writable whether this user may write it                               *)
(*    pc       where each client is in claim_proxy_from_file                *)
(*    spec     the line the client has in hand, NoLine before it has one    *)
(*    rest     the lines it will write back                                 *)
(*    removed  whether the rewrite worked                                   *)
(*                                                                          *)
(* History: taken is every line some client has picked, overlapped whether  *)
(* one client read while another was between its read and the end of its    *)
(* rewrite, failed whether a rewrite or a read ever failed, halved whether  *)
(* one failed after the file had been truncated.                            *)
(*                                                                          *)
(* Every line of the file is an occurrence of its own, and the lines are of *)
(* one length, so that writing over a longer text leaves whole lines of it. *)
(* Clients given --proxy never touch the file and are not modelled.         *)
(***************************************************************************)
EXTENDS Integers, Sequences

CONSTANTS Client,    \* the client processes
          Initial,   \* the lines of the file at first
          Comments,  \* those that are blank or start with '#'
          Malformed, \* those parse_proxy refuses whatever the resolver says
          MaxFaults  \* bound: reads, rewrites and look-ups that fail

Line == {Initial[i] : i \in DOMAIN Initial}
NoLine == "none"

ASSUME PoolAssumption ==
    /\ Initial \in Seq(Line)
    /\ \A i, j \in DOMAIN Initial : Initial[i] = Initial[j] => i = j
    /\ NoLine \notin Line
    /\ MaxFaults \in Nat

VARIABLES file, writable, pc, spec, rest, removed, taken, overlapped, failed, halved, faults

vars == <<file, writable, pc, spec, rest, removed, taken, overlapped, failed, halved, faults>>
history == <<taken, overlapped, failed, halved, faults>>

LinesOf(s) == {s[i] : i \in DOMAIN s}

\* Mutant: only the first line is looked at.
FirstIfAny(s) == {i \in DOMAIN s : i = 1 /\ s[i] \notin Comments}

\* The lines claim_proxy_from_file may pick, and the first of them.
Candidates(s) == {i \in DOMAIN s : s[i] \notin Comments}

FirstCandidate(s) == CHOOSE i \in Candidates(s) : \A j \in Candidates(s) : i <= j

\* Mutant: the lines before it go too.
AllAfter(s, i) == [k \in 1 .. Len(s) - i |-> s[k + i]]

\* `kept`: the lines without the one at i.
Without(s, i) == [k \in 1 .. Len(s) - 1 |-> IF k < i THEN s[k] ELSE s[k + 1]]

\* A write from the start of the file: what it does not reach stays.
Over(new, old) == [k \in 1 .. IF Len(new) > Len(old) THEN Len(new) ELSE Len(old) |->
                     IF k <= Len(new) THEN new[k] ELSE old[k]]

Holding(c) == pc[c] \in {"open", "write"}
Decided(c) == pc[c] \in {"claimed", "direct", "killed"}

MayFail == faults < MaxFaults
Fault == MayFail /\ faults' = faults + 1

Init == /\ file = Initial
        /\ writable \in BOOLEAN
        /\ pc = [c \in Client |-> "read"]
        /\ spec = [c \in Client |-> NoLine]
        /\ rest = [c \in Client |-> << >>]
        /\ removed = [c \in Client |-> TRUE]
        /\ taken = {}
        /\ overlapped = FALSE /\ failed = FALSE /\ halved = FALSE
        /\ faults = 0

-----------------------------------------------------------------------------
(* The steps of one client.                                                  *)

\* read_to_string, and the first line that is neither blank nor a comment.
Read(c) ==
    /\ pc[c] = "read"
    /\ Candidates(file) # {}
    /\ spec' = [spec EXCEPT ![c] = file[FirstCandidate(file)]]
    /\ rest' = [rest EXCEPT ![c] = Without(file, FirstCandidate(file))]
    /\ pc' = [pc EXCEPT ![c] = "open"]
    /\ taken' = taken \cup {spec'[c]}
    /\ overlapped' = (overlapped \/ \E d \in Client \ {c} : Holding(d))
    /\ UNCHANGED <<file, writable, removed, failed, halved, faults>>

\* No candidate: `?` on position returns None, and the connection is direct.
ReadNothing(c) ==
    /\ pc[c] = "read"
    /\ Candidates(file) = {}
    /\ pc' = [pc EXCEPT ![c] = "direct"]
    /\ overlapped' = (overlapped \/ \E d \in Client \ {c} : Holding(d))
    /\ UNCHANGED <<file, writable, spec, rest, removed, taken, failed, halved, faults>>

\* The file cannot be read: `.ok()?` returns None too.
ReadFails(c) ==
    /\ pc[c] = "read"
    /\ Fault
    /\ pc' = [pc EXCEPT ![c] = "direct"]
    /\ failed' = TRUE
    /\ UNCHANGED <<file, writable, spec, rest, removed, taken, overlapped, halved>>

\* Mutant: the file is opened without truncation.
OpenedAsIs == file

\* What is in the file once fs::write has opened it.
Opened == << >>

\* fs::write opens the file, which truncates it ...
Truncate(c) ==
    /\ pc[c] = "open" /\ writable
    /\ file' = Opened
    /\ pc' = [pc EXCEPT ![c] = "write"]
    /\ UNCHANGED <<writable, spec, rest, removed, history>>

\* ... or cannot open it and leaves it as it is ...
OpenFails(c) ==
    /\ pc[c] = "open"
    /\ IF writable THEN Fault ELSE UNCHANGED faults
    /\ pc' = [pc EXCEPT ![c] = "parse"]
    /\ removed' = [removed EXCEPT ![c] = FALSE]
    /\ failed' = TRUE
    /\ UNCHANGED <<file, writable, spec, rest, taken, overlapped, halved>>

\* ... and writes what is kept, over what others have written meanwhile ...
Write(c) ==
    /\ pc[c] = "write"
    /\ file' = Over(rest[c], file)
    /\ pc' = [pc EXCEPT ![c] = "parse"]
    /\ removed' = [removed EXCEPT ![c] = TRUE]
    /\ UNCHANGED <<writable, spec, rest, history>>

\* ... or only its first lines: the disk is full, and write returns an error.
WriteFails(c) ==
    /\ pc[c] = "write"
    /\ Fault
    /\ \E n \in 0 .. Len(rest[c]) - 1 :
         file' = Over([k \in 1 .. n |-> rest[c][k]], file)
    /\ pc' = [pc EXCEPT ![c] = "parse"]
    /\ removed' = [removed EXCEPT ![c] = FALSE]
    /\ failed' = TRUE /\ halved' = TRUE
    /\ UNCHANGED <<writable, spec, rest, taken, overlapped>>

\* The process ends, by the user's hand, between its read and the end of its
\* rewrite: elsewhere the pool cannot tell it from a client that waits.
Killed(c) ==
    /\ Holding(c)
    /\ Fault
    /\ pc' = [pc EXCEPT ![c] = "killed"]
    /\ halved' = (halved \/ pc[c] = "write")
    /\ failed' = TRUE
    /\ UNCHANGED <<file, writable, spec, rest, removed, taken, overlapped>>

\* parse_proxy took the line: it is this client's.
Claim(c) ==
    /\ pc[c] = "parse"
    /\ spec[c] \notin Malformed
    /\ pc' = [pc EXCEPT ![c] = "claimed"]
    /\ UNCHANGED <<file, writable, spec, rest, removed, history>>

\* Mutant: the next line is tried although the bad one is still in the file.
AfterBadLineAlways(c) == "read"

\* After a bad line: the next one, or None when the bad one could not go.
AfterBadLine(c) == IF removed[c] THEN "read" ELSE "direct"

\* The line is malformed ...
Drop(c) ==
    /\ pc[c] = "parse"
    /\ spec[c] \in Malformed
    /\ pc' = [pc EXCEPT ![c] = AfterBadLine(c)]
    /\ UNCHANGED <<file, writable, spec, rest, removed, history>>

\* ... or its host does not resolve now.
DropUnresolved(c) ==
    /\ pc[c] = "parse"
    /\ spec[c] \notin Malformed
    /\ Fault
    /\ pc' = [pc EXCEPT ![c] = AfterBadLine(c)]
    /\ UNCHANGED <<file, writable, spec, rest, removed, taken, overlapped, failed, halved>>

\* What a client does when no single call of it fails.
Claims(c) == \/ Read(c) \/ ReadNothing(c) \/ Truncate(c) \/ OpenFails(c) \/ Write(c)
             \/ Claim(c) \/ Drop(c)

Fails(c) == ReadFails(c) \/ WriteFails(c) \/ Killed(c) \/ DropUnresolved(c)

Next == \E c \in Client : Claims(c) \/ Fails(c)

Spec == Init /\ [][Next]_vars

\* Each process is scheduled, and its file operations and look-ups return.
FairSpec == Spec /\ \A c \in Client : WF_vars(Claims(c))

-----------------------------------------------------------------------------
(* Properties.                                                               *)

\* The variables keep their types.
TypeOK == /\ file \in Seq(Line)
          /\ writable \in BOOLEAN
          /\ pc \in [Client -> {"read", "open", "write", "parse", "claimed", "direct", "killed"}]
          /\ spec \in [Client -> Line \cup {NoLine}]
          /\ rest \in [Client -> Seq(Line)]
          /\ removed \in [Client -> BOOLEAN]
          /\ taken \subseteq Line
          /\ overlapped \in BOOLEAN /\ failed \in BOOLEAN /\ halved \in BOOLEAN
          /\ faults \in 0 .. MaxFaults

\* However the rewrites of several clients interleave, no line gets lost that
\* nobody picked, comments included: it is in the file, or a client that has
\* truncated the file is about to write it - unless a client stopped just there.
NoLineLost ==
    \/ halved
    \/ \A l \in Line \ taken : \/ l \in LinesOf(file)
                              \/ \E c \in Client : pc[c] = "write" /\ l \in LinesOf(rest[c])

\* Clients that do not overlap, and whose calls succeed, never use one proxy
\* twice: what one has claimed is in no other's hands and not in the file.
ClaimIsExclusive ==
    \A c \in Client : (pc[c] = "claimed" /\ ~overlapped /\ ~failed) =>
        /\ spec[c] \notin LinesOf(file)
        /\ \A d \in Client \ {c} : spec[d] # spec[c]

\* A client goes without a proxy only when all of them are taken, unless it
\* met another's rewrite or one of its own calls failed.
DirectMeansEmpty ==
    (\E c \in Client : pc[c] = "direct") => overlapped \/ failed \/ Line \ Comments \subseteq taken

\* Every client ends up with a proxy or knows that there is none, whoever
\* rewrites the file at the same time and even if nobody may.
ClaimDecides == \A c \in Client : <>Decided(c)

\* The comment of claim_proxy_from_file: the line goes so that a concurrent
\* agent cannot reuse it.  Two that read before either has written both have it.
NoSharedProxy ==
    \A c, d \in Client : (pc[c] = "claimed" /\ pc[d] = "claimed" /\ c # d) => spec[c] # spec[d]
=============================================================================
