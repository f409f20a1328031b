----------------------------- MODULE HandlerChain -----------------------------
(* What happens to one body between its sender's encoder and its receiver's   *)
(* decoder in the client: the chain of registered handlers (samp-client's     *)
(* registry.rs), catch-all handlers first and then those of the id.  A        *)
(* catch-all handler runs the scripts of that chokepoint over one shared bit  *)
(* stream (samp-script's lib.rs and bitstream.rs); a handler of an id gets    *)
(* the decoded event and may put another one in its place.                    *)
EXTENDS RwBitStream, Messages

CONSTANTS Starts,      \* [message, cut, any, byId]: what comes, and who handles it
          Scripts,     \* how many scripts share the chokepoint
          Writes,      \* the bits one script write may write
          Texts,       \* the texts a script may write encoded
          Offsets,     \* where scripts seek, how much they skip and read
          Replacement(_, _), \* what a typed handler puts in place of a field
          MaxOps       \* bound: operations the scripts make on one stream

\* write_bits is called with at least as many bytes as its bits take.
AreWrites(value) ==
  /\ value \in Seq([input : Seq(Byte), bits : Nat])
  /\ \A i \in DOMAIN value : value[i].bits <= 8 * Len(value[i].input)

\* Encoders make bytes and are given the bits they write; a script's writes are
\* bits, and offsets are no less than 0.
ASSUME HandlerChainAssumption ==
  /\ Scripts \in Nat /\ MaxOps \in Nat
  /\ \A s \in Starts : /\ s.any \in Nat /\ s.byId \in Nat /\ s.cut \in BOOLEAN
                       /\ Wire(s.message) \in Seq(Byte)
                       /\ s.message.family = "bits" => AreWrites(s.message.value)
  /\ Writes \subseteq Seq({0, 1}) /\ Offsets \subseteq Nat
  /\ \A text \in Texts : EncodeString(text) \in Seq(Byte)

VARIABLES
  message,   \* what its sender means
  meant,     \* what the receiver should make of it, typed rewrites included
  replaced,  \* history: a typed handler has put another event in its place
  cut,       \* whether its last byte is missing
  payload,   \* the body as it came
  body,      \* the body the next handler sees: the latest rewrite, or payload
  rewritten, \* whether a handler has rewritten it
  left,      \* the handlers still to run
  stream,    \* the stream the scripts share
  dirty,     \* its flag: written to, or its write cursor moved
  running,   \* the script that runs, 0 outside the scripts
  ops,       \* operations made on this stream
  outbox,    \* packets scripts queued for sending
  verdict,   \* "none" until the chain is over
  got,       \* what the receiver makes of it
  touched    \* history: the bits of the body scripts have written

bodyVars   == <<message, cut, payload>>
senseVars  == <<meant, replaced>>
scriptVars == <<stream, dirty, running, ops, outbox, touched>>
vars == <<bodyVars, senseVars, body, rewritten, left, scriptVars, verdict, got>>

Cut(bytes) == SubSeq(bytes, 1, Len(bytes) - 1)

\* n registrations under one key (catch-all of a chokepoint, or an id's): they
\* are kept in the order they were made, and run in it.
Registered(handler, n) == [i \in 1 .. n |-> handler]

Init ==
  /\ \E s \in Starts :
       LET wire == Wire(s.message) IN
       /\ message = s.message /\ meant = Meaning(s.message)
       /\ cut = (s.cut /\ wire # <<>>)
       /\ payload = IF cut THEN Cut(wire) ELSE wire
       /\ left = Registered("scripts", s.any) \o Registered("typed", s.byId)
  /\ body = payload /\ rewritten = FALSE /\ replaced = FALSE
  /\ stream = EmptyStream /\ dirty = FALSE /\ running = 0 /\ ops = 0
  /\ outbox = <<>> /\ verdict = "none" /\ touched = {} /\ got = Malformed

Turn(handler) == verdict = "none" /\ running = 0 /\ left # <<>> /\ Head(left) = handler

\* dispatch_chokepoint: a stream over a copy of the body, for every script
\* registered; without one the body passes.
EnterScripts ==
  /\ Turn("scripts")
  /\ IF Scripts = 0
     THEN left' = Tail(left) /\ UNCHANGED scriptVars
     ELSE /\ stream' = FromBytes(body)
          /\ dirty' = FALSE /\ running' = 1 /\ ops' = 0
          /\ UNCHANGED <<left, outbox, touched>>
  /\ UNCHANGED <<bodyVars, senseVars, body, rewritten, verdict, got>>

\* One method call of the running script on its bitStream.
ScriptOp(s, isDirty) ==
  /\ verdict = "none" /\ running > 0 /\ ops < MaxOps
  /\ stream' = s /\ dirty' = isDirty /\ ops' = ops + 1
  /\ UNCHANGED <<bodyVars, senseVars, body, rewritten, left, running, outbox, verdict, got>>

Touch(from, n) == touched' = touched \cup from + 1 .. from + n

ScriptWrites == \E bits \in Writes :
  ScriptOp(WriteAt(stream, bits), TRUE) /\ Touch(stream.write, Len(bits))

\* write_encoded: the Huffman bits of the text from the next byte on
ScriptWritesEncoded == \E text \in Texts :
  LET bits == BitsOf(EncodeString(text)) IN
  ScriptOp(WriteEncoded(stream, bits), TRUE) /\ Touch(8 * BytesFor(stream.write), Len(bits))

ScriptSeeksWrite == \E at \in Offsets :
  ScriptOp(SetWriteOffset(stream, at), TRUE) /\ UNCHANGED touched

\* Reads are lenient: one that is refused gives a zero and moves nothing.
ScriptReads == \E n \in Offsets :
  ScriptOp(ReadAt(stream, n).s, dirty) /\ UNCHANGED touched

ScriptSeeksRead == \E at \in Offsets :
  /\ ScriptOp(SetReadOffset(stream, at), dirty) \/ ScriptOp(IgnoreBits(stream, at), dirty)
  /\ UNCHANGED touched

ScriptReadsEncoded == ScriptOp(AfterEncoded(stream), dirty) /\ UNCHANGED touched

ScriptResets == ScriptOp(EmptyStream, FALSE) /\ Touch(0, 8 * Len(payload))

\* sendPacket, sendPacketEx and sendRPC queue a copy of the stream's bytes.
ScriptSends ==
  /\ verdict = "none" /\ running > 0 /\ ops < MaxOps /\ CanTakeBytes(stream)
  /\ outbox' = Append(outbox, TakenBits(stream)) /\ ops' = ops + 1
  /\ UNCHANGED <<bodyVars, senseVars, body, rewritten, left, stream, dirty, running, verdict, got, touched>>

Dropped == verdict' = "drop" /\ UNCHANGED <<bodyVars, senseVars, body, rewritten, left, got>>

\* A script that returns false consumes the packet: the chain ends there.
ScriptDrops ==
  /\ verdict = "none" /\ running > 0
  /\ Dropped /\ running' = 0
  /\ UNCHANGED <<stream, dirty, ops, outbox, touched>>

\* It returns anything else, or fails: the next script, on the same stream.
NextScript ==
  /\ verdict = "none" /\ running \in 1 .. Scripts - 1
  /\ running' = running + 1
  /\ UNCHANGED <<bodyVars, senseVars, body, rewritten, left, stream, dirty, ops, outbox, verdict, got, touched>>

\* After the last script a dirty stream is the body from here on.
LeaveScripts ==
  /\ verdict = "none" /\ running = Scripts /\ running > 0
  /\ dirty => CanTakeBytes(stream)
  /\ running' = 0 /\ left' = Tail(left)
  /\ body' = IF dirty THEN BytesOf(TakenBits(stream)) ELSE body
  /\ rewritten' = (rewritten \/ dirty)
  /\ UNCHANGED <<bodyVars, senseVars, stream, dirty, ops, outbox, verdict, got, touched>>

\* register: a body too short for the event is left alone.
Event == Registries[message.family][message.name]
Seen  == DecodeEvent(Event, body)

TypedPasses ==
  /\ Turn("typed")
  /\ left' = Tail(left)
  /\ UNCHANGED <<bodyVars, senseVars, body, rewritten, scriptVars, verdict, got>>

TypedDrops == Turn("typed") /\ Seen.ok /\ Dropped /\ UNCHANGED scriptVars

\* The event encoded anew with one field replaced: what follows its fields in
\* the body is gone.
TypedRewrites ==
  /\ Turn("typed") /\ Seen.ok
  /\ \E k \in DOMAIN Seen.v :
       LET type == Event.fields[k]
           new  == [kind |-> Kind(type), v |-> Replacement(type, k)]
       IN  /\ body' = EncodeEvent(Event, [Seen.v EXCEPT ![k] = new]).v
           /\ meant' = [meant EXCEPT ![k].v = Meant(type, new.v)]
  /\ rewritten' = TRUE /\ replaced' = TRUE /\ left' = Tail(left)
  /\ UNCHANGED <<bodyVars, scriptVars, verdict, got>>

\* run_chain is through: the verdict, and what the receiver reads then.
Finish ==
  /\ verdict = "none" /\ running = 0 /\ left = <<>>
  /\ verdict' = IF rewritten THEN "rewrite" ELSE "pass"
  /\ got' = Received(message, IF rewritten THEN body ELSE payload)
  /\ UNCHANGED <<bodyVars, senseVars, body, rewritten, left, scriptVars>>

Next ==
  \/ EnterScripts \/ ScriptWrites \/ ScriptWritesEncoded \/ ScriptSeeksWrite \/ ScriptReads
  \/ ScriptSeeksRead \/ ScriptReadsEncoded \/ ScriptResets \/ ScriptSends \/ ScriptDrops
  \/ NextScript \/ LeaveScripts \/ TypedPasses \/ TypedDrops \/ TypedRewrites \/ Finish

Spec == Init /\ [][Next]_vars
------------------------------------------------------------------------------
Through == verdict \in {"pass", "rewrite"}
Body    == IF verdict = "pass" THEN payload ELSE body
Readable == message.family # "sent"

\* A message that no script wrote to is read as it was meant: every event and
\* packet, at every bit offset a flag or a quaternion leaves the rest at, with
\* the strings their writers cap and pad, the text of a dialog after a head of
\* any length, and the fields a typed handler replaced in place of its own and
\* no other (codec.rs, sync.rs, events/mod.rs, encoded.rs, registry.rs).
ReadAsMeant ==
  Through /\ ~cut /\ touched = {} /\ Readable => got.ok /\ got.v = meant

\* A body cut short is refused by its reader and passes typed handlers by: no
\* event is made up of what is left (bitstream.rs's length checks, register).
\* A dialog's text has no length but its own bits, so it is not among them.
CutIsRefused ==
  cut /\ Readable /\ message.family # "dialog" /\ touched = {} =>
    /\ ~got.ok /\ body = payload
    /\ verdict = "drop" => Head(left) # "typed"

\* A body that is let through, of an event no typed handler replaced, differs
\* from the one that came only where a script wrote: moving cursors, reading,
\* seeking past the end and queueing packets leave every other bit, and no bit
\* is lost (rwbitstream.rs, and the stream the scripts of a chokepoint share).
UntouchedBitsSurvive ==
  Through /\ ~replaced =>
    LET came == BitsOf(payload)  goes == BitsOf(Body) IN
    \A i \in DOMAIN came : i \notin touched => i <= Len(goes) /\ goes[i] = came[i]

\* A writer appends: the body of a list of writes is their bits one after the
\* other, the low bits of a last partial byte, zeroes up to the next byte.
WritesAppend ==
  message.family = "bits" /\ ~cut =>
    LET want == Loop(LAMBDA all, i : all \o AddedBits(message.value[i].input, message.value[i].bits),
                     <<>>, Len(message.value))
    IN  BitsOf(payload) = Resized(want, 8 * BytesFor(Len(want)))

\* "any handler that writes to the bitStream rewrites it; otherwise it passes"
\* (samp-script/src/lib.rs:61): a stream one script wrote to stays a rewrite,
\* whatever the scripts after it do.
WritingRewrites == [][dirty /\ running > 0 /\ running' > 0 => dirty']_vars

\* as_bytes: the slice the host takes of a stream is inside its buffer.
StreamHoldsItsBits == running > 0 => CanTakeBytes(stream)

\* "each handler ... is called with (id, bitStream) over a copy of payload"
\* (samp-script/src/lib.rs:60): every script starts to read at the start.
ScriptsReadFromTheStart ==
  [][running' # running /\ running' > 0 => stream'.read = 0]_vars
==============================================================================
