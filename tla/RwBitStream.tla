----------------------------- MODULE RwBitStream -----------------------------
(* The seekable bit stream scripts edit packets through (rwbitstream.rs): one *)
(* buffer, a read and a write cursor that move on their own, and the count    *)
(* `bits` of valid bits, which only grows until a reset.  The buffer is the   *)
(* sequence of its bits; it holds whole bytes.  Reading returns [ok, v, s].   *)
EXTENDS BitStream

FromBytes(bytes) == [data |-> BitsOf(bytes), bits |-> 8 * Len(bytes), read |-> 0, write |-> 0]
EmptyStream == FromBytes(<<>>)

\* as_bytes slices the buffer up to the valid bits; the slice must be there.
CanTakeBytes(s) == 8 * BytesFor(s.bits) <= Len(s.data)
TakenBits(s) == SubSeq(s.data, 1, 8 * BytesFor(s.bits))

\* The bytes of whole bytes of bits.
BytesOf(bits) ==
  [i \in 1 .. Len(bits) \div 8 |-> ByteOf([k \in 1 .. 8 |-> bits[8 * (i - 1) + k]])]

SetReadOffset(s, at)  == [s EXCEPT !.read = at]
SetWriteOffset(s, at) == [s EXCEPT !.write = at]
IgnoreBits(s, n)      == [s EXCEPT !.read = @ + n]
UnreadBits(s)         == s.bits - Lesser(s.bits, s.read)

\* write_bits, with the bits it takes from its input already picked: each one
\* overwrites the bit at the cursor, the buffer growing by whole bytes.
Overwritten(data, at, new) ==
  LET grown == IF new = <<>> THEN data ELSE Resized(data, 8 * BytesFor(at + Len(new)))
  IN  [i \in 1 .. Len(grown) |-> IF i \in at + 1 .. at + Len(new) THEN new[i - at] ELSE grown[i]]

\* Mutant of WriteAt: the valid bits end where the last write did.
WriteAtEnd(s, new) ==
  LET end == s.write + Len(new)
  IN  [s EXCEPT !.data = Overwritten(@, s.write, new), !.write = end, !.bits = end]

WriteAt(s, new) ==
  LET end == s.write + Len(new)
  IN  [s EXCEPT !.data = Overwritten(@, s.write, new), !.write = end,
                !.bits = IF end > @ THEN end ELSE @]

\* read_bits: refused, the cursor where it was, when fewer are valid
ReadAt(s, n) ==
  IF s.read + n > s.bits THEN [ok |-> FALSE, v |-> <<>>, s |-> s]
  ELSE [ok |-> TRUE, v |-> SubSeq(s.data, s.read + 1, s.read + n), s |-> [s EXCEPT !.read = @ + n]]

\* An encoded string is written at the next byte, and read from the next byte
\* to the end of the buffer: the text is whatever Decode makes of that.
WriteEncoded(s, encoded) == WriteAt([s EXCEPT !.write = 8 * BytesFor(@)], encoded)
EncodedPart(s) == LET from == 8 * BytesFor(s.read)
                  IN  IF from > Len(s.data) THEN <<>> ELSE SubSeq(s.data, from + 1, Len(s.data))
AfterEncoded(s) == [s EXCEPT !.read = s.bits]
==============================================================================
