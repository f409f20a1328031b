------------------------------ MODULE BitStream ------------------------------
(* samp-proto's bit stream: the writer and the reader every packet body goes *)
(* through.  Bits go most significant first inside a byte, bytes least        *)
(* significant first inside a number; a field may start at any bit.           *)
(*                                                                            *)
(* A byte is a number below 256 and a buffer a sequence of bytes.  A number   *)
(* wider than a byte, a float included, is the sequence of its little-endian  *)
(* bytes.  A writer is [data, bits] and a reader [data, pos]; an operation    *)
(* that reads returns [ok, v, r]: whether it read, what, and the reader then. *)
EXTENDS Integers, Sequences

Byte == 0 .. 255

BytesFor(n) == (n + 7) \div 8
Lesser(a, b) == IF a <= b THEN a ELSE b
Zeros(n) == [i \in 1 .. n |-> 0]

\* A loop over 1 .. n: Step takes what the turns so far made and the index.
Loop(Step(_, _), from, n) ==
  LET turn[i \in 0 .. n] == IF i = 0 THEN from ELSE Step(turn[i - 1], i) IN turn[n]

\* Vec::resize(n, 0) where the buffer is shorter
Resized(data, n) == data \o Zeros(n - Lesser(n, Len(data)))

\* The bits of a byte, and the byte of eight bits.
Weight == <<128, 64, 32, 16, 8, 4, 2, 1>>
ByteBits(b) == [i \in 1 .. 8 |-> (b \div Weight[i]) % 2]
ByteOf(bits) == 128 * bits[1] + 64 * bits[2] + 32 * bits[3] + 16 * bits[4]
                  + 8 * bits[5] + 4 * bits[6] + 2 * bits[7] + bits[8]

\* The byte operations of Rust's u8: bits shifted out are gone.
ShiftLeft(byte, k) == (byte * 2^k) % 256
ShiftRight(byte, k) == byte \div 2^k
a | b == LET x == ByteBits(a)  y == ByteBits(b)
         IN  ByteOf([k \in 1 .. 8 |-> IF x[k] = 1 THEN 1 ELSE y[k]])

NewWriter == [data |-> <<>>, bits |-> 0]

\* Mutant of WriteBits: what does not fit in the first byte is not spilled.
WriteBitsUnspilled(w, input, n) ==
  LET used == w.bits % 8
      wide == Resized(w.data, BytesFor(w.bits + n))
      chunk(i) == IF n - 8 * (i - 1) < 8 THEN ShiftLeft(input[i], 8 * i - n) ELSE input[i]
      byte(j)  == LET i == j - w.bits \div 8
                  IN  IF i \notin 1 .. BytesFor(n) THEN wide[j] ELSE wide[j] | ShiftRight(chunk(i), used)
  IN  [data |-> [j \in DOMAIN wide |-> byte(j)], bits |-> w.bits + n]

\* write_bits goes over its input in chunks of eight bits, the last one what is
\* left, shifted up.  A chunk fills the free bits of the byte it starts in and
\* spills the others into the next, which is overwritten.
WriteBits(w, input, n) ==
  LET used      == w.bits % 8
      left(i)   == n - 8 * (i - 1)
      chunk(i)  == IF left(i) < 8 THEN ShiftLeft(input[i], 8 - left(i)) ELSE input[i]
      spills(i) == i > 0 /\ used # 0 /\ 8 - used < left(i)
      wide      == Resized(w.data, BytesFor(w.bits + n))
      byte(j)   ==
        LET i      == j - w.bits \div 8      \* the chunk that starts in byte j
            before == IF spills(i - 1) THEN ShiftLeft(chunk(i - 1), 8 - used) ELSE wide[j]
        IN  IF i \notin 1 .. BytesFor(n) THEN before
            ELSE IF used = 0 THEN chunk(i) ELSE before | ShiftRight(chunk(i), used)
  IN  [data |-> [j \in DOMAIN wide |-> byte(j)], bits |-> w.bits + n]

WriteZeroBits(w, n) ==
  [data |-> Resized(w.data, BytesFor(w.bits + n)), bits |-> w.bits + n]

AlignWrite(w) == IF w.bits % 8 = 0 THEN w ELSE WriteZeroBits(w, 8 - (w.bits % 8))

WriteBit(w, flag) == WriteBits(w, <<IF flag THEN 1 ELSE 0>>, 1)
WriteBytes(w, bytes) == WriteBits(w, bytes, 8 * Len(bytes))

\* write_compressed: a one for every leading zero byte, then the rest whole;
\* the last byte in a nibble where its upper half is zero.
WriteCompressed(w, input) ==
  LET top   == {i \in 2 .. Len(input) : input[i] # 0}
      last  == IF top = {} THEN 1 ELSE CHOOSE i \in top : \A j \in top : j <= i
      ones  == Loop(LAMBDA v, i : WriteBit(v, TRUE), w, Len(input) - last)
  IN  IF last > 1 THEN WriteBits(WriteBit(ones, FALSE), SubSeq(input, 1, last), 8 * last)
      ELSE IF input[1] < 16 THEN WriteBits(WriteBit(ones, TRUE), input, 4)
      ELSE WriteBits(WriteBit(ones, FALSE), input, 8)

IntoBytes(w) == SubSeq(w.data, 1, BytesFor(w.bits))

NewReader(data) == [data |-> data, pos |-> 0]

BitsLeft(r) == 8 * Len(r.data) - r.pos

Refused(r) == [ok |-> FALSE, v |-> <<>>, r |-> r]

\* One output byte of read_bits: `left` bits are still wanted at r.pos.
ReadChunk(r, left, alignRight) ==
  LET at   == r.pos \div 8 + 1
      skip == r.pos % 8
      b    == ShiftLeft(r.data[at], skip)
      c    == IF skip # 0 /\ left > 8 - skip THEN b | ShiftRight(r.data[at + 1], 8 - skip) ELSE b
  IN  IF left < 8 /\ alignRight THEN ShiftRight(c, 8 - left) ELSE c

\* Mutant of ReadBits: the length is checked in whole bytes from the next on.
ReadBitsLax(r, n, alignRight) ==
  LET wide == [r EXCEPT !.data = Append(@, 0)]
  IN  IF n > BitsLeft(wide) THEN Refused(r)
      ELSE [ok |-> TRUE,
            v  |-> [i \in 1 .. BytesFor(n) |->
                      ReadChunk([wide EXCEPT !.pos = @ + 8 * (i - 1)], n - 8 * (i - 1), alignRight)],
            r  |-> [r EXCEPT !.pos = @ + n]]

ReadBits(r, n, alignRight) ==
  IF n > BitsLeft(r) THEN Refused(r)
  ELSE [ok |-> TRUE,
        v  |-> [i \in 1 .. BytesFor(n) |->
                  ReadChunk([r EXCEPT !.pos = @ + 8 * (i - 1)], n - 8 * (i - 1), alignRight)],
        r  |-> [r EXCEPT !.pos = @ + n]]

SkipBits(r, n) == IF n > BitsLeft(r) THEN Refused(r)
                  ELSE [ok |-> TRUE, v |-> <<>>, r |-> [r EXCEPT !.pos = @ + n]]

ReadBytes(r, n) == ReadBits(r, 8 * n, TRUE)

\* Sequencing: read with A, go on with B(value, reader) where A succeeded.
Then(first, Next2(_, _)) == IF first.ok THEN Next2(first.v, first.r) ELSE first

Done(v, r) == [ok |-> TRUE, v |-> v, r |-> r]

ReadBit(r) == Then(ReadBits(r, 1, TRUE), LAMBDA v, s : Done(v[1] # 0, s))

AlignRead(r) == [r EXCEPT !.pos = 8 * BytesFor(@)]

\* Mutant of ReadCompressed: the upper bytes only of a number written whole.
ReadCompressedWhole(r, size) ==
  Then(ReadBit(r), LAMBDA zero, s :
    IF zero THEN Then(ReadBits(s, 8, TRUE), LAMBDA b, t : Done(b \o Zeros(size - 1), t))
    ELSE ReadBits(s, 8 * size, TRUE))

\* read_compressed of a `size`-byte number.  Each turn of the fold reads one
\* flag until a byte is found that was written whole.
ReadCompressed(r, size) ==
  LET step(acc, i) ==
        LET cur == size + 1 - i IN
        IF acc.found \/ ~acc.ok THEN acc
        ELSE LET f == ReadBit(acc.r)
             IN  IF ~f.ok THEN [acc EXCEPT !.ok = FALSE]
                 ELSE IF f.v THEN [acc EXCEPT !.r = f.r]
                 ELSE LET b == ReadBits(f.r, 8 * cur, TRUE)
                      IN  [ok |-> b.ok, found |-> TRUE, r |-> b.r, v |-> b.v \o Zeros(size - cur)]
      upper == Loop(step, [ok |-> TRUE, found |-> FALSE, r |-> r, v |-> <<>>], size - 1)
      low(v, s) == Then(ReadBits(s, IF v THEN 4 ELSE 8, TRUE),
                        LAMBDA b, t : Done(b \o Zeros(size - 1), t))
  IN  IF ~upper.ok THEN Refused(r)
      ELSE IF upper.found THEN Done(upper.v, upper.r)
      ELSE Then(ReadBit(upper.r), low)
------------------------------------------------------------------------------
(* The reference: a stream is the sequence of its bits, a write appends.      *)

BitsOf(bytes) == [i \in 1 .. 8 * Len(bytes) |-> ByteBits(bytes[(i + 7) \div 8])[((i - 1) % 8) + 1]]

\* What writing `n` bits of `input` adds: whole bytes, then the low bits of
\* the last one.
AddedBits(input, n) ==
  SubSeq(BitsOf(input), 1, 8 * (n \div 8))
    \o (IF n % 8 = 0 THEN <<>> ELSE SubSeq(ByteBits(input[BytesFor(n)]), 9 - (n % 8), 8))
==============================================================================
