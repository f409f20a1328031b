-------------------------------- MODULE Fields --------------------------------
(* The wire types of samp-proto (fields.rs and the read_field, write_field    *)
(* and field-value macros of events/mod.rs) over BitStream.                   *)
(*                                                                            *)
(* The value of a number or of a plain vector is its little-endian bytes, of  *)
(* a string its bytes.  A float is told apart only where the code does: a     *)
(* compressed vector is the bytes of its magnitude and those of its unit      *)
(* vector, a unit quaternion the signs of w, x, y, z and the magnitudes of    *)
(* x, y, z (its w is computed from them).                                     *)
EXTENDS BitStream

LE(n, width) == [i \in 1 .. width |-> (n \div 256^(i - 1)) % 256]
Number(bytes) == Loop(LAMBDA sum, i : sum + bytes[i] * 256^(i - 1), 0, Len(bytes))
Flag(b) == IF b THEN 1 ELSE 0

Width  == [u8 |-> 1, u16 |-> 2, u32 |-> 4, i8 |-> 1, i16 |-> 2, i32 |-> 4, f32 |-> 4,
           vector2 |-> 8, vector3 |-> 12, int_array3 |-> 12]
Prefix == [str8 |-> 1, str16 |-> 2, str32 |-> 4]
Strings == DOMAIN Prefix \cup {"fixed32"}
WireTypes == DOMAIN Width \cup Strings \cup {"bool", "bool8", "bool32", "norm_quat", "compressed_vector"}

FixedSize == 32

\* The part of a string the writers keep.
Kept(t, s) ==
  LET limit == IF t = "str8" THEN 255 ELSE IF t = "str16" THEN 65535
               ELSE IF t = "fixed32" THEN FixedSize ELSE Len(s)
  IN  SubSeq(s, 1, Lesser(Len(s), limit))

WriteString(w, t, s) == WriteBytes(WriteBytes(w, LE(Len(Kept(t, s)), Prefix[t])), Kept(t, s))

WriteFixedString(w, s) ==
  LET kept == Kept("fixed32", s) IN WriteBytes(w, kept \o Zeros(FixedSize - Len(kept)))

\* Magnitudes as f32 bytes: a vector without length, one with, and what the
\* square root of a sum with a NaN in it gives.
ZeroFloat == <<0, 0, 0, 0>>
NaN       == <<0, 0, 192, 127>>

\* `magnitude > 0.0`, which no NaN is
WriteCompressedVector(w, v) ==
  LET m == WriteBytes(w, v.magnitude)
  IN  IF v.magnitude \in {ZeroFloat, NaN} THEN m ELSE WriteBytes(m, v.unit)

WriteNormQuat(w, q) == WriteBytes(Loop(LAMBDA v, i : WriteBit(v, q.negative[i]), w, 4), q.magnitudes)

WriteField(w, t, v) ==
  CASE t = "bool"              -> WriteBit(w, v)
    [] t = "bool8"             -> WriteBytes(w, <<Flag(v)>>)
    [] t = "bool32"            -> WriteBytes(w, LE(Flag(v), 4))
    [] t \in DOMAIN Width      -> WriteBytes(w, v)
    [] t \in DOMAIN Prefix     -> WriteString(w, t, v)
    [] t = "fixed32"           -> WriteFixedString(w, v)
    [] t = "norm_quat"         -> WriteNormQuat(w, v)
    [] t = "compressed_vector" -> WriteCompressedVector(w, v)

ReadString(r, t) == Then(ReadBytes(r, Prefix[t]), LAMBDA n, s : ReadBytes(s, Number(n)))

\* trailing zeros are padding, whoever wrote them
Unpadded(s) == LET used == {i \in 1 .. Len(s) : s[i] # 0}
               IN  SubSeq(s, 1, IF used = {} THEN 0 ELSE CHOOSE i \in used : \A j \in used : j <= i)

\* `magnitude == 0.0`, which no NaN is either
ReadCompressedVector(r) ==
  Then(ReadBytes(r, 4), LAMBDA m, s :
    IF m = ZeroFloat THEN Done([magnitude |-> ZeroFloat, unit |-> <<>>], s)
    ELSE Then(ReadBytes(s, 6), LAMBDA u, t : Done([magnitude |-> m, unit |-> u], t)))

ReadNormQuat(r) ==
  Then(ReadBits(r, 4, TRUE), LAMBDA signs, s :
    Then(ReadBytes(s, 6), LAMBDA m, t :
      Done([negative |-> [i \in 1 .. 4 |-> ByteBits(signs[1])[4 + i] = 1], magnitudes |-> m], t)))

ReadField(r, t) ==
  CASE t = "bool"              -> ReadBit(r)
    [] t = "bool8"             -> Then(ReadBytes(r, 1), LAMBDA v, s : Done(v # <<0>>, s))
    [] t = "bool32"            -> Then(ReadBytes(r, 4), LAMBDA v, s : Done(v # Zeros(4), s))
    [] t \in DOMAIN Width      -> ReadBytes(r, Width[t])
    [] t \in DOMAIN Prefix     -> ReadString(r, t)
    [] t = "fixed32"           -> Then(ReadBytes(r, FixedSize), LAMBDA v, s : Done(Unpadded(v), s))
    [] t = "norm_quat"         -> ReadNormQuat(r)
    [] t = "compressed_vector" -> ReadCompressedVector(r)

\* A list of fields, in wire order; the first that cannot be read refuses all.
WriteFields(w, types, values) == Loop(LAMBDA v, i : WriteField(v, types[i], values[i]), w, Len(types))

ReadFields(r, types) ==
  Loop(LAMBDA acc, i : Then(acc, LAMBDA vs, s :
         Then(ReadField(s, types[i]), LAMBDA v, t : Done(Append(vs, v), t))),
       Done(<<>>, r), Len(types))

\* to_value: the FieldValue variant a wire type is shown to a script as.
Kind(t) ==
  CASE t \in {"bool", "bool8", "bool32"}          -> "Bool"
    [] t \in {"vector3", "compressed_vector"}     -> "Vec3"
    [] t = "vector2"                              -> "Vec2"
    [] t = "norm_quat"                            -> "Quat"
    [] t = "int_array3"                           -> "IntArray3"
    [] t \in Strings                              -> "Bytes"
    [] OTHER                                      -> t

ToValues(types, fields) == [i \in 1 .. Len(types) |-> [kind |-> Kind(types[i]), v |-> fields[i]]]

\* from_values takes one value per field; it never looks past the last one.
FitsFields(types, values) ==
  /\ Len(values) >= Len(types)
  /\ \A i \in 1 .. Len(types) : values[i].kind = Kind(types[i])

FromValues(types, values) == [i \in 1 .. Len(types) |-> values[i].v]
==============================================================================
