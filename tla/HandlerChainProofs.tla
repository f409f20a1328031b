-------------------------- MODULE HandlerChainProofs --------------------------
(* Proofs about HandlerChain: for every body, every number of scripts and of  *)
(* operations they make, a bit of the body that no script wrote arrives as it *)
(* came; and for every list of writes, at any bit offset, the body a writer   *)
(* makes is the bits it was given, one write after the other, and the reader  *)
(* makes of it what was written.                                              *)
EXTENDS HandlerChain, NatLemmas, SequenceTheorems

Bit == {0, 1}

-----------------------------------------------------------------------------
(* Bytes and their bits.                                                     *)

LEMMA ByteBitsType ==
  ASSUME NEW b \in Byte
  PROVE  /\ ByteBits(b) \in [1 .. 8 -> Bit]
         /\ ByteBits(b)[1] = (b \div 128) % 2 /\ ByteBits(b)[2] = (b \div 64) % 2
         /\ ByteBits(b)[3] = (b \div 32) % 2 /\ ByteBits(b)[4] = (b \div 16) % 2
         /\ ByteBits(b)[5] = (b \div 8) % 2 /\ ByteBits(b)[6] = (b \div 4) % 2
         /\ ByteBits(b)[7] = (b \div 2) % 2 /\ ByteBits(b)[8] = b % 2
<1>1. Weight[1] = 128 /\ Weight[2] = 64 /\ Weight[3] = 32 /\ Weight[4] = 16
      /\ Weight[5] = 8 /\ Weight[6] = 4 /\ Weight[7] = 2 /\ Weight[8] = 1
  BY DEF Weight
<1>2. \A k \in 1 .. 8 : ByteBits(b)[k] = (b \div Weight[k]) % 2
  BY DEF ByteBits
<1>3. \A k \in 1 .. 8 : Weight[k] \in 1 .. 128
  BY <1>1
<1>4. \A k \in 1 .. 8 : ByteBits(b)[k] \in Bit
  <2>. TAKE k \in 1 .. 8
  <2>1. b \div Weight[k] \in Int
    BY <1>3 DEF Byte
  <2>. QED BY <1>2, <2>1 DEF Bit
<1>5. ByteBits(b) \in [1 .. 8 -> Bit]
  <2>1. ByteBits(b) = [k \in 1 .. 8 |-> (b \div Weight[k]) % 2]
    BY DEF ByteBits
  <2>. QED BY <1>2, <1>4, <2>1
<1>. QED BY <1>1, <1>2, <1>5 DEF Byte

LEMMA ByteOfBits ==
  ASSUME NEW x \in [1 .. 8 -> Bit]
  PROVE  ByteOf(x) \in Byte /\ ByteBits(ByteOf(x)) = x
<1> DEFINE v == ByteOf(x)
<1>1. /\ x[1] \in 0 .. 1 /\ x[2] \in 0 .. 1 /\ x[3] \in 0 .. 1 /\ x[4] \in 0 .. 1
      /\ x[5] \in 0 .. 1 /\ x[6] \in 0 .. 1 /\ x[7] \in 0 .. 1 /\ x[8] \in 0 .. 1
  BY DEF Bit
<1>2. v = 128 * x[1] + 64 * x[2] + 32 * x[3] + 16 * x[4] + 8 * x[5] + 4 * x[6] + 2 * x[7] + x[8]
  BY DEF ByteOf
<1>. HIDE DEF v
<1>3. v \in Byte
  BY <1>1, <1>2 DEF Byte
<1>4. v \div 128 = x[1]
  BY <1>1, <1>2
<1>5. v \div 64 = 2 * x[1] + x[2]
  BY <1>1, <1>2
<1>6. v \div 32 = 4 * x[1] + 2 * x[2] + x[3]
  BY <1>1, <1>2
<1>7. v \div 16 = 8 * x[1] + 4 * x[2] + 2 * x[3] + x[4]
  BY <1>1, <1>2
<1>8. v \div 8 = 16 * x[1] + 8 * x[2] + 4 * x[3] + 2 * x[4] + x[5]
  BY <1>1, <1>2
<1>9. v \div 4 = 32 * x[1] + 16 * x[2] + 8 * x[3] + 4 * x[4] + 2 * x[5] + x[6]
  BY <1>1, <1>2
<1>10. v \div 2 = 64 * x[1] + 32 * x[2] + 16 * x[3] + 8 * x[4] + 4 * x[5] + 2 * x[6] + x[7]
  BY <1>1, <1>2
<1>11. /\ (v \div 128) % 2 = x[1] /\ (v \div 64) % 2 = x[2] /\ (v \div 32) % 2 = x[3] /\ (v \div 16) % 2 = x[4]
      /\ (v \div 8) % 2 = x[5] /\ (v \div 4) % 2 = x[6] /\ (v \div 2) % 2 = x[7] /\ v % 2 = x[8]
  <2>1. (v \div 128) % 2 = x[1]
    BY <1>1, <1>4
  <2>2. (v \div 64) % 2 = x[2]
    BY <1>1, <1>5
  <2>3. (v \div 32) % 2 = x[3]
    BY <1>1, <1>6
  <2>4. (v \div 16) % 2 = x[4]
    BY <1>1, <1>7
  <2>5. (v \div 8) % 2 = x[5]
    BY <1>1, <1>8
  <2>6. (v \div 4) % 2 = x[6]
    BY <1>1, <1>9
  <2>7. (v \div 2) % 2 = x[7]
    BY <1>1, <1>10
  <2>8. v % 2 = x[8]
    BY <1>1, <1>2
  <2>. QED BY <2>1, <2>2, <2>3, <2>4, <2>5, <2>6, <2>7, <2>8
<1>12. ByteBits(v) \in [1 .. 8 -> Bit] /\ \A k \in 1 .. 8 : ByteBits(v)[k] = x[k]
  BY <1>3, <1>11, ByteBitsType
<1>13. ByteBits(v) = x
  BY <1>12
<1>. QED BY <1>3, <1>13 DEF v

\* The arithmetic of a byte's bits.
LEMMA BitArithmetic ==
  ASSUME NEW x1 \in 0 .. 1, NEW x2 \in 0 .. 1, NEW x3 \in 0 .. 1, NEW x4 \in 0 .. 1,
         NEW x5 \in 0 .. 1, NEW x6 \in 0 .. 1, NEW x7 \in 0 .. 1, NEW x8 \in 0 .. 1,
         NEW b \in Int, b = 128 * x1 + 64 * x2 + 32 * x3 + 16 * x4 + 8 * x5 + 4 * x6 + 2 * x7 + x8
  PROVE  /\ b \div 2 = 64 * x1 + 32 * x2 + 16 * x3 + 8 * x4 + 4 * x5 + 2 * x6 + x7
         /\ b \div 4 = 32 * x1 + 16 * x2 + 8 * x3 + 4 * x4 + 2 * x5 + x6
         /\ b \div 8 = 16 * x1 + 8 * x2 + 4 * x3 + 2 * x4 + x5
         /\ b \div 16 = 8 * x1 + 4 * x2 + 2 * x3 + x4
         /\ b \div 32 = 4 * x1 + 2 * x2 + x3
         /\ b \div 64 = 2 * x1 + x2
         /\ b \div 128 = x1
         /\ (b * 2) % 256 = 128 * x2 + 64 * x3 + 32 * x4 + 16 * x5 + 8 * x6 + 4 * x7 + 2 * x8
         /\ (b * 4) % 256 = 128 * x3 + 64 * x4 + 32 * x5 + 16 * x6 + 8 * x7 + 4 * x8
         /\ (b * 8) % 256 = 128 * x4 + 64 * x5 + 32 * x6 + 16 * x7 + 8 * x8
         /\ (b * 16) % 256 = 128 * x5 + 64 * x6 + 32 * x7 + 16 * x8
         /\ (b * 32) % 256 = 128 * x6 + 64 * x7 + 32 * x8
         /\ (b * 64) % 256 = 128 * x7 + 64 * x8
         /\ (b * 128) % 256 = 128 * x8
OBVIOUS

\* A byte is the byte of its bits.
LEMMA ByteOfByteBits ==
  ASSUME NEW b \in Byte
  PROVE  ByteOf(ByteBits(b)) = b
<1> DEFINE x == ByteBits(b)
<1>1. b \in 0 .. 255
  BY DEF Byte
<1>2. PICK q1 \in Nat : q1 = b \div 2
  BY <1>1
<1>3. PICK q2 \in Nat : q2 = b \div 4
  BY <1>1
<1>4. PICK q3 \in Nat : q3 = b \div 8
  BY <1>1
<1>5. PICK q4 \in Nat : q4 = b \div 16
  BY <1>1
<1>6. PICK q5 \in Nat : q5 = b \div 32
  BY <1>1
<1>7. PICK q6 \in Nat : q6 = b \div 64
  BY <1>1
<1>8. PICK q7 \in Nat : q7 = b \div 128
  BY <1>1
<1>9. b = 2 * q1 + (b % 2)
  BY <1>1, <1>2
<1>10. q1 = 2 * q2 + (q1 % 2)
  BY <1>1, <1>2, <1>3
<1>11. q2 = 2 * q3 + (q2 % 2)
  BY <1>1, <1>3, <1>4
<1>12. q3 = 2 * q4 + (q3 % 2)
  BY <1>1, <1>4, <1>5
<1>13. q4 = 2 * q5 + (q4 % 2)
  BY <1>1, <1>5, <1>6
<1>14. q5 = 2 * q6 + (q5 % 2)
  BY <1>1, <1>6, <1>7
<1>15. q6 = 2 * q7 + (q6 % 2)
  BY <1>1, <1>7, <1>8
<1>16. q7 \in 0 .. 1
  BY <1>1, <1>8
<1>17. /\ x[1] = q7 % 2 /\ x[2] = q6 % 2 /\ x[3] = q5 % 2 /\ x[4] = q4 % 2
       /\ x[5] = q3 % 2 /\ x[6] = q2 % 2 /\ x[7] = q1 % 2 /\ x[8] = b % 2
  BY <1>2, <1>3, <1>4, <1>5, <1>6, <1>7, <1>8, ByteBitsType
<1>. HIDE DEF x
<1>18. ByteOf(x) = b
  <2>1. 128 * (q7 % 2) + 64 * (q6 % 2) + 32 * (q5 % 2) + 16 * (q4 % 2) + 8 * (q3 % 2) + 4 * (q2 % 2) + 2 * (q1 % 2) + (b % 2) = b
    BY <1>1, <1>9, <1>10, <1>11, <1>12, <1>13, <1>14, <1>15, <1>16
  <2>. QED BY <2>1, <1>17 DEF ByteOf
<1>. QED BY <1>18 DEF x

\* Shifts move the bits of a byte and fill with zeroes; those that leave it are
\* gone.
LEMMA ShiftRightBits ==
  ASSUME NEW b \in Byte, NEW u \in 0 .. 7
  PROVE  /\ ShiftRight(b, u) \in Byte
         /\ \A k \in 1 .. 8 :
               ByteBits(ShiftRight(b, u))[k] = IF k <= u THEN 0 ELSE ByteBits(b)[k - u]
<1> DEFINE x == ByteBits(b)
           y == [k \in 1 .. 8 |-> IF k <= u THEN 0 ELSE x[k - u]]
<1>1. x \in [1 .. 8 -> Bit] /\ ByteOf(x) = b
  BY ByteBitsType, ByteOfByteBits
<1>. HIDE DEF x
<1>2. PICK x1 \in 0 .. 1 : x1 = x[1]
  BY <1>1 DEF Bit
<1>3. PICK x2 \in 0 .. 1 : x2 = x[2]
  BY <1>1 DEF Bit
<1>4. PICK x3 \in 0 .. 1 : x3 = x[3]
  BY <1>1 DEF Bit
<1>5. PICK x4 \in 0 .. 1 : x4 = x[4]
  BY <1>1 DEF Bit
<1>6. PICK x5 \in 0 .. 1 : x5 = x[5]
  BY <1>1 DEF Bit
<1>7. PICK x6 \in 0 .. 1 : x6 = x[6]
  BY <1>1 DEF Bit
<1>8. PICK x7 \in 0 .. 1 : x7 = x[7]
  BY <1>1 DEF Bit
<1>9. PICK x8 \in 0 .. 1 : x8 = x[8]
  BY <1>1 DEF Bit
<1>10. b = 128 * x1 + 64 * x2 + 32 * x3 + 16 * x4 + 8 * x5 + 4 * x6 + 2 * x7 + x8 /\ b \in Int
  BY <1>1, <1>2, <1>3, <1>4, <1>5, <1>6, <1>7, <1>8, <1>9 DEF ByteOf, Byte
<1>11. y \in [1 .. 8 -> Bit]
  <2>1. \A k \in 1 .. 8 : k > u => k - u \in 1 .. 8
    OBVIOUS
  <2>. QED BY <1>1, <2>1 DEF Bit
<1>12. \A k \in 1 .. 8 : y[k] = IF k <= u THEN 0 ELSE x[k - u]
  OBVIOUS
<1>. HIDE DEF y
<1>13. ShiftRight(b, u) = ByteOf(y)
  <2>0. CASE u = 0
    <3>1. /\ y[1] = x1 /\ y[2] = x2 /\ y[3] = x3 /\ y[4] = x4
          /\ y[5] = x5 /\ y[6] = x6 /\ y[7] = x7 /\ y[8] = x8
      BY <1>2, <1>3, <1>4, <1>5, <1>6, <1>7, <1>8, <1>9, <1>12, <2>0
    <3>2. ShiftRight(b, u) = 128 * x1 + 64 * x2 + 32 * x3 + 16 * x4 + 8 * x5 + 4 * x6 + 2 * x7 + x8
      BY <1>10, <2>0 DEF ShiftRight, Byte
    <3>. QED BY <3>1, <3>2 DEF ByteOf
  <2>1. CASE u = 1
    <3>1. /\ y[1] = 0 /\ y[2] = x1 /\ y[3] = x2 /\ y[4] = x3
          /\ y[5] = x4 /\ y[6] = x5 /\ y[7] = x6 /\ y[8] = x7
      BY <1>2, <1>3, <1>4, <1>5, <1>6, <1>7, <1>8, <1>9, <1>12, <2>1, SMTT(30)
    <3>2. ShiftRight(b, u) = 64 * x1 + 32 * x2 + 16 * x3 + 8 * x4 + 4 * x5 + 2 * x6 + x7
      BY <1>10, <2>1, BitArithmetic DEF ShiftRight, Byte
    <3>. QED BY <3>1, <3>2 DEF ByteOf
  <2>2. CASE u = 2
    <3>1. /\ y[1] = 0 /\ y[2] = 0 /\ y[3] = x1 /\ y[4] = x2
          /\ y[5] = x3 /\ y[6] = x4 /\ y[7] = x5 /\ y[8] = x6
      BY <1>2, <1>3, <1>4, <1>5, <1>6, <1>7, <1>8, <1>9, <1>12, <2>2, SMTT(30)
    <3>2. ShiftRight(b, u) = 32 * x1 + 16 * x2 + 8 * x3 + 4 * x4 + 2 * x5 + x6
      BY <1>10, <2>2, BitArithmetic DEF ShiftRight, Byte
    <3>. QED BY <3>1, <3>2 DEF ByteOf
  <2>3. CASE u = 3
    <3>1. /\ y[1] = 0 /\ y[2] = 0 /\ y[3] = 0 /\ y[4] = x1
          /\ y[5] = x2 /\ y[6] = x3 /\ y[7] = x4 /\ y[8] = x5
      BY <1>2, <1>3, <1>4, <1>5, <1>6, <1>7, <1>8, <1>9, <1>12, <2>3, SMTT(30)
    <3>2. ShiftRight(b, u) = 16 * x1 + 8 * x2 + 4 * x3 + 2 * x4 + x5
      BY <1>10, <2>3, BitArithmetic DEF ShiftRight, Byte
    <3>. QED BY <3>1, <3>2 DEF ByteOf
  <2>4. CASE u = 4
    <3>1. /\ y[1] = 0 /\ y[2] = 0 /\ y[3] = 0 /\ y[4] = 0
          /\ y[5] = x1 /\ y[6] = x2 /\ y[7] = x3 /\ y[8] = x4
      BY <1>2, <1>3, <1>4, <1>5, <1>6, <1>7, <1>8, <1>9, <1>12, <2>4, SMTT(30)
    <3>2. ShiftRight(b, u) = 8 * x1 + 4 * x2 + 2 * x3 + x4
      BY <1>10, <2>4, BitArithmetic DEF ShiftRight, Byte
    <3>. QED BY <3>1, <3>2 DEF ByteOf
  <2>5. CASE u = 5
    <3>1. /\ y[1] = 0 /\ y[2] = 0 /\ y[3] = 0 /\ y[4] = 0
          /\ y[5] = 0 /\ y[6] = x1 /\ y[7] = x2 /\ y[8] = x3
      BY <1>2, <1>3, <1>4, <1>5, <1>6, <1>7, <1>8, <1>9, <1>12, <2>5, SMTT(30)
    <3>2. ShiftRight(b, u) = 4 * x1 + 2 * x2 + x3
      BY <1>10, <2>5, BitArithmetic DEF ShiftRight, Byte
    <3>. QED BY <3>1, <3>2 DEF ByteOf
  <2>6. CASE u = 6
    <3>1. /\ y[1] = 0 /\ y[2] = 0 /\ y[3] = 0 /\ y[4] = 0
          /\ y[5] = 0 /\ y[6] = 0 /\ y[7] = x1 /\ y[8] = x2
      BY <1>2, <1>3, <1>4, <1>5, <1>6, <1>7, <1>8, <1>9, <1>12, <2>6, SMTT(30)
    <3>2. ShiftRight(b, u) = 2 * x1 + x2
      BY <1>10, <2>6, BitArithmetic DEF ShiftRight, Byte
    <3>. QED BY <3>1, <3>2 DEF ByteOf
  <2>7. CASE u = 7
    <3>1. /\ y[1] = 0 /\ y[2] = 0 /\ y[3] = 0 /\ y[4] = 0
          /\ y[5] = 0 /\ y[6] = 0 /\ y[7] = 0 /\ y[8] = x1
      BY <1>2, <1>3, <1>4, <1>5, <1>6, <1>7, <1>8, <1>9, <1>12, <2>7, SMTT(30)
    <3>2. ShiftRight(b, u) = x1
      BY <1>10, <2>7, BitArithmetic DEF ShiftRight, Byte
    <3>. QED BY <3>1, <3>2 DEF ByteOf
  <2>. QED BY <2>0, <2>1, <2>2, <2>3, <2>4, <2>5, <2>6, <2>7
<1>14. ByteOf(y) \in Byte /\ ByteBits(ByteOf(y)) = y
  BY <1>11, ByteOfBits
<1>. QED BY <1>12, <1>13, <1>14 DEF x

LEMMA ShiftLeftBits ==
  ASSUME NEW b \in Byte, NEW u \in 0 .. 7
  PROVE  /\ ShiftLeft(b, u) \in Byte
         /\ \A k \in 1 .. 8 :
               ByteBits(ShiftLeft(b, u))[k] = IF k > 8 - u THEN 0 ELSE ByteBits(b)[k + u]
<1> DEFINE x == ByteBits(b)
           y == [k \in 1 .. 8 |-> IF k > 8 - u THEN 0 ELSE x[k + u]]
<1>1. x \in [1 .. 8 -> Bit] /\ ByteOf(x) = b
  BY ByteBitsType, ByteOfByteBits
<1>. HIDE DEF x
<1>2. PICK x1 \in 0 .. 1 : x1 = x[1]
  BY <1>1 DEF Bit
<1>3. PICK x2 \in 0 .. 1 : x2 = x[2]
  BY <1>1 DEF Bit
<1>4. PICK x3 \in 0 .. 1 : x3 = x[3]
  BY <1>1 DEF Bit
<1>5. PICK x4 \in 0 .. 1 : x4 = x[4]
  BY <1>1 DEF Bit
<1>6. PICK x5 \in 0 .. 1 : x5 = x[5]
  BY <1>1 DEF Bit
<1>7. PICK x6 \in 0 .. 1 : x6 = x[6]
  BY <1>1 DEF Bit
<1>8. PICK x7 \in 0 .. 1 : x7 = x[7]
  BY <1>1 DEF Bit
<1>9. PICK x8 \in 0 .. 1 : x8 = x[8]
  BY <1>1 DEF Bit
<1>10. b = 128 * x1 + 64 * x2 + 32 * x3 + 16 * x4 + 8 * x5 + 4 * x6 + 2 * x7 + x8 /\ b \in Int
  BY <1>1, <1>2, <1>3, <1>4, <1>5, <1>6, <1>7, <1>8, <1>9 DEF ByteOf, Byte
<1>11. y \in [1 .. 8 -> Bit]
  <2>1. \A k \in 1 .. 8 : k <= 8 - u => k + u \in 1 .. 8
    OBVIOUS
  <2>. QED BY <1>1, <2>1 DEF Bit
<1>12. \A k \in 1 .. 8 : y[k] = IF k > 8 - u THEN 0 ELSE x[k + u]
  OBVIOUS
<1>. HIDE DEF y
<1>13. ShiftLeft(b, u) = ByteOf(y)
  <2>0. CASE u = 0
    <3>1. /\ y[1] = x1 /\ y[2] = x2 /\ y[3] = x3 /\ y[4] = x4
          /\ y[5] = x5 /\ y[6] = x6 /\ y[7] = x7 /\ y[8] = x8
      BY <1>2, <1>3, <1>4, <1>5, <1>6, <1>7, <1>8, <1>9, <1>12, <2>0
    <3>2. ShiftLeft(b, u) = 128 * x1 + 64 * x2 + 32 * x3 + 16 * x4 + 8 * x5 + 4 * x6 + 2 * x7 + x8
      BY <1>10, <2>0 DEF ShiftLeft, Byte
    <3>. QED BY <3>1, <3>2 DEF ByteOf
  <2>1. CASE u = 1
    <3>1. /\ y[1] = x2 /\ y[2] = x3 /\ y[3] = x4 /\ y[4] = x5
          /\ y[5] = x6 /\ y[6] = x7 /\ y[7] = x8 /\ y[8] = 0
      BY <1>2, <1>3, <1>4, <1>5, <1>6, <1>7, <1>8, <1>9, <1>12, <2>1, SMTT(30)
    <3>2. ShiftLeft(b, u) = 128 * x2 + 64 * x3 + 32 * x4 + 16 * x5 + 8 * x6 + 4 * x7 + 2 * x8
      BY <1>10, <2>1, BitArithmetic DEF ShiftLeft, Byte
    <3>. QED BY <3>1, <3>2 DEF ByteOf
  <2>2. CASE u = 2
    <3>1. /\ y[1] = x3 /\ y[2] = x4 /\ y[3] = x5 /\ y[4] = x6
          /\ y[5] = x7 /\ y[6] = x8 /\ y[7] = 0 /\ y[8] = 0
      BY <1>2, <1>3, <1>4, <1>5, <1>6, <1>7, <1>8, <1>9, <1>12, <2>2, SMTT(30)
    <3>2. ShiftLeft(b, u) = 128 * x3 + 64 * x4 + 32 * x5 + 16 * x6 + 8 * x7 + 4 * x8
      BY <1>10, <2>2, BitArithmetic DEF ShiftLeft, Byte
    <3>. QED BY <3>1, <3>2 DEF ByteOf
  <2>3. CASE u = 3
    <3>1. /\ y[1] = x4 /\ y[2] = x5 /\ y[3] = x6 /\ y[4] = x7
          /\ y[5] = x8 /\ y[6] = 0 /\ y[7] = 0 /\ y[8] = 0
      BY <1>2, <1>3, <1>4, <1>5, <1>6, <1>7, <1>8, <1>9, <1>12, <2>3, SMTT(30)
    <3>2. ShiftLeft(b, u) = 128 * x4 + 64 * x5 + 32 * x6 + 16 * x7 + 8 * x8
      BY <1>10, <2>3, BitArithmetic DEF ShiftLeft, Byte
    <3>. QED BY <3>1, <3>2 DEF ByteOf
  <2>4. CASE u = 4
    <3>1. /\ y[1] = x5 /\ y[2] = x6 /\ y[3] = x7 /\ y[4] = x8
          /\ y[5] = 0 /\ y[6] = 0 /\ y[7] = 0 /\ y[8] = 0
      BY <1>2, <1>3, <1>4, <1>5, <1>6, <1>7, <1>8, <1>9, <1>12, <2>4, SMTT(30)
    <3>2. ShiftLeft(b, u) = 128 * x5 + 64 * x6 + 32 * x7 + 16 * x8
      BY <1>10, <2>4, BitArithmetic DEF ShiftLeft, Byte
    <3>. QED BY <3>1, <3>2 DEF ByteOf
  <2>5. CASE u = 5
    <3>1. /\ y[1] = x6 /\ y[2] = x7 /\ y[3] = x8 /\ y[4] = 0
          /\ y[5] = 0 /\ y[6] = 0 /\ y[7] = 0 /\ y[8] = 0
      BY <1>2, <1>3, <1>4, <1>5, <1>6, <1>7, <1>8, <1>9, <1>12, <2>5, SMTT(30)
    <3>2. ShiftLeft(b, u) = 128 * x6 + 64 * x7 + 32 * x8
      BY <1>10, <2>5, BitArithmetic DEF ShiftLeft, Byte
    <3>. QED BY <3>1, <3>2 DEF ByteOf
  <2>6. CASE u = 6
    <3>1. /\ y[1] = x7 /\ y[2] = x8 /\ y[3] = 0 /\ y[4] = 0
          /\ y[5] = 0 /\ y[6] = 0 /\ y[7] = 0 /\ y[8] = 0
      BY <1>2, <1>3, <1>4, <1>5, <1>6, <1>7, <1>8, <1>9, <1>12, <2>6, SMTT(30)
    <3>2. ShiftLeft(b, u) = 128 * x7 + 64 * x8
      BY <1>10, <2>6, BitArithmetic DEF ShiftLeft, Byte
    <3>. QED BY <3>1, <3>2 DEF ByteOf
  <2>7. CASE u = 7
    <3>1. /\ y[1] = x8 /\ y[2] = 0 /\ y[3] = 0 /\ y[4] = 0
          /\ y[5] = 0 /\ y[6] = 0 /\ y[7] = 0 /\ y[8] = 0
      BY <1>2, <1>3, <1>4, <1>5, <1>6, <1>7, <1>8, <1>9, <1>12, <2>7, SMTT(30)
    <3>2. ShiftLeft(b, u) = 128 * x8
      BY <1>10, <2>7, BitArithmetic DEF ShiftLeft, Byte
    <3>. QED BY <3>1, <3>2 DEF ByteOf
  <2>. QED BY <2>0, <2>1, <2>2, <2>3, <2>4, <2>5, <2>6, <2>7
<1>14. ByteOf(y) \in Byte /\ ByteBits(ByteOf(y)) = y
  BY <1>11, ByteOfBits
<1>. QED BY <1>12, <1>13, <1>14 DEF x

LEMMA OrBits ==
  ASSUME NEW a \in Byte, NEW b \in Byte
  PROVE  /\ (a | b) \in Byte
         /\ \A k \in 1 .. 8 :
               ByteBits(a | b)[k] = IF ByteBits(a)[k] = 1 THEN 1 ELSE ByteBits(b)[k]
<1> DEFINE z == [k \in 1 .. 8 |-> IF ByteBits(a)[k] = 1 THEN 1 ELSE ByteBits(b)[k]]
<1>1. z \in [1 .. 8 -> Bit]
  BY ByteBitsType DEF Bit
<1>2. (a | b) = ByteOf(z)
  BY DEF |
<1>3. ByteOf(z) \in Byte /\ ByteBits(ByteOf(z)) = z
  <2>. HIDE DEF z
  <2>. QED BY <1>1, ByteOfBits
<1>. QED BY <1>2, <1>3

LEMMA BitsOfBytes ==
  ASSUME NEW bytes \in Seq(Byte)
  PROVE  /\ BitsOf(bytes) \in Seq(Bit) /\ Len(BitsOf(bytes)) = 8 * Len(bytes)
         /\ \A j \in 1 .. Len(bytes), k \in 1 .. 8 :
               BitsOf(bytes)[8 * (j - 1) + k] = ByteBits(bytes[j])[k]
<1> DEFINE n == Len(bytes)
           b(i) == ByteBits(bytes[(i + 7) \div 8])[((i - 1) % 8) + 1]
<1>1. n \in Nat
  OBVIOUS
<1>2. \A i \in 1 .. 8 * n : (i + 7) \div 8 \in 1 .. n /\ ((i - 1) % 8) + 1 \in 1 .. 8
  BY <1>1
<1>3. \A i \in 1 .. 8 * n : b(i) \in Bit
  <2>. TAKE i \in 1 .. 8 * n
  <2>1. bytes[(i + 7) \div 8] \in Byte
    BY <1>2, ElementOfSeq
  <2>. QED BY <1>2, <2>1, ByteBitsType, SMTT(30)
<1>4. BitsOf(bytes) = [i \in 1 .. 8 * n |-> b(i)]
  BY DEF BitsOf
<1>5. BitsOf(bytes) \in Seq(Bit) /\ Len(BitsOf(bytes)) = 8 * n
  <2>. HIDE DEF b
  <2>1. 8 * n \in Nat
    BY <1>1
  <2>. QED BY <1>3, <1>4, <2>1
<1>6. ASSUME NEW j \in 1 .. n, NEW k \in 1 .. 8
      PROVE  BitsOf(bytes)[8 * (j - 1) + k] = ByteBits(bytes[j])[k]
  <2>1. PICK i \in 1 .. 8 * n : i = 8 * (j - 1) + k
    BY <1>1
  <2>2. (i + 7) \div 8 = j /\ ((i - 1) % 8) + 1 = k
    <3>1. i + 7 = 8 * j + (k - 1) /\ i - 1 = 8 * (j - 1) + (k - 1) /\ k - 1 \in 0 .. 7 /\ j \in Int
      BY <1>1, <2>1
    <3>. QED BY <3>1
  <2>. QED BY <1>4, <2>1, <2>2
<1>. QED BY <1>5, <1>6

LEMMA BytesOfBits ==
  ASSUME NEW bits \in Seq(Bit), NEW m \in Nat, Len(bits) = 8 * m
  PROVE  BytesOf(bits) \in Seq(Byte) /\ BitsOf(BytesOf(bits)) = bits
<1> DEFINE x(j) == [k \in 1 .. 8 |-> bits[8 * (j - 1) + k]]
           bytes == BytesOf(bits)
<1>1. Len(bits) \div 8 = m
  OBVIOUS
<1>2. bytes = [j \in 1 .. m |-> ByteOf(x(j))]
  BY <1>1 DEF BytesOf
<1>3. \A j \in 1 .. m : x(j) \in [1 .. 8 -> Bit]
  <2>. TAKE j \in 1 .. m
  <2>1. \A k \in 1 .. 8 : 8 * (j - 1) + k \in 1 .. Len(bits)
    OBVIOUS
  <2>2. \A k \in 1 .. 8 : bits[8 * (j - 1) + k] \in Bit
    BY <2>1, ElementOfSeq
  <2>. QED BY <2>2
<1>4. \A j \in 1 .. m : ByteOf(x(j)) \in Byte /\ ByteBits(ByteOf(x(j))) = x(j)
  <2>. HIDE DEF x
  <2>. QED BY <1>3, ByteOfBits
<1>5. bytes \in Seq(Byte) /\ Len(bytes) = m
  <2>. HIDE DEF x
  <2>. QED BY <1>2, <1>4
<1>6. /\ BitsOf(bytes) \in Seq(Bit) /\ Len(BitsOf(bytes)) = 8 * m
      /\ \A j \in 1 .. m, k \in 1 .. 8 : BitsOf(bytes)[8 * (j - 1) + k] = ByteBits(bytes[j])[k]
  <2>. HIDE DEF bytes
  <2>. QED BY <1>5, BitsOfBytes
<1>7. ASSUME NEW i \in 1 .. 8 * m
      PROVE  BitsOf(bytes)[i] = bits[i]
  <2>1. PICK j \in 1 .. m, k \in 1 .. 8 : i = 8 * (j - 1) + k
    <3>1. (i + 7) \div 8 \in 1 .. m /\ ((i - 1) % 8) + 1 \in 1 .. 8
      OBVIOUS
    <3>2. i = 8 * ((i + 7) \div 8 - 1) + ((i - 1) % 8) + 1
      OBVIOUS
    <3>. QED BY <3>1, <3>2
  <2>2. BitsOf(bytes)[i] = ByteBits(bytes[j])[k]
    <3>. HIDE DEF bytes
    <3>. QED BY <1>6, <2>1
  <2>3. ByteBits(bytes[j]) = x(j)
    <3>. HIDE DEF x
    <3>. QED BY <1>2, <1>4
  <2>. QED BY <2>1, <2>2, <2>3
<1>. QED
  <2>. HIDE DEF bytes
  <2>. QED BY <1>5, <1>6, <1>7, SeqEqual DEF bytes

-----------------------------------------------------------------------------
(* The stream of the scripts.                                                *)

Streams == [data : Seq(Bit), bits : Nat, read : Nat, write : Nat]

LEMMA BytesForType ==
  ASSUME NEW n \in Nat
  PROVE  BytesFor(n) \in Nat /\ 8 * BytesFor(n) \in Nat /\ n <= 8 * BytesFor(n)
  BY DEF BytesFor

LEMMA FromBytesType ==
  ASSUME NEW bytes \in Seq(Byte)
  PROVE  FromBytes(bytes) \in Streams
<1>1. BitsOf(bytes) \in Seq(Bit) /\ 8 * Len(bytes) \in Nat
  BY BitsOfBytes
<1>. QED BY <1>1 DEF FromBytes, Streams

\* A resize keeps what there is and adds zeroes.
LEMMA ResizedKeeps ==
  ASSUME NEW S, 0 \in S, NEW data \in Seq(S), NEW n \in Nat
  PROVE  /\ Resized(data, n) \in Seq(S)
         /\ Len(Resized(data, n)) = IF n <= Len(data) THEN Len(data) ELSE n
         /\ \A i \in 1 .. Len(data) : Resized(data, n)[i] = data[i]
         /\ \A i \in 1 .. n : i > Len(data) => Resized(data, n)[i] = 0
<1> DEFINE more == n - Lesser(n, Len(data))
<1>1. more \in Nat /\ more = IF n <= Len(data) THEN 0 ELSE n - Len(data)
  BY DEF Lesser
<1>2. Zeros(more) \in Seq(S) /\ Len(Zeros(more)) = more /\ \A i \in 1 .. more : Zeros(more)[i] = 0
  <2>. HIDE DEF more
  <2>. QED BY <1>1 DEF Zeros
<1>3. Resized(data, n) = data \o Zeros(more)
  BY DEF Resized
<1>. HIDE DEF more
<1>4. PICK z \in Seq(S) : z = Zeros(more) /\ Len(z) = more /\ \A i \in 1 .. more : z[i] = 0
  BY <1>2
<1>5. /\ data \o z \in Seq(S) /\ Len(data \o z) = Len(data) + Len(z)
      /\ \A i \in 1 .. Len(data) + Len(z) : (data \o z)[i] = IF i <= Len(data) THEN data[i] ELSE z[i - Len(data)]
  BY ConcatProperties
<1>6. \A i \in 1 .. Len(data) : i \in 1 .. Len(data) + Len(z)
  OBVIOUS
<1>7. ASSUME NEW i \in 1 .. n, i > Len(data)
      PROVE  Resized(data, n)[i] = 0
  <2>1. i \in 1 .. Len(data) + Len(z) /\ i - Len(data) \in 1 .. more
    BY <1>1, <1>4, <1>7
  <2>. QED BY <1>3, <1>4, <1>5, <1>7, <2>1
<1>. QED BY <1>1, <1>3, <1>4, <1>5, <1>6, <1>7

\* A write changes no bit but those it writes, and forgets none.
LEMMA WriteAtKeeps ==
  ASSUME NEW s \in Streams, NEW new \in Seq(Bit)
  PROVE  /\ WriteAt(s, new) \in Streams
         /\ s.bits <= WriteAt(s, new).bits /\ Len(s.data) <= Len(WriteAt(s, new).data)
         /\ \A i \in 1 .. Len(s.data) :
               i \notin s.write + 1 .. s.write + Len(new) => WriteAt(s, new).data[i] = s.data[i]
<1> DEFINE end   == s.write + Len(new)
           grown == IF new = << >> THEN s.data ELSE Resized(s.data, 8 * BytesFor(end))
           t     == WriteAt(s, new)
<1>1. s.data \in Seq(Bit) /\ s.bits \in Nat /\ s.read \in Nat /\ s.write \in Nat /\ Len(new) \in Nat
      /\ Len(s.data) \in Nat
  BY DEF Streams
<1>2. end \in Nat
  BY <1>1
<1>3. /\ grown \in Seq(Bit) /\ Len(s.data) <= Len(grown)
      /\ \A i \in 1 .. Len(s.data) : grown[i] = s.data[i]
  <2>1. PICK n \in Nat : n = 8 * BytesFor(end)
    BY <1>2, BytesForType
  <2>2. 0 \in Bit
    BY DEF Bit
  <2>3. /\ Resized(s.data, n) \in Seq(Bit) /\ Len(s.data) <= Len(Resized(s.data, n))
        /\ \A i \in 1 .. Len(s.data) : Resized(s.data, n)[i] = s.data[i]
    BY <1>1, <2>2, ResizedKeeps
  <2>. QED BY <1>1, <2>1, <2>3
<1>4. t.data = [i \in 1 .. Len(grown) |-> IF i \in s.write + 1 .. end THEN new[i - s.write] ELSE grown[i]]
  BY DEF WriteAt, Overwritten, Streams
<1>5. t = [data |-> t.data, bits |-> IF end > s.bits THEN end ELSE s.bits, read |-> s.read, write |-> end]
  <2>1. PICK D : D = Overwritten(s.data, s.write, new)
    OBVIOUS
  <2>2. t = [s EXCEPT !.data = D, !.write = end, !.bits = IF end > s.bits THEN end ELSE s.bits]
    BY <2>1 DEF WriteAt
  <2>3. s = [data |-> s.data, bits |-> s.bits, read |-> s.read, write |-> s.write]
    BY DEF Streams
  <2>. HIDE DEF end, t
  <2>. QED BY <2>2, <2>3
<1>. HIDE DEF grown
<1>6. ASSUME NEW i \in 1 .. Len(grown)
      PROVE  t.data[i] \in Bit
  <2>1. grown[i] \in Bit
    BY <1>3, ElementOfSeq
  <2>2. ASSUME i \in s.write + 1 .. end PROVE new[i - s.write] \in Bit
    <3>1. i - s.write \in 1 .. Len(new)
      BY <1>1, <2>2
    <3>. QED BY <3>1, ElementOfSeq
  <2>. QED BY <1>4, <2>1, <2>2
<1>7. t.data \in Seq(Bit) /\ Len(t.data) = Len(grown)
  <2>1. t.data = [i \in 1 .. Len(grown) |-> t.data[i]] /\ Len(grown) \in Nat
    BY <1>3, <1>4
  <2>. HIDE DEF t
  <2>. QED BY <1>6, <2>1, IsASeq
<1>8. \A i \in 1 .. Len(s.data) : i \notin s.write + 1 .. end => t.data[i] = s.data[i]
  <2>1. \A i \in 1 .. Len(s.data) : i \in 1 .. Len(grown)
    BY <1>1, <1>3
  <2>. QED BY <1>3, <1>4, <2>1
<1>9. t \in Streams /\ s.bits <= t.bits
  <2>. HIDE DEF t
  <2>. QED BY <1>1, <1>2, <1>5, <1>7 DEF Streams
<1>. QED BY <1>3, <1>7, <1>8, <1>9

\* Moving a cursor, or reading, leaves the bits alone.
LEMMA CursorsMove ==
  ASSUME NEW s \in Streams, NEW n \in Nat
  PROVE  /\ \A t \in {SetReadOffset(s, n), SetWriteOffset(s, n), IgnoreBits(s, n), ReadAt(s, n).s, AfterEncoded(s),
                      [s EXCEPT !.write = 8 * BytesFor(@)]} :
               t \in Streams /\ t.data = s.data /\ t.bits = s.bits
<1>1. s.data \in Seq(Bit) /\ s.bits \in Nat /\ s.read \in Nat /\ s.write \in Nat
  BY DEF Streams
<1>2. s.read + n \in Nat
  BY <1>1
<1>3. 8 * BytesFor(s.write) \in Nat
  BY <1>1, BytesForType
<1>. QED BY <1>1, <1>2, <1>3 DEF Streams, SetReadOffset, SetWriteOffset, IgnoreBits, ReadAt, AfterEncoded

-----------------------------------------------------------------------------
(* The inductive invariant.                                                  *)

\* Of the bits that came, those outside `written` are among the first `count`
\* of `bits`, as they came.
Intact(came, bits, count, written) ==
    \A i \in 1 .. Len(came) :
        i \notin written => i <= count /\ i <= Len(bits) /\ bits[i] = came[i]

\* The body, and the stream of scripts that run, keep what no script wrote:
\* the stream is what the body becomes, so that the body alone says too little.
BodyIntact ==
    body \in Seq(Byte) /\ Intact(BitsOf(payload), BitsOf(body), Len(BitsOf(body)), touched)
StreamIntact ==
    stream \in Streams /\ Intact(BitsOf(payload), stream.data, stream.bits, touched)

IntactInv ==
    /\ payload \in Seq(Byte)
    /\ ~replaced => BodyIntact /\ (running > 0 => StreamIntact)

\* What is written later, or is written in a bit there was, takes nothing away.
LEMMA IntactGrows ==
  ASSUME NEW came \in Seq(Bit), NEW bits \in Seq(Bit), NEW more \in Seq(Bit),
         NEW n \in Nat, NEW m \in Nat, n <= m, Len(bits) <= Len(more),
         NEW written, NEW all, written \subseteq all,
         \A i \in 1 .. Len(bits) : i \notin all => more[i] = bits[i],
         Intact(came, bits, n, written)
  PROVE  Intact(came, more, m, all)
<1> SUFFICES ASSUME NEW i \in 1 .. Len(came), i \notin all
             PROVE  i <= m /\ i <= Len(more) /\ more[i] = came[i]
  BY DEF Intact
<1>1. i <= n /\ i <= Len(bits) /\ bits[i] = came[i]
  BY DEF Intact
<1>2. i \in 1 .. Len(bits)
  BY <1>1
<1>. QED BY <1>1, <1>2

LEMMA IntactInit == Init => IntactInv
<1> SUFFICES ASSUME Init PROVE IntactInv
  OBVIOUS
<1>1. payload \in Seq(Byte)
  <2>1. PICK s \in Starts : /\ cut = (s.cut /\ Wire(s.message) # << >>)
                            /\ payload = IF cut THEN Cut(Wire(s.message)) ELSE Wire(s.message)
    BY DEF Init
  <2>2. PICK wire \in Seq(Byte) : wire = Wire(s.message)
    BY HandlerChainAssumption
  <2>3. cut => wire # << >>
    BY <2>1, <2>2
  <2>. QED BY <2>1, <2>2, <2>3 DEF Cut
<1>2. body = payload /\ running = 0
  BY DEF Init
<1>3. PICK came \in Seq(Bit) : came = BitsOf(payload)
  BY <1>1, BitsOfBytes
<1>4. Intact(came, came, Len(came), touched)
  BY DEF Intact
<1>. QED BY <1>1, <1>2, <1>3, <1>4 DEF IntactInv, BodyIntact

\* A dirty stream leaves the bits of its buffer as the body.
LEMMA TakenBitsOf ==
  ASSUME NEW s \in Streams, CanTakeBytes(s)
  PROVE  /\ BytesOf(TakenBits(s)) \in Seq(Byte)
         /\ LET taken == BitsOf(BytesOf(TakenBits(s))) IN
               s.bits <= Len(taken) /\ \A i \in 1 .. s.bits : taken[i] = s.data[i]
<1>1. s.data \in Seq(Bit) /\ s.bits \in Nat
  BY DEF Streams
<1>2. PICK m \in Nat : m = BytesFor(s.bits) /\ s.bits <= 8 * m /\ 8 * m <= Len(s.data)
  BY <1>1, BytesForType DEF CanTakeBytes
<1>3. PICK t : t = TakenBits(s)
  OBVIOUS
<1>4. t \in Seq(Bit) /\ Len(t) = 8 * m /\ \A i \in 1 .. 8 * m : t[i] = s.data[i]
  <2>1. t = SubSeq(s.data, 1, 8 * m)
    BY <1>2, <1>3 DEF TakenBits
  <2>. QED BY <1>1, <1>2, <2>1
<1>5. BytesOf(t) \in Seq(Byte) /\ BitsOf(BytesOf(t)) = t
  BY <1>4, BytesOfBits
<1>. QED BY <1>1, <1>2, <1>3, <1>4, <1>5

\* A script's operation that leaves every bit outside `all`.
LEMMA StreamStep ==
  ASSUME IntactInv, ~replaced, running > 0, NEW s \in Streams, NEW all, touched \subseteq all,
         stream.bits <= s.bits, Len(stream.data) <= Len(s.data),
         \A i \in 1 .. Len(stream.data) : i \notin all => s.data[i] = stream.data[i]
  PROVE  Intact(BitsOf(payload), s.data, s.bits, all)
<1>1. stream \in Streams /\ Intact(BitsOf(payload), stream.data, stream.bits, touched)
  BY DEF IntactInv, StreamIntact
<1>2. PICK came \in Seq(Bit) : came = BitsOf(payload)
  BY BitsOfBytes DEF IntactInv
<1>3. stream.data \in Seq(Bit) /\ s.data \in Seq(Bit) /\ stream.bits \in Nat /\ s.bits \in Nat
  BY <1>1 DEF Streams
<1>. QED BY <1>1, <1>2, <1>3, IntactGrows, SMTT(30)

\* The body, which a running script does not change, keeps what is not written.
LEMMA BodyStays ==
  ASSUME IntactInv, ~replaced, NEW all, touched \subseteq all
  PROVE  Intact(BitsOf(payload), BitsOf(body), Len(BitsOf(body)), all)
<1>1. body \in Seq(Byte) /\ Intact(BitsOf(payload), BitsOf(body), Len(BitsOf(body)), touched)
  BY DEF IntactInv, BodyIntact
<1>. QED BY <1>1 DEF Intact

\* One operation of the running script.
LEMMA ScriptOpStep ==
  ASSUME IntactInv, NEW s, NEW isDirty, ScriptOp(s, isDirty), touched \subseteq touched',
         ~replaced => /\ s \in Streams /\ stream.bits <= s.bits /\ Len(stream.data) <= Len(s.data)
                      /\ \A i \in 1 .. Len(stream.data) :
                            i \notin touched' => s.data[i] = stream.data[i]
  PROVE  IntactInv'
<1>1. /\ stream' = s /\ running > 0 /\ running' = running /\ body' = body /\ payload' = payload
      /\ replaced' = replaced
  BY DEF ScriptOp, bodyVars, senseVars
<1>2. payload \in Seq(Byte)
  BY DEF IntactInv
<1>3. ASSUME ~replaced PROVE BodyIntact' /\ StreamIntact'
  <2>1. PICK all : all = touched'
    OBVIOUS
  <2>2. Intact(BitsOf(payload), s.data, s.bits, all)
    BY <1>1, <1>3, <2>1, StreamStep
  <2>3. Intact(BitsOf(payload), BitsOf(body), Len(BitsOf(body)), all) /\ body \in Seq(Byte)
    BY <1>3, <2>1, BodyStays DEF IntactInv, BodyIntact
  <2>. QED BY <1>1, <1>3, <2>1, <2>2, <2>3 DEF BodyIntact, StreamIntact
<1>. QED BY <1>1, <1>2, <1>3 DEF IntactInv

\* What the invariant says of the stream of a running script.
LEMMA StreamOfScript ==
  ASSUME IntactInv, ~replaced, running > 0
  PROVE  stream \in Streams /\ stream.data \in Seq(Bit) /\ stream.bits \in Nat /\ stream.write \in Nat
  BY DEF IntactInv, StreamIntact, Streams

\* A write touches the bits it changes.
LEMMA WriteStep ==
  ASSUME IntactInv, NEW s, NEW new \in Seq(Bit), NEW from,
         ScriptOp(WriteAt(s, new), TRUE), Touch(from, Len(new)),
         ~replaced /\ running > 0 => /\ s \in Streams /\ s.write = from
                                    /\ s.data = stream.data /\ s.bits = stream.bits
  PROVE  IntactInv'
<1>1. PICK t : t = WriteAt(s, new)
  OBVIOUS
<1>2. ScriptOp(t, TRUE) /\ running > 0
  BY <1>1 DEF ScriptOp
<1>3. touched' = touched \cup (from + 1 .. from + Len(new))
  BY DEF Touch
<1>4. ASSUME ~replaced
      PROVE  /\ t \in Streams /\ stream.bits <= t.bits /\ Len(stream.data) <= Len(t.data)
             /\ \A i \in 1 .. Len(stream.data) : i \notin touched' => t.data[i] = stream.data[i]
  <2>1. s \in Streams /\ s.data = stream.data /\ s.bits = stream.bits /\ s.write = from
    BY <1>2, <1>4
  <2>2. /\ t \in Streams /\ s.bits <= t.bits /\ Len(s.data) <= Len(t.data)
        /\ \A i \in 1 .. Len(s.data) : i \notin s.write + 1 .. s.write + Len(new) => t.data[i] = s.data[i]
    BY <1>1, <2>1, WriteAtKeeps
  <2>. QED BY <1>3, <2>1, <2>2
<1>. QED BY <1>2, <1>3, <1>4, ScriptOpStep

\* A cursor's move touches nothing.
LEMMA CursorStep ==
  ASSUME IntactInv, NEW s, NEW isDirty, ScriptOp(s, isDirty), UNCHANGED touched,
         ~replaced /\ running > 0 => s \in Streams /\ s.data = stream.data /\ s.bits = stream.bits
  PROVE  IntactInv'
<1>1. running > 0
  BY DEF ScriptOp
<1>2. ASSUME ~replaced
      PROVE  s \in Streams /\ stream.bits <= s.bits /\ Len(stream.data) <= Len(s.data) /\ s.data = stream.data
  <2>1. Len(stream.data) \in Nat /\ stream.bits \in Nat
    BY <1>1, <1>2, StreamOfScript
  <2>. QED BY <1>1, <1>2, <2>1
<1>. QED BY <1>2, ScriptOpStep

\* A step that leaves body and stream alone and lets no script begin.
LEMMA QuietStep ==
  ASSUME IntactInv, UNCHANGED <<payload, body, replaced, stream, touched>>, running' > 0 => running > 0
  PROVE  IntactInv'
  BY DEF IntactInv, BodyIntact, StreamIntact

LEMMA IntactEnter == ASSUME IntactInv, EnterScripts PROVE IntactInv'
<1>1. UNCHANGED <<payload, body, replaced>> /\ running = 0
  BY DEF EnterScripts, Turn, bodyVars, senseVars
<1>2. CASE Scripts = 0
  BY <1>1, <1>2, QuietStep DEF EnterScripts, scriptVars
<1>3. CASE Scripts # 0
  <2>1. stream' = FromBytes(body) /\ touched' = touched
    BY <1>3 DEF EnterScripts
  <2>2. ASSUME ~replaced PROVE StreamIntact'
    <3>1. body \in Seq(Byte) /\ Intact(BitsOf(payload), BitsOf(body), Len(BitsOf(body)), touched)
      BY <2>2 DEF IntactInv, BodyIntact
    <3>2. stream' \in Streams
      BY <2>1, <3>1, FromBytesType
    <3>3. stream'.data = BitsOf(body) /\ stream'.bits = Len(BitsOf(body))
      BY <2>1, <3>1, BitsOfBytes DEF FromBytes
    <3>. QED BY <1>1, <2>1, <3>1, <3>2, <3>3 DEF StreamIntact
  <2>. QED BY <1>1, <2>1, <2>2 DEF IntactInv, BodyIntact
<1>. QED BY <1>2, <1>3

LEMMA IntactReset == ASSUME IntactInv, ScriptResets PROVE IntactInv'
<1>1. /\ stream' = EmptyStream /\ running > 0 /\ running' = running
      /\ UNCHANGED <<payload, body, replaced>>
  BY DEF ScriptResets, ScriptOp, bodyVars, senseVars
<1>2. payload \in Seq(Byte)
  BY DEF IntactInv
<1>3. touched' = touched \cup (0 + 1 .. 0 + 8 * Len(payload))
  BY DEF ScriptResets, Touch
<1>4. \A i \in 1 .. Len(BitsOf(payload)) : i \in touched'
  <2>1. Len(BitsOf(payload)) = 8 * Len(payload) /\ Len(payload) \in Nat
    BY <1>2, BitsOfBytes
  <2>. QED BY <1>3, <2>1
<1>5. stream' \in Streams
  <2>1. << >> \in Seq(Byte)
    OBVIOUS
  <2>. QED BY <1>1, <2>1, FromBytesType DEF EmptyStream
<1>6. ~replaced => BodyIntact' /\ StreamIntact'
  BY <1>1, <1>4, <1>5 DEF BodyIntact, StreamIntact, Intact, IntactInv
<1>. QED BY <1>1, <1>2, <1>6 DEF IntactInv

LEMMA IntactLeave == ASSUME IntactInv, LeaveScripts PROVE IntactInv'
<1>1. /\ UNCHANGED <<payload, replaced, touched>> /\ running > 0 /\ running' = 0
      /\ body' = IF dirty THEN BytesOf(TakenBits(stream)) ELSE body
      /\ dirty => CanTakeBytes(stream)
  BY DEF LeaveScripts, bodyVars, senseVars
<1>2. ASSUME ~replaced PROVE BodyIntact'
  <2>1. CASE ~dirty
    BY <1>1, <1>2, <2>1 DEF IntactInv, BodyIntact
  <2>2. CASE dirty
    <3>1. stream \in Streams /\ Intact(BitsOf(payload), stream.data, stream.bits, touched)
          /\ payload \in Seq(Byte) /\ stream.bits \in Nat
      BY <1>1, <1>2 DEF IntactInv, StreamIntact, Streams
    <3>2. PICK new : new = body'
      OBVIOUS
    <3>3. PICK bits : bits = BitsOf(new)
      OBVIOUS
    <3>4. new \in Seq(Byte) /\ stream.bits <= Len(bits) /\ \A i \in 1 .. stream.bits : bits[i] = stream.data[i]
      BY <1>1, <2>2, <3>1, <3>2, <3>3, TakenBitsOf
    <3>5. Len(bits) \in Nat
      BY <3>3, <3>4, BitsOfBytes
    <3>6. PICK came \in Seq(Bit) : came = BitsOf(payload)
      BY <3>1, BitsOfBytes
    <3>7. Intact(came, bits, Len(bits), touched)
      <4> SUFFICES ASSUME NEW i \in 1 .. Len(came), i \notin touched
                   PROVE  i <= Len(bits) /\ bits[i] = came[i]
        BY DEF Intact
      <4>1. i <= stream.bits /\ stream.data[i] = came[i]
        BY <3>1, <3>6 DEF Intact
      <4>2. i \in 1 .. stream.bits
        BY <3>1, <4>1
      <4>. QED BY <3>1, <3>4, <3>5, <4>1, <4>2
    <3>. QED BY <1>1, <3>2, <3>3, <3>4, <3>6, <3>7 DEF BodyIntact
  <2>. QED BY <2>1, <2>2
<1>. QED BY <1>1, <1>2 DEF IntactInv

LEMMA IntactStep == IntactInv /\ [Next]_vars => IntactInv'
<1> SUFFICES ASSUME IntactInv, [Next]_vars PROVE IntactInv'
  OBVIOUS
<1>1. CASE ScriptWrites
  <2>1. PICK bits \in Writes : ScriptOp(WriteAt(stream, bits), TRUE) /\ Touch(stream.write, Len(bits))
    BY <1>1 DEF ScriptWrites
  <2>2. bits \in Seq(Bit)
    BY HandlerChainAssumption DEF Bit
  <2>. QED BY <2>1, <2>2, StreamOfScript, WriteStep
<1>2. CASE ScriptWritesEncoded
  <2>1. PICK text \in Texts : LET bits == BitsOf(EncodeString(text)) IN
               ScriptOp(WriteEncoded(stream, bits), TRUE) /\ Touch(8 * BytesFor(stream.write), Len(bits))
    BY <1>2 DEF ScriptWritesEncoded
  <2>2. PICK bits \in Seq(Bit) : bits = BitsOf(EncodeString(text))
    BY HandlerChainAssumption, BitsOfBytes
  <2>3. PICK s : s = [stream EXCEPT !.write = 8 * BytesFor(@)]
    OBVIOUS
  <2>4. ScriptOp(WriteAt(s, bits), TRUE) /\ Touch(8 * BytesFor(stream.write), Len(bits))
    BY <2>1, <2>2, <2>3 DEF WriteEncoded
  <2>5. ASSUME ~replaced, running > 0
        PROVE  s \in Streams /\ s.data = stream.data /\ s.bits = stream.bits /\ s.write = 8 * BytesFor(stream.write)
    BY <2>3, <2>5, StreamOfScript, CursorsMove DEF Streams
  <2>. QED BY <2>4, <2>5, WriteStep
<1>3. CASE ScriptSeeksWrite
  BY <1>3, HandlerChainAssumption, StreamOfScript, CursorsMove, CursorStep DEF ScriptSeeksWrite
<1>4. CASE ScriptReads
  BY <1>4, HandlerChainAssumption, StreamOfScript, CursorsMove, CursorStep DEF ScriptReads
<1>5. CASE ScriptSeeksRead
  BY <1>5, HandlerChainAssumption, StreamOfScript, CursorsMove, CursorStep DEF ScriptSeeksRead
<1>6. CASE ScriptReadsEncoded
  BY <1>6, StreamOfScript, CursorsMove, CursorStep DEF ScriptReadsEncoded
<1>7. CASE ScriptSends \/ ScriptDrops \/ NextScript \/ TypedPasses \/ TypedDrops \/ Finish \/ UNCHANGED vars
  <2>1. UNCHANGED <<payload, body, replaced, stream, touched>> /\ (running' > 0 => running > 0)
    BY <1>7 DEF ScriptSends, ScriptDrops, Dropped, NextScript, TypedPasses, TypedDrops, Finish, vars,
                bodyVars, senseVars, scriptVars
  <2>. QED BY <2>1, QuietStep
<1>8. CASE TypedRewrites
  <2>1. payload' = payload /\ replaced'
    BY <1>8 DEF TypedRewrites, bodyVars
  <2>. QED BY <2>1 DEF IntactInv
<1>. QED BY <1>1, <1>2, <1>3, <1>4, <1>5, <1>6, <1>7, <1>8, IntactEnter, IntactReset, IntactLeave DEF Next

\* Whatever the scripts of a chokepoint read, write and queue, the bits of an
\* event that none of them wrote, and that no typed handler replaced, arrive as
\* they came, at their places (rwbitstream.rs, samp-script's bitstream.rs).
THEOREM UntouchedBitsArrive == Spec => []UntouchedBitsSurvive
<1>1. IntactInv => UntouchedBitsSurvive
  <2> SUFFICES ASSUME IntactInv, Through, ~replaced, NEW i \in DOMAIN BitsOf(payload), i \notin touched
               PROVE  i <= Len(BitsOf(Body)) /\ BitsOf(Body)[i] = BitsOf(payload)[i]
    BY DEF UntouchedBitsSurvive
  <2>1. BitsOf(payload) \in Seq(Bit)
    BY BitsOfBytes DEF IntactInv
  <2>2. i \in 1 .. Len(BitsOf(payload))
    BY <2>1
  <2>3. CASE verdict = "pass"
    BY <2>2, <2>3 DEF Body
  <2>4. CASE verdict = "rewrite"
    BY <2>2, <2>4 DEF Body, IntactInv, BodyIntact, Intact
  <2>. QED BY <2>3, <2>4 DEF Through
<1>. QED BY <1>1, IntactInit, IntactStep, PTL DEF Spec

-----------------------------------------------------------------------------
(* The writer every body is made by.                                         *)

\* What write_bits takes of `n` bits of input at its i-th turn.
Chunk(input, n, i) == IF n - 8 * (i - 1) < 8 THEN ShiftLeft(input[i], 8 - (n - 8 * (i - 1))) ELSE input[i]

\* A chunk holds the bits a write adds, then zeroes.
ChunksHold(input, n, added) ==
    \A i \in 1 .. BytesFor(n) :
        /\ Chunk(input, n, i) \in Byte
        /\ \A k \in 1 .. 8 : ByteBits(Chunk(input, n, i))[k] =
              IF 8 * (i - 1) + k <= n THEN added[8 * (i - 1) + k] ELSE 0

\* The part of `k` elements of s from m on.
LEMMA Slice ==
  ASSUME NEW S, NEW s, NEW m \in Nat, NEW k \in Nat,
         \A i \in m .. m + k - 1 : s[i] \in S
  PROVE  /\ SubSeq(s, m, m + k - 1) \in Seq(S) /\ Len(SubSeq(s, m, m + k - 1)) = k
         /\ \A i \in 1 .. k : SubSeq(s, m, m + k - 1)[i] = s[m + i - 1]
<1>1. PICK n \in Int : n = m + k - 1
  OBVIOUS
<1>2. m \in Int /\ \A i \in m .. n : s[i] \in S
  BY <1>1
<1>3. PICK t : t = SubSeq(s, m, n)
  OBVIOUS
<1>4. /\ t \in Seq(S) /\ Len(t) = IF m <= n THEN n - m + 1 ELSE 0
      /\ \A i \in 1 .. n - m + 1 : t[i] = s[m + i - 1]
  BY <1>2, <1>3, SubSeqProperties
<1>5. n - m + 1 = k /\ Len(t) = k
  BY <1>1, <1>4
<1>. QED BY <1>1, <1>3, <1>4, <1>5

LEMMA AddedBitsOf ==
  ASSUME NEW input \in Seq(Byte), NEW n \in Nat, n <= 8 * Len(input)
  PROVE  /\ AddedBits(input, n) \in Seq(Bit) /\ Len(AddedBits(input, n)) = n
         /\ ChunksHold(input, n, AddedBits(input, n))
<1>1. PICK q \in Nat, r \in 0 .. 7 : q = n \div 8 /\ r = n % 8
  OBVIOUS
<1>2. n = 8 * q + r /\ BytesFor(n) = IF r = 0 THEN q ELSE q + 1
  BY <1>1 DEF BytesFor
<1>3. Len(input) \in Nat /\ q <= Len(input) /\ BytesFor(n) <= Len(input)
  BY <1>2
<1>4. PICK b \in Seq(Bit) : /\ b = BitsOf(input) /\ Len(b) = 8 * Len(input)
                            /\ \A j \in 1 .. Len(input), k \in 1 .. 8 : b[8 * (j - 1) + k] = ByteBits(input[j])[k]
  BY BitsOfBytes
<1>5. PICK p \in Seq(Bit) : p = SubSeq(b, 1, 8 * q) /\ Len(p) = 8 * q /\ \A i \in 1 .. 8 * q : p[i] = b[i]
  <2>1. PICK m \in Nat : m = 8 * q /\ m <= Len(b)
    BY <1>3, <1>4
  <2>2. 1 \in Nat /\ 1 + m - 1 = m /\ \A i \in 1 .. m : 1 + i - 1 = i
    BY <2>1
  <2>3. \A i \in 1 .. 1 + m - 1 : b[i] \in Bit
    <3>1. \A i \in 1 .. 1 + m - 1 : i \in 1 .. Len(b)
      BY <2>1
    <3>. QED BY <3>1, ElementOfSeq
  <2>4. /\ SubSeq(b, 1, 1 + m - 1) \in Seq(Bit) /\ Len(SubSeq(b, 1, 1 + m - 1)) = m
        /\ \A i \in 1 .. m : SubSeq(b, 1, 1 + m - 1)[i] = b[1 + i - 1]
    BY <2>2, <2>3, Slice
  <2>. QED BY <2>1, <2>2, <2>4
<1>6. PICK z \in Seq(Bit) :
        /\ z = IF n % 8 = 0 THEN << >> ELSE SubSeq(ByteBits(input[BytesFor(n)]), 9 - (n % 8), 8)
        /\ Len(z) = r
        /\ \A i \in 1 .. r : z[i] = ByteBits(input[q + 1])[8 - r + i]
  <2>1. CASE r = 0
    <3>1. << >> \in Seq(Bit) /\ Len(<< >>) = 0 /\ 1 .. r = {}
      BY <2>1
    <3>. QED BY <1>1, <2>1, <3>1
  <2>2. CASE r # 0
    <3>1. PICK x \in Byte : x = input[q + 1]
      <4>1. q + 1 \in 1 .. Len(input)
        BY <1>2, <1>3, <2>2
      <4>. QED BY <4>1, ElementOfSeq
    <3>2. PICK y : y = ByteBits(x) /\ \A i \in 1 .. 8 : y[i] \in Bit
      BY ByteBitsType
    <3>3. PICK m \in Nat : m = 9 - r /\ m + r - 1 = 8 /\ r \in Nat
      OBVIOUS
    <3>4. \A i \in m .. m + r - 1 : y[i] \in Bit
      BY <3>2, <3>3, SMTT(30)
    <3>5. /\ SubSeq(y, m, m + r - 1) \in Seq(Bit) /\ Len(SubSeq(y, m, m + r - 1)) = r
          /\ \A i \in 1 .. r : SubSeq(y, m, m + r - 1)[i] = y[m + i - 1]
      BY <3>3, <3>4, Slice
    <3>6. PICK z : z = SubSeq(y, 9 - r, 8)
      OBVIOUS
    <3>7. z \in Seq(Bit) /\ Len(z) = r
      BY <3>3, <3>5, <3>6
    <3>8. \A i \in 1 .. r : m + i - 1 = 8 - r + i
      BY <3>3
    <3>9. \A i \in 1 .. r : z[i] = y[8 - r + i]
      BY <3>3, <3>5, <3>6, <3>8
    <3>10. z = IF n % 8 = 0 THEN << >> ELSE SubSeq(ByteBits(input[BytesFor(n)]), 9 - (n % 8), 8)
      BY <1>1, <1>2, <2>2, <3>1, <3>2, <3>6
    <3>. QED BY <3>1, <3>2, <3>7, <3>9, <3>10
  <2>. QED BY <2>1, <2>2
<1>7. PICK a : a = AddedBits(input, n)
  OBVIOUS
<1>8. a = p \o z
  BY <1>1, <1>4, <1>5, <1>6, <1>7 DEF AddedBits
<1>9. /\ a \in Seq(Bit) /\ Len(a) = n
      /\ \A i \in 1 .. n : a[i] = IF i <= 8 * q THEN b[i] ELSE ByteBits(input[q + 1])[8 - r + (i - 8 * q)]
  <2>1. /\ p \o z \in Seq(Bit) /\ Len(p \o z) = Len(p) + Len(z)
        /\ \A i \in 1 .. Len(p) + Len(z) : (p \o z)[i] = IF i <= Len(p) THEN p[i] ELSE z[i - Len(p)]
    BY ConcatProperties
  <2>2. \A i \in 1 .. n : i > 8 * q => i - 8 * q \in 1 .. r
    BY <1>2
  <2>3. \A i \in 1 .. n : i <= 8 * q => i \in 1 .. 8 * q
    BY <1>2
  <2>4. Len(p) + Len(z) = n
    BY <1>2, <1>5, <1>6
  <2>5. a \in Seq(Bit) /\ Len(a) = n
    BY <1>8, <2>1, <2>4
  <2>6. ASSUME NEW i \in 1 .. n
        PROVE  a[i] = IF i <= 8 * q THEN b[i] ELSE ByteBits(input[q + 1])[8 - r + (i - 8 * q)]
    <3>1. a[i] = IF i <= 8 * q THEN p[i] ELSE z[i - 8 * q]
      BY <1>5, <1>8, <2>1, <2>4
    <3>2. CASE i <= 8 * q
      BY <1>5, <2>3, <3>1, <3>2
    <3>3. CASE ~(i <= 8 * q)
      <4>1. PICK m \in 1 .. r : m = i - 8 * q
        BY <1>1, <2>2, <3>3
      <4>. QED BY <1>6, <3>1, <3>3, <4>1
    <3>. QED BY <3>2, <3>3
  <2>. QED BY <2>5, <2>6
<1>10. ASSUME NEW i \in 1 .. BytesFor(n)
       PROVE  /\ Chunk(input, n, i) \in Byte
              /\ \A k \in 1 .. 8 : ByteBits(Chunk(input, n, i))[k] =
                    IF 8 * (i - 1) + k <= n THEN a[8 * (i - 1) + k] ELSE 0
  <2>1. PICK x \in Byte : x = input[i]
    <3>1. i \in 1 .. Len(input)
      BY <1>2, <1>3
    <3>. QED BY <3>1, ElementOfSeq
  <2>2. CASE i <= q
    <3>1. Chunk(input, n, i) = x
      BY <1>2, <2>1, <2>2 DEF Chunk
    <3>2. ASSUME NEW k \in 1 .. 8
          PROVE  ByteBits(x)[k] = IF 8 * (i - 1) + k <= n THEN a[8 * (i - 1) + k] ELSE 0
      <4>1. PICK m \in 1 .. n : m = 8 * (i - 1) + k /\ m <= 8 * q
        BY <1>2, <2>2
      <4>2. b[m] = ByteBits(x)[k]
        <5>1. i \in 1 .. Len(input)
          BY <1>2, <1>3
        <5>. QED BY <1>4, <2>1, <4>1, <5>1
      <4>. QED BY <1>9, <4>1, <4>2
    <3>. QED BY <3>1, <3>2
  <2>3. CASE i > q
    <3>1. i = q + 1 /\ r # 0
      BY <1>2, <2>3
    <3>2. PICK v \in 0 .. 7 : v = 8 - r
      BY <3>1
    <3>3. Chunk(input, n, i) = ShiftLeft(x, v)
      BY <1>2, <2>1, <3>1, <3>2 DEF Chunk
    <3>4. /\ ShiftLeft(x, v) \in Byte
          /\ \A k \in 1 .. 8 : ByteBits(ShiftLeft(x, v))[k] = IF k > 8 - v THEN 0 ELSE ByteBits(x)[k + v]
      BY ShiftLeftBits
    <3>5. ASSUME NEW k \in 1 .. 8
          PROVE  ByteBits(ShiftLeft(x, v))[k] = IF 8 * (i - 1) + k <= n THEN a[8 * (i - 1) + k] ELSE 0
      <4>1. 8 - v = r /\ 8 * (i - 1) = 8 * q
        BY <3>1, <3>2
      <4>2. CASE k > r
        BY <1>2, <3>4, <4>1, <4>2, SMTT(30)
      <4>3. CASE k <= r
        <5>1. PICK m \in 1 .. n : m = 8 * q + k
          BY <1>2, <4>3
        <5>2. a[m] = ByteBits(x)[8 - r + (m - 8 * q)] /\ 8 - r + (m - 8 * q) = k + v
          BY <1>9, <2>1, <3>1, <3>2, <5>1
        <5>0. ~(k > 8 - v)
          BY <3>2, <4>3
        <5>3. ByteBits(ShiftLeft(x, v))[k] = ByteBits(x)[k + v]
          BY <3>4, <5>0, Zenon
        <5>4. 8 * (i - 1) + k = m /\ m <= n
          BY <4>1, <5>1
        <5>. QED BY <5>2, <5>3, <5>4
      <4>. QED BY <4>2, <4>3
    <3>. QED BY <3>3, <3>4, <3>5
  <2>. QED BY <2>2, <2>3
<1>. QED BY <1>7, <1>9, <1>10 DEF ChunksHold

\* A writer that holds the bits written: its bytes are theirs, and zeroes fill
\* the last one.
Writers == [data : Seq(Byte), bits : Nat]

Holds(w, written) ==
    /\ w \in Writers /\ written \in Seq(Bit)
    /\ w.bits = Len(written) /\ Len(w.data) = BytesFor(w.bits)
    /\ \A j \in 1 .. Len(w.data), k \in 1 .. 8 :
          ByteBits(w.data[j])[k] = IF 8 * (j - 1) + k <= w.bits THEN written[8 * (j - 1) + k] ELSE 0

\* The byte that a write leaves where its chunk i starts, the chunk's part of
\* it left out: what there was, or what the chunk before spilled.
Before(wide, input, n, u, i, j) ==
    IF i - 1 > 0 /\ u # 0 /\ 8 - u < n - 8 * ((i - 1) - 1)
    THEN ShiftLeft(Chunk(input, n, i - 1), 8 - u) ELSE wide[j]

ByteAt(wide, input, n, u, i, j) ==
    IF i \notin 1 .. BytesFor(n) THEN Before(wide, input, n, u, i, j)
    ELSE IF u = 0 THEN Chunk(input, n, i)
    ELSE Before(wide, input, n, u, i, j) | ShiftRight(Chunk(input, n, i), u)

BytesAt(wide, input, n, u, d) == [j \in DOMAIN wide |-> ByteAt(wide, input, n, u, j - d, j)]

LEMMA WriteBitsData ==
  ASSUME NEW w, NEW input, NEW n
  PROVE  WriteBits(w, input, n) =
           [data |-> BytesAt(Resized(w.data, BytesFor(w.bits + n)), input, n, w.bits % 8, w.bits \div 8),
            bits |-> w.bits + n]
  BY Zenon DEF WriteBits, BytesAt, ByteAt, Before, Chunk

\* What a byte that starts at bit `from` holds of `all`, zeroes after its end.
Slot(all, from, byte) ==
    /\ byte \in Byte
    /\ \A k \in 1 .. 8 : ByteBits(byte)[k] = IF from + k <= Len(all) THEN all[from + k] ELSE 0

LEMMA ZeroBits == 0 \in Byte /\ \A k \in 1 .. 8 : ByteBits(0)[k] = 0
<1>1. 0 \in Byte
  BY DEF Byte
<1>2. /\ ByteBits(0)[1] = 0 /\ ByteBits(0)[2] = 0 /\ ByteBits(0)[3] = 0 /\ ByteBits(0)[4] = 0
      /\ ByteBits(0)[5] = 0 /\ ByteBits(0)[6] = 0 /\ ByteBits(0)[7] = 0 /\ ByteBits(0)[8] = 0
  BY <1>1, ByteBitsType
<1>. QED BY <1>1, <1>2

\* The bytes a writer holds once it is made wide enough: what it held, zeroes
\* from there on.
LEMMA WideHolds ==
  ASSUME NEW w, NEW written, Holds(w, written), NEW m \in Nat, BytesFor(w.bits) <= m,
         NEW wide, wide = Resized(w.data, m)
  PROVE  /\ DOMAIN wide = 1 .. m
         /\ \A j \in 1 .. m : Slot(written, 8 * (j - 1), wide[j])
<1>1. /\ w.data \in Seq(Byte) /\ w.bits = Len(written) /\ Len(w.data) = BytesFor(w.bits)
      /\ \A j \in 1 .. Len(w.data), k \in 1 .. 8 :
            ByteBits(w.data[j])[k] = IF 8 * (j - 1) + k <= w.bits THEN written[8 * (j - 1) + k] ELSE 0
      /\ w.bits \in Nat
  BY DEF Holds, Writers
<1>2. 0 \in Byte
  BY ZeroBits
<1>3. /\ wide \in Seq(Byte) /\ Len(wide) = m
      /\ \A j \in 1 .. Len(w.data) : wide[j] = w.data[j]
      /\ \A j \in 1 .. m : j > Len(w.data) => wide[j] = 0
  <2>1. /\ wide \in Seq(Byte)
        /\ Len(wide) = IF m <= Len(w.data) THEN Len(w.data) ELSE m
        /\ \A i \in 1 .. Len(w.data) : wide[i] = w.data[i]
        /\ \A i \in 1 .. m : i > Len(w.data) => wide[i] = 0
    <3>1. PICK data \in Seq(Byte) : data = w.data
      BY <1>1
    <3>. QED BY <1>2, <3>1, ResizedKeeps
  <2>. QED BY <1>1, <2>1
<1>4. ASSUME NEW j \in 1 .. m
      PROVE  Slot(written, 8 * (j - 1), wide[j])
  <2>1. wide[j] \in Byte
    BY <1>3, ElementOfSeq
  <2>2. CASE j <= Len(w.data)
    <3>1. j \in 1 .. Len(w.data)
      BY <1>1, <2>2
    <3>. QED BY <1>1, <1>3, <2>1, <3>1 DEF Slot
  <2>3. CASE j > Len(w.data)
    <3>1. wide[j] = 0
      BY <1>3, <2>3
    <3>2. w.bits <= 8 * (j - 1)
      BY <1>1, <2>3 DEF BytesFor
    <3>3. \A k \in 1 .. 8 : ~(8 * (j - 1) + k <= Len(written))
      BY <1>1, <3>2
    <3>. QED BY <2>1, <3>1, <3>3, ZeroBits DEF Slot
  <2>. QED BY <1>1, <2>2, <2>3
<1>. QED BY <1>3, <1>4

\* One byte a write makes, of `all` = what was written and what is added to it.
LEMMA ByteWritten ==
  ASSUME NEW written \in Seq(Bit), NEW input, NEW n \in Nat, NEW added \in Seq(Bit), Len(added) = n,
         ChunksHold(input, n, added), NEW all, all = written \o added,
         NEW u \in 0 .. 7, NEW d \in Nat, Len(written) = 8 * d + u,
         NEW j \in Nat \ {0}, NEW wide, Slot(written, 8 * (j - 1), wide[j]),
         NEW i, i = j - d, NEW byte, byte = ByteAt(wide, input, n, u, i, j)
  PROVE  Slot(all, 8 * (j - 1), byte)
<1>. PICK before : before = Before(wide, input, n, u, i, j)
  OBVIOUS
<1>. byte = IF i \notin 1 .. BytesFor(n) THEN before
            ELSE IF u = 0 THEN Chunk(input, n, i)
            ELSE before | ShiftRight(Chunk(input, n, i), u)
  BY DEF ByteAt
<1>0. i \in Int /\ 8 * (j - 1) = 8 * d + 8 * (i - 1) /\ n <= 8 * BytesFor(n) /\ BytesFor(n) \in Nat
  BY DEF BytesFor
<1>1. PICK from \in Int : from = 8 * (j - 1)
  OBVIOUS
<1>2. /\ all \in Seq(Bit) /\ Len(all) = 8 * d + u + n
      /\ \A p \in 1 .. Len(written) + n :
            all[p] = IF p <= Len(written) THEN written[p] ELSE added[p - Len(written)]
  BY ConcatProperties
<1>3. PICK a : a = [k \in 1 .. 8 |-> IF from + k <= Len(all) THEN all[from + k] ELSE 0]
  OBVIOUS
\* Bit k of the byte is the added bit q, or one written before.
<1>4. PICK l \in Nat : l = Len(written) /\ l = 8 * d + u
  OBVIOUS
<1>5. ASSUME NEW k \in 1 .. 8, NEW q \in Int, q = 8 * (i - 1) + k - u
      PROVE  from + k = l + q /\ from + k >= 1
  BY <1>0, <1>1, <1>4, <1>5
<1>6. ASSUME NEW k \in 1 .. 8, NEW q \in Int, q = 8 * (i - 1) + k - u
      PROVE  /\ q <= 0 => a[k] = written[from + k] /\ a[k] \in Bit
             /\ q >= 1 => a[k] = IF q <= n THEN added[q] ELSE 0
  <2>1. from + k = l + q /\ from + k >= 1 /\ l = Len(written)
    BY <1>4, <1>5, <1>6
  <2>2. a[k] = IF from + k <= Len(all) THEN all[from + k] ELSE 0
    BY <1>3
  <2>3. ASSUME q <= 0 PROVE a[k] = written[from + k] /\ a[k] \in Bit
    <3>1. from + k \in 1 .. Len(written) /\ from + k \in 1 .. Len(written) + n /\ from + k <= Len(all)
      BY <1>1, <1>2, <2>1, <2>3
    <3>2. written[from + k] \in Bit
      BY <3>1, ElementOfSeq
    <3>. QED BY <1>2, <2>2, <3>1, <3>2
  <2>4. ASSUME q >= 1, q <= n PROVE a[k] = added[q]
    <3>1. from + k \in 1 .. Len(written) + n /\ ~(from + k <= Len(written)) /\ from + k <= Len(all)
          /\ (from + k) - Len(written) = q
      BY <1>1, <1>2, <2>1, <2>4
    <3>. QED BY <1>2, <2>2, <3>1
  <2>5. ASSUME q >= 1, ~(q <= n) PROVE a[k] = 0
    <3>1. ~(from + k <= Len(all))
      BY <1>1, <1>2, <2>1, <2>5
    <3>. QED BY <2>2, <3>1
  <2>. QED BY <2>1, <2>3, <2>4, <2>5
<1>7. ASSUME NEW k \in 1 .. 8, NEW q \in Int, q = 8 * (i - 1) + k - u
      PROVE  ByteBits(wide[j])[k] = IF q <= 0 THEN a[k] ELSE 0
  <2>1. from + k <= Len(written) <=> q <= 0
    BY <1>1, <1>4, <1>5, <1>7
  <2>2. ByteBits(wide[j])[k] = IF from + k <= Len(written) THEN written[from + k] ELSE 0
    BY <1>1 DEF Slot
  <2>. QED BY <1>6, <1>7, <2>1, <2>2
\* A chunk's bits are added ones.
<1>8. ASSUME NEW c \in 1 .. BytesFor(n)
      PROVE  /\ Chunk(input, n, c) \in Byte
             /\ \A k \in 1 .. 8 : ByteBits(Chunk(input, n, c))[k] =
                   IF 8 * (c - 1) + k <= n THEN added[8 * (c - 1) + k] ELSE 0
  BY <1>8 DEF ChunksHold
<1>9. /\ before \in Byte
      /\ \A k \in 1 .. 8 : ByteBits(before)[k] = IF i <= 0 \/ k <= u THEN a[k] ELSE 0
  <2>1. CASE i - 1 > 0 /\ u # 0 /\ 8 - u < n - 8 * ((i - 1) - 1)
    <3>1. PICK c \in 1 .. BytesFor(n) : c = i - 1
      BY <1>0, <2>1
    <3>2. PICK v \in 0 .. 7 : v = 8 - u /\ 8 - v = u
      BY <2>1
    <3>3. PICK b \in Byte : b = Chunk(input, n, c)
      BY <1>8
    <3>4. before = ShiftLeft(b, v)
      BY <2>1, <3>1, <3>2, <3>3 DEF Before
    <3>5. /\ ShiftLeft(b, v) \in Byte
          /\ \A k \in 1 .. 8 : ByteBits(ShiftLeft(b, v))[k] = IF k > u THEN 0 ELSE ByteBits(b)[k + v]
      <4>1. \A k \in 1 .. 8 : ByteBits(ShiftLeft(b, v))[k] = IF k > 8 - v THEN 0 ELSE ByteBits(b)[k + v]
        BY ShiftLeftBits
      <4>. QED BY <3>2, <4>1, ShiftLeftBits
    <3>6. ASSUME NEW k \in 1 .. 8, k <= u
          PROVE  ByteBits(b)[k + v] = a[k]
      <4>1. PICK h \in 1 .. 8 : h = k + v
        BY <3>2, <3>6
      <4>2. PICK q \in Int : q = 8 * (i - 1) + k - u /\ q = 8 * (c - 1) + h /\ q >= 1
        BY <1>0, <3>1, <3>2, <4>1
      <4>3. ByteBits(b)[h] = IF q <= n THEN added[q] ELSE 0
        BY <1>8, <3>3, <4>2
      <4>. QED BY <1>6, <4>1, <4>2, <4>3
    <3>7. ASSUME NEW k \in 1 .. 8
          PROVE  ByteBits(before)[k] = IF i <= 0 \/ k <= u THEN a[k] ELSE 0
      <4>1. ByteBits(before)[k] = IF k > u THEN 0 ELSE ByteBits(b)[k + v]
        BY <3>4, <3>5
      <4>2. CASE k <= u
        <5>1. ~(k > u)
          BY <4>2
        <5>2. ByteBits(b)[k + v] = a[k]
          BY <3>6, <4>2
        <5>. QED BY <4>1, <4>2, <5>1, <5>2
      <4>3. CASE k > u
        <5>1. ~(i <= 0 \/ k <= u)
          BY <1>0, <2>1, <4>3
        <5>. QED BY <4>1, <4>3, <5>1
      <4>. QED BY <4>2, <4>3
    <3>. QED BY <3>4, <3>5, <3>7
  <2>2. CASE ~(i - 1 > 0 /\ u # 0 /\ 8 - u < n - 8 * ((i - 1) - 1))
    <3>1. before = wide[j]
      BY <2>2 DEF Before
    <3>2. ASSUME NEW k \in 1 .. 8
          PROVE  ByteBits(wide[j])[k] = IF i <= 0 \/ k <= u THEN a[k] ELSE 0
      <4>1. PICK q \in Int : q = 8 * (i - 1) + k - u
        BY <1>0
      <4>2. q <= 0 <=> i <= 0 \/ (i = 1 /\ k <= u)
        BY <1>0, <4>1
      <4>3. CASE q <= 0
        BY <1>7, <4>1, <4>2, <4>3
      <4>4. CASE q > 0 /\ k > u
        <5>1. ~(q <= 0) /\ ~(i <= 0 \/ k <= u)
          BY <1>0, <4>1, <4>2, <4>4
        <5>. QED BY <1>7, <4>1, <5>1
      <4>5. CASE q > 0 /\ k <= u
        <5>1. ~(q <= n) /\ q >= 1
          BY <1>0, <2>2, <4>1, <4>2, <4>5
        <5>2. a[k] = 0
          BY <1>6, <4>1, <5>1, ZenonT(40)
        <5>. QED BY <1>7, <4>1, <4>5, <5>2
      <4>. QED BY <4>3, <4>4, <4>5
    <3>3. wide[j] \in Byte
      BY DEF Slot
    <3>. QED BY <3>1, <3>2, <3>3
  <2>. QED BY <2>1, <2>2
<1>10. byte \in Byte /\ \A k \in 1 .. 8 : ByteBits(byte)[k] = a[k]
  <2>1. CASE i <= 0
    <3>1. i \notin 1 .. BytesFor(n)
      BY <1>0, <2>1
    <3>. QED BY <1>9, <2>1, <3>1
  <2>2. CASE i > BytesFor(n)
    <3>1. i \notin 1 .. BytesFor(n)
      BY <1>0, <2>2
    <3>2. ASSUME NEW k \in 1 .. 8, k > u
          PROVE  a[k] = 0
      <4>1. PICK q \in Int : q = 8 * (i - 1) + k - u /\ q >= 1 /\ ~(q <= n)
        BY <1>0, <2>2, <3>2
      <4>. QED BY <1>6, <4>1, ZenonT(40)
    <3>3. \A k \in 1 .. 8 : k > u \/ k <= u
      OBVIOUS
    <3>. QED BY <1>0, <1>9, <2>2, <3>1, <3>2, <3>3
  <2>3. CASE i \in 1 .. BytesFor(n)
    <3>1. PICK b \in Byte : /\ b = Chunk(input, n, i)
                            /\ \A k \in 1 .. 8 : ByteBits(b)[k] =
                                  IF 8 * (i - 1) + k <= n THEN added[8 * (i - 1) + k] ELSE 0
      BY <1>8, <2>3
    <3>2. CASE u = 0
      <4>1. byte = b
        BY <2>3, <3>1, <3>2
      <4>2. ASSUME NEW k \in 1 .. 8 PROVE ByteBits(b)[k] = a[k]
        <5>1. PICK q \in Int : q = 8 * (i - 1) + k - u /\ q = 8 * (i - 1) + k /\ q >= 1
          BY <1>0, <2>3, <3>2
        <5>2. ByteBits(b)[k] = IF q <= n THEN added[q] ELSE 0
          BY <3>1, <5>1
        <5>. QED BY <1>6, <5>1, <5>2
      <4>. QED BY <4>1, <4>2
    <3>3. CASE u # 0
      <4>1. PICK c \in Byte : c = ShiftRight(b, u)
                 /\ \A k \in 1 .. 8 : ByteBits(c)[k] = IF k <= u THEN 0 ELSE ByteBits(b)[k - u]
        BY ShiftRightBits
      <4>2. byte = (before | c)
        BY <2>3, <3>1, <3>3, <4>1
      <4>3. byte \in Byte /\ \A k \in 1 .. 8 : ByteBits(byte)[k] = IF ByteBits(before)[k] = 1 THEN 1 ELSE ByteBits(c)[k]
        BY <1>9, <4>2, OrBits, SMTT(30)
      <4>4. ASSUME NEW k \in 1 .. 8 PROVE ByteBits(byte)[k] = a[k]
        <5>1. CASE k <= u
          <6>1. ByteBits(before)[k] = a[k] /\ ByteBits(c)[k] = 0
            BY <1>9, <4>1, <5>1
          <6>2. a[k] \in Bit
            <7>1. ByteBits(before) \in [1 .. 8 -> Bit]
              BY <1>9, ByteBitsType
            <7>2. ByteBits(before)[k] \in Bit
              BY <7>1
            <7>. QED BY <6>1, <7>2
          <6>. QED BY <4>3, <6>1, <6>2 DEF Bit
        <5>2. CASE k > u
          <6>1. PICK h \in 1 .. 8 : h = k - u
            BY <5>2
          <6>2. PICK q \in Int : q = 8 * (i - 1) + k - u /\ q = 8 * (i - 1) + h /\ q >= 1
            BY <1>0, <2>3, <6>1
          <6>3. ByteBits(c)[k] = a[k]
            <7>0. ~(k <= u)
              BY <5>2
            <7>1. ByteBits(c)[k] = ByteBits(b)[h]
              BY <4>1, <6>1, <7>0
            <7>2. ByteBits(b)[h] = IF q <= n THEN added[q] ELSE 0
              BY <3>1, <6>2
            <7>. QED BY <1>6, <6>2, <7>1, <7>2
          <6>4. ByteBits(before)[k] = 0
            <7>1. ~(i <= 0 \/ k <= u)
              BY <1>0, <2>3, <5>2
            <7>2. ByteBits(before)[k] = IF i <= 0 \/ k <= u THEN a[k] ELSE 0
              BY <1>9
            <7>. QED BY <7>1, <7>2
          <6>5. ByteBits(byte)[k] = IF ByteBits(before)[k] = 1 THEN 1 ELSE ByteBits(c)[k]
            BY <4>3
          <6>6. ByteBits(before)[k] # 1
            BY <6>4
          <6>. QED BY <6>3, <6>5, <6>6, Zenon
        <5>. QED BY <5>1, <5>2, SMTT(30)
      <4>. QED BY <4>3, <4>4
    <3>. QED BY <3>2, <3>3
  <2>4. i <= 0 \/ i > BytesFor(n) \/ i \in 1 .. BytesFor(n)
    BY <1>0
  <2>. QED BY <2>1, <2>2, <2>3, <2>4
<1>. QED BY <1>1, <1>3, <1>10 DEF Slot

\* A write appends the bits it is given to those written.
LEMMA WriteBitsAppends ==
  ASSUME NEW w, NEW written, Holds(w, written),
         NEW input \in Seq(Byte), NEW n \in Nat, n <= 8 * Len(input)
  PROVE  Holds(WriteBits(w, input, n), written \o AddedBits(input, n))
<1>1. /\ w \in Writers /\ written \in Seq(Bit) /\ w.bits = Len(written) /\ w.bits \in Nat
      /\ Len(w.data) = BytesFor(w.bits)
  BY DEF Holds, Writers
<1>2. PICK added \in Seq(Bit) : added = AddedBits(input, n) /\ Len(added) = n /\ ChunksHold(input, n, added)
  BY AddedBitsOf
<1>3. PICK all \in Seq(Bit) : all = written \o added /\ Len(all) = w.bits + n
  <2>1. written \o added \in Seq(Bit) /\ Len(written \o added) = Len(written) + Len(added)
    BY <1>1, ConcatProperties
  <2>. QED BY <1>1, <1>2, <2>1
<1>4. PICK u \in 0 .. 7, d \in Nat : u = w.bits % 8 /\ d = w.bits \div 8 /\ w.bits = 8 * d + u
  <2>1. PICK l \in Nat : l = w.bits
    BY <1>1
  <2>2. l % 8 \in 0 .. 7 /\ l \div 8 \in Nat /\ l = 8 * (l \div 8) + (l % 8)
    OBVIOUS
  <2>. QED BY <2>1, <2>2
<1>5. PICK m \in Nat : m = BytesFor(w.bits + n) /\ BytesFor(w.bits) <= m
  BY <1>1, SMTT(30) DEF BytesFor
<1>6. PICK wide : wide = Resized(w.data, m)
  OBVIOUS
<1>7. DOMAIN wide = 1 .. m /\ \A j \in 1 .. m : Slot(written, 8 * (j - 1), wide[j])
  BY <1>5, <1>6, WideHolds
<1>8. PICK after : after = WriteBits(w, input, n)
  OBVIOUS
<1>9. PICK byte : byte = BytesAt(wide, input, n, u, d)
  OBVIOUS
<1>10. after = [data |-> byte, bits |-> w.bits + n]
  BY <1>4, <1>5, <1>6, <1>8, <1>9, WriteBitsData, Zenon
<1>11. ASSUME NEW j \in 1 .. m
       PROVE  Slot(all, 8 * (j - 1), byte[j])
  <2>1. PICK i : i = j - d
    OBVIOUS
  <2>4. PICK b : b = byte[j] /\ b = ByteAt(wide, input, n, u, i, j)
    BY <1>7, <1>9, <2>1 DEF BytesAt
  <2>5. j \in Nat \ {0} /\ Slot(written, 8 * (j - 1), wide[j]) /\ Len(written) = 8 * d + u
    BY <1>1, <1>4, <1>7
  <2>6. /\ written \in Seq(Bit) /\ added \in Seq(Bit) /\ Len(added) = n
        /\ ChunksHold(input, n, added) /\ all = written \o added
    BY <1>1, <1>2, <1>3
  <2>7. u \in 0 .. 7 /\ d \in Nat /\ Len(written) = 8 * d + u
    BY <1>1, <1>4
  <2>8. Slot(all, 8 * (j - 1), b)
    BY <2>1, <2>4, <2>5, <2>6, <2>7, ByteWritten
  <2>. QED BY <2>4, <2>8
<1>12. byte \in Seq(Byte) /\ Len(byte) = m
  <2>1. \A j \in 1 .. m : byte[j] \in Byte
    BY <1>11 DEF Slot
  <2>2. byte \in [1 .. m -> Byte]
    BY <1>7, <1>9, <2>1 DEF BytesAt
  <2>. QED BY <2>2
<1>13. Holds(after, all)
  <2>1. after.data = byte /\ after.bits = w.bits + n /\ after \in Writers
    BY <1>1, <1>10, <1>12 DEF Writers
  <2>2. \A j \in 1 .. m, k \in 1 .. 8 :
          ByteBits(byte[j])[k] = IF 8 * (j - 1) + k <= after.bits THEN all[8 * (j - 1) + k] ELSE 0
    BY <1>3, <1>11, <2>1 DEF Slot
  <2>. QED BY <1>3, <1>5, <1>12, <2>1, <2>2 DEF Holds
<1>. QED BY <1>2, <1>3, <1>8, <1>13

LEMMA NothingWritten == Holds(NewWriter, << >>)
<1>1. NewWriter.data = << >> /\ NewWriter.bits = 0 /\ NewWriter \in Writers
  BY DEF NewWriter, Writers
<1>2. BytesFor(0) = 0
  BY DEF BytesFor
<1>3. << >> \in Seq(Bit) /\ Len(<< >>) = 0 /\ 1 .. 0 = {}
  OBVIOUS
<1>. QED BY <1>1, <1>2, <1>3 DEF Holds

\* The body a writer ends in: its bits, and zeroes to the end of the last byte.
LEMMA BodyHolds ==
  ASSUME NEW w, NEW written, Holds(w, written)
  PROVE  BitsOf(IntoBytes(w)) = Resized(written, 8 * BytesFor(Len(written)))
<1>1. PICK data \in Seq(Byte), n \in Nat, m \in Nat :
        /\ data = w.data /\ n = Len(written) /\ n = w.bits /\ m = BytesFor(n) /\ Len(data) = m /\ n <= 8 * m
        /\ \A j \in 1 .. m, k \in 1 .. 8 :
              ByteBits(data[j])[k] = IF 8 * (j - 1) + k <= n THEN written[8 * (j - 1) + k] ELSE 0
  <2>1. w.data \in Seq(Byte) /\ w.bits \in Nat /\ Len(written) = w.bits /\ Len(w.data) = BytesFor(w.bits)
    BY DEF Holds, Writers
  <2>2. PICK n \in Nat : n = w.bits
    BY <2>1
  <2>3. BytesFor(n) \in Nat /\ n <= 8 * BytesFor(n)
    BY BytesForType
  <2>4. \A j \in 1 .. Len(w.data), k \in 1 .. 8 :
           ByteBits(w.data[j])[k] = IF 8 * (j - 1) + k <= w.bits THEN written[8 * (j - 1) + k] ELSE 0
    BY DEF Holds
  <2>5. \A j \in 1 .. BytesFor(n), k \in 1 .. 8 :
           ByteBits(w.data[j])[k] = IF 8 * (j - 1) + k <= n THEN written[8 * (j - 1) + k] ELSE 0
    BY <2>1, <2>2, <2>4
  <2>. QED BY <2>1, <2>2, <2>3, <2>5, Zenon
<1>2. written \in Seq(Bit)
  BY DEF Holds
<1>3. IntoBytes(w) = data
  <2>1. IntoBytes(w) = SubSeq(data, 1, Len(data))
    BY <1>1 DEF IntoBytes
  <2>. QED BY <2>1, SubSeqFull
<1>4. PICK bits \in Seq(Bit) : /\ bits = BitsOf(data) /\ Len(bits) = 8 * m
                               /\ \A j \in 1 .. m, k \in 1 .. 8 : bits[8 * (j - 1) + k] = ByteBits(data[j])[k]
  <2>1. /\ BitsOf(data) \in Seq(Bit) /\ Len(BitsOf(data)) = 8 * Len(data)
        /\ \A j \in 1 .. Len(data), k \in 1 .. 8 : BitsOf(data)[8 * (j - 1) + k] = ByteBits(data[j])[k]
    BY BitsOfBytes
  <2>2. Len(data) = m
    BY <1>1
  <2>. QED BY <2>1, <2>2, Zenon
<1>5. PICK all \in Seq(Bit) : /\ all = Resized(written, 8 * m) /\ Len(all) = 8 * m
                              /\ \A i \in 1 .. n : all[i] = written[i]
                              /\ \A i \in 1 .. 8 * m : i > n => all[i] = 0
  <2>1. PICK h \in Nat : h = 8 * m /\ n <= h
    BY <1>1
  <2>2. 0 \in Bit
    BY DEF Bit
  <2>3. /\ Resized(written, h) \in Seq(Bit)
        /\ Len(Resized(written, h)) = IF h <= Len(written) THEN Len(written) ELSE h
        /\ \A i \in 1 .. Len(written) : Resized(written, h)[i] = written[i]
        /\ \A i \in 1 .. h : i > Len(written) => Resized(written, h)[i] = 0
    BY <1>2, <2>2, ResizedKeeps
  <2>. QED BY <1>1, <2>1, <2>3
<1>6. ASSUME NEW i \in 1 .. 8 * m
      PROVE  bits[i] = all[i]
  <2>1. PICK j \in 1 .. m, k \in 1 .. 8 : i = 8 * (j - 1) + k
    <3>1. (i + 7) \div 8 \in 1 .. m /\ ((i - 1) % 8) + 1 \in 1 .. 8
      OBVIOUS
    <3>2. i = 8 * ((i + 7) \div 8 - 1) + ((i - 1) % 8) + 1
      OBVIOUS
    <3>. QED BY <3>1, <3>2
  <2>2. bits[i] = IF i <= n THEN written[i] ELSE 0
    BY <1>1, <1>4, <2>1
  <2>. QED BY <1>5, <2>2
<1>7. bits = all
  BY <1>4, <1>5, <1>6, SeqEqual
<1>. QED BY <1>1, <1>3, <1>4, <1>5, <1>7

-----------------------------------------------------------------------------
(* A loop over the writes.                                                   *)

\* The turns of a loop exist, each from the one before.
StepsOn(F, n, S)      == F \in [1 .. n -> [S -> S]]
HasTurns(F, n, S, from) == \E h \in [0 .. n -> S] : h[0] = from /\ \A i \in 1 .. n : h[i] = F[i][h[i - 1]]

LEMMA TurnsExist ==
  ASSUME NEW S, NEW n \in Nat, NEW F, StepsOn(F, n, S), NEW a \in S
  PROVE  HasTurns(F, n, S, a)
<1>0. F \in [1 .. n -> [S -> S]]
  BY DEF StepsOn
<1> DEFINE Turns(m, h) == h \in [0 .. m -> S] /\ h[0] = a /\ \A i \in 1 .. m : h[i] = F[i][h[i - 1]]
           Missing == {m \in 0 .. n : \A h : ~Turns(m, h)}
<1>1. ASSUME Missing # {} PROVE FALSE
  <2>1. PICK m \in Missing : \A k \in Missing : m <= k
    <3>1. Missing \in SUBSET Nat
      OBVIOUS
    <3>. HIDE DEF Missing
    <3>. QED BY <1>1, <3>1, NatLeast
  <2>2. m \in 0 .. n /\ \A h : ~Turns(m, h)
    BY <2>1
  <2>3. CASE m = 0
    <3>1. Turns(0, [i \in 0 .. 0 |-> a])
      OBVIOUS
    <3>. QED BY <2>2, <2>3, <3>1
  <2>4. CASE m # 0
    <3>1. m - 1 \in 0 .. n /\ m - 1 \notin Missing
      <4>1. m - 1 \in 0 .. n /\ ~(m <= m - 1)
        BY <2>2, <2>4
      <4>. HIDE DEF Missing
      <4>. QED BY <2>1, <4>1
    <3>2. PICK h : Turns(m - 1, h)
      BY <3>1
    <3>3. PICK g : g = [i \in 0 .. m |-> IF i = m THEN F[m][h[m - 1]] ELSE h[i]]
      OBVIOUS
    <3>4. h[m - 1] \in S /\ F[m] \in [S -> S]
      BY <1>0, <2>2, <2>4, <3>2
    <3>5. F[m][h[m - 1]] \in S
      BY <3>4
    <3>6. g \in [0 .. m -> S] /\ g[0] = a
      BY <2>2, <2>4, <3>2, <3>3, <3>5
    <3>7. \A i \in 1 .. m : g[i] = F[i][g[i - 1]]
      BY <2>2, <2>4, <3>2, <3>3
    <3>. QED BY <2>2, <3>6, <3>7
  <2>. QED BY <2>3, <2>4
<1>2. n \in 0 .. n
  OBVIOUS
<1>3. \E h : Turns(n, h)
  <2>. HIDE DEF Turns
  <2>. QED BY <1>1, <1>2
<1>. QED BY <1>3 DEF HasTurns

Runs == [input : Seq(Byte), bits : Nat]

\* The writer after a list of writes, and the bits it should hold by then.
WriterOf(v) == Loop(LAMBDA w, i : WriteBits(w, v[i].input, v[i].bits), NewWriter, Len(v))
WantedOf(v) == Loop(LAMBDA all, i : all \o AddedBits(v[i].input, v[i].bits), << >>, Len(v))

\* The bits a list of writes should make, turn by turn.
WantedTurns(v, y) ==
    /\ y \in [0 .. Len(v) -> Seq(Bit)] /\ y[0] = << >>
    /\ \A i \in 1 .. Len(v) : y[i] = y[i - 1] \o AddedBits(v[i].input, v[i].bits)
    /\ WantedOf(v) = y[Len(v)]

LEMMA WantedByTurns ==
  ASSUME NEW v, AreWrites(v)
  PROVE  \E y : WantedTurns(v, y)
<1>1. PICK n \in Nat : n = Len(v) /\ v \in Seq(Runs)
  BY DEF AreWrites, Runs
<1>2. ASSUME NEW i \in 1 .. n
      PROVE  v[i].input \in Seq(Byte) /\ v[i].bits \in Nat /\ v[i].bits <= 8 * Len(v[i].input)
  <2>1. v[i] \in Runs
    BY <1>1, ElementOfSeq
  <2>2. i \in DOMAIN v
    BY <1>1
  <2>. QED BY <2>1, <2>2 DEF Runs, AreWrites
<1>3. PICK F : F = [i \in 1 .. n |-> [all \in Seq(Bit) |-> all \o AddedBits(v[i].input, v[i].bits)]]
  OBVIOUS
<1>4. ASSUME NEW i \in 1 .. n, NEW all \in Seq(Bit)
      PROVE  all \o AddedBits(v[i].input, v[i].bits) \in Seq(Bit)
  <2>1. AddedBits(v[i].input, v[i].bits) \in Seq(Bit)
    BY <1>2, AddedBitsOf
  <2>. QED BY <2>1, ConcatProperties
<1>5. F \in [1 .. n -> [Seq(Bit) -> Seq(Bit)]]
  BY <1>3, <1>4
<1>6. << >> \in Seq(Bit)
  OBVIOUS
<1>7. PICK g \in [0 .. n -> Seq(Bit)] : g[0] = << >> /\ \A i \in 1 .. n : g[i] = F[i][g[i - 1]]
  <2>1. StepsOn(F, n, Seq(Bit))
    BY <1>5 DEF StepsOn
  <2>2. HasTurns(F, n, Seq(Bit), << >>)
    BY <1>6, <2>1, TurnsExist
  <2>. QED BY <2>2 DEF HasTurns
<1>8. \A i \in 1 .. n : i - 1 \in 0 .. n
  OBVIOUS
<1>9. \A i \in 1 .. n : g[i] = g[i - 1] \o AddedBits(v[i].input, v[i].bits)
  BY <1>3, <1>7, <1>8
<1>10. ASSUME NEW i \in 0 .. n
       PROVE  g[i] = IF i = 0 THEN << >> ELSE g[i - 1] \o AddedBits(v[i].input, v[i].bits)
  <2>1. CASE i = 0
    BY <1>7, <2>1
  <2>2. CASE i # 0
    <3>1. i \in 1 .. n
      BY <2>2
    <3>. QED BY <1>9, <2>2, <3>1, Zenon
  <2>. QED BY <2>1, <2>2
<1>11. g = [i \in 0 .. n |-> IF i = 0 THEN << >> ELSE g[i - 1] \o AddedBits(v[i].input, v[i].bits)]
  BY <1>7, <1>10
<1>12. PICK y : /\ y = [i \in 0 .. n |-> IF i = 0 THEN << >> ELSE y[i - 1] \o AddedBits(v[i].input, v[i].bits)]
                /\ WantedOf(v) = y[n]
  <2>1. WantedOf(v) =
          (CHOOSE y : y = [i \in 0 .. n |-> IF i = 0 THEN << >> ELSE y[i - 1] \o AddedBits(v[i].input, v[i].bits)])[n]
    BY <1>1 DEF WantedOf, Loop
  <2>. QED BY <1>11, <2>1
<1>13. y[0] = << >> /\ \A i \in 1 .. n : y[i] = y[i - 1] \o AddedBits(v[i].input, v[i].bits)
  <2>1. 0 \in 0 .. n /\ \A i \in 1 .. n : i \in 0 .. n /\ i # 0
    OBVIOUS
  <2>. QED BY <1>12, <2>1
\* The chosen turns are those that exist: a least one that is not is none.
<1>14. PICK Wrong : Wrong = {i \in 0 .. n : y[i] # g[i]}
  OBVIOUS
<1>15. ASSUME Wrong # {} PROVE FALSE
  <2>1. PICK i \in Wrong : \A k \in Wrong : i <= k
    <3>1. Wrong \in SUBSET Nat
      BY <1>14
    <3>. QED BY <1>15, <3>1, NatLeast
  <2>2. i \in 0 .. n /\ y[i] # g[i]
    BY <1>14, <2>1
  <2>3. i # 0
    BY <1>7, <1>13, <2>2
  <2>4. i \in 1 .. n /\ i - 1 \in 0 .. n /\ ~(i <= i - 1)
    BY <2>2, <2>3
  <2>5. y[i - 1] = g[i - 1]
    BY <1>14, <2>1, <2>4
  <2>6. y[i] = g[i]
    BY <1>9, <1>13, <2>4, <2>5, Zenon
  <2>. QED BY <2>2, <2>6
<1>16. y \in [0 .. n -> Seq(Bit)]
  <2>1. \A i \in 0 .. n : y[i] \in Seq(Bit)
    BY <1>7, <1>14, <1>15
  <2>2. y \in [0 .. n -> {y[i] : i \in 0 .. n}]
    BY <1>12
  <2>. QED BY <2>1, <2>2
<1>. QED BY <1>1, <1>12, <1>13, <1>16 DEF WantedTurns

LEMMA WritesHold ==
  ASSUME NEW v, AreWrites(v)
  PROVE  Holds(WriterOf(v), WantedOf(v))
<1>1. PICK n \in Nat : n = Len(v) /\ v \in Seq(Runs)
  BY DEF AreWrites, Runs
<1>2. ASSUME NEW i \in 1 .. n
      PROVE  v[i].input \in Seq(Byte) /\ v[i].bits \in Nat /\ v[i].bits <= 8 * Len(v[i].input)
  <2>1. v[i] \in Runs
    BY <1>1, ElementOfSeq
  <2>2. i \in DOMAIN v
    BY <1>1
  <2>. QED BY <2>1, <2>2 DEF Runs, AreWrites
<1>3. PICK H : H = {w \in Writers : \E written : Holds(w, written)}
  OBVIOUS
<1>4. PICK h : h = [i \in 0 .. n |-> IF i = 0 THEN NewWriter ELSE WriteBits(h[i - 1], v[i].input, v[i].bits)]
  <2>1. PICK F : F = [i \in 1 .. n |-> [w \in H |-> WriteBits(w, v[i].input, v[i].bits)]]
    OBVIOUS
  <2>2. ASSUME NEW i \in 1 .. n, NEW w \in H
        PROVE  WriteBits(w, v[i].input, v[i].bits) \in H
    <3>1. PICK written : Holds(w, written)
      BY <1>3
    <3>2. PICK input \in Seq(Byte), m \in Nat : input = v[i].input /\ m = v[i].bits /\ m <= 8 * Len(input)
      BY <1>2
    <3>3. Holds(WriteBits(w, input, m), written \o AddedBits(input, m))
      BY <3>1, <3>2, WriteBitsAppends
    <3>. QED BY <1>3, <3>2, <3>3, ZenonT(40) DEF Holds
  <2>3. F \in [1 .. n -> [H -> H]]
    BY <2>1, <2>2
  <2>4. NewWriter \in H
    BY <1>3, NothingWritten, ZenonT(40) DEF Holds
  <2>5. PICK h \in [0 .. n -> H] : h[0] = NewWriter /\ \A i \in 1 .. n : h[i] = F[i][h[i - 1]]
    <3>1. StepsOn(F, n, H)
      BY <2>3 DEF StepsOn
    <3>2. HasTurns(F, n, H, NewWriter)
      BY <2>4, <3>1, TurnsExist
    <3>. QED BY <3>2 DEF HasTurns
  <2>6. \A i \in 1 .. n : i - 1 \in 0 .. n
    OBVIOUS
  <2>7. \A i \in 1 .. n : h[i] = WriteBits(h[i - 1], v[i].input, v[i].bits)
    BY <2>1, <2>5, <2>6
  <2>8. \A i \in 0 .. n : h[i] = IF i = 0 THEN NewWriter ELSE WriteBits(h[i - 1], v[i].input, v[i].bits)
    BY <2>5, <2>7
  <2>. QED BY <2>5, <2>8
<1>5. PICK y : WantedTurns(v, y)
  BY WantedByTurns
<1>6. PICK x : /\ x = [i \in 0 .. n |-> IF i = 0 THEN NewWriter ELSE WriteBits(x[i - 1], v[i].input, v[i].bits)]
               /\ WriterOf(v) = x[n]
  <2>1. WriterOf(v) =
          (CHOOSE x : x = [i \in 0 .. n |-> IF i = 0 THEN NewWriter ELSE WriteBits(x[i - 1], v[i].input, v[i].bits)])[n]
    BY <1>1 DEF WriterOf, Loop
  <2>. QED BY <1>4, <2>1
<1>7. /\ y[0] = << >> /\ WantedOf(v) = y[n]
      /\ \A i \in 1 .. n : y[i] = y[i - 1] \o AddedBits(v[i].input, v[i].bits)
  BY <1>1, <1>5 DEF WantedTurns
\* A least turn at which the writer does not hold what it should is none.
<1>8. PICK Wrong : Wrong = {i \in 0 .. n : ~Holds(x[i], y[i])}
  OBVIOUS
<1>9. ASSUME Wrong # {} PROVE FALSE
  <2>1. PICK i \in Wrong : \A k \in Wrong : i <= k
    <3>1. Wrong \in SUBSET Nat
      BY <1>8
    <3>. QED BY <1>9, <3>1, NatLeast
  <2>2. i \in 0 .. n /\ ~Holds(x[i], y[i])
    BY <1>8, <2>1
  <2>3. CASE i = 0
    <3>1. x[0] = NewWriter /\ y[0] = << >>
      BY <1>6, <1>7
    <3>. QED BY <2>2, <2>3, <3>1, NothingWritten
  <2>4. CASE i # 0
    <3>1. i \in 1 .. n /\ i - 1 \in 0 .. n /\ ~(i <= i - 1)
      BY <2>2, <2>4
    <3>2. Holds(x[i - 1], y[i - 1])
      BY <1>8, <2>1, <3>1
    <3>3. x[i] = WriteBits(x[i - 1], v[i].input, v[i].bits) /\ y[i] = y[i - 1] \o AddedBits(v[i].input, v[i].bits)
      BY <1>6, <1>7, <2>2, <2>4, <3>1
    <3>4. PICK input \in Seq(Byte), m \in Nat : input = v[i].input /\ m = v[i].bits /\ m <= 8 * Len(input)
      BY <1>2, <3>1
    <3>6. PICK w, written : w = x[i - 1] /\ written = y[i - 1]
      OBVIOUS
    <3>5. Holds(WriteBits(w, input, m), written \o AddedBits(input, m))
      BY <3>2, <3>4, <3>6, WriteBitsAppends
    <3>. QED BY <2>2, <3>3, <3>4, <3>5, <3>6
  <2>. QED BY <2>3, <2>4
<1>10. n \in 0 .. n
  OBVIOUS
<1>. QED BY <1>6, <1>7, <1>8, <1>9, <1>10

\* What a body is made from, and that it is the message's own, never change.
Made == message \in {s.message : s \in Starts} /\ (~cut => payload = Wire(message))

LEMMA MadeStep == Made /\ [Next]_vars => Made'
<1> SUFFICES ASSUME Made, [Next]_vars PROVE Made'
  OBVIOUS
<1>1. UNCHANGED bodyVars
  BY DEF Next, vars, EnterScripts, ScriptWrites, ScriptWritesEncoded, ScriptSeeksWrite, ScriptReads, ScriptSeeksRead,
         ScriptReadsEncoded, ScriptResets, ScriptSends, ScriptDrops, NextScript, LeaveScripts, TypedPasses,
         TypedDrops, TypedRewrites, Finish, ScriptOp, Dropped
<1>. QED BY <1>1 DEF Made, bodyVars

LEMMA MadeInit == Init => Made
<1> SUFFICES ASSUME Init PROVE Made
  OBVIOUS
<1>1. PICK s \in Starts : /\ message = s.message
                          /\ payload = IF cut THEN Cut(Wire(s.message)) ELSE Wire(s.message)
  BY DEF Init
<1>. QED BY <1>1 DEF Made

\* The body of a list of writes.
LEMMA PayloadOfWrites ==
  ASSUME Made, message.family = "bits", ~cut
  PROVE  /\ AreWrites(message.value) /\ WantedOf(message.value) \in Seq(Bit)
         /\ BitsOf(payload) = Resized(WantedOf(message.value), 8 * BytesFor(Len(WantedOf(message.value))))
<1>1. PICK v : v = message.value
  OBVIOUS
<1>2. AreWrites(v)
  <2>1. PICK s \in Starts : message = s.message
    BY DEF Made
  <2>. QED BY <1>1, <2>1, HandlerChainAssumption
<1>3. PICK w, written : w = WriterOf(v) /\ written = WantedOf(v)
  OBVIOUS
<1>4. Holds(w, written)
  BY <1>2, <1>3, WritesHold
<1>5. payload = IntoBytes(w)
  <2>1. payload = Wire(message)
    BY DEF Made
  <2>2. Wire(message) = IntoBytes(WriterOf(message.value))
    BY DEF Wire, Directions, WriterOf
  <2>. QED BY <1>1, <1>3, <2>1, <2>2
<1>6. BitsOf(IntoBytes(w)) = Resized(written, 8 * BytesFor(Len(written)))
  BY <1>4, BodyHolds
<1>7. written \in Seq(Bit)
  BY <1>4 DEF Holds
<1>. QED BY <1>1, <1>2, <1>3, <1>5, <1>6, <1>7

\* The writer every body is made by appends: whatever is written, with whatever
\* widths and at whatever bit offsets, the body is the bits that were written,
\* one write after the other, and zeroes to the end of its last byte
\* (bitstream.rs's write_bits).
THEOREM WritesAreAppended == Spec => []WritesAppend
<1>1. Made => WritesAppend
  BY PayloadOfWrites, Zenon DEF WritesAppend, WantedOf
<1>. QED BY <1>1, MadeInit, MadeStep, PTL DEF Spec

-----------------------------------------------------------------------------
(* The reader.                                                               *)

\* How many of n bits are in byte j of those they are read into or written
\* from: all eight, or, in the last one, the lowest.
InByte(n, j) == Lesser(8, n - 8 * (j - 1))

\* What a write of n bits carries of its input: the last byte's other bits not.
Carried(input, n) == [j \in 1 .. BytesFor(n) |-> input[j] % 2^InByte(n, j)]

LEMMA LowBits ==
  ASSUME NEW b \in Byte, NEW m \in 1 .. 8
  PROVE  /\ b % 2^m \in Byte
         /\ \A k \in 1 .. 8 - m : ByteBits(b % 2^m)[k] = 0
         /\ \A h \in 1 .. m : ByteBits(b % 2^m)[h + (8 - m)] = ByteBits(b)[h + (8 - m)]
<1>0. b \in 0 .. 255
  BY DEF Byte
<1>. PICK v \in 0 .. 7 : v = 8 - m
  OBVIOUS
<1>1. b % 2^m = ShiftRight(ShiftLeft(b, v), v)
  <2>1. CASE m = 1
    <3>1. v = 7
      BY <2>1
    <3>. QED BY <1>0, <2>1, <3>1 DEF ShiftRight, ShiftLeft
  <2>2. CASE m = 2
    <3>1. v = 6
      BY <2>2
    <3>. QED BY <1>0, <2>2, <3>1 DEF ShiftRight, ShiftLeft
  <2>3. CASE m = 3
    <3>1. v = 5
      BY <2>3
    <3>. QED BY <1>0, <2>3, <3>1 DEF ShiftRight, ShiftLeft
  <2>4. CASE m = 4
    <3>1. v = 4
      BY <2>4
    <3>. QED BY <1>0, <2>4, <3>1 DEF ShiftRight, ShiftLeft
  <2>5. CASE m = 5
    <3>1. v = 3
      BY <2>5
    <3>. QED BY <1>0, <2>5, <3>1 DEF ShiftRight, ShiftLeft
  <2>6. CASE m = 6
    <3>1. v = 2
      BY <2>6
    <3>. QED BY <1>0, <2>6, <3>1 DEF ShiftRight, ShiftLeft
  <2>7. CASE m = 7
    <3>1. v = 1
      BY <2>7
    <3>. QED BY <1>0, <2>7, <3>1 DEF ShiftRight, ShiftLeft
  <2>8. CASE m = 8
    <3>1. v = 0
      BY <2>8
    <3>. QED BY <1>0, <2>8, <3>1 DEF ShiftRight, ShiftLeft
  <2>. QED BY <2>1, <2>2, <2>3, <2>4, <2>5, <2>6, <2>7, <2>8
<1>2. PICK x \in Byte : /\ x = ShiftLeft(b, v)
                        /\ \A k \in 1 .. 8 : ByteBits(x)[k] = IF k > 8 - v THEN 0 ELSE ByteBits(b)[k + v]
  BY ShiftLeftBits
<1>3. PICK y \in Byte : /\ y = ShiftRight(x, v)
                        /\ \A k \in 1 .. 8 : ByteBits(y)[k] = IF k <= v THEN 0 ELSE ByteBits(x)[k - v]
  BY ShiftRightBits
<1>4. y = b % 2^m
  BY <1>1, <1>2, <1>3
<1>5. ASSUME NEW k \in 1 .. 8 - m PROVE ByteBits(y)[k] = 0
  <2>1. k \in 1 .. 8 /\ k <= v
    OBVIOUS
  <2>. QED BY <1>3, <2>1
<1>6. ASSUME NEW h \in 1 .. m PROVE ByteBits(y)[h + (8 - m)] = ByteBits(b)[h + (8 - m)]
  <2>1. h + v \in 1 .. 8 /\ ~(h + v <= v) /\ (h + v) - v = h /\ h \in 1 .. 8 /\ ~(h > 8 - v) /\ h + (8 - m) = h + v
    OBVIOUS
  <2>2. ByteBits(y)[h + v] = ByteBits(x)[h]
    BY <1>3, <2>1
  <2>3. ByteBits(x)[h] = ByteBits(b)[h + v]
    BY <1>2, <2>1
  <2>. QED BY <2>1, <2>2, <2>3
<1>. QED BY <1>4, <1>5, <1>6

LEMMA InByteRange ==
  ASSUME NEW n \in Nat, NEW j \in 1 .. BytesFor(n)
  PROVE  /\ InByte(n, j) \in 1 .. 8 /\ 8 - InByte(n, j) \in 0 .. 7
         /\ 8 * (j - 1) + InByte(n, j) <= n
         /\ InByte(n, j) # 8 => InByte(n, j) = n - 8 * (j - 1)
  BY DEF InByte, BytesFor, Lesser

\* The bits a write adds are the low ones of each byte of its input.
LEMMA LowBitsAdded ==
  ASSUME NEW input \in Seq(Byte), NEW n \in Nat, n <= 8 * Len(input),
         NEW j \in 1 .. BytesFor(n), NEW h \in 1 .. InByte(n, j)
  PROVE  AddedBits(input, n)[8 * (j - 1) + h] = ByteBits(input[j])[h + (8 - InByte(n, j))]
<1>1. PICK m \in 1 .. 8, v \in 0 .. 7 : m = InByte(n, j) /\ v = 8 - m /\ 8 * (j - 1) + m <= n /\ h \in 1 .. m
  BY InByteRange
<1>2. PICK added : added = AddedBits(input, n) /\ ChunksHold(input, n, added)
  BY AddedBitsOf
<1>3. PICK x \in Byte : x = input[j]
  <2>1. j \in 1 .. Len(input)
    BY DEF BytesFor
  <2>. QED BY <2>1, ElementOfSeq
<1>4. 8 * (j - 1) + h <= n /\ h \in 1 .. 8
  BY <1>1, SMTT(30)
<1>5. ByteBits(Chunk(input, n, j))[h] = added[8 * (j - 1) + h]
  BY <1>2, <1>4 DEF ChunksHold
<1>6. ByteBits(Chunk(input, n, j))[h] = ByteBits(x)[h + v]
  <2>1. CASE n - 8 * (j - 1) < 8
    <3>1. Chunk(input, n, j) = ShiftLeft(x, v)
      BY <1>1, <1>3, <2>1 DEF Chunk, InByte, Lesser
    <3>2. ~(h > 8 - v)
      BY <1>1
    <3>. QED BY <1>4, <3>1, <3>2, ShiftLeftBits, ZenonT(40)
  <2>2. CASE ~(n - 8 * (j - 1) < 8)
    <3>1. Chunk(input, n, j) = x /\ v = 0 /\ h + v = h
      BY <1>1, <1>3, <2>2 DEF Chunk, InByte, Lesser
    <3>. QED BY <3>1
  <2>. QED BY <2>1, <2>2
<1>. QED BY <1>1, <1>2, <1>3, <1>5, <1>6

\* The low m bits of a byte are those of a body after its bit p, the others 0.
LowBitsAre(c, bits, p, m) ==
    /\ c \in Byte
    /\ \A k \in 1 .. 8 - m : ByteBits(c)[k] = 0
    /\ \A h \in 1 .. m : ByteBits(c)[h + (8 - m)] = bits[p + h]

\* One byte the reader makes: the next bits of the body, as many as are wanted,
\* in its lowest ones, and zeroes above them.
LEMMA ChunkRead ==
  ASSUME NEW data \in Seq(Byte), NEW p \in Nat, NEW want \in Nat \ {0}, p + want <= 8 * Len(data),
         NEW m, m = Lesser(8, want), NEW c, c = ReadChunk([data |-> data, pos |-> p], want, TRUE)
  PROVE  LowBitsAre(c, BitsOf(data), p, m)
<1>. m \in 1 .. 8 /\ m = IF want < 8 THEN want ELSE 8
  BY DEF Lesser
<1>1. PICK at \in Nat \ {0}, s \in 0 .. 7 : at = p \div 8 + 1 /\ s = p % 8 /\ p = 8 * (at - 1) + s
  <2>1. p \div 8 \in Nat /\ p % 8 \in 0 .. 7 /\ p = 8 * (p \div 8) + (p % 8)
    OBVIOUS
  <2>2. PICK d \in Nat : d = p \div 8
    BY <2>1
  <2>3. d + 1 \in Nat \ {0} /\ (d + 1) - 1 = d
    OBVIOUS
  <2>. QED BY <2>1, <2>2, <2>3
<1>2. at \in 1 .. Len(data) /\ (want > 8 - s => at + 1 \in 1 .. Len(data))
  BY <1>1
<1>3. PICK B : /\ B = BitsOf(data)
               /\ \A j \in 1 .. Len(data), k \in 1 .. 8 : B[8 * (j - 1) + k] = ByteBits(data[j])[k]
  BY BitsOfBytes
<1>4. PICK x \in Byte : x = data[at]
  BY <1>2, ElementOfSeq
<1>5. PICK b \in Byte : /\ b = ShiftLeft(x, s)
                        /\ \A k \in 1 .. 8 : ByteBits(b)[k] = IF k > 8 - s THEN 0 ELSE ByteBits(x)[k + s]
  BY ShiftLeftBits
<1>6. ASSUME NEW k \in 1 .. 8, k <= 8 - s
      PROVE  ByteBits(b)[k] = B[p + k]
  <2>1. PICK h \in 1 .. 8 : h = k + s
    BY <1>6
  <2>2. ~(k > 8 - s) /\ 8 * (at - 1) + h = p + k
    BY <1>1, <1>6, <2>1
  <2>3. B[8 * (at - 1) + h] = ByteBits(x)[h]
    BY <1>2, <1>3, <1>4
  <2>. QED BY <1>5, <2>1, <2>2, <2>3
<1>7. PICK e : e = IF s # 0 /\ want > 8 - s THEN b | ShiftRight(data[at + 1], 8 - s) ELSE b
  OBVIOUS
<1>8. e \in Byte /\ \A k \in 1 .. 8 : k <= want => ByteBits(e)[k] = B[p + k]
  <2>1. CASE s # 0 /\ want > 8 - s
    <3>1. PICK y \in Byte : y = data[at + 1]
      BY <1>2, <2>1, ElementOfSeq
    <3>2. PICK v \in 0 .. 7 : v = 8 - s
      BY <2>1
    <3>3. PICK z \in Byte : /\ z = ShiftRight(y, v)
                            /\ \A k \in 1 .. 8 : ByteBits(z)[k] = IF k <= v THEN 0 ELSE ByteBits(y)[k - v]
      BY ShiftRightBits
    <3>4. e = (b | z)
      BY <1>7, <2>1, <3>1, <3>2, <3>3
    <3>5. e \in Byte /\ \A k \in 1 .. 8 : ByteBits(e)[k] = IF ByteBits(b)[k] = 1 THEN 1 ELSE ByteBits(z)[k]
      BY <3>4, OrBits
    <3>6. ASSUME NEW k \in 1 .. 8 PROVE ByteBits(e)[k] = B[p + k]
      <4>0. ByteBits(e)[k] = IF ByteBits(b)[k] = 1 THEN 1 ELSE ByteBits(z)[k]
        BY <3>5
      <4>1. CASE k <= v
        <5>1. ByteBits(b)[k] = B[p + k] /\ ByteBits(z)[k] = 0
          BY <1>6, <3>2, <3>3, <4>1
        <5>2. ByteBits(b)[k] \in Bit
          <6>1. ByteBits(b) \in [1 .. 8 -> Bit]
            BY ByteBitsType
          <6>. QED BY <6>1
        <5>. QED BY <4>0, <5>1, <5>2 DEF Bit
      <4>2. CASE k > v
        <5>1. PICK h \in 1 .. 8 : h = k - v
          BY <4>2
        <5>2. ByteBits(b)[k] = 0
          <6>1. k > 8 - s
            BY <3>2, <4>2
          <6>2. ByteBits(b)[k] = IF k > 8 - s THEN 0 ELSE ByteBits(x)[k + s]
            BY <1>5
          <6>. QED BY <6>1, <6>2
        <5>3. ByteBits(z)[k] = ByteBits(y)[h]
          <6>1. ~(k <= v)
            BY <4>2
          <6>. QED BY <3>3, <5>1, <6>1
        <5>4. PICK j \in 1 .. Len(data) : j = at + 1
          BY <1>2, <2>1
        <5>5. 8 * (j - 1) + h = p + k
          BY <1>1, <3>2, <5>1, <5>4
        <5>6. B[8 * (j - 1) + h] = ByteBits(y)[h]
          BY <1>3, <3>1, <5>4
        <5>7. ByteBits(b)[k] # 1
          BY <5>2
        <5>8. ByteBits(e)[k] = ByteBits(z)[k]
          BY <4>0, <5>7, Zenon
        <5>. QED BY <5>3, <5>5, <5>6, <5>8
      <4>3. k <= v \/ k > v
        OBVIOUS
      <4>. QED BY <4>1, <4>2, <4>3
    <3>. QED BY <3>5, <3>6
  <2>2. CASE ~(s # 0 /\ want > 8 - s)
    <3>1. e = b
      BY <1>7, <2>2 DEF LowBitsAre
    <3>2. \A k \in 1 .. 8 : k <= want => k <= 8 - s
      BY <2>2
    <3>. QED BY <1>6, <3>1, <3>2
  <2>. QED BY <2>1, <2>2
<1>9. c = IF want < 8 THEN ShiftRight(e, 8 - want) ELSE e
  BY <1>1, <1>4, <1>5, <1>7, Zenon DEF ReadChunk
<1>10. PICK v \in 0 .. 7 : v = 8 - m
  OBVIOUS
<1>11. CASE want < 8
  <2>1. c = ShiftRight(e, v) /\ m = want
    BY <1>9, <1>10, <1>11
  <2>2. /\ ShiftRight(e, v) \in Byte
        /\ \A k \in 1 .. 8 : ByteBits(ShiftRight(e, v))[k] = IF k <= v THEN 0 ELSE ByteBits(e)[k - v]
    BY <1>8, ShiftRightBits
  <2>3. \A k \in 1 .. 8 - m : k \in 1 .. 8 /\ k <= v
    BY <1>10
  <2>4. ASSUME NEW h \in 1 .. m
        PROVE  ByteBits(c)[h + (8 - m)] = B[p + h]
    <3>0. h + (8 - m) \in 1 .. 8
      BY <1>10, SMTT(30)
    <3>1. PICK k \in 1 .. 8 : k = h + (8 - m)
      BY <3>0
    <3>2. ~(k <= v) /\ k - v = h /\ h \in 1 .. 8 /\ h <= want
      BY <1>10, <2>1, <3>1
    <3>3. ByteBits(c)[k] = ByteBits(e)[h]
      BY <2>1, <2>2, <3>2
    <3>. QED BY <1>8, <3>1, <3>2, <3>3
  <2>5. c \in Byte
    BY <2>1, <2>2
  <2>6. ASSUME NEW k \in 1 .. 8 - m
        PROVE  ByteBits(c)[k] = 0
    BY <2>1, <2>2, <2>3
  <2>. QED BY <1>3, <2>4, <2>5, <2>6 DEF LowBitsAre
<1>12. CASE ~(want < 8)
  <2>1. c = e /\ m = 8
    BY <1>9, <1>12
  <2>2. \A h \in 1 .. 8 : h + (8 - 8) = h /\ h <= want
    BY <1>12
  <2>3. \A k \in 1 .. 8 - 8 : FALSE
    OBVIOUS
  <2>4. \A h \in 1 .. 8 : ByteBits(e)[h + (8 - 8)] = B[p + h]
    BY <1>8, <2>2
  <2>5. LowBitsAre(e, B, p, 8)
    BY <1>8, <2>3, <2>4 DEF LowBitsAre
  <2>. QED BY <1>3, <2>1, <2>5
<1>. QED BY <1>11, <1>12

\* What read_bits makes of the n bits after bit p of a body, where those are the
\* bits a write of n bits of `input` adds: what the write carried.
LEMMA ReadBitsReads ==
  ASSUME NEW data \in Seq(Byte), NEW p \in Nat, NEW n \in Nat, p + n <= 8 * Len(data),
         NEW input \in Seq(Byte), n <= 8 * Len(input),
         \A i \in 1 .. n : BitsOf(data)[p + i] = AddedBits(input, n)[i]
  PROVE  ReadBits([data |-> data, pos |-> p], n, TRUE) = Done(Carried(input, n), [data |-> data, pos |-> p + n])
<1>1. PICK r : r = [data |-> data, pos |-> p]
  OBVIOUS
<1>2. ~(n > BitsLeft(r))
  BY <1>1 DEF BitsLeft
<1>3. PICK v : v = [i \in 1 .. BytesFor(n) |->
                      ReadChunk([r EXCEPT !.pos = @ + 8 * (i - 1)], n - 8 * (i - 1), TRUE)]
  OBVIOUS
<1>4. PICK t : t = [r EXCEPT !.pos = @ + n] /\ ReadBits(r, n, TRUE) = [ok |-> TRUE, v |-> v, r |-> t]
  BY <1>2, <1>3, Zenon DEF ReadBits
<1>5. ReadBits([data |-> data, pos |-> p], n, TRUE) = Done(v, [data |-> data, pos |-> p + n])
  <2>1. t = [data |-> data, pos |-> p + n]
    BY <1>1, <1>4
  <2>. QED BY <1>1, <1>4, <2>1, Zenon DEF Done
<1>6. PICK B : B = BitsOf(data)
  OBVIOUS
<1>7. ASSUME NEW j \in 1 .. BytesFor(n)
      PROVE  LowBitsAre(v[j], B, p + 8 * (j - 1), InByte(n, j))
  <2>1. PICK q \in Nat, want \in Nat \ {0} : /\ q = p + 8 * (j - 1) /\ want = n - 8 * (j - 1)
                                            /\ q + want <= 8 * Len(data)
    <3>1. BytesFor(n) \in Nat
      BY BytesForType
    <3>2. p + 8 * (j - 1) \in Nat /\ n - 8 * (j - 1) \in Nat \ {0}
      BY <3>1 DEF BytesFor
    <3>3. p + 8 * (j - 1) + (n - 8 * (j - 1)) <= 8 * Len(data)
      BY <3>1, <3>2
    <3>. QED BY <3>2, <3>3
  <2>2. PICK m \in 1 .. 8 : m = InByte(n, j)
    BY InByteRange
  <2>3. m = Lesser(8, want)
    BY <2>1, <2>2 DEF InByte
  <2>4. v[j] = ReadChunk([data |-> data, pos |-> q], want, TRUE)
    <3>1. [r EXCEPT !.pos = @ + 8 * (j - 1)] = [data |-> data, pos |-> q]
      BY <1>1, <2>1
    <3>2. v[j] = ReadChunk([r EXCEPT !.pos = @ + 8 * (j - 1)], n - 8 * (j - 1), TRUE)
      BY <1>3, Zenon
    <3>. QED BY <2>1, <3>1, <3>2
  <2>5. PICK c : c = v[j]
    OBVIOUS
  <2>6. LowBitsAre(c, B, q, m)
    BY <1>6, <2>1, <2>3, <2>4, <2>5, ChunkRead
  <2>. QED BY <2>1, <2>2, <2>5, <2>6
<1>8. ASSUME NEW j \in 1 .. BytesFor(n)
      PROVE  v[j] = input[j] % 2^InByte(n, j)
  <2>1. PICK x \in Byte : x = input[j]
    <3>1. PICK l \in Nat : l = Len(input) /\ n <= 8 * l
      OBVIOUS
    <3>2. j \in 1 .. l
      BY <3>1 DEF BytesFor
    <3>. QED BY <3>1, <3>2, ElementOfSeq
  <2>2. PICK m \in 1 .. 8 : m = InByte(n, j) /\ 8 * (j - 1) + m <= n
    BY InByteRange
  <2>3. PICK y \in Byte : /\ y = x % 2^m
                          /\ \A k \in 1 .. 8 - m : ByteBits(y)[k] = 0
                          /\ \A h \in 1 .. m : ByteBits(y)[h + (8 - m)] = ByteBits(x)[h + (8 - m)]
    BY LowBits
  <2>4. PICK c \in Byte : /\ c = v[j]
                          /\ \A k \in 1 .. 8 - m : ByteBits(c)[k] = 0
                          /\ \A h \in 1 .. m : ByteBits(c)[h + (8 - m)] = B[(p + 8 * (j - 1)) + h]
    BY <1>7, <2>2 DEF LowBitsAre
  <2>5. ASSUME NEW h \in 1 .. m PROVE B[(p + 8 * (j - 1)) + h] = ByteBits(x)[h + (8 - m)]
    <3>1. PICK i \in 1 .. n : i = 8 * (j - 1) + h
      <4>1. j \in Nat
        BY BytesForType
      <4>2. 8 * (j - 1) + h \in 1 .. n
        BY <2>2, <4>1
      <4>. QED BY <4>2
    <3>2. (p + 8 * (j - 1)) + h = p + i
      BY <3>1, BytesForType
    <3>3. B[p + i] = AddedBits(input, n)[i]
      BY <1>6
    <3>4. AddedBits(input, n)[8 * (j - 1) + h] = ByteBits(input[j])[h + (8 - m)]
      BY <2>2, LowBitsAdded
    <3>. QED BY <2>1, <3>1, <3>2, <3>3, <3>4
  <2>6. ASSUME NEW k \in 1 .. 8 PROVE ByteBits(c)[k] = ByteBits(y)[k]
    <3>1. CASE k <= 8 - m
      <4>1. k \in 1 .. 8 - m
        BY <3>1
      <4>. QED BY <2>3, <2>4, <4>1
    <3>2. CASE ~(k <= 8 - m)
      <4>1. k - (8 - m) \in 1 .. m /\ k = (k - (8 - m)) + (8 - m)
        BY <3>2
      <4>2. PICK h \in 1 .. m : k = h + (8 - m)
        BY <4>1
      <4>. QED BY <2>3, <2>4, <2>5, <4>2
    <3>. QED BY <3>1, <3>2
  <2>7. ByteBits(c) = ByteBits(y)
    <3>1. PICK f \in [1 .. 8 -> Bit], g \in [1 .. 8 -> Bit] : f = ByteBits(c) /\ g = ByteBits(y)
      BY ByteBitsType
    <3>2. \A k \in 1 .. 8 : f[k] = g[k]
      BY <2>6, <3>1
    <3>3. f = [k \in 1 .. 8 |-> f[k]] /\ g = [k \in 1 .. 8 |-> g[k]]
      BY <3>1
    <3>4. [k \in 1 .. 8 |-> f[k]] = [k \in 1 .. 8 |-> g[k]]
      BY <3>2, Zenon
    <3>. QED BY <3>1, <3>3, <3>4
  <2>8. c = y
    BY <2>7, ByteOfByteBits
  <2>. QED BY <2>1, <2>2, <2>3, <2>4, <2>8
<1>9. v = Carried(input, n)
  BY <1>3, <1>8 DEF Carried
<1>. QED BY <1>5, <1>9

\* What later writes make of the bits: more of them, behind those there are.
LEMMA WantedGoesOn ==
  ASSUME NEW v, NEW y, WantedTurns(v, y), AreWrites(v), NEW j \in 0 .. Len(v)
  PROVE  \E rest \in Seq(Bit) : y[Len(v)] = y[j] \o rest
<1>1. PICK n \in Nat : n = Len(v) /\ j \in 0 .. n /\ v \in Seq(Runs)
  BY DEF AreWrites, Runs
<1>2. PICK Wrong : Wrong = {i \in j .. n : \A rest \in Seq(Bit) : y[i] # y[j] \o rest}
  OBVIOUS
<1>3. ASSUME Wrong # {} PROVE FALSE
  <2>1. PICK i \in Wrong : \A k \in Wrong : i <= k
    <3>1. Wrong \in SUBSET Nat
      BY <1>1, <1>2
    <3>. QED BY <1>3, <3>1, NatLeast
  <2>2. i \in j .. n /\ \A rest \in Seq(Bit) : y[i] # y[j] \o rest
    BY <1>2, <2>1
  <2>3. CASE i = j
    <3>1. y[j] \in Seq(Bit) /\ << >> \in Seq(Bit)
      BY <1>1 DEF WantedTurns
    <3>2. y[j] = y[j] \o << >>
      BY <3>1, ConcatEmptySeq
    <3>. QED BY <2>2, <2>3, <3>1, <3>2
  <2>4. CASE i # j
    <3>1. i \in 1 .. n /\ i - 1 \in j .. n /\ i - 1 \in 0 .. n /\ ~(i <= i - 1)
      BY <1>1, <2>2, <2>4
    <3>2. PICK rest \in Seq(Bit) : y[i - 1] = y[j] \o rest
      BY <1>2, <2>1, <3>1
    <3>3. PICK more \in Seq(Bit) : more = AddedBits(v[i].input, v[i].bits)
      <4>1. v[i] \in Runs /\ i \in DOMAIN v
        BY <1>1, <3>1, ElementOfSeq
      <4>2. v[i].input \in Seq(Byte) /\ v[i].bits \in Nat /\ v[i].bits <= 8 * Len(v[i].input)
        BY <4>1 DEF Runs, AreWrites
      <4>. QED BY <4>2, AddedBitsOf
    <3>4. y[i] = (y[j] \o rest) \o more
      BY <1>1, <3>1, <3>2, <3>3 DEF WantedTurns
    <3>5. y[j] \in Seq(Bit)
      BY <1>1 DEF WantedTurns
    <3>6. rest \o more \in Seq(Bit)
      BY ConcatProperties
    <3>7. (y[j] \o rest) \o more = y[j] \o (rest \o more)
      <4>1. PICK z \in Seq(Bit) : z = y[j]
        BY <3>5
      <4>2. (z \o rest) \o more = z \o (rest \o more)
        BY ConcatAssociative, SMTT(30)
      <4>. QED BY <4>1, <4>2
    <3>. QED BY <2>2, <3>4, <3>6, <3>7
  <2>. QED BY <2>3, <2>4
<1>4. n \in j .. n
  BY <1>1
<1>. QED BY <1>1, <1>2, <1>3, <1>4

\* The reader over a list of writes: after each turn it has read what the write
\* carried, and stands where the next one starts.
ReadSoFar(v, data, y, i) ==
    Done([k \in 1 .. i |-> Carried(v[k].input, v[k].bits)], [data |-> data, pos |-> Len(y[i])])

LEMMA DoneParts ==
  ASSUME NEW v, NEW r
  PROVE  Done(v, r).ok /\ Done(v, r).v = v /\ Done(v, r).r = r
<1>1. Done(v, r).ok
  BY DEF Done
<1>2. Done(v, r).v = v /\ Done(v, r).r = r
  BY DEF Done
<1>. QED BY <1>1, <1>2

\* One turn of ReadRuns
ReadRun(acc, bits) ==
    Then(acc, LAMBDA vs, s : Then(ReadBits(s, bits, TRUE), LAMBDA v, t : Done(Append(vs, v), t)))

\* Reading n bits with r makes v, and leaves the reader t.
Reads(r, bits, v, t) == ReadBits(r, bits, TRUE) = Done(v, t)

LEMMA ReadRunOf ==
  ASSUME NEW vs, NEW r, NEW bits, NEW v, NEW t, Reads(r, bits, v, t)
  PROVE  ReadRun(Done(vs, r), bits) = Done(Append(vs, v), t)
<1>1. PICK a : a = Done(vs, r)
  OBVIOUS
<1>2. a.ok /\ a.v = vs /\ a.r = r
  BY <1>1, DoneParts
<1>3. PICK b : b = Done(v, t)
  OBVIOUS
<1>4. b.ok /\ b.v = v /\ b.r = t
  BY <1>3, DoneParts
<1>5. ReadBits(a.r, bits, TRUE) = b
  BY <1>2, <1>3 DEF Reads
<1>6. ReadRun(a, bits) = IF b.ok THEN Done(Append(a.v, b.v), b.r) ELSE b
  BY <1>2, <1>5, Zenon DEF ReadRun, Then
<1>. QED BY <1>1, <1>2, <1>4, <1>6

\* The turns of ReadRuns over the writes of m.
ReadTurns(m, data, x) ==
    x = [i \in 0 .. Len(m.value) |->
            IF i = 0 THEN Done(<< >>, NewReader(data)) ELSE ReadRun(x[i - 1], m.value[i].bits)]

LEMMA ReadRunsTurns ==
  ASSUME NEW m, NEW data, NEW g, ReadTurns(m, data, g)
  PROVE  \E x : ReadTurns(m, data, x) /\ ReadRuns(m, data) = x[Len(m.value)]
<1>1. ReadRuns(m, data) = (CHOOSE x : ReadTurns(m, data, x))[Len(m.value)]
  BY Zenon DEF ReadRuns, Loop, ReadRun, ReadTurns
<1>. QED BY <1>1, Zenon

\* ReadRuns over a body that starts with the bits of the writes reads what they
\* carried, whatever follows.
LEMMA RunsAreRead ==
  ASSUME NEW m, AreWrites(m.value), NEW data \in Seq(Byte),
         Len(WantedOf(m.value)) <= 8 * Len(data),
         \A i \in 1 .. Len(WantedOf(m.value)) : BitsOf(data)[i] = WantedOf(m.value)[i]
  PROVE  ReadRuns(m, data) = Done([k \in 1 .. Len(m.value) |-> Carried(m.value[k].input, m.value[k].bits)],
                                  [data |-> data, pos |-> Len(WantedOf(m.value))])
<1>0. PICK v : v = m.value /\ AreWrites(v)
  OBVIOUS
<1>1. PICK n \in Nat : v = m.value /\ v \in Seq(Runs) /\ n = Len(v) /\ AreWrites(v)
  BY <1>0 DEF AreWrites, Runs
<1>2. PICK all : all = WantedOf(v)
  OBVIOUS
<1>3. PICK y : WantedTurns(v, y)
  BY <1>1, WantedByTurns
<1>4. /\ y \in [0 .. n -> Seq(Bit)] /\ y[0] = << >> /\ all = y[n] /\ all \in Seq(Bit)
      /\ \A i \in 1 .. n : y[i] = y[i - 1] \o AddedBits(v[i].input, v[i].bits)
  <2>1. y \in [0 .. Len(v) -> Seq(Bit)] /\ y[0] = << >>
    BY <1>3 DEF WantedTurns
  <2>2. all = y[n]
    BY <1>1, <1>2, <1>3, Zenon DEF WantedTurns
  <2>3. \A i \in 1 .. n : y[i] = y[i - 1] \o AddedBits(v[i].input, v[i].bits)
    BY <1>1, <1>3, Zenon DEF WantedTurns
  <2>4. y \in [0 .. n -> Seq(Bit)] /\ n \in 0 .. n
    BY <1>1, <2>1
  <2>5. y[n] \in Seq(Bit)
    BY <2>4
  <2>. QED BY <2>1, <2>2, <2>3, <2>4, <2>5
<1>5. PICK g : g = [i \in 0 .. n |-> ReadSoFar(v, data, y, i)]
  OBVIOUS
\* One turn: the bits at the reader are those the write added.
<1>6. ASSUME NEW i \in 1 .. n
      PROVE  g[i] = ReadRun(g[i - 1], v[i].bits)
  <2>1. PICK input \in Seq(Byte), l \in Nat : input = v[i].input /\ l = v[i].bits /\ l <= 8 * Len(input)
    <3>1. v[i] \in Runs /\ i \in DOMAIN v
      BY <1>1, ElementOfSeq
    <3>. QED BY <1>1, <3>1 DEF Runs, AreWrites
  <2>2. i \in 0 .. n /\ i - 1 \in 0 .. n
    OBVIOUS
  <2>3. PICK before \in Seq(Bit), added \in Seq(Bit), rest \in Seq(Bit) :
          /\ before = y[i - 1] /\ added = AddedBits(input, l) /\ Len(added) = l
          /\ y[i] = before \o added /\ all = (before \o added) \o rest
    <3>1. y[i - 1] \in Seq(Bit) /\ y[i] = y[i - 1] \o AddedBits(input, l)
      BY <1>4, <2>1, <2>2
    <3>2. AddedBits(input, l) \in Seq(Bit) /\ Len(AddedBits(input, l)) = l
      BY <2>1, AddedBitsOf
    <3>3. PICK rest \in Seq(Bit) : y[n] = y[i] \o rest
      BY <1>1, <1>3, <2>2, WantedGoesOn
    <3>. QED BY <1>4, <3>1, <3>2, <3>3
  <2>4. PICK p \in Nat : p = Len(before)
    OBVIOUS
  <2>5. PICK front \in Seq(Bit) : /\ front = before \o added /\ Len(front) = p + l
                                  /\ \A k \in 1 .. p + l : front[k] = IF k <= p THEN before[k] ELSE added[k - p]
    <3>1. /\ before \o added \in Seq(Bit) /\ Len(before \o added) = Len(before) + Len(added)
          /\ \A k \in 1 .. Len(before) + Len(added) :
                (before \o added)[k] = IF k <= Len(before) THEN before[k] ELSE added[k - Len(before)]
      BY ConcatProperties
    <3>2. PICK front \in Seq(Bit) : front = before \o added
      BY <3>1
    <3>3. Len(before) = p /\ Len(added) = l
      BY <2>3, <2>4
    <3>. QED BY <3>1, <3>2, <3>3
  <2>6. /\ front \o rest \in Seq(Bit) /\ Len(front \o rest) = Len(front) + Len(rest)
        /\ \A k \in 1 .. Len(front) + Len(rest) :
              (front \o rest)[k] = IF k <= Len(front) THEN front[k] ELSE rest[k - Len(front)]
    BY ConcatProperties
  <2>7. all = front \o rest
    BY <2>3, <2>5
  <2>8. p + l <= Len(all) /\ p + l <= 8 * Len(data)
    <3>1. p + l <= Len(all)
      BY <2>5, <2>6, <2>7
    <3>2. Len(all) <= 8 * Len(data) /\ Len(all) \in Nat
      BY <1>1, <1>2, <1>4
    <3>. QED BY <3>1, <3>2
  <2>9. ASSUME NEW k \in 1 .. l PROVE BitsOf(data)[p + k] = AddedBits(input, l)[k]
    <3>1. p + k \in 1 .. p + l /\ ~(p + k <= p) /\ (p + k) - p = k
      OBVIOUS
    <3>2. p + k \in 1 .. Len(front) + Len(rest) /\ p + k <= Len(front)
      BY <2>5, <3>1
    <3>3. front[p + k] = added[k]
      BY <2>5, <3>1
    <3>4. all[p + k] = added[k]
      BY <2>6, <2>7, <3>2, <3>3
    <3>5. p + k \in 1 .. Len(all)
      BY <1>4, <2>8
    <3>6. BitsOf(data)[p + k] = all[p + k]
      BY <1>1, <1>2, <3>5
    <3>. QED BY <2>3, <3>4, <3>6
  <2>10. ReadBits([data |-> data, pos |-> p], l, TRUE) = Done(Carried(input, l), [data |-> data, pos |-> p + l])
    BY <2>1, <2>8, <2>9, ReadBitsReads
  <2>11. PICK vs : vs = [k \in 1 .. i - 1 |-> Carried(v[k].input, v[k].bits)]
    OBVIOUS
  <2>12. ReadRun(Done(vs, [data |-> data, pos |-> p]), l) =
           Done(Append(vs, Carried(input, l)), [data |-> data, pos |-> p + l])
    <3>1. PICK r, t, c : /\ r = [data |-> data, pos |-> p] /\ t = [data |-> data, pos |-> p + l]
                         /\ c = Carried(input, l)
      OBVIOUS
    <3>2. Reads(r, l, c, t)
      BY <2>10, <3>1, Zenon DEF Reads
    <3>3. ReadRun(Done(vs, r), l) = Done(Append(vs, c), t)
      BY <3>2, ReadRunOf
    <3>. QED BY <3>1, <3>3, Zenon
  <2>13. Append(vs, Carried(input, l)) = [k \in 1 .. i |-> Carried(v[k].input, v[k].bits)]
    <3>1. PICK C : C = {Carried(v[k].input, v[k].bits) : k \in 1 .. i}
      OBVIOUS
    <3>2. Carried(input, l) \in C
      BY <2>1, <3>1
    <3>3. vs \in Seq(C) /\ Len(vs) = i - 1
      <4>1. \A k \in 1 .. i - 1 : k \in 1 .. i
        OBVIOUS
      <4>2. vs \in [1 .. i - 1 -> C]
        BY <2>11, <3>1, <4>1
      <4>3. PICK h \in Nat : h = i - 1
        OBVIOUS
      <4>4. vs \in [1 .. h -> C]
        BY <4>2, <4>3
      <4>5. vs \in Seq(C) /\ Len(vs) = h
        BY <4>4
      <4>. QED BY <4>3, <4>5
    <3>4. PICK a : a = Append(vs, Carried(input, l))
      OBVIOUS
    <3>5. /\ a \in Seq(C) /\ Len(a) = i
          /\ \A k \in 1 .. i - 1 : a[k] = vs[k]
          /\ a[i] = Carried(input, l)
      BY <3>2, <3>3, <3>4, AppendProperties
    <3>6. PICK b : b = [k \in 1 .. i |-> Carried(v[k].input, v[k].bits)]
      OBVIOUS
    <3>7. b \in Seq(C) /\ Len(b) = i
      <4>1. b \in [1 .. i -> C]
        BY <3>1, <3>6
      <4>. QED BY <2>2, <4>1
    <3>8. ASSUME NEW k \in 1 .. i PROVE a[k] = b[k]
      <4>1. CASE k = i
        BY <2>1, <3>5, <3>6, <4>1
      <4>2. CASE k # i
        <5>1. k \in 1 .. i - 1
          BY <4>2
        <5>2. vs[k] = Carried(v[k].input, v[k].bits)
          BY <2>11, <5>1
        <5>. QED BY <3>5, <3>6, <5>1, <5>2
      <4>. QED BY <4>1, <4>2
    <3>9. a = b
      BY <3>5, <3>7, <3>8, SeqEqual
    <3>. QED BY <3>4, <3>6, <3>9
  <2>14. g[i - 1] = Done(vs, [data |-> data, pos |-> p])
    BY <1>5, <2>2, <2>3, <2>4, <2>11 DEF ReadSoFar
  <2>15. g[i] = Done([k \in 1 .. i |-> Carried(v[k].input, v[k].bits)], [data |-> data, pos |-> p + l])
    <3>1. Len(y[i]) = p + l
      BY <2>3, <2>5
    <3>. QED BY <1>5, <2>2, <3>1 DEF ReadSoFar
  <2>. QED BY <2>1, <2>12, <2>13, <2>14, <2>15
<1>7. g[0] = Done(<< >>, NewReader(data))
  <2>1. [k \in 1 .. 0 |-> Carried(v[k].input, v[k].bits)] = << >>
    OBVIOUS
  <2>2. Len(y[0]) = 0 /\ 0 \in 0 .. n
    BY <1>4
  <2>. QED BY <1>5, <2>1, <2>2 DEF ReadSoFar, NewReader
<1>8. g = [i \in 0 .. n |-> IF i = 0 THEN Done(<< >>, NewReader(data)) ELSE ReadRun(g[i - 1], v[i].bits)]
  <2>1. ASSUME NEW i \in 0 .. n
        PROVE  g[i] = IF i = 0 THEN Done(<< >>, NewReader(data)) ELSE ReadRun(g[i - 1], v[i].bits)
    <3>1. CASE i = 0
      BY <1>7, <3>1, Zenon
    <3>2. CASE i # 0
      <4>1. i \in 1 .. n
        BY <3>2
      <4>. QED BY <1>6, <3>2, <4>1, Zenon
    <3>. QED BY <3>1, <3>2
  <2>2. g = [i \in 0 .. n |-> g[i]]
    BY <1>5
  <2>. QED BY <2>1, <2>2, Zenon
<1>9. PICK x : ReadTurns(m, data, x) /\ ReadRuns(m, data) = x[n]
  <2>1. n = Len(m.value) /\ m.value = v
    BY <1>1, Zenon
  <2>2. ReadTurns(m, data, g)
    BY <1>8, <2>1, Zenon DEF ReadTurns
  <2>. QED BY <2>1, <2>2, ReadRunsTurns, Zenon
<1>10. PICK Wrong : Wrong = {i \in 0 .. n : x[i] # g[i]}
  OBVIOUS
<1>11. ASSUME Wrong # {} PROVE FALSE
  <2>1. PICK i \in Wrong : \A k \in Wrong : i <= k
    <3>1. Wrong \in SUBSET Nat
      BY <1>10
    <3>. QED BY <1>11, <3>1, NatLeast
  <2>2. i \in 0 .. n /\ x[i] # g[i]
    BY <1>10, <2>1
  <2>3. x[i] = IF i = 0 THEN Done(<< >>, NewReader(data)) ELSE ReadRun(x[i - 1], v[i].bits)
    <3>1. n = Len(m.value) /\ m.value = v
      BY <1>1, Zenon
    <3>2. x = [k \in 0 .. n |-> IF k = 0 THEN Done(<< >>, NewReader(data)) ELSE ReadRun(x[k - 1], v[k].bits)]
      BY <1>9, <3>1, Zenon DEF ReadTurns
    <3>. QED BY <2>2, <3>2, Zenon
  <2>4. i # 0
    BY <1>7, <2>2, <2>3
  <2>5. i \in 1 .. n /\ i - 1 \in 0 .. n /\ ~(i <= i - 1)
    BY <2>2, <2>4
  <2>6. x[i - 1] = g[i - 1]
    BY <1>10, <2>1, <2>5
  <2>. QED BY <1>6, <2>2, <2>3, <2>4, <2>5, <2>6, Zenon
<1>12. ReadRuns(m, data) = ReadSoFar(v, data, y, n)
  <2>1. n \in 0 .. n
    OBVIOUS
  <2>. QED BY <1>5, <1>9, <1>10, <1>11, <2>1
<1>. QED BY <1>1, <1>2, <1>4, <1>12 DEF ReadSoFar

\* What is meant changes only where a typed handler replaces it, and what the
\* receiver made of the body is not touched again.
Arrived ==
    /\ ~replaced => meant = Meaning(message)
    /\ Through => got = Received(message, Body)

LEMMA ArrivedStep == Arrived /\ [Next]_vars => Arrived'
<1> SUFFICES ASSUME Arrived, [Next]_vars PROVE Arrived'
  OBVIOUS
<1>1. CASE Finish
  <2>1. UNCHANGED <<message, payload, meant, replaced, body>>
    BY <1>1 DEF Finish, bodyVars, senseVars
  <2>2. got' = Received(message', Body')
    <3>1. CASE rewritten
      <4>1. verdict' = "rewrite" /\ got' = Received(message, body)
        BY <1>1, <3>1 DEF Finish
      <4>2. Body' = body'
        BY <4>1 DEF Body
      <4>. QED BY <2>1, <4>1, <4>2, Zenon
    <3>2. CASE ~rewritten
      <4>1. verdict' = "pass" /\ got' = Received(message, payload)
        BY <1>1, <3>2 DEF Finish
      <4>2. Body' = payload'
        BY <4>1 DEF Body
      <4>. QED BY <2>1, <4>1, <4>2, Zenon
    <3>. QED BY <3>1, <3>2
  <2>. QED BY <2>1, <2>2, Zenon DEF Arrived
<1>2. CASE UNCHANGED vars
  <2>1. UNCHANGED <<message, payload, meant, replaced, body, verdict, got>>
    BY <1>2 DEF vars, bodyVars, senseVars
  <2>. QED BY <2>1, Zenon DEF Arrived, Through, Body
<1>3. CASE Next /\ ~Finish
  <2>1. verdict' \in {"none", "drop"}
    BY <1>3 DEF Next, EnterScripts, ScriptWrites, ScriptWritesEncoded, ScriptSeeksWrite, ScriptReads, ScriptSeeksRead,
                ScriptReadsEncoded, ScriptResets, ScriptSends, ScriptDrops, NextScript, LeaveScripts, TypedPasses,
                TypedDrops, TypedRewrites, ScriptOp, Dropped, Turn
  <2>2. UNCHANGED message /\ (UNCHANGED senseVars \/ replaced')
    BY <1>3 DEF Next, EnterScripts, ScriptWrites, ScriptWritesEncoded, ScriptSeeksWrite, ScriptReads, ScriptSeeksRead,
                ScriptReadsEncoded, ScriptResets, ScriptSends, ScriptDrops, NextScript, LeaveScripts, TypedPasses,
                TypedDrops, TypedRewrites, ScriptOp, Dropped, bodyVars
  <2>3. ~Through'
    BY <2>1 DEF Through
  <2>4. ~replaced' => meant' = Meaning(message')
    BY <2>2, Zenon DEF Arrived, senseVars
  <2>. QED BY <2>3, <2>4 DEF Arrived
<1>. QED BY <1>1, <1>2, <1>3

\* What a list of writes carries is read back, run by run, where no script has
\* written and no typed handler replaced the event: with whatever widths and at
\* whatever bit offsets its runs were written, and whatever the scripts read,
\* sought and queued on the way, the reader refuses nothing and makes the
\* numbers that were written, each less the bits above its width (bitstream.rs's
\* write_bits and read_bits).
THEOREM RunsArriveAsMeant == Spec => [](message.family = "bits" /\ ~replaced => ReadAsMeant)
<1>1. Init => Arrived
  <2> SUFFICES ASSUME Init PROVE Arrived
    OBVIOUS
  <2>1. verdict = "none" /\ \E s \in Starts : message = s.message /\ meant = Meaning(s.message)
    BY DEF Init
  <2>. QED BY <2>1 DEF Arrived, Through
<1>2. Made /\ Arrived /\ IntactInv => (message.family = "bits" /\ ~replaced => ReadAsMeant)
  <2> SUFFICES ASSUME Made, Arrived, IntactInv, message.family = "bits", ~replaced,
                      Through, ~cut, touched = {}
               PROVE  got.ok /\ got.v = meant
    BY DEF ReadAsMeant
  <2>1. PICK v : v = message.value /\ AreWrites(v)
    BY PayloadOfWrites
  <2>2. PICK all \in Seq(Bit), came \in Seq(Bit) : /\ all = WantedOf(v) /\ came = BitsOf(payload)
                                                  /\ came = Resized(all, 8 * BytesFor(Len(all)))
    <3>1. BitsOf(payload) \in Seq(Bit)
      BY BitsOfBytes DEF IntactInv
    <3>. QED BY <2>1, <3>1, PayloadOfWrites
  <2>3. Len(all) <= Len(came) /\ \A i \in 1 .. Len(all) : came[i] = all[i]
    <3>1. PICK h \in Nat : h = 8 * BytesFor(Len(all)) /\ Len(all) <= h
      BY BytesForType, SMTT(30)
    <3>2. 0 \in Bit
      BY DEF Bit
    <3>. QED BY <2>2, <3>1, <3>2, ResizedKeeps
  <2>4. PICK data \in Seq(Byte), bits \in Seq(Bit) :
          /\ data = Body /\ bits = BitsOf(data) /\ Len(bits) = 8 * Len(data)
          /\ \A i \in 1 .. Len(came) : i <= Len(bits) /\ bits[i] = came[i]
    <3>1. CASE verdict = "pass"
      <4>1. Body = payload /\ payload \in Seq(Byte)
        BY <3>1 DEF Body, IntactInv
      <4>2. PICK bits \in Seq(Bit) : bits = came /\ bits = BitsOf(payload) /\ Len(bits) = 8 * Len(payload)
        BY <2>2, <4>1, BitsOfBytes
      <4>3. \A i \in 1 .. Len(came) : i <= Len(bits) /\ bits[i] = came[i]
        BY <4>2
      <4>. QED BY <4>1, <4>2, <4>3
    <3>2. CASE verdict # "pass"
      <4>1. Body = body /\ body \in Seq(Byte) /\ Intact(came, BitsOf(body), Len(BitsOf(body)), touched)
        BY <2>2, <3>2 DEF Body, IntactInv, BodyIntact
      <4>. QED BY <4>1, BitsOfBytes DEF Intact
    <3>. QED BY <3>1, <3>2
  <2>5. \A i \in 1 .. Len(all) : i \in 1 .. Len(came)
    BY <2>3
  <2>6. \A i \in 1 .. Len(all) : i <= Len(bits) /\ bits[i] = all[i]
    BY <2>3, <2>4, <2>5
  <2>7. Len(all) <= 8 * Len(data)
    <3>1. Len(all) = 0 \/ Len(all) \in 1 .. Len(all)
      OBVIOUS
    <3>. QED BY <2>4, <2>6, <3>1
  <2>8. PICK x, r : x = [k \in 1 .. Len(v) |-> Carried(v[k].input, v[k].bits)] /\ ReadRuns(message, data) = Done(x, r)
    <3>1. /\ AreWrites(message.value) /\ Len(WantedOf(message.value)) <= 8 * Len(data)
          /\ \A i \in 1 .. Len(WantedOf(message.value)) : BitsOf(data)[i] = WantedOf(message.value)[i]
      BY <2>1, <2>2, <2>4, <2>6, <2>7
    <3>2. ReadRuns(message, data) =
            Done([k \in 1 .. Len(message.value) |-> Carried(message.value[k].input, message.value[k].bits)],
                 [data |-> data, pos |-> Len(WantedOf(message.value))])
      BY <3>1, RunsAreRead
    <3>. QED BY <2>1, <3>2, Zenon
  <2>9. got = Outcome(ReadRuns(message, data))
    <3>1. got = Received(message, data)
      BY <2>4 DEF Arrived
    <3>2. Received(message, data) = Outcome(ReadRuns(message, data))
      BY DEF Received, Directions
    <3>. QED BY <3>1, <3>2
  <2>10. got.ok /\ got.v = x
    BY <2>8, <2>9, DoneParts DEF Outcome
  <2>11. meant = x
    <3>1. meant = Meaning(message)
      BY DEF Arrived
    <3>2. Meaning(message) = [i \in 1 .. Len(message.value) |-> Carried(message.value[i].input, message.value[i].bits)]
      BY DEF Meaning, Directions, Carried, InByte
    <3>. QED BY <2>1, <2>8, <3>1, <3>2
  <2>. QED BY <2>10, <2>11
<1>. QED BY <1>1, <1>2, MadeInit, MadeStep, ArrivedStep, IntactInit, IntactStep, PTL DEF Spec
=============================================================================
