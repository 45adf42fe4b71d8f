------------------------------ MODULE U64Codec ------------------------------
(***************************************************************************)
(* Packed machine words and vectors of digits (include/u64cvt.h and the    *)
(* encoders of include/canon.h).  A word has eight bytes and a digit six   *)
(* and a half, so the eight digits of a vector are 52 bytes and vector j   *)
(* is found at byte 52 * j.  ByteBits is 8 in the code: words of 64 bits,  *)
(* digits of 52.  The tables that move the bytes are the code's.           *)
(***************************************************************************)
EXTENDS Lanes, Sequences, Bitwise, FiniteSetsExt

CONSTANT ByteBits

LimbBits == 8 * ByteBits
DigitBits == (13 * ByteBits) \div 2
BlockBits == 8 * DigitBits
Byte == 2^ByteBits
NibbleBits == ByteBits \div 2

ASSUME CodecAssumption ==
  /\ ByteBits \in Nat /\ ByteBits > 0 /\ ByteBits % 2 = 0
  /\ L = 8 /\ B = 2^DigitBits /\ Width = 2^LimbBits

Count(f) == Cardinality(DOMAIN f)                 \* words of f
Up(x, y) == (x + y - 1) \div y                    \* ceil(x / y)

-----------------------------------------------------------------------------
(* A packed number f of n words *)

ByteOf(f, k) == (f[k \div 8] \div Byte^(k % 8)) % Byte
BitOf(f, n, k) == k >= 0 /\ k < n * LimbBits /\ Bit(f[k \div LimbBits], k % LimbBits)

(* u64_bit_length: zero words at the top do not count. *)
u64_bit_length(f, n) ==
  LET top == {k \in 0 .. n - 1 : f[k] # 0}
  IN  IF top = {} THEN 0
      ELSE LET k == CHOOSE x \in top : \A y \in top : y <= x
           IN  k * LimbBits + CHOOSE c \in 1 .. LimbBits : 2^(c - 1) <= f[k] /\ f[k] \div 2 < 2^(c - 1)
DigitCount(f, n) == Up(u64_bit_length(f, n), DigitBits)

(* Digit k of f shifted up by s bits. *)
DigitOf(f, n, k, s) ==
  MapThenSumSet(LAMBDA c : IF BitOf(f, n, (k * DigitBits) + c - s) THEN 2^c ELSE 0, 0 .. DigitBits - 1)

-----------------------------------------------------------------------------
(* Decoding: a vector's bytes, gathered so that each lane has its digit's    *)
(* eight bytes, then half a byte down in the odd lanes, then masked.         *)

u52_dec_perm(k) == ((13 * (k \div 8)) \div 2) + (k % 8)

(* The 64 bytes at byte p, under a mask that ends with the operand. *)
LoadBytes(f, n, p) == [k \in 0 .. 63 |-> IF p + k < 8 * n THEN ByteOf(f, p + k) ELSE 0]
LanesOf(bytes) == [l \in Lane |-> Number([k \in 0 .. 7 |-> bytes[(8 * l) + k]], 8, Byte)]
Decoded(bytes) ==
  LET w == LanesOf([k \in 0 .. 63 |-> bytes[u52_dec_perm(k)]])
  IN  [l \in Lane |-> (IF l % 2 = 1 THEN w[l] \div 2^NibbleBits ELSE w[l]) % B]

(* The loops of u52_from_u64: as many vectors as hold its digits. *)
DecodedVector(f, n, j) == Decoded(LoadBytes(f, n, 52 * j))

(* u52_from_u64_lsh: vector j of the digits shifted by kb bits; the top       *)
(* digit of the vector below supplies the bits that enter.                    *)
Funnel_unmasked(dec, low, kb) == [l \in Lane |-> dec[l] * 2^kb + ShiftedUp(dec, low)[l] \div 2^(DigitBits - kb)]
Funnel(dec, low, kb) ==
  [l \in Lane |-> ((dec[l] * 2^kb) % B) + ShiftedUp(dec, low)[l] \div 2^(DigitBits - kb)]

-----------------------------------------------------------------------------
(* Encoding: the bytes of canonical digits, moved once for the digits that    *)
(* stay or go down and once for those that go up, joined by an or.  Byte 7    *)
(* of a canonical digit is zero and fills the gaps.                           *)

u52_enc_rperm == <<
   0,  1,  2,  3,  4,  5,  6,  7,  9, 10, 11, 12, 13, 14, 15,  7,
  19, 20, 21, 22, 23,  7,  7,  7, 28, 29, 30, 31,  7,  7,  7,  7,
  38,  7,  7,  7,  7,  7,  7, 48, 49, 50, 51, 52, 53, 54, 55,  7,
  58, 59, 60, 61, 62, 63,  7,  7,  7,  7,  7,  7,  7,  7,  7,  7>>
u52_enc_lperm == <<
   7,  7,  7,  7,  7,  7,  8,  9,  7,  7,  7,  7,  7, 16, 17, 18,
   7,  7,  7, 24, 25, 26, 27, 28,  7,  7, 32, 33, 34, 35, 36, 37,
  40, 41, 42, 43, 44, 45, 46,  7,  7,  7,  7,  7,  7, 56, 57, 58,
   7,  7,  7,  7,  7,  7,  7,  7,  7,  7,  7,  7,  7,  7,  7,  7>>
DownLanes == {1, 3, 6}                            \* half a byte down
UpLanes == {0, 2, 4, 5}                           \* half a byte up

u52_pack52(v) ==
  LET moved(perm) == LanesOf([k \in 0 .. 63 |-> ByteOf(v, perm[k + 1])])
      down == moved(u52_enc_rperm)
      up == moved(u52_enc_lperm)
  IN  [l \in Lane |-> (IF l \in DownLanes THEN down[l] \div 2^NibbleBits ELSE down[l])
                        | (IF l \in UpLanes THEN Word(up[l] * 2^NibbleBits) ELSE up[l])]

(* A packed vector's first `count` bytes stored at byte p. *)
StoreBytes(out, p, v, count) ==
  [k \in DOMAIN out |-> IF p <= k /\ k < p + count THEN ByteOf(v, k - p) ELSE out[k]]

(* A turn of u64_from_u52_canon or u64_from_u52_canonneg: 52 bytes, or what   *)
(* is left.                                                                   *)
EncodeBytes(limbs, j) == IF (8 * limbs) - (52 * j) >= 52 THEN 52 ELSE (8 * limbs) - (52 * j)
EncodeVectors(limbs) == Up(8 * limbs, 52)
Encoded(v, c, cls) == IF cls = 1 THEN CanonNeg(v, c) ELSE Canonize(v, c)

-----------------------------------------------------------------------------
(* Reference arithmetic: the bytes of f * g + h, of n words, by columns of    *)
(* pairs of bytes.                                                            *)

MulAddBytes(f, fn, g, gn, h, hn, n) ==
  LET pair(x, k) == ByteOf(x, 2 * k) + (Byte * ByteOf(x, (2 * k) + 1))
      column(t) == MapThenSumSet(LAMBDA k : pair(f, k) * pair(g, t - k),
                                 {k \in 0 .. (4 * fn) - 1 : t - k >= 0 /\ t - k < 4 * gn})
                   + (IF t < 4 * hn THEN pair(h, t) ELSE 0)
      sums[t \in 0 .. 4 * n] ==                     \* a sum holds its carry
        IF t = 0 THEN <<>>
        ELSE LET below == sums[t - 1]
             IN  Append(below, (IF t = 1 THEN 0 ELSE below[t - 1] \div Byte^2) + column(t - 1))
  IN  CHOOSE bytes \in {[k \in 0 .. (8 * n) - 1 |-> (all[(k \div 2) + 1] \div Byte^(k % 2)) % Byte]
                       : all \in {sums[4 * n]}} : TRUE
AsWords(s) == [k \in 0 .. Len(s) - 1 |-> s[k + 1]]
=============================================================================
