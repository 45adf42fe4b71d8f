------------------------------ MODULE SimdMul ------------------------------
(***************************************************************************)
(* simd_mpn_mul of include/u64cvt.h: the public product of packed words.   *)
(* Short operands go to an assembly kernel, some shapes to the FFT engine, *)
(* which may refuse them; the others are decoded into scratch, multiplied  *)
(* in digits and encoded.  The kernels and the digit product stand for     *)
(* their contracts; the digit product returns one of many redundant forms  *)
(* of each class (MulDispatch).  Scratch blocks are not cleared: the arena *)
(* holds what earlier calls left.                                          *)
(***************************************************************************)
EXTENDS U64Codec

CONSTANTS
  Factors,       \* calls: <<words of a, words of b>>, as sequences
  Stale,         \* what a lane of the arena may hold
  Excess,        \* redundant forms: units taken from the next digit, by position
  FQ8,           \* SIMD_MPN_FFT_FQ8
  MaxN           \* F16_MAX_N_C

VARIABLES
  pc,
  a, b, an, bn,  \* the operands, the longer one first
  mem,           \* the arena: lane -> word; a52, b52, p52 in this order
  n52a, n52b,    \* digits decoded
  cls,           \* class of the product's lanes
  j,             \* vectors encoded
  chain,         \* the carry chain of the encoder
  rp             \* the result: byte -> value, or Untouched

vars == <<pc, a, b, an, bn, mem, n52a, n52b, cls, j, chain, rp>>

Untouched == -1
Abs(x) == IF x < 0 THEN -x ELSE x

-----------------------------------------------------------------------------
(* Contracts *)

ProductBytes == MulAddBytes(a, an, b, bn, <<>>, 0, an + bn)

(* mul_u52_dispatch: the digits of the product of the decoded numbers, in a   *)
(* redundant form.  Class 0 lanes are not negative, class 1 lanes may be.     *)
ProductDigits(from, to) ==
  LET n == n52a + n52b
      column(t) == MapThenSumSet(LAMBDA k : mem[from + k] * mem[to + t - k],
                                 {k \in 0 .. n52a - 1 : t - k >= 0 /\ t - k < n52b})
      sum[t \in -1 .. n - 1] == IF t = -1 THEN 0 ELSE (sum[t - 1] \div B) + column(t)
  IN  [t \in 0 .. n - 1 |-> sum[t] % B]
Redundant(digits, class, excess) ==
  LET n == n52a + n52b
      taken(t) == IF t < 0 \/ t = n - 1 THEN 0
                  ELSE IF class = 1 THEN excess[(t % Len(excess)) + 1]
                  ELSE Min({Abs(excess[(t % Len(excess)) + 1]), digits[t + 1]})
  IN  [t \in 0 .. n - 1 |-> Word(digits[t] + (B * taken(t)) - taken(t - 1))]

-----------------------------------------------------------------------------
(* Choice of the kernel *)

simd_mpn_fft_sq8 == <<
   214,  267,  353,  438,  531,  624,  671,  773,  865, 1149,
  1161, 1237, 1229, 1315, 1374, 1400, 1465, 1539, 1559, 1791,
  1852, 1867, 1949, 1920, 2023, 1929, 2015, 2091, 2064, 2183,
  2166, 2189, 2257, 2366, 2332, 2403, 2416, 2496, 2492, 2633,
  2637, 2656, 2691, 2718, 2694, 2752, 2800, 2825>>
simd_mpn_fft_profitable ==
  /\ 2 * (an + bn) <= MaxN
  /\ bn > 384 \/ simd_mpn_fft_sq8[((bn - 1) \div 8) + 1] * an > FQ8 * (an + bn)

External ==
  /\ \E p \in {ProductBytes} : rp' = [k \in DOMAIN rp |-> IF k < 8 * (an + bn) THEN p[k] ELSE rp[k]]
  /\ pc' = "done"
  /\ UNCHANGED <<a, b, an, bn, mem, n52a, n52b, cls, j, chain>>

Le6 == pc = "call" /\ an <= 6 /\ External
Fft == pc = "call" /\ an > 6 /\ simd_mpn_fft_profitable /\ External

-----------------------------------------------------------------------------
(* The digit product *)

(* Scratch: digits for all words, and a vector of slack. *)
Vectors(n) == Up(Up(n * 16, 13), 8) + 1
A52 == 0
B52 == 8 * Vectors(an)
P52 == B52 + 8 * Vectors(bn)

(* u52_from_u64 stores whole vectors. *)
DecodedAt(m, at, f, n) ==
  LET digits == DigitCount(f, n)
      vec(k) == DecodedVector(f, n, k)
      all == {<<k, vec(k)>> : k \in 0 .. Up(digits, 8) - 1}
  IN  [x \in DOMAIN m |->
         LET k == (x - at) \div 8
         IN  IF x >= at /\ k < Up(digits, 8) THEN (CHOOSE p \in all : p[1] = k)[2][(x - at) % 8] ELSE m[x]]
Decode ==
  /\ pc = "call" /\ an > 6
  /\ \E m \in {DecodedAt(mem, A52, a, an)} : mem' = DecodedAt(m, B52, b, bn)
  /\ n52a' = DigitCount(a, an) /\ n52b' = DigitCount(b, bn)
  /\ pc' = "decoded"
  /\ UNCHANGED <<a, b, an, bn, cls, j, chain, rp>>

ZeroOperand ==
  /\ pc = "decoded" /\ (n52a = 0 \/ n52b = 0)
  /\ rp' = [k \in DOMAIN rp |-> IF k < 8 * (an + bn) THEN 0 ELSE rp[k]]
  /\ pc' = "done"
  /\ UNCHANGED <<a, b, an, bn, mem, n52a, n52b, cls, j, chain>>

Dispatch ==
  /\ pc = "decoded" /\ n52a > 0 /\ n52b > 0
  /\ \E class \in {0, 1}, excess \in Excess, digits \in {ProductDigits(A52, B52)} :
       /\ cls' = class
       /\ \E lanes \in {Redundant(digits, class, excess)} :
            mem' = [x \in DOMAIN mem |-> IF x - P52 \in DOMAIN lanes THEN lanes[x - P52] ELSE mem[x]]
  /\ pc' = "multiplied"
  /\ UNCHANGED <<a, b, an, bn, n52a, n52b, j, chain, rp>>

(* The lanes between the product and the end of the last vector encoded. *)
Need_whole_vectors == 8 * ((8 * (an + bn)) \div 52)
Need == 8 * EncodeVectors(an + bn)
Clear ==
  /\ pc = "multiplied"
  /\ mem' = [x \in DOMAIN mem |-> IF x - P52 >= n52a + n52b /\ x - P52 < Need THEN 0 ELSE mem[x]]
  /\ pc' = "encode"
  /\ UNCHANGED <<a, b, an, bn, n52a, n52b, cls, j, chain, rp>>

Encode ==
  /\ pc = "encode"
  /\ \E v \in {Encoded([l \in Lane |-> mem[P52 + (8 * j) + l]], chain, cls)} :
       /\ rp' = StoreBytes(rp, 52 * j, u52_pack52(v.vec), EncodeBytes(an + bn, j))
       /\ chain' = v.chain
  /\ j' = j + 1
  /\ pc' = IF j + 1 = EncodeVectors(an + bn) THEN "done" ELSE "encode"
  /\ UNCHANGED <<a, b, an, bn, mem, n52a, n52b, cls>>

-----------------------------------------------------------------------------
(* Either order of the operands. *)
Init ==
  /\ pc = "call"
  /\ \E c \in Factors : \E x \in {c[1]}, y \in {c[2]} :
       \E longer \in {IF Len(x) < Len(y) THEN y ELSE x}, shorter \in {IF Len(x) < Len(y) THEN x ELSE y} :
         a = AsWords(longer) /\ b = AsWords(shorter) /\ an = Len(longer) /\ bn = Len(shorter)
  /\ \E w \in Stale : mem = [x \in 0 .. (16 * (Vectors(an) + Vectors(bn))) - 1 |-> w]
  /\ n52a = 0 /\ n52b = 0 /\ cls = 0 /\ j = 0 /\ chain = NoCarry
  /\ rp = [k \in 0 .. (8 * (an + bn + 8)) - 1 |-> Untouched]

Next == Le6 \/ Fft \/ Decode \/ ZeroOperand \/ Dispatch \/ Clear \/ Encode

Spec == Init /\ [][Next]_vars

-----------------------------------------------------------------------------
(* Properties *)

(* Whichever kernel is chosen, whatever the arena held and whichever form    *)
(* the digit product has, the result is exactly the an + bn words of the     *)
(* product and no byte beyond them is written.                               *)
PackedRight ==
  pc = "done" =>
    \E p \in {ProductBytes} :
      \A k \in DOMAIN rp : rp[k] = IF k < 8 * (an + bn) THEN p[k] ELSE Untouched
=============================================================================
