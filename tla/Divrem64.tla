------------------------------ MODULE Divrem64 ------------------------------
(***************************************************************************)
(* Division of packed words through blocks of digits: divrem_u64 of        *)
(* include/divrem.h and its twin divrem_u64_dc of include/dc_div.h, which  *)
(* differ in the division of blocks alone.  That division (BlockDiv) stands *)
(* for its contract; this module is what surrounds it, in one arena where  *)
(* divisor, dividend and quotient lie one behind the other.  A dividend is *)
(* given by its quotient, divisor and remainder.                           *)
(***************************************************************************)
EXTENDS U64Codec

CONSTANTS
  Divides,       \* calls: <<words of the dividend, quotient, divisor, remainder>>, the first a count
  Left           \* what the arena, and the blocks above a remainder, may hold

VARIABLES
  dv,            \* program counter
  nn64, dn64,    \* words of the dividend and of the divisor
  npw, dpw, qw, rw,   \* the dividend, its divisor, quotient and remainder
  dn, s, nn,     \* divisor blocks, normalization shift, dividend blocks and padding
  lane,          \* the arena
  bi,            \* vectors decoded or encoded
  low,           \* the funnel's digit from the vector below
  ch,            \* the encoder's chain
  seed,          \* I13[6..12]
  qpb, rpb,      \* the results' bytes
  lens           \* *qn64_out, *rn64_out

dvVars == <<dv, nn64, dn64, npw, dpw, qw, rw, dn, s, nn, lane, bi, low, ch, seed, qpb, rpb, lens>>

Blocks(bits) == Up(bits, BlockBits)
Dbits == u64_bit_length(dpw, dn64)
Nbits == u64_bit_length(npw, nn64)
qn == nn - dn
kd == s \div DigitBits
kb == s % DigitBits

D52 == 0
DBlocks == dn + 1                                 \* an extra block for the funnel's spill
N52 == 8 * DBlocks
Q52 == N52 + 8 * nn
QEnd == Q52 + 8 * (qn + 2)

At(m, p) == [l \in Lane |-> m[p + l]]
Put(m, p, v) == [x \in DOMAIN m |-> IF x - p \in Lane THEN v[x - p] ELSE m[x]]

-----------------------------------------------------------------------------
(* N < D: the quotient is a zero word and the remainder the dividend. *)
EarlyReturn ==
  /\ dv = "call" /\ Nbits < Dbits
  /\ rpb' = [k \in DOMAIN rpb |-> IF k >= 8 * dn64 THEN rpb[k]
                                  ELSE IF k < 8 * nn64 THEN ByteOf(npw, k) ELSE 0]
  /\ qpb' = [k \in DOMAIN qpb |-> IF k < 8 THEN 0 ELSE qpb[k]]
  /\ lens' = <<1, dn64>>
  /\ dv' = "done"
  /\ UNCHANGED <<nn64, dn64, npw, dpw, qw, rw, dn, s, nn, lane, bi, low, ch, seed>>

(* The sizes, and SALLOC0 three times. *)
Allocate ==
  /\ dv = "call"
  /\ \E nb \in {Nbits}, db \in {Dbits} :
       /\ nb >= db
       /\ dn' = Blocks(db)
       /\ s' = (BlockBits * dn') - db
       /\ nn' = Blocks(nb + s') + 1
  /\ \E w \in Left, end \in {QEnd'} : lane' = [x \in 0 .. end + 31 |-> IF x < end THEN 0 ELSE w]
  /\ dv' = "D"
  /\ bi' = 0 /\ low' = 0
  /\ UNCHANGED <<nn64, dn64, npw, dpw, qw, rw, ch, seed, qpb, rpb, lens>>

(* u52_from_u64_lsh: vector after vector, kd digits and kb bits up; then, if   *)
(* bits were shifted out of the top digit, a whole vector that holds them.     *)
Shifted(dec) == IF kb = 0 THEN dec ELSE Funnel(dec, low, kb)
DecodeShift(f, n, at, then) ==
  LET blocks == Up(DigitCount(f, n), 8)
  IN  IF bi < blocks
      THEN \E dec \in {DecodedVector(f, n, bi)} : \E v \in {Shifted(dec)} :
             /\ lane' = Put(lane, at + kd + (8 * bi), v)
             /\ low' = dec[L - 1]
             /\ bi' = bi + 1
             /\ dv' = dv
      ELSE /\ lane' = IF kb = 0 THEN lane
                      ELSE Put(lane, at + kd + (8 * bi),
                               [l \in Lane |-> IF l = 0 THEN low \div 2^(DigitBits - kb) ELSE 0])
           /\ low' = 0
           /\ bi' = 0
           /\ dv' = then
Decode ==
  /\ \/ dv = "D" /\ DecodeShift(dpw, dn64, D52, "N")
     \/ dv = "N" /\ DecodeShift(npw, nn64, N52, "seed")
  /\ UNCHANGED <<nn64, dn64, npw, dpw, qw, rw, dn, s, nn, ch, seed, qpb, rpb, lens>>

(* The top seven words of the divisor, shifted up to their top bit; what       *)
(* enters the lowest comes from an eighth, or from nothing.                    *)
TopWords(k) == IF dn64 >= 8 THEN dpw[dn64 - 8 + k] ELSE IF k = 0 THEN 0 ELSE dpw[k - 1]
Clz(x) == CHOOSE c \in 0 .. LimbBits - 1 : x * 2^c < Width /\ x * 2^c >= Width \div 2
Seed ==
  /\ dv = "seed"
  /\ \E c \in {Clz(dpw[dn64 - 1])} :
       seed' = [k \in 1 .. 7 |-> Word(TopWords(k) * 2^c) + TopWords(k - 1) \div 2^(LimbBits - c)]
  /\ dv' = "core"
  /\ UNCHANGED <<nn64, dn64, npw, dpw, qw, rw, dn, s, nn, lane, bi, low, ch, qpb, rpb, lens>>

(* divrem_core or blk_dcpi1_div_qr: qn blocks of quotient, dn blocks of the    *)
(* shifted remainder, and above it whatever the last subtractions left.        *)
Core ==
  /\ dv = "core"
  /\ \E w \in Left :
     \E n \in {N52}, above \in {N52 + 8 * dn}, q \in {Q52}, end \in {Q52 + 8 * qn} :
       lane' = [x \in DOMAIN lane |->
                  IF x < n \/ x >= end THEN lane[x]
                  ELSE IF x >= q THEN DigitOf(qw, Count(qw), x - q, 0)
                  ELSE IF x >= above THEN w % B
                  ELSE DigitOf(rw, Count(rw), x - n, s)]
  /\ dv' = "Q"
  /\ ch' = NoCarry
  /\ UNCHANGED <<nn64, dn64, npw, dpw, qw, rw, dn, s, nn, bi, low, seed, qpb, rpb, lens>>

(* u64_from_u52_canon, a vector a step. *)
qm == nn64 - dn64 + 1
EncodeOne(out, at, limbs, then) ==
  \E v \in {Canonize(At(lane, at + (8 * bi)), ch)} : \E e \in {u52_pack52(v.vec)} :
    /\ out = StoreBytes(IF then = "zero" THEN qpb ELSE rpb, 52 * bi, e, EncodeBytes(limbs, bi))
    /\ IF bi + 1 = EncodeVectors(limbs)
       THEN bi' = 0 /\ ch' = NoCarry /\ dv' = then
       ELSE bi' = bi + 1 /\ ch' = v.chain /\ dv' = dv
EncodeQuotient ==
  /\ dv = "Q"
  /\ EncodeOne(qpb', Q52, qm, "zero")
  /\ UNCHANGED <<nn64, dn64, npw, dpw, qw, rw, dn, s, nn, lane, low, seed, rpb, lens>>

(* The block above the remainder is cleared, and u52_rshift moves the          *)
(* remainder down in place: it reads a digit beyond its last block.            *)
ClearAbove_a_block_late == 8 * (dn + 1)
ClearAbove == 8 * dn
Cleared(m) == Put(m, N52 + ClearAbove, Zero)
u52_rshift(m, k) ==
  LET from == N52 + kd + k
  IN  IF kb = 0 THEN m[from]
      ELSE ((m[from] \div 2^kb) + (m[from + 1] * 2^(DigitBits - kb))) % B
ShiftRemainder ==
  /\ dv = "zero"
  /\ \E m \in {Cleared(lane)} :
       lane' = [x \in DOMAIN m |-> IF x >= N52 /\ x < N52 + 8 * dn THEN u52_rshift(m, x - N52) ELSE m[x]]
  /\ dv' = "R"
  /\ UNCHANGED <<nn64, dn64, npw, dpw, qw, rw, dn, s, nn, bi, low, ch, seed, qpb, rpb, lens>>
EncodeRemainder ==
  /\ dv = "R"
  /\ EncodeOne(rpb', N52, dn64, "trim")
  /\ UNCHANGED <<nn64, dn64, npw, dpw, qw, rw, dn, s, nn, lane, low, seed, qpb, lens>>

(* Lengths without the zero words on top, at least one. *)
TrimmedWords(out, n) ==
  LET keep == {x \in 1 .. n : x = 1 \/ \E k \in 8 * (x - 1) .. (8 * x) - 1 : out[k] # 0}
  IN  CHOOSE x \in keep : \A y \in keep : y <= x
Trim ==
  /\ dv = "trim"
  /\ lens' = <<TrimmedWords(qpb, qm), TrimmedWords(rpb, dn64)>>
  /\ dv' = "done"
  /\ UNCHANGED <<nn64, dn64, npw, dpw, qw, rw, dn, s, nn, lane, bi, low, ch, seed, qpb, rpb>>

-----------------------------------------------------------------------------
NotWritten == -1
DvInit ==
  /\ dv = "call"
  /\ \E c \in Divides : \E q \in {AsWords(c[2])}, d \in {AsWords(c[3])}, r \in {AsWords(c[4])} :
       /\ qw = q /\ dpw = d /\ rw = r /\ nn64 = c[1] /\ dn64 = Len(c[3])
       /\ \E n \in {MulAddBytes(q, Len(c[2]), d, Len(c[3]), r, Len(c[4]), c[1])} :
            npw = [k \in 0 .. c[1] - 1 |-> Number([x \in 0 .. 7 |-> n[(8 * k) + x]], 8, Byte)]
  /\ dn = 0 /\ s = 0 /\ nn = 0 /\ lane = <<>> /\ bi = 0 /\ low = 0 /\ ch = NoCarry /\ seed = <<>> /\ lens = <<0, 0>>
  /\ qpb = [k \in 0 .. (8 * (nn64 + 8)) - 1 |-> NotWritten]
  /\ rpb = [k \in 0 .. (8 * (dn64 + 8)) - 1 |-> NotWritten]

DvNext == EarlyReturn \/ Allocate \/ Decode \/ Seed \/ Core \/ EncodeQuotient \/ ShiftRemainder
            \/ EncodeRemainder \/ Trim

DvSpec == DvInit /\ [][DvNext]_dvVars

-----------------------------------------------------------------------------
(* Properties *)

(* What the division of blocks needs: both numbers shifted by s, a zero       *)
(* quotient, a divisor with its top bit set, a dividend whose padding is      *)
(* zero, and the divisor's top seven words, normalized.                       *)
Prepared ==
  /\ \A x \in 0 .. (8 * dn) - 1 : lane[D52 + x] = DigitOf(dpw, dn64, x, s)
  /\ \A x \in 0 .. (8 * nn) - 1 : lane[N52 + x] = DigitOf(npw, nn64, x, s)
  /\ \A x \in Q52 .. QEnd - 1 : lane[x] = 0
  /\ \A x \in QEnd .. QEnd + 31 : lane[x] = lane[QEnd + 31]
  /\ lane[D52 + (8 * dn) - 1] >= B \div 2
  /\ \A k \in 1 .. 7, c \in 0 .. LimbBits - 1 :
       Bit(seed[k], c) = BitOf(dpw, dn64, (BlockBits * dn) - s - ((8 - k) * LimbBits) + c)

WordsAre(out, f, n) ==
  \A k \in DOMAIN out :
    out[k] = IF k >= 8 * n THEN NotWritten ELSE IF k < 8 * Count(f) THEN ByteOf(f, k) ELSE 0

(* The words of the quotient come out, as many as the caller has room for,  *)
(* and no byte beyond them.                                                  *)
QuotientWhole ==
  dv = "done" => IF dn = 0 THEN \A k \in 0 .. 7 : qpb[k] = 0 ELSE WordsAre(qpb, qw, qm)

(* The division of blocks is handed what it needs, whatever the arena held,   *)
(* and the words of quotient and remainder come out, as many as promised,     *)
(* with lengths that leave out nothing.                                       *)
DivremRight ==
  /\ dv = "core" => Prepared
  /\ QuotientWhole
  /\ dv = "done" =>
       /\ WordsAre(rpb, rw, dn64)
       /\ lens[1] = 1 \/ \E k \in 0 .. 7 : qpb[(8 * lens[1]) - 8 + k] # 0
       /\ \A k \in 8 * lens[1] .. (8 * Count(qw)) - 1 : ByteOf(qw, k) = 0
       /\ \A k \in 8 * lens[2] .. (8 * Count(rw)) - 1 : ByteOf(rw, k) = 0
=============================================================================
