-------------------------------- MODULE P30Io --------------------------------
(***************************************************************************)
(* A call of include/p30.h from limbs to limbs (p30_mul_r, p30_sqr_r):      *)
(* bounds and shape, residues modulo five primes, and the way back in       *)
(* blocks of vectors - Garner's mixed radix digits, each coefficient as      *)
(* three limbs, three streams added along two carry chains - with a scalar  *)
(* tail that takes the chains over.  The transform between the two stands   *)
(* for its contract, which is TruncatedNtt: the cyclic convolution.         *)
(*                                                                         *)
(* A word has HalfBits bits (32) and a limb two words; a vector has Limbs    *)
(* limbs (8) or twice as many words.                                        *)
(***************************************************************************)
EXTENDS DigitNumbers, Sequences

CONSTANTS
  HalfBits, Limbs,
  P30_PR, P30_MPR,            \* the primes of the binary and of the mixed sizes, ascending
  P30_MIN_OPERAND_CAP, P30_MAX_LG, P30_MIX_MIN_LG, P30_MIX_MAX_LG,
  P30_OB,                     \* coefficients to a block of the output
  Operands                    \* bound: the calls explored, [a, b, sq]

VARIABLES
  call,          \* the operands
  stage,
  primeSet,      \* the set of primes of the call, with their constants
  ra, rb,        \* residues, per prime; then the convolution's in rb
  chains,        \* of the output: coefficients out, two carry chains, the last third limbs
  st,            \* the limbs put out
  rp, ret

p30Vars == <<call, stage, primeSet, ra, rb, chains, st, rp, ret>>

Half == 2 ^ HalfBits
Limb == Half * Half
P30_W == 2 * Limbs
Prime == 1 .. 5                            \* P30_NP
Strict(f) == f \o <<>>                     \* a function on 1 .. n as a tuple, computed now
Only(S) == CHOOSE x \in S : TRUE           \* of a singleton: its member, computed once

-----------------------------------------------------------------------------
(* Constants of a set of primes (p30_pset_init) *)

PowerMod(b, n, p) ==
  LET pw[e \in 0 .. n] ==
        IF e = 0 THEN 1
        ELSE LET r == pw[e \div 2] IN (((r * r) % p) * (IF e % 2 = 1 THEN b ELSE 1)) % p
  IN  pw[n]
p30_invm(a, p) == PowerMod(a % p, p - 2, p)

(* ppm[i][k]: the product of the primes before the k-th, modulo the i-th. *)
Weight(prs, i, k) ==
  LET pp[n \in 1 .. k] == IF n = 1 THEN 1 ELSE (pp[n - 1] * (prs[n - 1] % prs[i])) % prs[i] IN pp[k]
(* w1c .. w4c: the product of the first n primes in words, lowest first. *)
ProductWords(prs, n) ==
  LET by(x, p) == LET carry[i \in 0 .. Len(x)] == IF i = 0 THEN 0 ELSE (x[i] * p + carry[i - 1]) \div Half
                  IN  [i \in 1 .. Len(x) + 1 |->
                         IF i > Len(x) THEN carry[i - 1] ELSE (x[i] * p + carry[i - 1]) % Half]
      w[k \in 1 .. n] == IF k = 1 THEN <<prs[1]>> ELSE Strict(by(w[k - 1], prs[k]))
  IN  w[n]
(* J: -1 / p modulo a word, by Newton's iteration. *)
NegInverse(p) ==
  LET pinv[n \in 0 .. 5] == IF n = 0 THEN 1 ELSE LET y == pinv[n - 1] IN (y * ((2 - ((p * y) % Half)) % Half)) % Half
  IN  (Half - pinv[5]) % Half
SetOf(prs) ==
  [prs |-> prs,
   J |-> Strict([i \in Prime |-> NegInverse(prs[i])]),
   ppm |-> Strict([i \in Prime |-> Strict([k \in 1 .. i |-> Weight(prs, i, k)])]),
   inv |-> Strict([i \in Prime |-> p30_invm(Weight(prs, i, i), prs[i])]),
   w |-> Strict([n \in 1 .. 4 |-> ProductWords(prs, n)])]

-----------------------------------------------------------------------------
(* Input *)

(* p30_shrink: x or x - p, whichever is the smaller word. *)
p30_shrink(x, p) == IF x >= p THEN x - p ELSE x
(* p30_in_redc8, then p30_shrink twice: 2^64 mod p weighs the upper word,     *)
(* which with the reduction's 1 / 2^32 leaves the limb modulo p in [0, 3p).   *)
p30_in_redc8(x, p, J) ==
  LET R1 == Half % p
      t == (x % Half) * R1 + (x \div Half) * ((R1 * R1) % p)
      m == ((t % Half) * J) % Half
  IN  (t + m * p) \div Half
Decoded(x, i, ps) == p30_shrink(p30_shrink(p30_in_redc8(x, ps.prs[i], ps.J[i]), 2 * ps.prs[i]), ps.prs[i])
(* whole vectors, single limbs, zeros *)
p30_input(a, nv, ps) ==
  LET whole == (Len(a) \div P30_W) * P30_W
  IN  Strict([i \in Prime |-> Strict([k \in 1 .. nv * P30_W |->
        IF k <= whole THEN Decoded(a[k], i, ps)
        ELSE IF k <= Len(a) THEN a[k] % ps.prs[i] ELSE 0])])

(* The transforms and the scale by R / NV: coefficient k of a * b modulo     *)
(* x^n - 1.                                                                  *)
Cyclic(x, y, p, k) ==
  LET n == Len(y)
      sum[i \in 0 .. n] ==
        IF i = 0 THEN 0
        ELSE IF y[i] = 0 THEN sum[i - 1] ELSE (sum[i - 1] + x[((k - i) % n) + 1] * y[i]) % p
  IN  sum[n]

-----------------------------------------------------------------------------
(* Output *)

(* p30_obar: a * c in [0, 2p) for any word a. *)
p30_obar(a, c, p) == LET rec == (c * Half) \div p
                     IN  (a * c - ((a * rec) \div Half) * p) % Half

(* Garner's digits of the coefficient with residues r: in vectors .. *)
Garner(r, ps) ==
  LET p == ps.prs
      acc(v, i) == LET sum[k \in 1 .. i - 1] ==
                         IF k = 1 THEN v[1]
                         ELSE p30_shrink(sum[k - 1] + p30_obar(v[k], ps.ppm[i][k], p[i]), 2 * p[i])
                   IN  sum[i - 1]
      digit(v, i) == p30_shrink(p30_obar((r[i] + 2 * p[i]) - acc(v, i), ps.inv[i], p[i]), p[i])
      v[i \in Prime] == IF i = 1 THEN <<p30_shrink(r[1], p[1])>>
                        ELSE Only({Append(x, digit(x, i)) : x \in {v[i - 1]}})
  IN  v[5]
(* .. and in the scalar tail *)
GarnerTail(r, ps) ==
  LET p == ps.prs
      t(v, i) == LET sum[k \in 1 .. i - 1] ==
                       IF k = 1 THEN v[1] % p[i] ELSE (sum[k - 1] + v[k] * ps.ppm[i][k]) % p[i]
                 IN  sum[i - 1]
      digit(v, i) == ((((r[i] % p[i]) + p[i] - t(v, i)) % p[i]) * ps.inv[i]) % p[i]
      v[i \in Prime] == IF i = 1 THEN <<r[1] % p[1]>>
                        ELSE Only({Append(x, digit(x, i)) : x \in {v[i - 1]}})
  IN  v[5]

(* p30_compose8: the coefficient with digits d as three limbs.  Columns of   *)
(* words; the first carry is found by comparing.                             *)
Compose(d, ps) ==
  LET from(i, n) == d[i + 1] * ps.w[i][n]
      col0 == d[1] + from(1, 1) + from(2, 1) + from(3, 1) + from(4, 1)
      col1 == from(2, 2) + from(3, 2) + from(4, 2)
      col2 == from(3, 3) + from(4, 3)
      col3 == from(4, 4)
      L0 == (col0 + (col1 % Half) * Half) % Limb
      t == (col1 \div Half) + col2 + (IF L0 < col0 THEN 1 ELSE 0)
      L1 == (t + (col3 % Half) * Half) % Limb
  IN  <<L0, L1, (col3 \div Half) + (IF L1 < t THEN 1 ELSE 0)>>
(* the scalar tail's, by Horner's rule in words *)
ComposeTail(d, ps) ==
  LET step(x, i) ==
        LET carry[n \in 0 .. 6] == IF n = 0 THEN d[i] ELSE (x[n] * ps.prs[i] + carry[n - 1]) \div Half
        IN  Strict([n \in 1 .. 6 |-> (x[n] * ps.prs[i] + carry[n - 1]) % Half])
      x[i \in Prime] == IF i = 5 THEN <<d[5], 0, 0, 0, 0, 0>> ELSE Only({step(y, i) : y \in {x[i + 1]}})
      words == x[1]
  IN  <<words[1] + Half * words[2], words[3] + Half * words[4], words[5] + Half * words[6]>>

(* p30_chain_step: lo plus the addend's limbs one lane up, the top one       *)
(* staying behind for the next vector; lanes that overflow make a carry,     *)
(* full ones pass it on.                                                     *)
p30_chain_step(c, lo, addend) ==
  LET his == [l \in 1 .. Limbs |-> IF l = 1 THEN c.prev ELSE addend[l - 1]]
      sum == Strict([l \in 1 .. Limbs |-> (lo[l] + his[l]) % Limb])
      mask(on) == Number([l \in 0 .. Limbs - 1 |-> IF on[l + 1] THEN 1 ELSE 0], Limbs, 2)
      pr == mask([l \in 1 .. Limbs |-> sum[l] = Limb - 1])
      cn == pr + 2 * mask([l \in 1 .. Limbs |-> sum[l] < his[l]]) + c.cin
      into(l) == Bit(cn, l - 1) # Bit(pr, l - 1)
  IN  [vec |-> Strict([l \in 1 .. Limbs |-> IF into(l) THEN (sum[l] + 1) % Limb ELSE sum[l]]),
       c |-> [prev |-> addend[Limbs], cin |-> (cn \div 2 ^ Limbs) % 2]]

(* One vector of coefficients: the second limbs go one limb up, the third    *)
(* ones two: moved up by one here, and by one more in the chain.             *)
FreshChains == [j |-> 0, c1 |-> [prev |-> 0, cin |-> 0], c2 |-> [prev |-> 0, cin |-> 0], l2prev |-> 0]
EmitVector(x, co) ==                        \* x = [ch, limbs], co the coefficients
  LET third(l) == IF l = 1 THEN x.ch.l2prev ELSE co[l - 1][3]
      first == p30_chain_step(x.ch.c1, [l \in 1 .. Limbs |-> co[l][1]], [l \in 1 .. Limbs |-> co[l][2]])
      second(y) == p30_chain_step(x.ch.c2, y.vec, [l \in 1 .. Limbs |-> third(l)])
  IN  Only({Only({[ch |-> [j |-> x.ch.j + Limbs, c1 |-> y.c, c2 |-> z.c, l2prev |-> co[Limbs][3]],
                   limbs |-> x.limbs \o z.vec] : z \in {second(y)}}) : y \in {first}})

Residues(k) == <<rb[1][k], rb[2][k], rb[3][k], rb[4][k], rb[5][k]>>

-----------------------------------------------------------------------------
(* The call *)

Vectors(n) == ((n + P30_W) - 1) \div P30_W
LgOf(n) == CHOOSE k \in 0 .. 30 : n <= 2 ^ k /\ \A i \in 0 .. k - 1 : 2 ^ i < n
LengthOf(a, b) == (Len(a) + Len(b)) - 1
Shorter(a, b) == IF Len(a) < Len(b) THEN Len(a) ELSE Len(b)
Accepts(a, b) ==
  /\ a # <<>> /\ b # <<>>
  /\ Shorter(a, b) <= P30_MIN_OPERAND_CAP
  /\ LgOf(Vectors(LengthOf(a, b))) <= P30_MAX_LG
(* The mixed sizes, of three quarters of a power of 2, use a set of their own. *)
Mixed(tv) == /\ LgOf(tv) \in P30_MIX_MIN_LG .. P30_MIX_MAX_LG
             /\ tv <= 3 * 2 ^ (LgOf(tv) - 2)
NV(tv) == IF Mixed(tv) THEN 3 * 2 ^ (LgOf(tv) - 2) ELSE 2 ^ LgOf(tv)

zlen == LengthOf(call.a, call.b)

P30Init ==
  /\ call \in Operands
  /\ stage = "call" /\ primeSet = <<>> /\ ra = <<>> /\ rb = <<>> /\ chains = FreshChains /\ st = <<>>
  /\ rp = <<>> /\ ret = -1

Refuse ==
  /\ stage = "call" /\ ~Accepts(call.a, call.b)
  /\ ret' = 0 /\ stage' = "done"
  /\ UNCHANGED <<call, primeSet, ra, rb, chains, st, rp>>
(* A square's operand is decoded once. *)
Decode ==
  /\ stage = "call" /\ Accepts(call.a, call.b)
  /\ \E ps \in {IF Mixed(Vectors(zlen)) THEN SetOf(P30_MPR) ELSE SetOf(P30_PR)} :
       /\ primeSet' = ps
       /\ rb' = p30_input(call.b, NV(Vectors(zlen)), ps)
       /\ ra' = IF call.sq THEN <<>> ELSE p30_input(call.a, NV(Vectors(zlen)), ps)
  /\ stage' = "convolve"
  /\ UNCHANGED <<call, chains, st, rp, ret>>
Convolve ==
  /\ stage = "convolve"
  /\ LET a == IF call.sq THEN rb ELSE ra
         \* residues beyond the product are left unscaled and never read
         n == Vectors(zlen) * P30_W
     IN  rb' = Strict([i \in Prime |-> Strict([k \in 1 .. n |-> Cyclic(a[i], rb[i], primeSet.prs[i], k)])])
  /\ stage' = "output"
  /\ UNCHANGED <<call, primeSet, ra, chains, st, rp, ret>>

(* p30_output: a block in vectors, as long as one fits .. *)
Block ==
  /\ stage = "output" /\ chains.j + P30_OB <= zlen
  /\ LET co == Strict([k \in 1 .. P30_OB |-> Compose(Garner(Residues(chains.j + k), primeSet), primeSet)])
         emit[n \in 0 .. P30_OB \div Limbs] ==
           IF n = 0 THEN [ch |-> chains, limbs |-> st]
           ELSE Only({EmitVector(x, SubSeq(co, (n - 1) * Limbs + 1, n * Limbs)) : x \in {emit[n - 1]}})
     IN  \E x \in {emit[P30_OB \div Limbs]} : chains' = x.ch /\ st' = x.limbs
  /\ UNCHANGED <<call, stage, primeSet, ra, rb, rp, ret>>
(* .. what both chains still owe .. *)
Handover_prev ==              \* the third limbs' two places exchanged
  /\ stage = "output" /\ chains.j + P30_OB > zlen
  /\ chains' = [j |-> chains.j, L1 |-> chains.c1.prev, L2_2 |-> chains.l2prev, L2_1 |-> chains.c2.prev,
                carry |-> chains.c1.cin + chains.c2.cin]
  /\ stage' = "tail"
  /\ UNCHANGED <<call, primeSet, ra, rb, st, rp, ret>>
Handover ==
  /\ stage = "output" /\ chains.j + P30_OB > zlen
  /\ chains' = [j |-> chains.j, L1 |-> chains.c1.prev, L2_2 |-> chains.c2.prev, L2_1 |-> chains.l2prev,
                carry |-> chains.c1.cin + chains.c2.cin]
  /\ stage' = "tail"
  /\ UNCHANGED <<call, primeSet, ra, rb, st, rp, ret>>
(* .. the other coefficients one by one, and the two limbs above them. *)
TailCoefficient ==
  /\ stage = "tail" /\ chains.j < zlen
  /\ \E m \in {ComposeTail(GarnerTail(Residues(chains.j + 1), primeSet), primeSet)} :
       LET s == m[1] + chains.L1 + chains.L2_2 + chains.carry
       IN  /\ st' = Append(st, s % Limb)
           /\ chains' = [j |-> chains.j + 1, L1 |-> m[2], L2_2 |-> chains.L2_1, L2_1 |-> m[3],
                         carry |-> s \div Limb]
  /\ UNCHANGED <<call, stage, primeSet, ra, rb, rp, ret>>
Flush ==
  /\ stage = "tail" /\ chains.j = zlen
  /\ LET s == chains.L1 + chains.L2_2 + chains.carry
     IN  st' = st \o <<s % Limb, (s \div Limb) + chains.L2_1>>
  /\ stage' = "check"
  /\ UNCHANGED <<call, primeSet, ra, rb, chains, rp, ret>>
(* "must not spill" *)
Return ==
  /\ stage = "check"
  /\ ret' = IF st[zlen + 2] # 0 THEN 0 ELSE 1
  /\ rp' = IF st[zlen + 2] # 0 THEN rp ELSE SubSeq(st, 1, zlen + 1)
  /\ stage' = "done"
  /\ UNCHANGED <<call, primeSet, ra, rb, chains, st>>

P30Next == Refuse \/ Decode \/ Convolve \/ Block \/ Handover \/ TailCoefficient \/ Flush \/ Return

P30Spec == P30Init /\ [][P30Next]_p30Vars

-----------------------------------------------------------------------------
(* Properties *)

(* The limbs of a * b, for the comparison: in digits of a quarter of a limb. *)
QuarterBits == HalfBits \div 2
Quarters(x) == Strict([k \in 1 .. 4 * Len(x) |->
                 (x[((k - 1) \div 4) + 1] \div 2 ^ (QuarterBits * ((k - 1) % 4))) % 2 ^ QuarterBits])
TimesDigit(x, d, into, at) ==     \* `into` plus d * x from digit `at` on, columns not yet carried
  Strict([k \in DOMAIN into |-> IF (k - at) + 1 \in DOMAIN x THEN into[k] + d * x[(k - at) + 1] ELSE into[k]])
Columns(x, y) ==
  LET sum[i \in 0 .. Len(y)] ==
        IF i = 0 THEN [k \in 1 .. Len(x) + Len(y) |-> 0]
        ELSE Only({TimesDigit(x, y[i], z, i) : z \in {sum[i - 1]}})
  IN  sum[Len(y)]
IsProduct(limbs, a, b) ==
  \E c \in {Columns(Quarters(a), Quarters(b))}, d \in {Quarters(limbs)} :
    LET carry[k \in 0 .. Len(c)] == IF k = 0 THEN 0 ELSE (carry[k - 1] + c[k]) \div 2 ^ QuarterBits
    IN  /\ Len(d) = Len(c)
        /\ \A k \in 1 .. Len(c) : d[k] = (carry[k - 1] + c[k]) % 2 ^ QuarterBits
        /\ carry[Len(c)] = 0

(* p30.h:55 "1 ok / 0 out of band": within the bounds of the shorter operand *)
(* and of the transform, and only there, the result is the product, for      *)
(* either set of primes, all five digits of every coefficient and a scalar   *)
(* tail of any length; the spill check (p30.h:1934) finds nothing.           *)
P30Product ==
  stage = "done" =>
    IF Accepts(call.a, call.b) THEN ret = 1 /\ IsProduct(rp, call.a, call.b)
    ELSE ret = 0 /\ rp = <<>>
=============================================================================
