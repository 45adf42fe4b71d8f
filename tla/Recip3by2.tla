------------------------------ MODULE Recip3by2 ------------------------------
(***************************************************************************)
(* recip_3by2_seed.s and recip_3by2.s: the 3/2 reciprocal of a divisor of  *)
(* 13 words (two blocks of Lanes digits), its leading one dropped.  Three  *)
(* Newton steps on the 7 top words take the reciprocal from one word to 2, *)
(* 4 and 7; a step multiplies only what reaches the words it keeps, and    *)
(* drops the lowest.  The seed is a block read out of the middle of the    *)
(* result.  recip_3by2 goes on: it multiplies the seed by the divisor and  *)
(* moves it up or down by one.                                             *)
(*                                                                         *)
(* Numbers are sequences of digits, the lowest first: blocks of lanes, and *)
(* words of WordDigits smaller digits, to fit TLC's integers.              *)
(***************************************************************************)
EXTENDS Integers, Sequences, SequencesExt, FiniteSetsExt

CONSTANTS
  DigitBits, WordDigits,   \* a word of 64 bits in the code
  Lanes,                   \* lanes of a block: 8
  Divisors                 \* the divisors: 13 words' digits, the top bit set

VARIABLES
  rpc,        \* "newton", then "verify", then "done"
  divisor,    \* its digits
  estimate,   \* the reciprocal so far
  seed        \* the block to be returned

recipVars == <<rpc, divisor, estimate, seed>>

Digit == 2 ^ DigitBits
WordBits == DigitBits * WordDigits
LaneBits == (13 * WordBits) \div (2 * Lanes)          \* 52
LaneBase == 2 ^ LaneBits

ASSUME RecipAssumption ==
  /\ DigitBits \in Nat \ {0} /\ WordDigits \in Nat \ {0} /\ WordBits % 2 = 0
  /\ Lanes \in Nat \ {0} /\ 13 * WordBits = 2 * Lanes * LaneBits
  /\ \A d \in Divisors :
       /\ Len(d) = 13 * WordDigits /\ \A k \in DOMAIN d : d[k] \in 0 .. Digit - 1
       /\ 2 * d[Len(d)] >= Digit

-----------------------------------------------------------------------------
(* Digit sequences *)

(* Column sums as digits below base, what is carried out of them on top.    *)
Carried(columns, base) ==
  LET step(acc, c) == [to |-> Append(acc.to, (c + acc.out) % base), out |-> (c + acc.out) \div base]
      sum == FoldLeft(step, [to |-> <<>>, out |-> 0], columns)
  IN  Append(sum.to, sum.out)

(* Column c of the product of u and v, from digits whose words' numbers add   *)
(* up to `least` or more.                                                     *)
Word(i) == (i - 1) \div WordDigits
Column(u, v, c, least) ==
  MapThenSumSet(LAMBDA i : u[i] * v[c + 1 - i],
                {i \in DOMAIN u : c + 1 - i \in DOMAIN v /\ Word(i) + Word(c + 1 - i) >= least})
Product(u, v, base) == Carried([c \in 1 .. Len(u) + Len(v) - 1 |-> Column(u, v, c, 0)], base)

Complement(u, base) == [k \in DOMAIN u |-> base - 1 - u[k]]

(* The comparison of vectors: the highest lane that differs decides. *)
Greater(u, v) ==
  \E k \in DOMAIN u : u[k] > v[k] /\ \A j \in DOMAIN u : j > k => u[j] = v[j]

(* `count` fields of `width` bits of a number, from bit `from` on. *)
BitOf(u, k) == (u[k \div DigitBits + 1] \div 2 ^ (k % DigitBits)) % 2
Fields(u, from, width, count) ==
  [l \in 1 .. count |->
     MapThenSumSet(LAMBDA k : BitOf(u, from + (l - 1) * width + k) * 2 ^ k, 0 .. width - 1)]

-----------------------------------------------------------------------------
(* recip_mono *)

(* The n top words of the divisor, a number without its lowest word. *)
TopWords(n) == SubSeq(divisor, Len(divisor) - n * WordDigits + 1, Len(divisor))
Words == Len(estimate) \div WordDigits
Above(u) == SubSeq(u, WordDigits + 1, Len(u))

(* estimate * v, without the products of words that end below its top word. *)
Staggered(v) ==
  LET least == Words - 1
      below == least * WordDigits
  IN  Carried([c \in 1 .. Len(v) + WordDigits - 1 |-> Column(estimate, v, c + below, least)], Digit)

(* To m words: t = ~(x D), then x t, a bit to the left.  Each time the lowest *)
(* word goes, the second time after its top bit has been shifted out of it.  *)
Refined(m) ==
  LET t == Complement(Above(Staggered(TopWords(m))), Digit)
      q == Staggered(t)
  IN  [k \in 1 .. m * WordDigits |->
         ((2 * q[k + WordDigits]) % Digit) + (q[k + WordDigits - 1] \div (Digit \div 2))]

(* (2^127 - 1) / the top word, as digits. *)
FirstWord ==
  LET top == Fields(TopWords(1), 0, WordBits, 1)[1]
      first == (2 ^ (2 * WordBits - 2) - 1 + 2 ^ (2 * WordBits - 2)) \div top
  IN  [k \in 1 .. WordDigits |-> (first \div Digit ^ (k - 1)) % Digit]

RecipInit ==
  /\ rpc = "newton"
  /\ divisor \in Divisors
  /\ estimate = FirstWord
  /\ seed = <<>>

NewtonStep ==
  /\ rpc = "newton" /\ Words < 7
  /\ estimate' = Refined(CASE Words = 1 -> 2 [] Words = 2 -> 4 [] Words = 4 -> 7)
  /\ UNCHANGED <<rpc, divisor, seed>>

(* A block from bit 31 on: there are 32 bits more than a block's, of half of *)
(* 2^896 / D.  recip_3by2_seed returns it.                                  *)
SeedLoad ==
  /\ rpc = "newton" /\ Words = 7
  /\ seed' = Fields(estimate, WordBits \div 2 - 1, LaneBits, Lanes)
  /\ rpc' = "verify"
  /\ UNCHANGED <<divisor, estimate>>

-----------------------------------------------------------------------------
(* The verify tail of recip_3by2 *)

Decoded == Fields(divisor, 0, LaneBits, 2 * Lanes)

(* T = <all ones, ~i0, ~i1> against a number of three blocks: its lowest     *)
(* block never decides.                                                     *)
Exceeds(p, T) == Greater(SubSeq(p, Lanes + 1, 3 * Lanes), T)

(* One up or down: a run of lanes at their limit passes it on; past the top  *)
(* lane it is lost.                                                         *)
Reached(limit) == {k \in DOMAIN seed : \A j \in 1 .. k - 1 : seed[j] = limit}
Inc == [k \in DOMAIN seed |-> IF k \in Reached(LaneBase - 1) THEN (seed[k] + 1) % LaneBase ELSE seed[k]]
Dec == [k \in DOMAIN seed |-> IF k \in Reached(0) THEN (seed[k] - 1) % LaneBase ELSE seed[k]]

Corrected_never_down(p, i, T) ==
  LET more == Carried([k \in 1 .. 3 * Lanes |-> p[k] + (IF k \in DOMAIN i THEN i[k] ELSE 0)], LaneBase)
  IN  IF Exceeds(more, T) THEN seed ELSE Inc
Corrected(p, i, T) ==
  LET more == Carried([k \in 1 .. 3 * Lanes |-> p[k] + (IF k \in DOMAIN i THEN i[k] ELSE 0)], LaneBase)
  IN  IF Exceeds(p, T) THEN Dec ELSE IF Exceeds(more, T) THEN seed ELSE Inc

Verify ==
  /\ rpc = "verify"
  /\ \E i \in {Decoded} : \E p \in {Product(seed, i, LaneBase)} :
       seed' = Corrected(p, i, Complement(i, LaneBase))
  /\ rpc' = "done"
  /\ UNCHANGED <<divisor, estimate>>

RecipNext == NewtonStep \/ SeedLoad \/ Verify

-----------------------------------------------------------------------------
(* Properties *)

(* (Beta + seed + more) * divisor <= Beta^3 - 1, for the base Beta of a      *)
(* block: nothing reaches beyond the third block.                           *)
Fits(more) ==
  LET whole == Carried([Append(seed, 1) EXCEPT ![1] = @ + more], LaneBase)
      product == Product(whole, Decoded, LaneBase)
  IN  \A k \in DOMAIN product : k > 3 * Lanes => product[k] = 0

(* The seed is V = floor((2^1248 - 1) / I) - 2^416 up to one unit, on either *)
(* side (recip_3by2_seed.h:6 and 3by2_recip.md, section 6, "|seed - V| <= 1"); *)
(* recip_3by2 returns V itself.  That takes the Newton steps' truncations    *)
(* together to stay below the 31 bits that are dropped, the leading one to   *)
(* be there, and the tail to see which of three neighbours is the right one. *)
ReciprocalRight ==
  /\ rpc = "verify" => Fits(-1) /\ ~Fits(2)
  /\ rpc = "done" => Fits(0) /\ ~Fits(1)
=============================================================================
