----------------------------- MODULE DivExact3 -----------------------------
(***************************************************************************)
(* mpn_u52_divexact3 of include/interp_helpers.h, with the u52_d3_ macros  *)
(* of include/canon.h: exact division by 3 of a canonical number, from the *)
(* low limb up.  The borrow into a limb is known from the residues mod 3   *)
(* of the limbs below, so a vector needs no carry chain: residues are      *)
(* summed over the lanes below, and the sum is passed on to the next       *)
(* vector - as it is inside an unrolled block, reduced at its end.         *)
(***************************************************************************)
EXTENDS DigitNumbers

CONSTANTS
  D3LogL,       \* a vector has 2^D3LogL lanes (8)
  D3Bits,       \* bits of a digit (52)
  D3Unroll,     \* vectors of the unrolled block (4)
  D3Lengths,    \* lengths of the dividend, in limbs
  D3Digits      \* the digits its limbs are drawn from

D3L == Power(2, D3LogL)
D3B == Power(2, D3Bits)

VARIABLES
  dn,           \* limbs of the dividend
  di,           \* vectors done
  inBlock,      \* vectors done of the current unrolled block
  cv,           \* the residue sum handed on, the same in every lane
  ddebt         \* history: dividend read minus 3 times quotient written

d3Vars == <<dn, di, inBlock, cv, ddebt>>

D3Lane == 0 .. D3L - 1
D3Full == dn \div D3L
D3Tail == dn % D3L

-----------------------------------------------------------------------------
(* The u52_d3_ macros *)

(* u52_d3_ax counts the set bits, the odd ones twice: 2^k = (-1)^k mod 3, and *)
(* 2 = -1.  A number of base 1 is the sum of its digits.                      *)
Counted(x) == [k \in 0 .. D3Bits - 1 |-> IF Bit(x, k) THEN 1 + (k % 2) ELSE 0]
Residue(x) == Number(Counted(x), D3Bits, 1)
Ax(v) == [l \in D3Lane |-> Residue(v[l])]

(* u52_d3_prefix: shifted sums by 1, 2, 4, ... lanes give the inclusive prefix. *)
Shifted(p, s, l) == IF l >= s THEN p[l - s] ELSE 0
Prefix_last_step_missed(p) == [l \in D3Lane |-> p[l] + Shifted(p, 1, l)]
Prefix(p) ==
  LET sums[d \in 0 .. D3LogL] ==
        IF d = 0 THEN p
        ELSE [l \in D3Lane |-> sums[d - 1][l] + Shifted(sums[d - 1], Power(2, d - 1), l)]
  IN  sums[D3LogL]

(* u52_d3_mod3: by a multiplication that is exact on 0 .. 8191. *)
Mod3(s) == s - 3 * ((s * 2731) \div 8192)

Inverse3 == (2 * D3B + 1) \div 3

(* u52_d3_quot: the borrow into a lane is twice the residues below it. *)
BelowLane(P, ax) == [l \in D3Lane |-> P[l] - ax[l]]
Quot(v, P, ax) ==
  [l \in D3Lane |-> (((v[l] - Mod3(2 * BelowLane(P, ax)[l])) % D3B) * Inverse3) % D3B]

-----------------------------------------------------------------------------
(* The loops *)

(* Digits of an even number of bits, so that D3B % 3 = 1: a number is then the *)
(* sum of its limbs mod 3; residue sums u52_d3_mod3 takes, the largest being   *)
(* an unrolled block's on top of cv ("<= 4*624 + 2 < 8192").                   *)
D3Parameters ==
  /\ D3LogL \in Nat /\ D3Bits \in Nat \ {0} /\ D3Bits % 2 = 0
  /\ D3Unroll \in Nat \ {0} /\ D3Lengths \subseteq Nat /\ D3Digits \subseteq 0 .. D3B - 1
  /\ 2 * (2 + D3Unroll * D3L * ((3 * D3Bits) \div 2)) <= 8191

D3Init ==
  /\ dn \in D3Lengths
  /\ di = 0 /\ inBlock = 0 /\ cv = 0 /\ ddebt = 0

(* One vector: residues, their sums on top of cv, the quotient digits. *)
Divide(v, mask) ==
  LET ax == Ax(v)
      P == [l \in D3Lane |-> Prefix(ax)[l] + cv]
      q == Quot(v, P, ax)
  IN  /\ ddebt' = ddebt + Power(D3B, di * D3L)
                           * (Number(v, D3L, D3B) - 3 * Number(Masked(q, mask), D3L, D3B))
      /\ di' = di + 1
      /\ UNCHANGED dn

D3Last(v) == Prefix(Ax(v))[D3L - 1] + cv

(* A vector of the 4x unrolled loop: only the block's last one reduces. *)
Unrolled ==
  /\ inBlock > 0 \/ D3Full - di >= D3Unroll
  /\ \E v \in [D3Lane -> D3Digits] :
       /\ Divide(v, D3Lane)
       /\ inBlock' = (inBlock + 1) % D3Unroll
       /\ cv' = IF inBlock' = 0 THEN Mod3(D3Last(v)) ELSE D3Last(v)

Single ==
  /\ inBlock = 0 /\ di < D3Full /\ D3Full - di < D3Unroll
  /\ \E v \in [D3Lane -> D3Digits] : Divide(v, D3Lane) /\ cv' = Mod3(D3Last(v))
  /\ UNCHANGED inBlock

(* The tail is loaded and stored under a mask, and hands nothing on. *)
TailVector ==
  /\ inBlock = 0 /\ di = D3Full /\ D3Tail # 0
  /\ \E v \in [D3Lane -> D3Digits] : Divide(Masked(v, 0 .. D3Tail - 1), 0 .. D3Tail - 1)
  /\ UNCHANGED <<inBlock, cv>>

D3Next == Unrolled \/ Single \/ TailVector

D3Spec == D3Init /\ [][D3Next]_d3Vars

-----------------------------------------------------------------------------
(* Properties *)

(* What the quotient limbs written so far lack of a third of the dividend is  *)
(* the borrow announced by cv; at the end the quotient is exact whenever 3    *)
(* divides the number (a last borrow would make 3q exceed it by 1 or 2 units  *)
(* of the region).                                                            *)
QuotientOfPrefix ==
  IF di * D3L <= dn
  THEN ddebt = -(((2 * cv) % 3) * Power(D3B, di * D3L))
  ELSE ddebt \in {-(k * Power(D3B, dn)) : k \in 0 .. 2}
=============================================================================
