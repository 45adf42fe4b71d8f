------------------------------- MODULE Lanes -------------------------------
(***************************************************************************)
(* Vectors of redundant digits, as include/types.h and include/canon.h     *)
(* compute with them.  A lane is a machine word of Width = B * H values:   *)
(* a digit below B (2^52 in the code) and headroom H (2^12).  A vector has *)
(* L lanes (8 in the code).  Carries between lanes are resolved in scalar  *)
(* registers: comparison masks become integers, one addition ripples.      *)
(***************************************************************************)
EXTENDS DigitNumbers

CONSTANTS L, B, H

ASSUME LanesAssumption ==
  /\ L \in Nat \ {0}
  /\ B \in Nat /\ B >= 2 /\ B % 2 = 0
  /\ H \in Nat /\ H >= 2 /\ H % 2 = 0 /\ H < B   \* one carry, one borrow per lane

Lane == 0 .. L - 1
Width == B * H
MASK52 == B - 1

Word(x) == x % Width
Signed(u) == IF u >= Width \div 2 THEN u - Width ELSE u
Sign(u) == IF u >= Width \div 2 THEN 1 ELSE 0
Zero == [l \in Lane |-> 0]

(* alignr64(v, below, 7): every lane moves up one, `bottom` enters lane 0. *)
ShiftedUp(v, bottom) == [l \in Lane |-> IF l = 0 THEN bottom ELSE v[l - 1]]
(* alignr64(above, v, 1): every lane moves down one. *)
ShiftedDown(v, top) == [l \in Lane |-> IF l = L - 1 THEN top ELSE v[l + 1]]

-----------------------------------------------------------------------------
(* Comparison masks as integers *)

MaskInt(S) == Number([l \in Lane |-> IF l \in S THEN 1 ELSE 0], L, 2)

(* p + ((g << 1) | carry-in): the addition carries through a run of          *)
(* propagating lanes; where the sum differs from p a carry came in.          *)
Ripple(gen, prop, cin) ==
  LET chain == MaskInt(prop) + 2 * MaskInt(gen) + cin
  IN  [into |-> {l \in Lane : (l \in prop) # Bit(chain, l)}, out |-> chain \div Power(2, L)]

Above(v, x) == {l \in Lane : v[l] > x}
Equal(v, x) == {l \in Lane : v[l] = x}

-----------------------------------------------------------------------------
(* The two carry chains.  What a vector passes to the next one: the headroom *)
(* of its top lane, the borrow owed for that lane's sign, and the two        *)
(* rippled carries.  The positive chain leaves bw and bin at 0.              *)

NoCarry == [hi |-> 0, bw |-> 0, cin |-> 0, bin |-> 0]
ChainValue(c) == c.hi - c.bw + c.cin - c.bin

(* srli(v, 52), and the debt slli(srli(v, 63), 12) of a negative lane: its   *)
(* sign bit was shifted down with the headroom as if it were value.          *)
Headroom(v) == [l \in Lane |-> v[l] \div B]
Debt(v) == [l \in Lane |-> H * Sign(v[l])]

(* canonize: lanes are unsigned. *)
Canonize(v, c) ==
  LET t == [l \in Lane |-> (v[l] % B) + ShiftedUp(Headroom(v), c.hi)[l]]
      ripple == Ripple(Above(t, MASK52), Equal(t, MASK52), c.cin)
  IN  [vec |-> [l \in Lane |-> (IF l \in ripple.into THEN t[l] - MASK52 ELSE t[l]) % B],
       chain |-> [hi |-> Headroom(v)[L - 1], bw |-> 0, cin |-> ripple.out, bin |-> 0]]

(* canonneg_init: the carry handed in is a small signed word. *)
CarryIn_unsigned(c) == [NoCarry EXCEPT !.hi = c % H]
CarryIn(c) == [hi |-> c % H, bw |-> H * Sign(c), cin |-> 0, bin |-> 0]

(* canonneg: lanes are two's complement. *)
CanonNeg(v, c) ==
  LET w == [l \in Lane |-> Word((v[l] % B) - ShiftedUp(Debt(v), c.bw)[l])]
      borrow == Ripple(Above(w, MASK52), Equal(w, 0), c.bin)
      rr == [l \in Lane |-> (IF l \in borrow.into THEN w[l] + MASK52 ELSE w[l]) % B]
      t == [l \in Lane |-> rr[l] + ShiftedUp(Headroom(v), c.hi)[l]]
      carry == Ripple(Above(t, MASK52), Equal(t, MASK52), c.cin)
  IN  [vec |-> [l \in Lane |-> (IF l \in carry.into THEN t[l] - MASK52 ELSE t[l]) % B],
       chain |-> [hi |-> Headroom(v)[L - 1], bw |-> Debt(v)[L - 1],
                  cin |-> carry.out, bin |-> borrow.out]]

-----------------------------------------------------------------------------
(* Halving a pair of neighbouring vectors: a lane takes in the parity of the *)
(* limb above it.                                                            *)

(* u52_rsh1_pair: canonical digits. *)
HalfCanon(lo, nx) ==
  [l \in Lane |-> lo[l] \div 2 + (ShiftedDown(lo, nx[0])[l] % 2) * (B \div 2)]

(* u52_rsh1_nc_pair: signed lanes, an arithmetic shift. *)
HalfNc(lo, nx) ==
  [l \in Lane |-> Word(Signed(lo[l]) \div 2 + (ShiftedDown(lo, nx[0])[l] % 2) * (B \div 2))]

-----------------------------------------------------------------------------
(* The number a vector stands for, its lanes read as signed words. *)
Value(v) == Number([l \in Lane |-> Signed(v[l])], L, B)
=============================================================================
