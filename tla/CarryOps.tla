------------------------------ MODULE CarryOps ------------------------------
(***************************************************************************)
(* u52_cmp_and_sub and u52_add_carry of include/interp_helpers.h: |a - b|  *)
(* with its sign and a + b, on canonical digits, one vector per action.    *)
(* Operands of different lengths are loaded under masks, because past an   *)
(* operand's last limb its vector holds live data of a neighbour; the      *)
(* result may overwrite either operand in place.                           *)
(***************************************************************************)
EXTENDS Lanes, FiniteSets

CONSTANTS
  MaxLimbs,      \* bound: limbs of an operand
  Digits         \* the digits the operands are made of

ASSUME CarryOpsAssumption == MaxLimbs \in Nat \ {0} /\ Digits \subseteq 0 .. B - 1

VARIABLES
  op,         \* "cmp_and_sub" or "add_carry"
  mem,        \* the three arrays "a", "b", "r": limb -> word
  target,     \* the array the result pointer points into
  size,       \* the lengths passed in
  extra,      \* add_carry's extra_limb
  pc,         \* "above", "compare", "combine", "spill" or "done"
  big, small,       \* the arrays of the longer (larger) and the shorter (smaller) operand
  na, nb,     \* their top vectors
  at, bt,     \* the top lanes in those
  sig,        \* cmp_and_sub: the operands were exchanged
  vi,          \* combine: the vector
  carry,      \* the rippled carry or borrow
  ret,        \* the returned length
  before      \* history: the arrays as they were

carryVars == <<op, mem, target, size, extra, pc, big, small, na, nb, at, bt, sig, vi, carry, ret, before>>

Arrays == {"a", "b", "r"}
Vectors == (MaxLimbs + L) \div L          \* room for a carry limb
Limbs == 0 .. Vectors * L - 1
Foreign == MASK52                         \* what lies past an operand

-----------------------------------------------------------------------------
(* Loads and stores of vector k of an array *)

UpTo(lane) == 0 .. lane
LoadVector(name, k, mask) == [l \in Lane |-> IF l \in mask THEN mem[name][k * L + l] ELSE 0]
Store(k, v, mask) ==
  mem' = [mem EXCEPT ![target] =
            [j \in Limbs |-> IF j \div L = k /\ (j % L) \in mask THEN v[j % L] ELSE @[j]]]

(* borrow_prop and carry_prop: combine two vectors, ripple, keep the digit. *)
BorrowProp(ax, bx) ==
  LET res == [l \in Lane |-> Word(ax[l] - bx[l])]
      ripple == Ripple(Above(res, MASK52), Equal(res, 0), carry)
  IN  [vec |-> [l \in Lane |-> (IF l \in ripple.into THEN res[l] + MASK52 ELSE res[l]) % B],
       out |-> ripple.out]
CarryProp(ax, bx) ==
  LET res == [l \in Lane |-> ax[l] + bx[l]]
      ripple == Ripple(Above(res, MASK52), Equal(res, MASK52), carry)
  IN  [vec |-> [l \in Lane |-> (IF l \in ripple.into THEN res[l] - MASK52 ELSE res[l]) % B],
       out |-> ripple.out]

-----------------------------------------------------------------------------
(* Calls: every pair of numbers, every pair of lengths, with the result in a *)
(* third array or over an operand.  The longer operand becomes big.            *)

Numbers(k) == {[j \in Limbs |-> IF j < k THEN v[j] ELSE Foreign] : v \in [0 .. k - 1 -> Digits]}

CarryInit ==
  /\ op \in {"cmp_and_sub", "add_carry"}
  /\ target \in Arrays
  /\ extra \in IF op = "add_carry" THEN BOOLEAN ELSE {FALSE}
  /\ size \in [{"a", "b"} -> 1 .. MaxLimbs]
  /\ \E va \in Numbers(size["a"]), vb \in Numbers(size["b"]) :
       mem = [a |-> va, b |-> vb, r |-> [j \in Limbs |-> Foreign]]
  /\ before = mem
  /\ big = IF size["a"] < size["b"] THEN "b" ELSE "a"
  /\ small = IF size["a"] < size["b"] THEN "a" ELSE "b"
  /\ sig = (size["a"] < size["b"])
  /\ na = (size[big] - 1) \div L /\ at = (size[big] - 1) % L
  /\ nb = (size[small] - 1) \div L /\ bt = (size[small] - 1) % L
  /\ pc = IF op = "cmp_and_sub" THEN "above" ELSE "combine"
  /\ vi = 0 /\ carry = 0 /\ ret = 0

(* big's vectors above small's: a nonzero one makes big the larger. *)
ScanAbove ==
  /\ pc = "above"
  /\ IF na = nb
     THEN pc' = "compare" /\ UNCHANGED <<na, at>>
     ELSE IF LoadVector(big, na, UpTo(at)) # Zero
          THEN pc' = "combine" /\ UNCHANGED <<na, at>>
          ELSE pc' = "above" /\ na' = na - 1 /\ at' = L - 1
  /\ UNCHANGED <<op, mem, target, size, extra, big, small, nb, bt, sig, vi, carry, ret, before>>

(* Masks of the lanes where big is smaller and where it is larger, as integers. *)
Loses_by_count(lt, gt) == Cardinality(lt) > Cardinality(gt)
Loses(lt, gt) == MaskInt(lt) > MaskInt(gt)

(* The same vector of both: the top differing lane decides, by comparing the *)
(* two disjoint masks; big and small trade places if small is larger.      *)
Compare ==
  LET ax == LoadVector(big, na, UpTo(at))
      bx == LoadVector(small, nb, UpTo(bt))
      lt == {l \in Lane : ax[l] < bx[l]}
      gt == {l \in Lane : ax[l] > bx[l]}
  IN  /\ pc = "compare"
      /\ \/ /\ ax # bx /\ Loses(lt, gt)
            /\ big' = small /\ small' = big /\ at' = bt /\ bt' = at /\ sig' = ~sig
            /\ pc' = "combine"
            /\ UNCHANGED <<na, nb>>
         \/ /\ ax # bx /\ ~Loses(lt, gt)
            /\ pc' = "combine"
            /\ UNCHANGED <<big, small, na, nb, at, bt, sig>>
         \/ /\ ax = bx
            /\ IF na = 0 THEN pc' = "done" /\ UNCHANGED <<na, nb, at, bt>>
               ELSE /\ pc' = "compare"
                    /\ na' = na - 1 /\ nb' = nb - 1 /\ at' = L - 1 /\ bt' = L - 1
            /\ UNCHANGED <<big, small, sig>>
      /\ UNCHANGED <<op, mem, target, size, extra, vi, carry, ret, before>>

(* Vector vi of both operands; the top vectors are masked, small is zero above nb. *)
Combine ==
  LET ax == LoadVector(big, vi, IF vi = na THEN UpTo(at) ELSE Lane)
      bx == IF vi > nb THEN Zero ELSE LoadVector(small, vi, IF vi = nb THEN UpTo(bt) ELSE Lane)
      done == IF op = "cmp_and_sub" THEN BorrowProp(ax, bx) ELSE CarryProp(ax, bx)
      widened == extra /\ at # L - 1
  IN  /\ pc = "combine"
      /\ Store(vi, done.vec, IF vi < na THEN Lane ELSE IF widened THEN UpTo(at + 1) ELSE UpTo(at))
      /\ carry' = done.out
      /\ vi' = vi + 1
      /\ IF vi < na THEN pc' = "combine" /\ UNCHANGED ret
         ELSE /\ pc' = IF extra /\ ~widened THEN "spill" ELSE "done"
              /\ ret' = LET top == na * L + at + 1
                        IN  IF op = "cmp_and_sub" THEN IF sig THEN -top ELSE top
                            ELSE IF extra THEN top + 1 ELSE top
      /\ UNCHANGED <<op, target, size, extra, big, small, na, nb, at, bt, sig, before>>

(* add_carry with extra_limb and a full top vector: the carry is a new limb. *)
Spill ==
  /\ pc = "spill"
  /\ Store(vi, [Zero EXCEPT ![0] = carry % 2], {0})
  /\ pc' = "done"
  /\ UNCHANGED <<op, target, size, extra, big, small, na, nb, at, bt, sig, vi, carry, ret, before>>

CarryNext == ScanAbove \/ Compare \/ Combine \/ Spill

CarrySpec == CarryInit /\ [][CarryNext]_carryVars

-----------------------------------------------------------------------------
(* Properties *)

Abs(k) == IF k < 0 THEN -k ELSE k
A == Number(before["a"], size["a"], B)
D == Number(before["b"], size["b"], B)
Result == Number(mem[target], Abs(ret), B)
Longer == IF size["a"] < size["b"] THEN size["b"] ELSE size["a"]

(* What is returned: the result's limbs hold |a - b|, with the sign in the  *)
(* length and 0 for equality only; or they hold a + b, cut to the longer     *)
(* operand unless the carry limb was asked for.                              *)
RightWhenDone ==
  pc = "done" =>
    IF op = "cmp_and_sub"
    THEN /\ Result = Abs(A - D)
         /\ ret > 0 <=> A > D
         /\ ret < 0 <=> A < D
    ELSE /\ ret = IF extra THEN Longer + 1 ELSE Longer
         /\ Result = IF extra THEN A + D ELSE (A + D) % Power(B, Longer)

(* No limb outside the returned length changes, at any moment: a neighbour's *)
(* limbs and the operand that is not overwritten stay as they were.          *)
OnlyResultWritten ==
  \A name \in Arrays : \A j \in Limbs :
    mem[name][j] # before[name][j] =>
      /\ name = target
      /\ j <= na * L + at + (IF extra THEN 1 ELSE 0)

(* Comparison, subtraction and addition return what they should, whatever    *)
(* the lengths, the foreign lanes and the aliasing, and write nothing else.  *)
CarryResultRight == RightWhenDone /\ OnlyResultWritten
=============================================================================
