---------------------------- MODULE TruncatedNtt ----------------------------
(***************************************************************************)
(* The truncated number-theoretic transform of include/p30.h, for one of   *)
(* its primes: forward transform of a, then one traversal that transforms  *)
(* b, convolves each leaf with a's spectrum and inverts.                   *)
(*                                                                         *)
(* Every value is a machine word, so that the lazy range [0, 4p) is at     *)
(* stake.  An array holds vectors of W lanes.  A call of the engine is a   *)
(* list of tasks: a recursive function replaces its task by the passes and *)
(* calls of its body, a pass rewrites an array.  Decoding of limbs into    *)
(* residues and the final CRT are outside: operands are residues, and the  *)
(* result is compared with their product modulo the prime.                 *)
(***************************************************************************)
EXTENDS Integers, Sequences, SequencesExt, FiniteSets

CONSTANTS
  P,            \* the prime
  U32,          \* words are 0 .. U32 - 1 (2^32)
  W,            \* lanes of a vector (P30_W)
  MaxLg,        \* P30_MAX_LG
  MinOperandCap, \* P30_MIN_OPERAND_CAP
  MixTopLg,     \* the top rung of the mixed set (16)
  MixMinLg, MixMaxLg,   \* P30_MIX_MIN_LG, P30_MIX_MAX_LG
  Sessions      \* bound: sequences of calls made by one thread

(* A call: lengths of the operands, which residues they hold, squaring or   *)
(* not; p30_ladder and P30_FIN_MIN_M, which the tests override, belong to it. *)
Fillings == {"largest", "varied"}
CallSet == [an : Nat, bn : Nat, pattern : Fillings, sq : BOOLEAN,
            ladder : BOOLEAN, finMinM : Nat]

ASSUME NttAssumption ==
  /\ P \in Nat \ {0, 1} /\ U32 \in Nat /\ 4 * P <= U32
  /\ W \in Nat \ {0} /\ W % 2 = 0
  /\ MaxLg \in Nat /\ MinOperandCap \in Nat
  /\ MixTopLg \in Nat /\ MixMaxLg \in Nat /\ MixMinLg \in Nat \ {0, 1}
  /\ (P - 1) % (3 * (2 ^ MixTopLg) * W) = 0 /\ (P - 1) % (2 ^ MaxLg) = 0
  /\ Sessions \subseteq Seq(CallSet)

VARIABLES
  session,   \* calls still to be made
  call,      \* the call being made, with the shape chosen for it
  todo,      \* its tasks
  RA, RB,      \* ra[q] (or sbuf when squaring) and rb[q]
  plan,      \* p30_tls_plan: root tables of the binary and of the mixed set
  product    \* history: what the call should compute

nttVars == <<session, call, todo, RA, RB, plan, product>>

LaneSet == 0 .. W - 1
Unset == -1                      \* memory nobody has written
Blank(n) == [v \in 0 .. n - 1 |-> [l \in LaneSet |-> Unset]]

-----------------------------------------------------------------------------
(* Modular helpers and word primitives *)

(* p30_powm, p30_invm *)
Powm(base, n) ==
  LET pw[e \in 0 .. n] ==
        IF e = 0 THEN 1
        ELSE LET r == pw[e \div 2] IN (((r * r) % P) * (IF e % 2 = 1 THEN base ELSE 1)) % P
  IN  pw[n]
Inverted(x) == Powm(x, P - 2)

(* p30_primitive_root *)
PrimeFactors(n) == {f \in 2 .. n : n % f = 0 /\ \A g \in 2 .. f - 1 : f % g # 0}
Generates(g) == \A f \in PrimeFactors(P - 1) : Powm(g, (P - 1) \div f) # 1
Root == CHOOSE g \in 2 .. P - 1 : Generates(g) /\ \A i \in 2 .. g - 1 : ~Generates(i)

(* p30_sh2: [0,4p) -> [0,2p), as min(x, x - 2p) on words *)
Sh2(x) == IF x = Unset THEN Unset
          ELSE LET y == (x - 2 * P) % U32 IN IF y < x THEN y ELSE x
(* p30_bar2p: a * c mod p in [0,2p) for any word a *)
Bar2p(a, c) ==
  IF a = Unset THEN Unset
  ELSE LET rec == (c * U32) \div P
           q == (a * rec) \div U32
       IN  ((a * c) - (q * P)) % U32
AddLazy(x, y) == IF x = Unset \/ y = Unset THEN Unset ELSE (x + y) % U32
SubLazy(x, y) == IF x = Unset \/ y = Unset THEN Unset ELSE (x + (2 * P - y)) % U32

(* p30_kshrp after p30_sh2: [0,4p) -> [0,p) *)
Canonical(x) == LET y == Sh2(x)
                    z == (y - P) % U32
                IN  IF x = Unset THEN Unset ELSE IF z < y THEN z ELSE y

(* Lane by lane *)
Each(f(_), x) == [l \in LaneSet |-> f(x[l])]
Each2(f(_, _), x, y) == [l \in LaneSet |-> f(x[l], y[l])]
Times(x, c) == [l \in LaneSet |-> Bar2p(x[l], c)]
Sh2s(x) == Each(Sh2, x)

(* P30_BF: the forward butterfly, and P30_IBF, the inverse one *)
LowForward_unshrunk(a, b, w) == Each2(AddLazy, a, Times(b, w))
LowForward(a, b, w) == Each2(AddLazy, Sh2s(a), Times(b, w))
HighForward(a, b, w) == Each2(SubLazy, Sh2s(a), Times(b, w))
LowInverse(a, b) == Each2(AddLazy, Sh2s(a), Sh2s(b))
HighInverse(a, b, wi) == Times(Each2(SubLazy, Sh2s(a), Sh2s(b)), wi)

-----------------------------------------------------------------------------
(* The pointwise product modulo x^W - w *)

(* One REDC leaves the factor 1/R behind (p30_kredc, then p30_kshrp3). *)
StrayR == Inverted(U32 % P)
Redc(t) == ((t % P) * StrayR) % P

(* P30_KCONV8: x * b mod y^(W/2) - w, where xw = w * x is reduced. *)
TwistedConv(x, b, w) ==
  LET n == W \div 2
      xw == [l \in 0 .. n - 1 |-> (x[l] * w) % P]
      term(l, i) == (b[i] * (IF l >= i THEN x[l - i] ELSE xw[l - i + n])) % P
  IN  [l \in 0 .. n - 1 |-> Redc(FoldLeft(+, 0, [i \in 1 .. n |-> term(l, i - 1)]))]

(* p30_conv16_kara2: Karatsuba on the even and odd coefficients. *)
Kara2(a, b, w) ==
  LET n == W \div 2
      ca == Each(Canonical, a)
      cb == Each(Canonical, b)
      even(x) == [l \in 0 .. n - 1 |-> x[2 * l]]
      odd(x) == [l \in 0 .. n - 1 |-> x[2 * l + 1]]
      both(x) == [l \in 0 .. n - 1 |-> (x[2 * l] + x[2 * l + 1]) % P]
      m0 == TwistedConv(even(ca), even(cb), w)
      m2 == TwistedConv(odd(ca), odd(cb), w)
      ms == TwistedConv(both(ca), both(cb), w)
      ym2 == [l \in 0 .. n - 1 |-> IF l = 0 THEN Bar2p(m2[n - 1], w) ELSE m2[l - 1]]
  IN  [l \in LaneSet |-> IF l % 2 = 0 THEN AddLazy(m0[l \div 2], ym2[l \div 2])
                         ELSE (ms[l \div 2] + 2 * P - m0[l \div 2] - m2[l \div 2]) % U32]

(* p30_conv16: the plain product, canonical, for a single position. *)
Conv16(a, b, w) ==
  LET ca == Each(Canonical, a)
      cb == Each(Canonical, b)
      aw == [l \in LaneSet |-> (ca[l] * w) % P]
      term(l, i) == (cb[i] * (IF l >= i THEN ca[l - i] ELSE aw[l - i + W])) % P
  IN  [l \in LaneSet |-> Redc(FoldLeft(+, 0, [i \in 1 .. W |-> term(l, i - 1)]))]

HasUnset(x) == \E l \in LaneSet : x[l] = Unset
Conv(a, b, w, single) ==
  IF HasUnset(a) \/ HasUnset(b) THEN [l \in LaneSet |-> Unset]
  ELSE IF single THEN Conv16(a, b, w) ELSE Kara2(a, b, w)

-----------------------------------------------------------------------------
(* Root tables (p30_pset_ensure): w[2^(t-1) + s] = zeta_t * w[s], so that a *)
(* larger table only appends to a smaller one.                              *)

Zeta(t) == Powm(Root, (P - 1) \div (2 ^ t))

Extended(table, from, lg, inverse) ==
  LET entry[i \in 0 .. 2 ^ lg - 1] ==
        IF i < 2 ^ from THEN table[i]
        ELSE LET t == CHOOSE k \in 1 .. lg : 2 ^ (k - 1) <= i /\ i < 2 ^ k
                 zeta == IF inverse THEN Inverted(Zeta(t)) ELSE Zeta(t)
             IN  (zeta * entry[i - 2 ^ (t - 1)]) % P
  IN  entry
Rebuilt(ps, lg) == [lg |-> lg, w |-> Extended(ps.w, ps.lg, lg, FALSE),
                    winv |-> Extended(ps.winv, ps.lg, lg, TRUE)]
Grown(ps, lg) == IF lg <= ps.lg THEN ps ELSE Rebuilt(ps, lg)
FreshSet == [lg |-> 0, w |-> [i \in {0} |-> 1], winv |-> [i \in {0} |-> 1]]

(* The mixed set's constants: Omega of order 3 * 2^MixTopLg * W, its cube   *)
(* root, and the twist of child t: mu^(t v) per vector, nu^(t l) per lane.  *)
Omega == Powm(Root, (P - 1) \div (3 * (2 ^ MixTopLg) * W))
Cube == Powm(Omega, (2 ^ MixTopLg) * W)
Cube2 == (Cube * Cube) % P
Mu(lgL) == Powm(Omega, W * (2 ^ (MixTopLg - lgL)))
Nu(lgL) == Powm(Omega, 2 ^ (MixTopLg - lgL))
Twisted(x, c, v, lgL) ==
  [l \in LaneSet |-> Bar2p(Bar2p(x[l], Powm(Mu(lgL), c * v)), Powm(Nu(lgL), c * l))]
Untwisted(x, c, v, lgL) ==
  [l \in LaneSet |-> Bar2p(Bar2p(x[l], Powm(Inverted(Mu(lgL)), c * v)),
                           Powm(Inverted(Nu(lgL)), c * l))]

-----------------------------------------------------------------------------
(* Tasks: op names a pass or a function, x the array of a forward pass,     *)
(* off the node's first vector, (m, j) the node, z its truncation, d the    *)
(* levels the input pass has absorbed.                                      *)

Task(op, x, off, m, j, z, d) ==
  [op |-> op, x |-> x, off |-> off, m |-> m, j |-> j, z |-> z, d |-> d]
Here(op, t) == [t EXCEPT !.op = op]
Half(t) == t.m \div 2

Lg(n) == CHOOSE k \in 0 .. MaxLg + 2 : n <= 2 ^ k /\ \A i \in 0 .. k - 1 : 2 ^ i < n

(* k levels of butterflies from node (m, j), top down; z counts the nodes. *)
Levels(x, off, m, j, k) ==
  [i \in 1 .. k |-> Task("level", x, off, m \div (2 ^ (i - 1)), j * (2 ^ (i - 1)), 2 ^ (i - 1), 0)]
(* and bottom up. *)
InverseLevels(off, m, j, k) ==
  Reverse([i \in 1 .. k |->
    Task("inverse", "B", off, m \div (2 ^ (i - 1)), j * (2 ^ (i - 1)), 2 ^ (i - 1), 0)])

(* The in-register bottoms of p30_fwd_full (m <= 4) and p30_fwd8, fwd16r,   *)
(* fwd32r: all levels of a small node; the fused ones convolve in between. *)
Bottom(x, off, m, j) == Levels(x, off, m, j, Lg(m))
FusedBottom(off, m, j) ==
  Bottom("B", off, m, j) \o <<Task("conv", "B", off, m, j, m, 0)>> \o InverseLevels(off, m, j, Lg(m))

(* p30_leaf_ls *)
LeafSize_always_8(m) == 8
LeafSize(m) == CASE Lg(m) % 3 = 0 -> 8 [] Lg(m) % 3 = 1 -> 16 [] OTHER -> 32

(* Sizes of the radix-8 moths above the leaves, largest first. *)
Moths(m) == [i \in 1 .. (Lg(m) - Lg(LeafSize(m))) \div 3 |-> m \div (8 ^ (i - 1))]

(* p30_fwd_full and p30_fused_full: a walk over leaf blocks; a moth of size *)
(* s starts at the first block of its node and ends after the last.        *)
MothsStarting(x, t, b) ==
  LET ls == LeafSize(t.m)
      starting == SelectSeq(Moths(t.m), LAMBDA s : b % (s \div ls) = 0)
      o == b * ls
  IN  FlattenSeq([i \in 1 .. Len(starting) |->
        LET s == starting[i]
        IN  Levels(x, t.off + o, s, t.j * (t.m \div s) + (o \div s), 3)])
MothsEnding(t, b) ==
  LET ls == LeafSize(t.m)
      ending == Reverse(SelectSeq(Moths(t.m), LAMBDA s : (b + 1) % (s \div ls) = 0))
      e == (b + 1) * ls
  IN  FlattenSeq([i \in 1 .. Len(ending) |->
        LET s == ending[i]
        IN  InverseLevels(t.off + e - s, s, t.j * (t.m \div s) + ((e - s) \div s), 3)])

FwdFull(t) ==
  IF t.m <= 32 THEN Bottom(t.x, t.off, t.m, t.j)
  ELSE LET ls == LeafSize(t.m)
           nb == t.m \div ls
       IN  FlattenSeq([i \in 1 .. nb |->
             MothsStarting(t.x, t, i - 1)
             \o Bottom(t.x, t.off + (i - 1) * ls, ls, t.j * nb + i - 1)])

FusedFull(t) ==
  IF t.m <= 32 THEN FusedBottom(t.off, t.m, t.j)
  ELSE LET ls == LeafSize(t.m)
           nb == t.m \div ls
       IN  FlattenSeq([i \in 1 .. nb |->
             MothsStarting("B", t, i - 1)
             \o FusedBottom(t.off + (i - 1) * ls, ls, t.j * nb + i - 1)
             \o MothsEnding(t, i - 1)])

-----------------------------------------------------------------------------
(* The recursive functions: the list each call stands for *)

Lower(op, t, z) == [t EXCEPT !.op = op, !.m = Half(t), !.j = 2 * t.j, !.z = z,
                             !.d = IF @ = 0 THEN 0 ELSE @ - 1]
Upper(op, t, z) == [t EXCEPT !.op = op, !.off = @ + Half(t), !.m = Half(t),
                             !.j = 2 * t.j + 1, !.z = z, !.d = IF @ = 0 THEN 0 ELSE @ - 1]
OneLevel(t) == Levels(t.x, t.off, t.m, t.j, 1)
WholeInverse(t) == InverseLevels(t.off, t.m, t.j, 1)

FwdRec(t) ==
  IF t.m = 1 THEN << >>
  ELSE IF t.z = t.m /\ t.m >= 8 THEN FwdFull(t)
  ELSE IF t.z <= Half(t) THEN <<Here("low_level", t), Lower("fwd_rec", t, t.z)>>
  ELSE OneLevel(t) \o <<Lower("fwd_rec", t, Half(t)), Upper("fwd_rec", t, t.z - Half(t))>>

FusedSb(t) ==
  IF t.z = t.m THEN FusedFull(t)
  ELSE IF t.z <= Half(t)
  THEN <<Here("low_level", t), Here("child_tails", t), Lower("fused_sb", t, t.z),
         Here("low_combine", t)>>
  ELSE OneLevel(t) \o
       <<Lower("fused_full", t, Half(t)), Here("right_tails", t),
         Upper("fused_sb", t, t.z - Half(t)), Here("short_inverse", t)>>

FusedRec(t) ==
  IF t.z = t.m THEN FusedFull(t)
  ELSE IF t.z <= Half(t)
  THEN <<Here("low_level", t), Lower("fused_rec", t, t.z), Here("low_double", t)>>
  ELSE OneLevel(t) \o
       <<Lower("fused_full", t, Half(t)), Here("seed_tails", t),
         Upper("fused_sb", t, t.z - Half(t)), Here("short_inverse", t)>>

(* The drivers that enter d levels down, behind the fused input pass. *)
FwdPre(t) ==
  IF t.d = 0 THEN FwdRec(t)
  ELSE IF t.z = t.m
  THEN LET sub == t.m \div (2 ^ t.d)
       IN  FlattenSeq([i \in 1 .. 2 ^ t.d |->
             FwdFull([t EXCEPT !.off = @ + sub * (i - 1), !.m = sub, !.z = sub,
                               !.j = @ * (2 ^ t.d) + i - 1, !.d = 0])])
  ELSE IF t.z <= Half(t) THEN <<Lower("fwd_pre", t, t.z)>>
  ELSE <<Lower("fwd_pre", t, Half(t)), Upper("fwd_pre", t, t.z - Half(t))>>

FusedFullPre(t) ==
  IF t.d = 0 THEN FusedFull(t)
  ELSE IF t.d = 3
  THEN LET e == t.m \div 8
       IN  FlattenSeq([c \in 1 .. 8 |->
             FusedFull([t EXCEPT !.off = @ + e * (c - 1), !.m = e, !.z = e,
                                 !.j = 8 * @ + c - 1, !.d = 0])])
           \o InverseLevels(t.off, t.m, t.j, 3)
  ELSE <<Lower("full_pre", t, Half(t)), Upper("full_pre", t, Half(t))>> \o WholeInverse(t)

FusedSbPre(t) ==
  IF t.d = 0 THEN FusedSb(t)
  ELSE IF t.z = t.m THEN FusedFullPre(t)
  ELSE IF t.z <= Half(t)
  THEN <<Here("child_tails", t), Lower("sb_pre", t, t.z), Here("low_combine", t)>>
  ELSE <<Lower("full_pre", t, Half(t)), Here("right_tails", t),
         Upper("sb_pre", t, t.z - Half(t)), Here("short_inverse", t)>>

FusedPre(t) ==
  IF t.d = 0 THEN FusedRec(t)
  ELSE IF t.z = t.m THEN FusedFullPre(t)
  ELSE IF t.z <= Half(t)
  THEN <<Lower("fused_pre", t, t.z), Here("low_double", t)>>
  ELSE <<Lower("full_pre", t, Half(t)), Here("seed_tails", t),
         Upper("sb_pre", t, t.z - Half(t)), Here("short_inverse", t)>>

(* The mixed transform of 3 L vectors: m is L, z what the third child keeps. *)
Mfwd(t) ==
  <<Here("radix3", t), [t EXCEPT !.op = "fwd_rec", !.z = t.m],
    [t EXCEPT !.op = "fwd_rec", !.off = t.m, !.z = t.m],
    [t EXCEPT !.op = "fwd_rec", !.off = 2 * t.m]>>
Mfused(t) ==
  <<Here("radix3", t), [t EXCEPT !.op = "fused_full", !.z = t.m],
    [t EXCEPT !.op = "fused_full", !.off = t.m, !.z = t.m],
    Here("seam", t), [t EXCEPT !.op = "fused_sb", !.off = 2 * t.m], Here("combine3", t)>>

-----------------------------------------------------------------------------
(* The passes.  Vectors of a node are counted from its first one. *)

Tables == IF call.mixed THEN plan.m ELSE plan.b
Twiddle(t) == Tables.w[2 * t.j]
InverseTwiddle(t) == Tables.winv[2 * t.j]
Inv2 == (P + 1) \div 2

(* X with the vectors of node t that new defines replaced by it. *)
Rewritten(X, t, new) ==
  [i \in DOMAIN X |-> IF i - t.off \in DOMAIN new THEN new[i - t.off] ELSE X[i]]

InNode(X, t, v) == X[t.off + v]
HalfAbove(X, t, v) == X[t.off + v + Half(t)]

(* One full level: t.z nodes of t.m vectors, the first is t.j. *)
Level(X, t) ==
  LET w(v) == Tables.w[2 * (t.j + (v \div t.m))]
  IN  Rewritten(X, t, [v \in 0 .. t.z * t.m - 1 |->
        IF v % t.m < Half(t) THEN LowForward(InNode(X, t, v), HalfAbove(X, t, v), w(v))
        ELSE HighForward(InNode(X, t, v - Half(t)), InNode(X, t, v), w(v))])
InverseLevel(X, t) ==
  LET wi(v) == Tables.winv[2 * (t.j + (v \div t.m))]
  IN  Rewritten(X, t, [v \in 0 .. t.z * t.m - 1 |->
        IF v % t.m < Half(t) THEN LowInverse(InNode(X, t, v), HalfAbove(X, t, v))
        ELSE HighInverse(InNode(X, t, v - Half(t)), InNode(X, t, v), wi(v))])

(* The half of a level that the truncation keeps. *)
LowLevel(X, t) ==
  Rewritten(X, t, [v \in 0 .. Half(t) - 1 |->
    LowForward(InNode(X, t, v), HalfAbove(X, t, v), Twiddle(t))])

ConvLeaf(t) ==
  LET other == IF call.sq THEN RB ELSE RA
  IN  Rewritten(RB, t, [v \in 0 .. t.m - 1 |->
        Conv(InNode(RB, t, v), InNode(other, t, v), Tables.w[t.j * t.m + v], t.m = 1)])

(* The side channel: inverse tails live in A beyond the node's z. *)
TwistedTail(t, v) == Times(HalfAbove(RA, t, v), Twiddle(t))

ChildTails_unhalved(t) ==
  Rewritten(RA, t, [v \in t.z .. Half(t) - 1 |->
    Each2(AddLazy, Sh2s(InNode(RA, t, v)), TwistedTail(t, v))])
ChildTails(t) ==
  Rewritten(RA, t, [v \in t.z .. Half(t) - 1 |->
    Times(Each2(AddLazy, Sh2s(InNode(RA, t, v)), TwistedTail(t, v)), Inv2)])

(* Inverse of a truncated level.  Without a side channel the tails are zero *)
(* ("low_double": the engine's callers choose the least M, so that only the *)
(* nodes below the spine take this branch, and those have a side channel).  *)
Doubled(x) == Each2(AddLazy, Sh2s(x), Sh2s(x))
LowCombine(t) ==
  Rewritten(RB, t, [v \in 0 .. t.z - 1 |->
    LET twice == Doubled(InNode(RB, t, v))
    IN  IF t.op = "low_double" THEN twice ELSE Each2(SubLazy, Sh2s(twice), TwistedTail(t, v))])

(* What the right child does not compute: the vectors from zr up. *)
Beyond(t) == t.z - Half(t) .. Half(t) - 1
RightTail(t, v) == Each2(SubLazy, Sh2s(InNode(RB, t, v)), TwistedTail(t, v))
RightTails_out(t) ==
  Rewritten(RB, t, [v \in Beyond(t) |->
    Each2(AddLazy, Sh2s(InNode(RB, t, v)), Sh2s(RightTail(t, v)))])
RightTails_side(t) ==
  Rewritten(RA, t, [v \in t.z .. t.m - 1 |-> RightTail(t, v - Half(t))])

SeedTails_out(t) == Rewritten(RB, t, [v \in Beyond(t) |-> Doubled(InNode(RB, t, v))])
SeedTails_whole_half(t) ==
  Rewritten(RA, t, [v \in Half(t) .. t.m - 1 |-> Sh2s(InNode(RB, t, v - Half(t)))])
SeedTails_side(t) ==
  Rewritten(RA, t, [v \in t.z .. t.m - 1 |-> Sh2s(InNode(RB, t, v - Half(t)))])

(* The inverse combine, over the vectors the right child produced. *)
ShortInverse(t) ==
  LET h == Half(t)
  IN  Rewritten(RB, t, [v \in (0 .. t.z - h - 1) \cup (h .. t.z - 1) |->
        IF v < h THEN LowInverse(InNode(RB, t, v), HalfAbove(RB, t, v))
        ELSE HighInverse(InNode(RB, t, v - h), InNode(RB, t, v), InverseTwiddle(t))])

(* p30_r3fwd: vector i belongs to child i \div third. *)
Radix3(X, t) ==
  LET third == t.m
      y(v, c1, c2) ==
        Each2(AddLazy, Sh2s(Each2(AddLazy, X[v], Times(X[v + third], c1))), Times(X[v + 2 * third], c2))
  IN  [i \in DOMAIN X |->
        LET v == i % third
        IN  CASE i \div third = 0 -> Each2(AddLazy, Each2(AddLazy, X[v], X[v + third]), X[v + 2 * third])
              [] i \div third = 1 -> Twisted(y(v, Cube, Cube2), 1, v, Lg(third))
              [] OTHER -> Twisted(y(v, Cube2, Cube), 2, v, Lg(third))]

(* The seam of p30_mfused: solve for the coefficients that the third child *)
(* does not know, and leave its tails in A.                                *)
Child(t, c, v) == Untwisted(RB[v + (c * t.m)], c, v, Lg(t.m))
SeamU1(t, v) == Times(Each2(SubLazy, Sh2s(RB[v]), Child(t, 1, v)), Inverted((1 + P - Cube) % P))
SeamU0(t, v) == Sh2s(Each2(SubLazy, Sh2s(RB[v]), SeamU1(t, v)))
Seam_side(t) ==
  [i \in DOMAIN RA |->
     LET v == i - 2 * t.m
     IN  IF v < t.z THEN RA[i]
         ELSE Twisted(Sh2s(Each2(AddLazy, SeamU0(t, v), Times(SeamU1(t, v), Cube2))), 2, v, Lg(t.m))]
Seam_out(t) ==
  [i \in DOMAIN RB |->
     LET v == i % t.m
     IN  CASE v < t.z \/ i \div t.m = 2 -> RB[i]
           [] v >= t.z /\ i \div t.m = 0 -> Times(SeamU0(t, v), 3)
           [] OTHER -> Times(SeamU1(t, v), 3)]

(* and its three-point combine. *)
Combine3(t) ==
  LET s(v, c1, c2) ==
        Each2(AddLazy, Sh2s(Each2(AddLazy, Sh2s(RB[v]), Times(Child(t, 1, v), c1))),
              Times(Child(t, 2, v), c2))
      plain(v) == Each2(AddLazy, Sh2s(Each2(AddLazy, Sh2s(RB[v]), Child(t, 1, v))), Child(t, 2, v))
  IN  [i \in DOMAIN RB |->
        LET v == i % t.m
        IN  CASE v >= t.z -> RB[i]
              [] v < t.z /\ i \div t.m = 0 -> plain(v)
              [] v < t.z /\ i \div t.m = 1 -> s(v, Cube2, Cube)
              [] OTHER -> s(v, Cube, Cube2)]

(* s = NV^-1 * R cancels the transform's factor and the stray 1/R. *)
Scale(t) ==
  LET s == (Inverted(t.m % P) * (U32 % P)) % P
  IN  Rewritten(RB, t, [v \in 0 .. t.z - 1 |-> Each(Canonical, Times(RB[v], s))])

-----------------------------------------------------------------------------
(* A call: shape, input, transforms, output *)

Residue(c, i) == IF c.pattern = "largest" THEN P - 1 ELSE ((7 * i * i) + (3 * i) + 11) % P
Decoded(c, n, i, second) == IF i < n THEN Residue(c, IF second THEN i + 5 ELSE i) ELSE 0
Vectors(c, n, nv, second) ==
  [v \in 0 .. nv - 1 |-> [l \in LaneSet |-> Decoded(c, n, (v * W) + l, second)]]

(* The choices at the head of p30_mul_r and p30_sqr_r. *)
ShapeOf(c) ==
  LET bn == IF c.sq THEN c.an ELSE c.bn
      zlen == c.an + bn - 1
      tv == (zlen + W - 1) \div W
      lg == Lg(tv)
      M == 2 ^ lg
      mixed == c.ladder /\ lg >= MixMinLg /\ lg <= MixMaxLg /\ lg - 2 <= MixTopLg
               /\ tv <= 3 * (2 ^ (lg - 2))
  IN  [an |-> c.an, bn |-> bn, pattern |-> c.pattern, sq |-> c.sq, zlen |-> zlen, tv |-> tv,
       lg |-> lg, mixed |-> mixed, NV |-> IF mixed THEN 3 * (2 ^ (lg - 2)) ELSE M,
       fits |-> lg <= MaxLg /\ (c.an <= MinOperandCap \/ bn <= MinOperandCap),
       fin |-> ~mixed /\ M >= c.finMinM /\ M >= 8]

(* p30_cfwd8x: of the first three levels, each node's lower half always and *)
(* its upper half only if the truncation reaches it.                        *)
ColumnLevels(x, t) ==
  LET node(m, j, z) == [t EXCEPT !.x = x, !.off = j * m, !.m = m, !.j = j, !.z = z]
      pass(m, j, z) == IF z <= 0 THEN << >>
                       ELSE IF z <= m \div 2 THEN <<Here("low_level", node(m, j, z))>>
                       ELSE OneLevel(node(m, j, z))
      M == t.m
      z == t.z
      least(a, b) == IF a < b THEN a ELSE b
  IN  pass(M, 0, z)
      \o pass(M \div 2, 0, least(z, M \div 2)) \o pass(M \div 2, 1, z - (M \div 2))
      \o FlattenSeq([i \in 1 .. 4 |->
           pass(M \div 4, i - 1, least(z - (M \div 4) * (i - 1), M \div 4))])

(* The rows the fused input pass stores: beyond zrow the buffer stays as it was. *)
ZRow(c) == (c.tv + (c.NV \div 8) - 1) \div (c.NV \div 8)

Whole(op, x, m, z, d) == Task(op, x, 0, m, 0, z, d)
Columns(x, c) == ColumnLevels(x, Whole("", x, c.NV, ZRow(c) * (c.NV \div 8), 0))
                 \o <<Whole("drop", x, c.NV, ZRow(c) * (c.NV \div 8), 0)>>
Program(c) ==
  LET engine(x, rec, pre, mix) ==
        IF c.mixed THEN Whole(mix, x, c.NV \div 3, c.tv - 2 * (c.NV \div 3), 0)
        ELSE IF c.fin THEN Whole(pre, x, c.NV, c.tv, 3) ELSE Whole(rec, x, c.NV, c.tv, 0)
  IN  (IF c.fin THEN (IF c.sq THEN << >> ELSE Columns("A", c)) \o Columns("B", c) ELSE << >>)
      \o (IF c.sq THEN << >> ELSE <<engine("A", "fwd_rec", "fwd_pre", "mfwd")>>)
      \o <<engine("B", "fused_rec", "fused_pre", "mfused"),
           Whole("scale", "B", c.NV, c.tv, 0), Whole("output", "B", c.NV, c.tv, 0)>>

(* Coefficient k of the product of the residues, the reference. *)
ProductOf(c) ==
  LET a == [i \in 0 .. c.an - 1 |-> Decoded(c, c.an, i, FALSE)]
      b == [i \in 0 .. c.bn - 1 |-> Decoded(c, c.bn, i, ~c.sq)]
      from(k) == IF k < c.bn THEN 0 ELSE k - c.bn + 1
      upto(k) == IF k < c.an THEN k ELSE c.an - 1
  IN  [k \in 0 .. (c.tv * W) - 1 |->
        LET sum[i \in 0 .. c.an] == IF i > upto(k) THEN 0
                                    ELSE (((a[i] * b[k - i]) % P) + sum[i + 1]) % P
        IN  IF k < c.zlen THEN sum[from(k)] ELSE 0]

NoCall == [tv |-> 0, NV |-> 0, mixed |-> FALSE, sq |-> FALSE]

NttInit ==
  /\ session \in Sessions
  /\ call = NoCall /\ todo = << >> /\ product = << >>
  /\ RA = Blank(0) /\ RB = Blank(0)
  /\ plan = [b |-> FreshSet, m |-> FreshSet]

Begin ==
  /\ todo = << >> /\ session # << >>
  /\ LET c == ShapeOf(Head(session))
     IN  /\ c.fits
         /\ call' = c
         /\ plan' = IF c.mixed THEN [plan EXCEPT !.m = Grown(@, c.lg - 2)]
                    ELSE [plan EXCEPT !.b = Grown(@, c.lg)]
         /\ RA' = IF c.sq THEN Blank(c.NV) ELSE Vectors(c, c.an, c.NV, FALSE)
         /\ RB' = Vectors(c, c.bn, c.NV, ~c.sq)
         /\ todo' = Program(c)
         /\ product' = ProductOf(c)
  /\ session' = Tail(session)

(* Beyond the CRT or the transform bound the engine returns 0 at once. *)
Refuse ==
  /\ todo = << >> /\ session # << >>
  /\ ~ShapeOf(Head(session)).fits
  /\ session' = Tail(session)
  /\ UNCHANGED <<call, todo, RA, RB, plan, product>>

Next_is(op) == todo # << >> /\ Head(todo).op = op
Call(op, Body(_)) ==
  /\ Next_is(op)
  /\ todo' = Body(Head(todo)) \o Tail(todo)
  /\ UNCHANGED <<session, call, RA, RB, plan, product>>
Calls ==
  \/ Call("fwd_rec", FwdRec) \/ Call("fused_full", FusedFull)
  \/ Call("fused_sb", FusedSb) \/ Call("fused_rec", FusedRec)
  \/ Call("fwd_pre", FwdPre) \/ Call("full_pre", FusedFullPre)
  \/ Call("sb_pre", FusedSbPre) \/ Call("fused_pre", FusedPre)
  \/ Call("mfwd", Mfwd) \/ Call("mfused", Mfused)

Pass(op) == Next_is(op) /\ todo' = Tail(todo) /\ UNCHANGED <<session, call, plan, product>>
Drop(X, t) == Rewritten(X, t, [v \in t.z .. t.m - 1 |-> [l \in LaneSet |-> Unset]])

Now == Head(todo)
Source == IF Now.x = "A" THEN RA ELSE RB
Put(new) == IF Now.x = "A" THEN RA' = new /\ UNCHANGED RB ELSE RB' = new /\ UNCHANGED RA

ForwardPasses ==
  \/ Pass("level") /\ Put(Level(Source, Now))
  \/ Pass("low_level") /\ Put(LowLevel(Source, Now))
  \/ Pass("radix3") /\ Put(Radix3(Source, Now))
  \/ Pass("drop") /\ Put(Drop(Source, Now))
InversePasses ==
  \/ Pass("inverse") /\ RB' = InverseLevel(RB, Now) /\ UNCHANGED RA
  \/ Pass("conv") /\ RB' = ConvLeaf(Now) /\ UNCHANGED RA
  \/ Pass("child_tails") /\ RA' = ChildTails(Now) /\ UNCHANGED RB
  \/ \E op \in {"low_combine", "low_double"} : Pass(op) /\ RB' = LowCombine(Now) /\ UNCHANGED RA
  \/ Pass("right_tails") /\ RA' = RightTails_side(Now) /\ RB' = RightTails_out(Now)
  \/ Pass("seed_tails") /\ RA' = SeedTails_side(Now) /\ RB' = SeedTails_out(Now)
  \/ Pass("short_inverse") /\ RB' = ShortInverse(Now) /\ UNCHANGED RA
  \/ Pass("seam") /\ RA' = Seam_side(Now) /\ RB' = Seam_out(Now)
  \/ Pass("combine3") /\ RB' = Combine3(Now) /\ UNCHANGED RA
  \/ Pass("scale") /\ RB' = Scale(Now) /\ UNCHANGED RA
  \/ Pass("output") /\ UNCHANGED <<RA, RB>>

NttNext == Begin \/ Refuse \/ Calls \/ ForwardPasses \/ InversePasses

NttSpec == NttInit /\ [][NttNext]_nttVars

-----------------------------------------------------------------------------
(* Properties *)

(* p30.h header: "between-pass values are LAZY [0,4p)": every word that was *)
(* written stays in the range the butterflies can take.                    *)
LazyRange ==
  \A v \in DOMAIN RA : \A l \in LaneSet :
    RA[v][l] \in Unset .. 4 * P - 1 /\ RB[v][l] \in Unset .. 4 * P - 1

(* The limbs' coefficients come out right for any truncation, radix, entry  *)
(* depth and for squares: canonical, equal to the product, and nothing of   *)
(* what was never written has reached them.                                 *)
ProductTruncated ==
  Next_is("output") =>
    \A v \in 0 .. call.tv - 1 : \A l \in LaneSet : RB[v][l] = product[(v * W) + l]

(* p30.h:1091-1098: every spine node's tails lie in [tv, M), where the      *)
(* spectrum of a is dead: no pass after the transform of a writes where a   *)
(* convolution still has to read.                                           *)
SpectrumKept ==
  [][(todo # << >> /\ Head(todo).x = "B" /\ ~call.sq /\ call' = call) =>
       \A v \in 0 .. call.tv - 1 : RA'[v] = RA[v]]_nttVars

(* p30.h:1080-1083: a node that has a side channel finds in it m times the  *)
(* coefficients z .. m - 1 of its product, here modulo y^m - w[j].          *)
NodeProduct(t, v, l) ==
  LET sum[q \in 0 .. call.NV \div t.m] ==
        IF q = call.NV \div t.m THEN 0
        ELSE LET k == ((v + (q * t.m)) * W) + l
                 term == IF k \in DOMAIN product THEN product[k] ELSE 0
             IN  (term + (Tables.w[t.j] * sum[q + 1])) % P
  IN  sum[0]
TailsContract ==
  (todo # << >> /\ Head(todo).op \in {"fused_sb", "sb_pre"} /\ ~call.mixed) =>
    LET t == Head(todo)
    IN  \A v \in t.z .. t.m - 1 : \A l \in LaneSet :
          /\ RA[t.off + v][l] # Unset
          /\ RA[t.off + v][l] % P = (((t.m * NodeProduct(t, v, l)) % P) * StrayR) % P
=============================================================================
