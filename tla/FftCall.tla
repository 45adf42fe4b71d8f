------------------------------ MODULE FftCall ------------------------------
(***************************************************************************)
(* A thread that multiplies with the floating point FFT engines of         *)
(* include/fft16.h and include/pq16.h: the state both work on, and what a  *)
(* product must be.  The tables of an engine outlive a call, so a session  *)
(* is a sequence of calls: of a product, of f16_plan_ensure alone, of the  *)
(* round trip of tests/fft16_test.c.                                       *)
(*                                                                         *)
(* The transforms are computed exactly, over the field Fields[M] for the   *)
(* sizes M 2^k (see PqFft); a digit is below DB, not 2^16.                 *)
(***************************************************************************)
EXTENDS Integers, Sequences, FiniteSets

CONSTANTS
  Fields,     \* M -> [q, circle], M = 1, 3, 5 and 7
  DB,         \* digits are below DB
  Programs,   \* [build, calls]: settings of the macros and limits, and a sequence of calls
  Needs       \* sizes f16_choose and pq16_choose are probed with

VARIABLES
  build,      \* the engine and the macros this program was built with
  todo,       \* calls left, the present one first
  pc,         \* the pass that comes next
  plan,       \* f16_tls, pq16_tls_plan: what was allocated, which tables were built
  arena,      \* bump pointers of the thread's scratch
  bufs,       \* of pq16: the scratch_mark of its scope, and its buffers in the arena
  size,       \* fs and cen of the present call
  da, db,     \* spectra (the part of the buffers in use)
  pca, pcb,   \* xor-centred operands
  pcr,        \* result staging
  rp,         \* the caller's result array and one limb behind it; -1: not written
  steps,      \* pointwise steps left
  tails,      \* chains left by the fronts, with the limb each front starts at
  joined,     \* fronts whose tail was added to the next
  status      \* the value returned, -1 before

vars == <<build, todo, pc, plan, arena, bufs, size, da, db, pca, pcb, pcr, rp, steps, tails, joined, status>>
buffers == <<da, db, pca, pcb, pcr>>


F(m) == INSTANCE PqFft WITH Q <- Fields[m].q, Circle <- Fields[m].circle,
                            TwcMinLg <- build.twcMinLg, Tiers <- build.tiers
Emit == INSTANCE Fronts

ASSUME FftAssumption ==
  /\ DOMAIN Fields = {1, 3, 5, 7} /\ DB \in Nat /\ DB >= 4 /\ DB % 2 = 0
  /\ \A m \in DOMAIN Fields : F(m)!CircleRight
  /\ \A p \in Programs : p.build.stageOver = p.build.maxN /\ p.build.maxN <= p.build.maxNC

call == todo[1]
n == size.branch
M == size.M
rl == Len(rp) - 1
leastOf(x, y) == IF x < y THEN x ELSE y

Branch(d, b) == SubSeq(d, b * n + 1, (b + 1) * n)
PutBranch(d, b, part) == [i \in 1 .. Len(d) |-> IF (i - 1) \div n = b THEN part[((i - 1) % n) + 1] ELSE d[i]]
Split(d, w) == [k \in 1 .. Len(d) \div w |-> SubSeq(d, (k - 1) * w + 1, k * w)]
Joined(parts) == F(M)!FlattenSeq(parts)
sc == F(M)!inverse(size.nfull % Fields[M].q)                \* 1.0 / nfull
Signed(points) == F(M)!Once([i \in DOMAIN points |-> <<F(M)!Centred(points[i][1]), F(M)!Centred(points[i][2])>>])
cctx == [a |-> Emit!Digits(pca, 4 * Len(call.a)), na |-> 4 * Len(call.a),
         b |-> Emit!Digits(pcb, 4 * Len(call.b)), nb |-> 4 * Len(call.b)]

RECURSIVE Reaching(_, _)
Reaching(p, need) == IF p >= need THEN p ELSE Reaching(2 * p, need)
LeastFull(m) == CASE m = 1 -> 512 [] m = 3 -> 768 [] m = 5 -> 640 [] OTHER -> 896
StageLengths(shape) == {shape.len[s] : s \in DOMAIN shape.len}

NoSize == [nfull |-> 0, branch |-> 0, M |-> 1, cen |-> FALSE]
NewPlan == [pq_n |-> 0, cap_ws |-> 0, staged |-> FALSE, tw22 |-> {}, tw8 |-> {}]
Init ==
  /\ \E p \in Programs : build = p.build /\ todo = p.calls /\ arena = p.arena /\ bufs = [mark |-> p.arena, parts |-> {}]
  /\ pc = "call" /\ plan = NewPlan /\ size = NoSize
  /\ da = <<>> /\ db = <<>> /\ pca = <<>> /\ pcb = <<>> /\ pcr = <<>> /\ rp = <<-1>>
  /\ steps = <<>> /\ tails = <<>> /\ joined = 0 /\ status = -1

Blank(limbs) == [i \in 1 .. limbs + 1 |-> -1]

NextCall ==
  /\ pc = "returned" /\ Len(todo) > 1
  /\ todo' = Tail(todo) /\ pc' = "call"
  /\ UNCHANGED <<build, plan, arena, bufs, size, buffers, rp, steps, tails, joined, status>>

-----------------------------------------------------------------------------
(* What a product must be: digit by digit, then carries. *)
RECURSIVE Settled(_, _)
Settled(c, carry) ==                       \* coefficients to digits, by halves
  IF Len(c) = 1 THEN [out |-> <<(c[1] + carry) % DB>>, carry |-> (c[1] + carry) \div DB]
  ELSE LET h == Len(c) \div 2
           low == Settled(SubSeq(c, 1, h), carry)
           high == Settled(SubSeq(c, h + 1, Len(c)), low.carry)
       IN  [out |-> low.out \o high.out, carry |-> high.carry]
Schoolbook(a, b) ==
  LET x == Emit!Digits(a, 4 * Len(a))
      y == Emit!Digits(b, 4 * Len(b))
      coef(k) == LET sum[j \in 0 .. Len(y)] ==
                       IF j = 0 THEN 0
                       ELSE sum[j - 1] + (IF k - j + 1 \in 1 .. Len(x) THEN y[j] * x[k - j + 1] ELSE 0)
                 IN  sum[Len(y)]
      d == Settled(F(1)!Once([k \in 1 .. 4 * (Len(a) + Len(b)) |-> coef(k)]), 0).out
  IN  [i \in 1 .. Len(a) + Len(b) |-> d[4 * i - 3] + DB * (d[4 * i - 2] + DB * (d[4 * i - 1] + DB * d[4 * i]))]

Multiplied == pc = "returned" /\ call.kind = "mul" /\ size.nfull > 0

(* The public entries keep their promise, whatever size, radix, leaf, band,  *)
(* build and history of the plan they meet: 1 exactly when the length is in  *)
(* the band (no junction, however far its carry runs, finds one left over),  *)
(* and then every limb of the product and nothing behind it is written       *)
(* (fft16.h:2629-2632, 1952-1970, 533-536; pq16.h:1939-1942, 1503-1523).     *)
PublicEntry ==
  /\ rp[rl + 1] = -1
  /\ pc = "returned" /\ call.kind = "mul" =>
       (status = 1 <=> call.a # <<>> /\ call.b # <<>> /\ 2 * rl <= build.maxNC)
  /\ Multiplied => SubSeq(rp, 1, rl) = Schoolbook(call.a, call.b)

(* The spectrum, position by position: branch b, canonical position p holds  *)
(* the sum of x_k omega_M^(-b k) omega_n^(k rev p) over the points x_k of    *)
(* the operand.  Sampled at the ends, around the middle and inside.          *)
RECURSIVE Total(_, _, _)
Total(f, lo, hi) ==
  IF lo = hi THEN f[lo]
  ELSE F(M)!f_add(Total(f, lo, (lo + hi) \div 2), Total(f, ((lo + hi) \div 2) + 1, hi))
Transformed(src, b, p) ==
  LET turn == F(M)!bitrev(p, F(M)!lg(n))
      x(k) == IF size.cen
                THEN LET d(e) == ((Emit!DigitsOf(src[(k \div 2) + 1])[2 * (k % 2) + e]) - DB \div 2) % Fields[M].q
                     IN  <<d(1), d(2)>>
                ELSE LET d(e) == Emit!DigitsOf(src[(k \div 2) + 1])[2 * (k % 2) + e] IN <<d(1), d(2)>>
      term == [k \in 0 .. 2 * Len(src) - 1 |->
                 F(M)!f_mul(x(k), F(M)!f_mul(F(M)!root(-(b * (k % M)), M), F(M)!root((k % n) * turn, n)))]
  IN  Total(term, 0, 2 * Len(src) - 1)
Stored(d, b, p) == d[b * n + 64 * (p \div 64) + 8 * (p % 8) + ((p % 64) \div 8) + 1]
Sampled == {0, 1, 13, (n \div 2) - 1, (n \div 2) + 6, n - 1}
SpectrumRight ==
  /\ pc \in {"forwardA", "pqForwardA"} /\ call.kind = "mul" =>
       \A b \in 0 .. M - 1, p \in Sampled : Stored(db, b, p) = Transformed(call.b, b, p)
  /\ pc = "unfused" =>
       \A b \in {0, M - 1} : Stored(da, b, 13) = Transformed(call.a, b, 13)
=============================================================================
