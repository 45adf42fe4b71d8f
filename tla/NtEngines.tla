----------------------------- MODULE NtEngines -----------------------------
(***************************************************************************)
(* The NTT multiply and square of include/ntmul.h over its two engines: the *)
(* pick, and the other engine when the first refuses.  The p50 engine       *)
(* (p50_mul_r, p50_sqr_r) is run in full, for a thread that makes a          *)
(* sequence of calls with one plan; the p30 engine is what TruncatedNtt     *)
(* shows of it: beyond its bounds a refusal, within them the product.       *)
(***************************************************************************)
EXTENDS P50Ntt, FiniteSets

CONSTANTS
  NT_Z_LO, NT_Z_HI,      \* in limbs of both operands
  P50_MAX_LG,
  P30Lanes, P30_MAX_LG, P30_MIN_OPERAND_CAP,
  Sessions               \* bound: the sequences of calls explored

(* A call: the limbs of the operands; a square has only a. *)
Call(a, b) == [a |-> a, b |-> b, sq |-> FALSE]
Square(a) == [a |-> a, b |-> a, sq |-> TRUE]

VARIABLES
  session,     \* calls still to be made
  call,        \* the call under way
  legs,        \* engines it has still to try, in order
  stage,       \* where the p50 engine is
  q,           \* the prime whose spectra it works on
  plan,        \* p50_tls_plan
  shape,       \* the sizes p50 has chosen
  ra, rb,      \* residues and spectra, per prime; squaring has one ra, never filled
  st,          \* the limbs put out
  rp, ret,     \* result operand, return value
  product      \* history: the limbs of a * b

vars == <<session, call, legs, stage, q, plan, shape, ra, rb, st, rp, ret, product>>
engine == <<q, shape, ra, rb, st>>

-----------------------------------------------------------------------------
(* ntmul.h *)

Ceil(x, y) == ((x + y) - 1) \div y
LgCeil(n) == CHOOSE k \in 0 .. 30 : n <= 2 ^ k /\ \A i \in 0 .. k - 1 : 2 ^ i < n
PickT == TrunkBits[Len(TrunkBits)]
nt_pick50(an, bn) ==
  LET zl == an + bn
      tv50 == Ceil((Ceil(an * LimbBits, PickT) + Ceil(bn * LimbBits, PickT)) - 1, Lanes)
      tv30 == Ceil(zl - 1, P30Lanes)
  IN  \/ zl <= NT_Z_LO
      \/ zl < NT_Z_HI /\ tv50 * 2 ^ LgCeil(tv30) >= tv30 * 2 ^ LgCeil(tv50)
Order(an, bn) == IF nt_pick50(an, bn) THEN <<"p50", "p30">> ELSE <<"p30", "p50">>

(* p30_mul_r refuses beyond the CRT bound or the transform bound. *)
P30Accepts(an, bn) ==
  /\ an <= P30_MIN_OPERAND_CAP \/ bn <= P30_MIN_OPERAND_CAP
  /\ LgCeil(Ceil((an + bn) - 1, P30Lanes)) <= P30_MAX_LG

(* p50: the highest rung whose bound on the shorter operand holds. *)
ShorterIn(tio, an, bn) == Ceil((IF an < bn THEN an ELSE bn) * LimbBits, tio.T)
Rungs(pl, an, bn) == {i \in DOMAIN pl.tio : ShorterIn(pl.tio[i], an, bn) <= pl.tio[i].capt}
ShapeOf(pl, an, bn) ==
  LET rung == CHOOSE i \in Rungs(pl, an, bn) : \A k \in Rungs(pl, an, bn) : k <= i
      tio == pl.tio[rung]
      nat == Ceil(an * LimbBits, tio.T)
      nbt == Ceil(bn * LimbBits, tio.T)
      zt == (nat + nbt) - 1
      tv == Ceil(zt, Lanes)
  IN  [rung |-> rung, nat |-> nat, nbt |-> nbt, tv |-> tv, lg |-> LgCeil(tv),
       M |-> 2 ^ LgCeil(tv),
       ntp |-> Ceil(zt + 2, tio.OT) * tio.OT]          \* covers the streams' delays
P50Accepts(pl, an, bn) == Rungs(pl, an, bn) # {} /\ ShapeOf(pl, an, bn).lg <= P50_MAX_LG
BufferWords(sh) == IF sh.M * Lanes > sh.ntp THEN sh.M * Lanes ELSE sh.ntp

(* The scale cancels the transform's factor M and conv's 1 / Word; what is    *)
(* not the product's is cleared up to the last trunk put out.                *)
Scaled(x, sh, pp) ==
  LET s == p50_cc_of((p50_invm(sh.M, pp.p) * (Word % pp.p)) % pp.p, pp.p)
  IN  Eager([k \in DOMAIN x |-> IF k <= sh.tv * Lanes THEN p50_shp(p50_b52(x[k], s, pp), pp) ELSE x[k]])
Cleared(x, sh) == Eager([k \in DOMAIN x |-> IF k > sh.tv * Lanes /\ k <= sh.ntp THEN 0 ELSE x[k]])

-----------------------------------------------------------------------------
(* The reference: limbs of a * b, byte by byte *)

Bytes(x) == [i \in 0 .. 2 * Len(x) - 1 |-> IF i % 2 = 0 THEN x[(i \div 2) + 1] % 256 ELSE x[(i \div 2) + 1] \div 256]
ColumnSum(A, B, na, nb, k) ==           \* na <= nb
  LET from == IF k < nb THEN 0 ELSE (k - nb) + 1
      upto == IF k < na THEN k ELSE na - 1
      sum[w \in (from .. upto) \X (from .. upto)] ==        \* the terms from w[1] to w[2]
        LET mid == (w[1] + w[2]) \div 2
        IN  IF w[1] = w[2] THEN A[w[1]] * B[k - w[1]] ELSE sum[<<w[1], mid>>] + sum[<<mid + 1, w[2]>>]
  IN  IF from > upto THEN 0 ELSE sum[<<from, upto>>]
CarryOn(y, A, B, na, nb, from, upto) ==
  LET run[k \in from .. upto] ==
        IF k = from THEN y
        ELSE The({[d |-> Append(x.d, (x.c + v) % 256), c |-> (x.c + v) \div 256] :
                    x \in {run[k - 1]}, v \in {ColumnSum(A, B, na, nb, k - 1)}})
  IN  run[upto]
BytesOfProduct(A, B, na, nb) ==         \* 64 columns at a time
  LET upto(i) == IF 64 * i < na + nb THEN 64 * i ELSE na + nb
      run[i \in 0 .. Ceil(na + nb, 64)] ==
        IF i = 0 THEN [d |-> <<>>, c |-> 0]
        ELSE The({CarryOn(y, A, B, na, nb, upto(i - 1), upto(i)) : y \in {run[i - 1]}})
  IN  run[Ceil(na + nb, 64)].d
LimbsOf(d) == Eager([k \in 1 .. Len(d) \div 2 |-> d[2 * k - 1] + 256 * d[2 * k]])
ProductOf(a, b) ==
  LET short == IF Len(a) < Len(b) THEN a ELSE b
      long == IF Len(a) < Len(b) THEN b ELSE a
  IN  The({LimbsOf(d) : d \in {The({BytesOfProduct(A, B, 2 * Len(short), 2 * Len(long)) :
                                      A \in {Bytes(short)}, B \in {Bytes(long)}})}})

-----------------------------------------------------------------------------
Init ==
  /\ session \in Sessions
  /\ call = <<>> /\ legs = <<>> /\ stage = "idle" /\ q = 0
  /\ plan = NoPlan /\ shape = <<>> /\ ra = <<>> /\ rb = <<>> /\ st = <<>>
  /\ rp = <<>> /\ ret = Unset /\ product = <<>>

an == Len(call.a)
bn == Len(call.b)

Empty(c) == c.a = <<>> \/ c.b = <<>>
NoOperand ==
  /\ stage = "idle" /\ session # <<>> /\ Empty(Head(session))
  /\ call' = Head(session) /\ session' = Tail(session)
  /\ rp' = <<>> /\ product' = <<>> /\ ret' = 0 /\ stage' = "done"
  /\ UNCHANGED <<legs, plan, engine>>
nt_mul_r ==
  /\ stage = "idle" /\ session # <<>> /\ ~Empty(Head(session))
  /\ call' = Head(session) /\ session' = Tail(session)
  /\ legs' = Order(Len(Head(session).a), Len(Head(session).b))
  /\ stage' = "leg" /\ rp' = <<>> /\ ret' = Unset
  /\ product' = ProductOf(Head(session).a, Head(session).b)
  /\ UNCHANGED <<plan, engine>>

At(leg) == stage = "leg" /\ legs # <<>> /\ Head(legs) = leg
NextLeg == legs' = Tail(legs) /\ stage' = "leg"
Return(value) == ret' = value /\ stage' = "done"

P30Refuse ==
  /\ At("p30") /\ ~P30Accepts(an, bn) /\ NextLeg
  /\ UNCHANGED <<session, call, plan, engine, rp, ret, product>>
P30Multiply ==
  /\ At("p30") /\ P30Accepts(an, bn)
  /\ rp' = product /\ Return(1)
  /\ UNCHANGED <<session, call, legs, plan, engine, product>>
BothRefused ==
  /\ stage = "leg" /\ legs = <<>> /\ Return(0)
  /\ UNCHANGED <<session, call, legs, plan, engine, rp, product>>

(* p50_mul_r, p50_sqr_r up to the first prime *)
PlanReady == IF plan.init THEN plan ELSE p50_plan_init
P50Refuse ==
  /\ At("p50")
  /\ plan' = PlanReady
  /\ ~P50Accepts(plan', an, bn) /\ NextLeg
  /\ UNCHANGED <<session, call, engine, rp, ret, product>>
P50Start ==
  /\ At("p50")
  /\ \E pl \in {PlanReady} :
       /\ P50Accepts(pl, an, bn)
       /\ \E sh \in {ShapeOf(pl, an, bn)} :
            /\ shape' = sh
            /\ plan' = p50_plan_ensure(pl, sh.lg)
            /\ rb' = p50_input(call.b, sh.nbt, BufferWords(sh), pl.tio[sh.rung], pl)
            /\ ra' = IF call.sq THEN <<Eager([k \in 1 .. BufferWords(sh) |-> Stale])>>
                     ELSE p50_input(call.a, sh.nat, BufferWords(sh), pl.tio[sh.rung], pl)
  /\ q' = 1 /\ stage' = IF call.sq THEN "fused" ELSE "forward"
  /\ UNCHANGED <<session, call, legs, st, rp, ret, product>>

(* One prime after the other; a square's single ra serves them all. *)
Side == IF call.sq THEN 1 ELSE q
P50Forward ==
  /\ stage = "forward"
  /\ ra' = [ra EXCEPT ![q] = Forward(@, shape.M, shape.tv, plan.pr[q])]
  /\ stage' = "fused"
  /\ UNCHANGED <<session, call, legs, q, plan, shape, rb, st, rp, ret, product>>
P50Fused ==
  /\ stage = "fused"
  /\ \E y \in {Fused(rb[q], ra[Side], shape.M, shape.tv, call.sq, plan.pr[q])} :
       /\ rb' = [rb EXCEPT ![q] = y.b]
       /\ ra' = [ra EXCEPT ![Side] = y.s]
  /\ stage' = "scale"
  /\ UNCHANGED <<session, call, legs, q, plan, shape, st, rp, ret, product>>
P50Scale ==
  /\ stage = "scale"
  /\ rb' = [rb EXCEPT ![q] = Cleared(Scaled(@, shape, plan.pr[q]), shape)]
  /\ q' = q + 1
  /\ stage' = IF q = 4 THEN "output" ELSE IF call.sq THEN "fused" ELSE "forward"
  /\ UNCHANGED <<session, call, legs, plan, shape, ra, st, rp, ret, product>>
P50Output ==
  /\ stage = "output"
  /\ st' = p50_output(rb, shape.ntp, plan.tio[shape.rung], plan)
  /\ stage' = "check"
  /\ UNCHANGED <<session, call, legs, q, plan, shape, ra, rb, rp, ret, product>>

(* "must not spill": a limb above the product makes the engine refuse after all. *)
outl == an + bn
Spills == outl < Len(st) /\ st[outl + 1] # 0
P50Return ==
  /\ stage = "check"
  /\ stage' = IF Spills THEN "leg" ELSE "done"
  /\ legs' = IF Spills THEN Tail(legs) ELSE legs
  /\ rp' = IF Spills THEN rp ELSE SubSeq(st, 1, outl)
  /\ ret' = IF Spills THEN ret ELSE 1
  /\ UNCHANGED <<session, call, plan, engine, product>>

Done ==
  /\ stage = "done"
  /\ stage' = "idle" /\ legs' = <<>> /\ shape' = <<>> /\ ra' = <<>> /\ rb' = <<>> /\ st' = <<>>
  /\ UNCHANGED <<session, call, q, plan, rp, ret, product>>

Next ==
  \/ NoOperand \/ nt_mul_r \/ P30Refuse \/ P30Multiply \/ BothRefused
  \/ P50Refuse \/ P50Start \/ P50Forward \/ P50Fused \/ P50Scale \/ P50Output
  \/ P50Return \/ Done

Spec == Init /\ [][Next]_vars

-----------------------------------------------------------------------------
(* Properties *)

(* ntmul.h:21 "Entries return 1 on success, 0 only beyond the p50 band": with *)
(* 1 the result is the product, for whatever lengths, values and order of    *)
(* calls; with 0 nothing has been written.  And p50.h:1091 "must not spill":  *)
(* the check at the end of the engine looks at one limb and never finds      *)
(* anything, all limbs above the product being zero.                         *)
NtProduct ==
  /\ stage = "check" => \A k \in outl + 1 .. Len(st) : st[k] = 0
  /\ stage = "done" =>
       \/ ret = 1 /\ rp = product
       \/ ret = 0 /\ rp = <<>> /\ (Empty(call) \/ ~P50Accepts(plan, an, bn))
=============================================================================
