------------------------------- MODULE Fft16 -------------------------------
(***************************************************************************)
(* fft16_mul of include/fft16.h: products of up to 2^18 limbs, as the      *)
(* sequence of passes over the buffers of a thread's plan, which outlives  *)
(* the call (f16_tls).  Also f16_plan_ensure alone and the round trip of   *)
(* tests/fft16_test.c, which share the plan.                               *)
(***************************************************************************)
EXTENDS FftCall

-----------------------------------------------------------------------------
(* Sizes and tables *)

(* The least size of any radix; radix 7 loses precision first. *)
f16_choose_uncapped(need, maxn, cen) ==  \* radix 7 has no precision cap
  LET full(m) == Reaching(LeastFull(m), need)
      best == CHOOSE m \in {1, 3, 5, 7} : \A k \in {1, 3, 5, 7} : full(m) <= full(k)
  IN  [nfull |-> full(best), branch |-> full(best) \div best, M |-> best, cen |-> cen]
f16_choose(need, maxn, cen) ==
  LET full(m) == Reaching(LeastFull(m), need)
      allowed == {m \in {3, 5, 7} : /\ full(m) <= maxn
                                    /\ m = 7 => full(7) >= 7 * build.pfa7MinBranch
                                    /\ m = 7 /\ ~cen => full(7) <= build.pfa7MaxN}
      best == CHOOSE m \in {1} \cup allowed : \A k \in {1} \cup allowed : full(m) <= full(k)
  IN  [nfull |-> full(best), branch |-> full(best) \div best, M |-> best, cen |-> cen]

(* The passes of a branch, and what f16_plan_ensure builds for it. *)
OwnLengths(branch) ==
  StageLengths(F(1)!f16_shape_of(branch))
    \cup IF branch >= 256 THEN StageLengths(F(1)!f16_shape_of_full(branch \div 2)) ELSE {}
f16_plan_ensure_first_table(pl, branch, nfull) ==  \* the pointwise table never grows
  [cap_ws |-> IF nfull > pl.cap_ws THEN nfull ELSE pl.cap_ws,
   staged |-> IF nfull > pl.cap_ws THEN nfull > build.stageOver \/ build.forceCentered ELSE pl.staged,
   pq_n |-> IF pl.pq_n = 0 THEN branch ELSE pl.pq_n,
   tw22 |-> pl.tw22 \cup {branch},
   tw8 |-> pl.tw8 \cup OwnLengths(branch)]
f16_plan_ensure(pl, branch, nfull) ==
  LET grow == nfull > pl.cap_ws
  IN  [cap_ws |-> IF grow THEN nfull ELSE pl.cap_ws,
       staged |-> IF grow THEN nfull > build.stageOver \/ build.forceCentered ELSE pl.staged,
       pq_n |-> IF branch > pl.pq_n THEN branch ELSE pl.pq_n,
       tw22 |-> pl.tw22 \cup {branch},
       tw8 |-> pl.tw8 \cup OwnLengths(branch)]

Halved == build.pfa3x2 /\ M = 3             \* transforms of half a branch
HalfOrBranch == IF Halved THEN n \div 2 ELSE n
LeafOf == IF Halved THEN F(M)!f16_shape_of_full(n \div 2).leaf ELSE F(M)!f16_shape_of(n).leaf

-----------------------------------------------------------------------------
(* Forward transforms *)

f16_pfa_input(src, cnt, cen) ==
  CASE M = 3 /\ build.pfa3x2  -> F(3)!f16_pfa3x2_input(src, cnt, n, cen)
    [] M = 3 /\ ~build.pfa3x2 -> F(3)!f16_pfa_input_impl(src, cnt, n, 3, cen)
    [] OTHER -> F(M)!f16_pfa_input_tw(src, cnt, n, M, cen)
BranchesForward(parts) ==
  Joined([k \in DOMAIN parts |->
            IF Halved THEN F(M)!f16_fwd_core_full(parts[k])
            ELSE F(M)!f16_fwd_core(F(M)!f16_mem_r22(parts[k]))])
f16_pfa_fwd_x(src, cnt, cen) == BranchesForward(Split(f16_pfa_input(src, cnt, cen), HalfOrBranch))
f16_fwd(src, cnt, cen) == F(1)!f16_fwd_core(F(1)!f16_input_stage(src, cnt, n, cen))
Forward(src, cnt, cen) == IF M = 1 THEN f16_fwd(src, cnt, cen) ELSE f16_pfa_fwd_x(src, cnt, cen)
(* The band that is not centred reads the caller's limbs, the other the staging. *)
Spectrum(src, staging) ==
  IF size.cen THEN Forward(staging, size.nfull \div 2, 2) ELSE Forward(src, Len(src), 0)

-----------------------------------------------------------------------------
(* Pointwise steps: the self product of the power-of-two transform or of     *)
(* branch 0, then branches b and M - b across.                               *)

Schedule ==
  LET self == F(M)!f16_pointwise_mul_ileaves(n, LeafOf)
      cross == F(M)!f16_pointwise_cross_ileaves(n, LeafOf)
  IN  [i \in DOMAIN self |-> [b |-> 0, s |-> self[i]]]
        \o Joined([b \in 1 .. M \div 2 |-> [i \in DOMAIN cross |-> [b |-> b, s |-> cross[i]]]])

Leaves(d, groups) ==
  LET run[k \in 0 .. Len(groups)] ==
        IF k = 0 THEN d ELSE F(M)!f16_ileaf_group(run[k - 1], groups[k], LeafOf)
  IN  run[Len(groups)]
SelfStep(s) ==
  LET A == Branch(da, 0)
      B == Branch(db, 0)
  IN  Leaves(IF s.gl = 0 THEN F(M)!f16_pw_head(A, B, plan.pq_n, sc)
             ELSE F(M)!f16_pw_groups(A, B, s.gl, s.gr, plan.pq_n, sc), s.leaves)
CrossStep(b, s) ==
  LET L == Branch(da, b)    R == Branch(da, M - b)
      oL == Branch(db, b)   oR == Branch(db, M - b)
  IN  IF s.gl = 0 THEN F(M)!f16_pw_head_cross(L, R, oL, oR, plan.pq_n, F(M)!omega(M, b), sc)
      ELSE F(M)!f16_pw_groups_cross(L, R, oL, oR, s.gl, s.gr, plan.pq_n, F(M)!omega(M, b), sc)
-----------------------------------------------------------------------------
(* Inverse transforms, and the points of each front in digit order *)

InverseR8(d) ==
  LET parts == Split(d, HalfOrBranch)
  IN  Joined([k \in DOMAIN parts |->
                IF Halved THEN F(M)!f16_inv_r8_only_full(parts[k])
                ELSE IF M = 1 THEN F(M)!f16_inv_r8_only(parts[k])
                ELSE F(M)!f16_mem_ir22(F(M)!f16_inv_r8_only(parts[k]))])
(* What the round trip does instead: the leaves are not fused to anything.   *)
InverseLeavesR8(d) ==
  LET parts == Split(d, HalfOrBranch)
  IN  Joined([k \in DOMAIN parts |->
                IF Halved THEN F(M)!f16_inv_r8_only_full(F(M)!f16_ileaf_run(parts[k], LeafOf))
                ELSE IF M = 1 THEN F(M)!f16_inv_leaves_r8(parts[k])
                ELSE F(M)!f16_mem_ir22(F(M)!f16_inv_leaves_r8(parts[k]))])

FrontCount == IF M = 1 THEN 4 ELSE IF Halved THEN 6 ELSE M
f16_pfa_emit(d) ==
  CASE Halved -> F(M)!f16_pfa3x2_emit(d, n)
    [] M = 3 /\ ~Halved -> F(M)!f16_pfa_natural(d, n, 3)
    [] OTHER -> F(M)!f16_pfa_emit_tw(d, n, M)
FrontPoints ==
  F(M)!The({F(M)!Once(Split(d, size.nfull \div FrontCount)) :
              d \in {IF M = 1 THEN F(1)!f16_mem_ir22(da) ELSE f16_pfa_emit(da)}})
(* The chain that front f's tail is read from: with pointer rotation the      *)
(* slot that region f is expected in.                                         *)
TailOf(f) == IF build.emitRot /\ M >= 5 THEN F(M)!f16_pfa_emit_rot(n, M, f) ELSE f

-----------------------------------------------------------------------------
(* Calls *)

(* fft16_mul up to f16_choose *)
Enter ==
  /\ pc = "call" /\ build.engine = "fft16" /\ call.kind = "mul"
  /\ LET need == 2 * (Len(call.a) + Len(call.b))
         cen == build.forceCentered \/ need > build.maxN
         maxn == IF cen THEN build.maxNC ELSE build.maxN
         refused == Len(call.a) <= 0 \/ Len(call.b) <= 0 \/ need > maxn
     IN  /\ size' = IF refused THEN NoSize ELSE f16_choose(need, maxn, cen)
         /\ status' = IF refused THEN 0 ELSE -1
         /\ pc' = IF refused THEN "returned" ELSE "ensure"
  /\ rp' = Blank(Len(call.a) + Len(call.b))
  /\ joined' = 0 /\ tails' = <<>>
  /\ UNCHANGED <<build, todo, arena, bufs, plan, buffers, steps>>

(* The tests call f16_plan_ensure themselves, alone or before a round trip. *)
EnterTest ==
  /\ pc = "call" /\ build.engine = "fft16" /\ call.kind # "mul"
  /\ size' = [nfull |-> call.M * call.branch, branch |-> call.branch, M |-> call.M, cen |-> FALSE]
  /\ rp' = Blank(IF call.kind = "trip" THEN Len(call.a) ELSE 0)
  /\ pc' = "ensure" /\ status' = -1 /\ joined' = 0 /\ tails' = <<>>
  /\ UNCHANGED <<build, todo, arena, bufs, plan, buffers, steps>>

Ensure ==
  /\ pc = "ensure"
  /\ plan' = f16_plan_ensure(plan, n, size.nfull)
  /\ IF size.nfull > plan.cap_ws
       THEN da' = <<>> /\ db' = <<>> /\ pca' = <<>> /\ pcb' = <<>> /\ pcr' = <<>>
       ELSE UNCHANGED buffers
  /\ pc' = CASE call.kind = "plan" -> "returned"
             [] call.kind = "trip" -> "forwardA"
             [] OTHER -> IF size.cen THEN "stage" ELSE "forwardB"
  /\ status' = IF call.kind = "plan" THEN 1 ELSE -1
  /\ UNCHANGED <<build, todo, arena, bufs, size, rp, steps, tails, joined>>

Stage ==
  /\ pc = "stage"
  /\ LET Padded(src) == [i \in 1 .. size.nfull \div 2 |-> IF i <= Len(src) THEN F(M)!Xored(src[i]) ELSE 0]
     IN  pca' = Padded(call.a) /\ pcb' = Padded(call.b)
  /\ pc' = "forwardB"
  /\ UNCHANGED <<build, todo, arena, bufs, plan, size, da, db, pcr, rp, steps, tails, joined, status>>

ForwardB ==
  /\ pc = "forwardB"
  /\ db' = Spectrum(call.b, pcb)
  /\ pc' = "forwardA"
  /\ UNCHANGED <<build, todo, arena, bufs, plan, size, da, pca, pcb, pcr, rp, steps, tails, joined, status>>
ForwardA ==
  /\ pc = "forwardA"
  /\ da' = Spectrum(call.a, pca)
  /\ steps' = IF call.kind = "mul" THEN Schedule ELSE <<>>
  /\ pc' = IF call.kind = "mul" THEN "pointwise" ELSE "unfused"
  /\ UNCHANGED <<build, todo, arena, bufs, plan, size, db, pca, pcb, pcr, rp, tails, joined, status>>

Pointwise ==
  /\ pc = "pointwise" /\ steps # <<>>
  /\ LET b == steps[1].b
         s == steps[1].s
     IN  IF b = 0 THEN da' = PutBranch(da, 0, SelfStep(s))
         ELSE \E v \in {CrossStep(b, s)} :
              \E parts \in {F(M)!Once([k \in 1 .. 2 |->
                               IF k = 1 THEN Leaves(F(M)!WithGroup(Branch(da, b), s.gl, v.l), s.l)
                               ELSE Leaves(F(M)!WithGroup(Branch(da, M - b), s.gr, v.r), s.r)])} :
                da' = PutBranch(F(M)!Once(PutBranch(da, b, parts[1])), M - b, parts[2])
  /\ steps' = Tail(steps)
  /\ UNCHANGED <<build, todo, arena, bufs, pc, plan, size, db, pca, pcb, pcr, rp, tails, joined, status>>

Inverse ==
  /\ pc = "pointwise" /\ steps = <<>>
  /\ IF size.cen /\ M = 1 THEN da' = F(1)!f16_mem_ir22(InverseR8(da)) ELSE da' = InverseR8(da)
  /\ pc' = IF size.cen THEN "emitCentred" ELSE "emit"
  /\ UNCHANGED <<build, todo, arena, bufs, plan, size, db, pca, pcb, pcr, rp, steps, tails, joined, status>>
InverseUnfused ==
  /\ pc = "unfused"
  /\ \E c \in {sc} : \E d \in {F(M)!Once([i \in DOMAIN da |-> F(M)!scaled(da[i], c)])} :
       da' = InverseLeavesR8(d)
  /\ pc' = "emit"
  /\ UNCHANGED <<build, todo, arena, bufs, plan, size, db, pca, pcb, pcr, rp, steps, tails, joined, status>>

(* The fronts: packed side by side into rp. *)
EmitFronts ==
  /\ pc = "emit"
  /\ \E points \in {FrontPoints} :
     \E out \in {F(M)!Once([f \in 1 .. FrontCount |-> Emit!FrontOut(points[f])])} :
       LET limbs == size.nfull \div (2 * FrontCount)
           written[f \in 0 .. FrontCount] ==
             IF f = 0 THEN rp ELSE Emit!Stored(written[f - 1], (f - 1) * limbs, out[f].limbs, rl)
       IN  /\ rp' = written[FrontCount]
           /\ tails' = [f \in 1 .. FrontCount |->
                          [next |-> f * limbs, chain |-> out[TailOf(f - 1) + 1].chain]]
  /\ pc' = "join"
  /\ UNCHANGED <<build, todo, arena, bufs, plan, size, buffers, steps, joined, status>>
(* A front's tail goes to the next one; the last must have none. *)
Join ==
  /\ pc = "join" /\ joined < FrontCount
  /\ LET t == tails[joined + 1]
         last == joined + 1 = FrontCount
         hi == t.chain.hi + t.chain.cin
         c == Emit!Carried(rp, t.next, rl, t.chain)
         ok == IF last THEN hi % Emit!Word = 0 ELSE c.ok
     IN  /\ rp' = IF last THEN rp ELSE c.rp
         /\ joined' = joined + 1
         /\ status' = IF ~ok THEN 0 ELSE IF last THEN 1 ELSE -1
         /\ pc' = IF last \/ ~ok THEN "returned" ELSE "join"
  /\ UNCHANGED <<build, todo, arena, bufs, plan, size, buffers, steps, tails>>

(* The centred band corrects and packs one front into the staging, and       *)
(* copies when its carry is zero.                                            *)
EmitCentred ==
  /\ pc = "emitCentred"
  /\ \E natural \in {IF M = 1 THEN da ELSE F(M)!f16_pfa_natural(da, n, M)}, cx \in {cctx} :
     \E points \in {Signed(natural)} : \E out \in {Emit!f16_emit_c_flat(points, cx)} :
     LET ok == (out.chain.hi + out.chain.cin) % Emit!Word = 0
     IN  /\ db' = IF M = 1 THEN db ELSE natural
         /\ pcr' = SubSeq(out.limbs, 1, leastOf(rl, Len(out.limbs)))
         /\ rp' = IF ok THEN [i \in 1 .. rl + 1 |-> IF i <= rl THEN pcr'[i] ELSE rp[i]] ELSE rp
         /\ status' = IF ok THEN 1 ELSE 0
  /\ pc' = "returned"
  /\ UNCHANGED <<build, todo, arena, bufs, plan, size, da, pca, pcb, steps, tails, joined>>

-----------------------------------------------------------------------------
Fft16Next ==
  \/ Enter \/ EnterTest \/ Ensure \/ Stage \/ ForwardB \/ ForwardA \/ Pointwise
  \/ Inverse \/ InverseUnfused \/ EmitFronts \/ Join \/ EmitCentred

Passes == build.engine = "fft16" /\ pc \notin {"call", "ensure", "returned"}

(* Every pass finds its tables and buffers, in whatever order sizes came:    *)
(* the workspace is not reallocated by a smaller size, staging exists when    *)
(* the band needs it, and the pointwise table of the largest branch so far   *)
(* begins with this branch's own (fft16.h:463-508).                          *)
PlanServes ==
  Passes =>
    /\ plan.cap_ws >= size.nfull /\ (size.cen => plan.staged)
    /\ n \in plan.tw22
    /\ StageLengths(IF Halved THEN F(M)!f16_shape_of_full(n \div 2) ELSE F(M)!f16_shape_of(n)) \subseteq plan.tw8
    /\ plan.pq_n >= n
    /\ \A k \in 0 .. (n \div 4) - 1 : F(1)!bitrev(k, F(1)!lg(plan.pq_n) - 2) * n
                                        = F(1)!bitrev(k, F(1)!lg(n) - 2) * plan.pq_n

(* Forward, unfused inverse and emit give an operand back                    *)
(* (tests/fft16_test.c:17-74).                                               *)
RoundTrip == pc = "returned" /\ call.kind = "trip" => status = 1 /\ SubSeq(rp, 1, rl) = call.a

(* Centred coefficients are corrected alike by the segmented windows of the  *)
(* flat emit, which carries its window sum from the first digit on, and by   *)
(* fronts that start anywhere with f16_sbase: the limbs are the same         *)
(* (fft16.h:1834-1889, 1977-2160, 2485-2563).                                *)
EmittersAgree ==
  pc = "emitCentred" =>
    \E natural \in {Signed(IF M = 1 THEN da ELSE F(M)!f16_pfa_natural(da, n, M))}, cx \in {cctx} :
    LET count == IF M = 1 THEN 4 ELSE M
        points == Split(natural, size.nfull \div count)
        limbs == size.nfull \div (2 * count)
        out == F(M)!Once([f \in 1 .. count |-> Emit!CentredFront(points[f], cx, (f - 1) * 4 * limbs)])
        written[f \in 0 .. count] ==
          IF f = 0 THEN [i \in 1 .. rl + 1 |-> -1]
          ELSE Emit!Stored(written[f - 1], (f - 1) * limbs, out[f].limbs, rl)
        fixed[f \in 0 .. count - 1] ==
          IF f = 0 THEN written[count] ELSE Emit!Carried(fixed[f - 1], f * limbs, rl, out[f].chain).rp
    IN  SubSeq(fixed[count - 1], 1, rl) = SubSeq(Emit!f16_emit_c_flat(natural, cx).limbs, 1, rl)
=============================================================================
