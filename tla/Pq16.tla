-------------------------------- MODULE Pq16 --------------------------------
(***************************************************************************)
(* pq16_mul_r of include/pq16.h.  Its tables are a thread's own and grow   *)
(* with the sizes met (pq16_tls_plan); its buffers are allocated in the    *)
(* caller's scratch arena and released by the scope on every return.       *)
(***************************************************************************)
EXTENDS FftCall, Pq16Workspace

P(m) == INSTANCE Pq16Passes WITH Q <- Fields[m].q, Circle <- Fields[m].circle,
                                 TwcMinLg <- build.twcMinLg, Tiers <- build.tiers

-----------------------------------------------------------------------------
(* The size: a radix is taken when it is smaller than the best so far.       *)
pq16_choose(need, maxn, cen) ==
  LET p2 == Reaching(512, need)
      Better(best, m) ==
        LET br == Reaching(LeastFull(m), need) \div m
        IN  IF \/ m = 7 /\ br < build.pfa7MinBranch
               \/ m = 7 /\ ~cen /\ m * br > build.pfa7MaxN
               \/ m * br >= best.nfull \/ m * br > maxn
            THEN best ELSE [nfull |-> m * br, branch |-> br, M |-> m, cen |-> cen]
  IN  Better(Better(Better([nfull |-> p2, branch |-> p2, M |-> 1, cen |-> cen], 3), 5), 7)

pq16_plan_ensure(pl, branch) ==
  [pl EXCEPT !.pq_n = IF branch > @ THEN branch ELSE @,
             !.tw22 = @ \cup {branch},
             !.tw8 = @ \cup StageLengths(P(1)!pq16_shape_of(branch))]

PqSpectrum(src, cnt) ==
  IF M = 1 THEN P(1)!pq16_fwd(src, cnt, n, size.cen) ELSE P(M)!pq16_pfa_fwd(src, cnt, n, M, size.cen)
PqOperand(src, staging) == IF size.cen THEN PqSpectrum(staging, size.nfull \div 2) ELSE PqSpectrum(src, Len(src))

(* Branch 0 with itself, then branches b and M - b. *)
PqLeaf == P(M)!pq16_shape_of(n).leaf
PqSchedule ==
  LET self == P(M)!pq16_pointwise_ileaves(n, PqLeaf)
      cross == P(M)!pq16_pointwise_cross_ileaves(n, PqLeaf)
  IN  [i \in DOMAIN self |-> [b |-> 0, s |-> self[i]]]
        \o Joined([b \in 1 .. M \div 2 |-> [i \in DOMAIN cross |-> [b |-> b, s |-> cross[i]]]])
PqLeaves(d, groups) ==
  LET run[k \in 0 .. Len(groups)] ==
        IF k = 0 THEN d ELSE P(M)!q_ileaf_group(run[k - 1], groups[k], PqLeaf)
  IN  run[Len(groups)]
PqSelf(s) ==
  LET A == Branch(da, 0)   B == Branch(db, 0)
  IN  PqLeaves(IF s.gl = 0 THEN P(M)!q_pw_head(A, B, plan.pq_n, sc)
               ELSE P(M)!q_pw_groups(A, B, s.gl, s.gr, plan.pq_n, sc), s.leaves)
PqCross(b, s) ==
  LET L == Branch(da, b)    R == Branch(da, M - b)
      oL == Branch(db, b)   oR == Branch(db, M - b)
      w3 == P(M)!omega(M, b)
  IN  IF s.gl = 0 THEN P(M)!q_pw_head_cross(L, R, oL, oR, plan.pq_n, w3, sc)
      ELSE P(M)!q_pw_groups_cross(L, R, oL, oR, s.gl, s.gr, plan.pq_n, w3, sc)

PqFronts == IF M = 1 THEN 4 ELSE M
pq16_pfa_emit(d) == IF M = 3 THEN P(3)!q_pfa_emit_merge(d, n, 3) ELSE P(M)!q_pfa_emit_tw(d, n, M)

-----------------------------------------------------------------------------
PqEnter ==
  /\ pc = "call" /\ build.engine = "pq16" /\ call.kind = "mul"
  /\ LET need == 2 * (Len(call.a) + Len(call.b))
         cen == build.forceCentered \/ need > build.maxN
         maxn == IF cen THEN build.maxNC ELSE build.maxN
         refused == call.a = <<>> \/ call.b = <<>> \/ need > maxn
     IN  /\ size' = IF refused THEN NoSize ELSE pq16_choose(need, maxn, cen)
         /\ status' = IF refused THEN 0 ELSE -1
         /\ pc' = IF refused THEN "returned" ELSE "pqEnsure"
  /\ rp' = Blank(Len(call.a) + Len(call.b))
  /\ joined' = 0 /\ tails' = <<>>
  /\ UNCHANGED <<build, todo, plan, arena, bufs, buffers, steps>>

PqEnsure ==
  /\ pc = "pqEnsure"
  /\ plan' = pq16_plan_ensure(plan, n)
  /\ pc' = "pqWorkspace"
  /\ UNCHANGED <<build, todo, arena, bufs, size, buffers, rp, steps, tails, joined, status>>

(* SCRATCH(sc) and every SALLOC; the centred operands are staged at once. *)
PqWorkspace ==
  /\ pc = "pqWorkspace"
  /\ LET ws == workspace(arena, size.nfull, rl, size.cen)
         Padded(src) == [i \in 1 .. size.nfull \div 2 |-> IF i <= Len(src) THEN F(M)!Xored(src[i]) ELSE 0]
     IN  /\ arena' = ws.at
         /\ bufs' = [mark |-> arena, parts |-> ws.parts]
         /\ IF size.cen THEN pca' = Padded(call.a) /\ pcb' = Padded(call.b) ELSE UNCHANGED <<pca, pcb>>
  /\ pc' = "pqForwardB"
  /\ UNCHANGED <<build, todo, plan, size, da, db, pcr, rp, steps, tails, joined, status>>

PqForwardB ==
  /\ pc = "pqForwardB"
  /\ db' = PqOperand(call.b, pcb)
  /\ pc' = "pqForwardA"
  /\ UNCHANGED <<build, todo, plan, arena, bufs, size, da, pca, pcb, pcr, rp, steps, tails, joined, status>>
PqForwardA ==
  /\ pc = "pqForwardA"
  /\ da' = PqOperand(call.a, pca)
  /\ steps' = PqSchedule
  /\ pc' = "pqPointwise"
  /\ UNCHANGED <<build, todo, plan, arena, bufs, size, db, pca, pcb, pcr, rp, tails, joined, status>>

PqPointwise ==
  /\ pc = "pqPointwise" /\ steps # <<>>
  /\ LET b == steps[1].b
         s == steps[1].s
     IN  IF b = 0 THEN da' = PutBranch(da, 0, PqSelf(s))
         ELSE \E v \in {PqCross(b, s)} :
              \E parts \in {F(M)!Once([k \in 1 .. 2 |->
                               IF k = 1 THEN PqLeaves(P(M)!WithGroup(Branch(da, b), s.gl, v.l), s.l)
                               ELSE PqLeaves(P(M)!WithGroup(Branch(da, M - b), s.gr, v.r), s.r)])} :
                da' = PutBranch(F(M)!Once(PutBranch(da, b, parts[1])), M - b, parts[2])
  /\ steps' = Tail(steps)
  /\ UNCHANGED <<build, todo, pc, plan, arena, bufs, size, db, pca, pcb, pcr, rp, tails, joined, status>>

(* The radix-8 passes of every branch; the last radix-4 pass is fused into    *)
(* the emit of the plain power of two only.                                   *)
PqInverse ==
  /\ pc = "pqPointwise" /\ steps = <<>>
  /\ LET parts == Split(da, n)
         Of(part) == IF M = 1 /\ ~size.cen THEN P(M)!pq16_inv_r8_only(part)
                     ELSE P(M)!pq16_mem_ir22(P(M)!pq16_inv_r8_only(part))
     IN  da' = Joined([k \in DOMAIN parts |-> Of(parts[k])])
  /\ pc' = IF size.cen THEN "pqEmitCentred" ELSE "pqEmit"
  /\ UNCHANGED <<build, todo, plan, arena, bufs, size, db, pca, pcb, pcr, rp, steps, tails, joined, status>>

PqEmit ==
  /\ pc = "pqEmit"
  /\ \E d \in {IF M = 1 THEN P(1)!pq16_mem_ir22(da) ELSE pq16_pfa_emit(da)} :
     \E points \in {F(M)!Once(Split(d, size.nfull \div PqFronts))} :
     \E out \in {F(M)!Once([f \in 1 .. PqFronts |-> Emit!FrontOut(points[f])])} :
       LET limbs == size.nfull \div (2 * PqFronts)
           written[f \in 0 .. PqFronts] ==
             IF f = 0 THEN rp ELSE Emit!Stored(written[f - 1], (f - 1) * limbs, out[f].limbs, rl)
       IN  /\ rp' = written[PqFronts]
           /\ tails' = [f \in 1 .. PqFronts |-> [next |-> f * limbs, chain |-> out[f].chain]]
  /\ pc' = "pqClose"
  /\ UNCHANGED <<build, todo, plan, arena, bufs, size, buffers, steps, joined, status>>

(* Leaving the scope gives the workspace back. *)
Released == arena' = bufs.mark /\ bufs' = [bufs EXCEPT !.parts = {}]

(* q_chains_close: front by front; what reaches the end must be zero, of the  *)
(* last front as of those that start behind the result.                       *)
q_chains_close ==
  /\ pc = "pqClose"
  /\ LET t == tails[joined + 1]
         c == Emit!Carried(rp, t.next, rl, t.chain)
         done == joined + 1 = PqFronts \/ ~c.ok
     IN  /\ rp' = c.rp
         /\ joined' = joined + 1
         /\ status' = IF ~c.ok THEN 0 ELSE IF done THEN 1 ELSE -1
         /\ pc' = IF done THEN "returned" ELSE "pqClose"
         /\ IF done THEN Released ELSE UNCHANGED <<arena, bufs>>
  /\ UNCHANGED <<build, todo, plan, size, buffers, steps, tails>>

PqEmitCentred ==
  /\ pc = "pqEmitCentred"
  /\ \E natural \in {IF M = 1 THEN da ELSE P(M)!q_pfa_natural_impl(da, n, M)}, cx \in {cctx} :
     \E points \in {Signed(natural)} : \E out \in {Emit!f16_emit_c_flat(points, cx)} :
     LET ok == (out.chain.hi + out.chain.cin) % Emit!Word = 0
     IN  /\ db' = IF M = 1 THEN db ELSE natural
         /\ pcr' = SubSeq(out.limbs, 1, leastOf(rl, Len(out.limbs)))
         /\ rp' = IF ok THEN [i \in 1 .. rl + 1 |-> IF i <= rl THEN pcr'[i] ELSE rp[i]] ELSE rp
         /\ status' = IF ok THEN 1 ELSE 0
  /\ pc' = "returned" /\ Released
  /\ UNCHANGED <<build, todo, plan, size, da, pca, pcb, steps, tails, joined>>

Pq16Next ==
  \/ PqEnter \/ PqEnsure \/ PqWorkspace \/ PqForwardB \/ PqForwardA \/ PqPointwise
  \/ PqInverse \/ PqEmit \/ q_chains_close \/ PqEmitCentred

-----------------------------------------------------------------------------
(* While a call works, its buffers lie apart inside what it allocated, with   *)
(* every table its size needs there; between calls the arena stands where it  *)
(* stood, whichever way the call ended (pq16.h:1953-1995, 516-539).           *)
PqPasses == {"pqForwardB", "pqForwardA", "pqPointwise", "pqEmit", "pqClose", "pqEmitCentred"}
PqLength(part) == part.hi - part.lo
WorkspaceRight ==
  build.engine = "pq16" =>
    IF pc \in PqPasses
      THEN /\ PartsFit(bufs.parts)
           /\ \A x \in bufs.parts : /\ bufs.mark[x.block.tier] <= x.lo /\ x.hi <= arena[x.block.tier]
                                     /\ PqLength(x) = 16 * size.nfull => x.lo % 128 = 0
           /\ Cardinality({x \in bufs.parts : PqLength(x) = 16 * size.nfull}) = 2
           /\ plan.pq_n >= n /\ n \in plan.tw22 /\ StageLengths(P(1)!pq16_shape_of(n)) \subseteq plan.tw8
      ELSE arena = bufs.mark
=============================================================================
