------------------------------ MODULE AddSubN ------------------------------
(***************************************************************************)
(* mpn_add_n and mpn_sub_n of include/addsub_n.h: full machine words, no   *)
(* headroom, a carry bit in and out.  A call takes blocks of four vectors  *)
(* (a half block first when the length asks for it), then a vector, then a *)
(* masked vector or single limbs.  One action is one store.                *)
(***************************************************************************)
EXTENDS Basecase

MAX == Width - 1
left == an - vi                 \* here vi counts limbs

(* add_step_u64_vec, sub_step_u64_vec on `count` lanes: masks as integers,   *)
(* one addition ripples the carry.                                           *)
RippleWords(gen, prop, count) ==
  LET c == chain.cin + 2 * MaskInt(gen) + MaskInt(prop)
  IN  [into |-> {l \in Lane : (l \in prop) # Bit(c, l)}, out |-> c \div Power(2, count)]
Active_all_lanes(count) == Lane
Active(count) == FirstLanes(count)
AddStep(u, v, count) ==
  LET s == Plus(u, v)
      ripple == RippleWords({l \in Lane : s[l] < u[l]}, Equal(s, MAX), count)
  IN  [vec |-> [l \in Lane |-> IF l \in ripple.into THEN Word(s[l] - MAX) ELSE s[l]],
       out |-> ripple.out]
SubStep(u, v, count) ==
  LET s == [l \in Lane |-> Word(u[l] - v[l])]
      ripple == RippleWords({l \in Lane : s[l] > u[l]} \cap Active(count),
                            Equal(s, 0) \cap Active(count), count)
  IN  [vec |-> [l \in Lane |-> IF l \in ripple.into THEN Word(s[l] + MAX) ELSE s[l]],
       out |-> ripple.out]
Step(u, v, count) == IF prog = "add_n" THEN AddStep(u, v, count) ELSE SubStep(u, v, count)

(* The vector, or its first `count` lanes, at limb i. *)
Words(count) ==
  /\ \E s \in {Step(Masked(At(ap, vi), FirstLanes(count)), Masked(At(bp, vi), FirstLanes(count)), count)} :
       /\ rp' = [j \in Limbs |-> IF vi <= j /\ j < vi + count THEN s.vec[j - vi] ELSE rp[j]]
       /\ chain' = [NoCarry EXCEPT !.cin = s.out]
  /\ vi' = vi + count
  /\ done' = (vi + count = an)
  /\ UNCHANGED <<prog, an, bn, ap, bp, kept>>

Running == prog \in {"add_n", "sub_n"} /\ ~done

(* Blocks of four vectors, a half block first; then at most fifteen limbs. *)
BlockVector == Running /\ left > an % (2 * L) /\ Words(L)
OneVector == Running /\ left <= an % (2 * L) /\ L <= left /\ Words(L)
(* ctail: four to seven limbs under a mask; rtail: one to three, one by one. *)
MaskedTail == Running /\ L \div 2 <= left /\ left < L /\ Words(left)
Adc(u, v) ==
  IF prog = "add_n" THEN [word |-> Word(u + v + chain.cin), out |-> (u + v + chain.cin) \div Width]
  ELSE [word |-> Word(u - v - chain.cin), out |-> IF u < v + chain.cin THEN 1 ELSE 0]
SingleLimb ==
  /\ Running /\ left < L \div 2
  /\ LET s == Adc(ap[vi], bp[vi])
     IN  rp' = [rp EXCEPT ![vi] = s.word] /\ chain' = [NoCarry EXCEPT !.cin = s.out]
  /\ vi' = vi + 1 /\ done' = (left = 1)
  /\ UNCHANGED <<prog, an, bn, ap, bp, kept>>

(* Calls: at least one limb, that fits an array, a carry bit and full words. *)
AddSubInputs ==
  \A p \in {"add_n", "sub_n"} \cap DOMAIN Shapes :
    /\ \A shape \in Shapes[p] : shape[1] \in 1 .. Room /\ shape[2] \in {0, 1}
    /\ \A words \in Patterns[p] : \A j \in Limbs : words[j] \in 0 .. Width - 1

AddSubNext == BlockVector \/ OneVector \/ MaskedTail \/ SingleLimb

ProductsSpec == Init /\ [][Next \/ AddSubNext]_vars

-----------------------------------------------------------------------------
(* Properties *)

(* Whatever the mixture of blocks, vectors, masked tail and single limbs, the *)
(* words written are those of the sum or difference with the carry handed in, *)
(* the carry handed on is theirs, and no limb beyond n is written.            *)
Carry(t) ==
  LET into[k \in 0 .. t] ==
        IF k = 0 THEN bn
        ELSE IF prog = "add_n" THEN (ap[k - 1] + bp[k - 1] + into[k - 1]) \div Width
        ELSE IF ap[k - 1] < bp[k - 1] + into[k - 1] THEN 1 ELSE 0
  IN  into[t]
CarryRight ==
  prog \in {"add_n", "sub_n"} =>
    /\ vi <= an /\ chain.cin = Carry(vi)
    /\ \A j \in Limbs :
         rp[j] = IF j >= vi THEN Untouched
                 ELSE Word(IF prog = "add_n" THEN ap[j] + bp[j] + Carry(j)
                                             ELSE ap[j] - bp[j] - Carry(j))
=============================================================================
