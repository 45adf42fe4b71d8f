---------------------------- MODULE LaneKernels ----------------------------
(***************************************************************************)
(* The streaming kernels of include/canon.h, include/interp_helpers.h and  *)
(* include/addsub_nc_impl: a pass over vectors of redundant digits that    *)
(* combines its operands lane by lane and either resolves carries on the   *)
(* way (positive or signed chain) or stores the lanes as they are, halving *)
(* the result or not.  A turn of a kernel's loop is two actions, Load and  *)
(* Resolve; what passes from a vector to the next - chain, held vector,    *)
(* masks of the last vector - is the state.  Operand lanes are chosen as   *)
(* they are read: what lies past an operand's length is live foreign data. *)
(***************************************************************************)
EXTENDS Lanes, Sequences

CONSTANTS
  Words,      \* Words[k]: lane values given to the operands of a k-operand kernel
  Lengths,    \* lengths n of the region, in limbs
  CarriesIn   \* carries given to the kernels that take a _c

(* What the callers keep: lanes are machine words, no region is empty, and  *)
(* a carry handed in is one that canon's calls return.                      *)
KernelParameters ==
  /\ \A k \in 1 .. 4 : Words[k] \subseteq 0 .. Width - 1
  /\ Lengths \subseteq Nat \ {0}
  /\ CarriesIn \subseteq -H .. H - 1

(* coef: the lanewise combination.  reads: per operand, whole vectors ("vec"), *)
(* n limbs with a mask on the last vector ("tail"), n limbs with a mask        *)
(* wherever the boundary falls ("clip"), a shorter operand ("short"), or the   *)
(* short top part of eval2 ("top").  stores: whole vectors, n limbs, n + 1.    *)
Kernel(name, coef, reads, chain, half, stores, carry) ==
  [name |-> name, coef |-> coef, reads |-> reads, chain |-> chain, half |-> half,
   stores |-> stores, carry |-> carry]

Kernels == {
  Kernel("canon_pos", <<1>>, <<"vec">>, "pos", FALSE, "vec", TRUE),
  Kernel("add_canon", <<1, 1>>, <<"vec", "vec">>, "pos", FALSE, "vec", TRUE),
  Kernel("canon_neg", <<1>>, <<"vec">>, "neg", FALSE, "vec", TRUE),
  Kernel("sub_canon", <<1, -1>>, <<"vec", "vec">>, "neg", FALSE, "vec", TRUE),
  Kernel("canon_neg_tail", <<1>>, <<"tail">>, "neg", FALSE, "tail", FALSE),
  Kernel("fold_add", <<1, 1>>, <<"tail", "short">>, "neg", FALSE, "tail", FALSE),
  Kernel("fold_sub", <<1, -1>>, <<"tail", "short">>, "neg", FALSE, "tail", FALSE),
  Kernel("fold_addsub", <<1, 1, -1>>, <<"tail", "short", "short">>, "neg", FALSE, "tail", FALSE),
  Kernel("add_rsh1_canon", <<1, 1>>, <<"tail", "tail">>, "pos", TRUE, "vec", TRUE),
  Kernel("sub_rsh1_canon", <<1, -1>>, <<"tail", "tail">>, "neg", TRUE, "vec", TRUE),
  Kernel("add_rsh1_nc", <<1, 1>>, <<"tail", "tail">>, "none", TRUE, "vec", FALSE),
  Kernel("sub_rsh1_nc", <<1, -1>>, <<"tail", "tail">>, "none", TRUE, "vec", FALSE),
  Kernel("subadd_rsh1_nc", <<1, -1, 1>>, <<"tail", "tail", "short">>, "none", TRUE, "vec", FALSE),
  Kernel("sub3_nc", <<1, -1, -1>>, <<"tail", "tail", "tail">>, "none", FALSE, "tail", FALSE),
  Kernel("addsub3_nc", <<1, 1, -1>>, <<"tail", "tail", "tail">>, "none", FALSE, "tail", FALSE),
  Kernel("add_nc_52", <<1, 1>>, <<"tail", "tail">>, "none", FALSE, "tail", FALSE),
  Kernel("sub_nc_52", <<1, -1>>, <<"tail", "tail">>, "none", FALSE, "tail", FALSE),
  Kernel("sublsh1_nc_52", <<1, -2>>, <<"tail", "tail">>, "none", FALSE, "tail", FALSE),
  Kernel("eval2_canon_3", <<1, 2, 4>>, <<"clip", "clip", "top">>, "pos", FALSE, "n+1", FALSE),
  Kernel("eval2_canon_4", <<1, 2, 4, 8>>, <<"clip", "clip", "clip", "top">>, "pos", FALSE, "n+1", FALSE)}

VARIABLES
  kernel,     \* the running kernel, one of Kernels
  n,          \* limbs of the region
  len,        \* limbs of each operand
  i,          \* vectors consumed
  phase,      \* "load" or "resolve"
  lanes,      \* the combined operands of vector i
  chain,      \* what the carry chain passes on
  prev,       \* halving kernels: the vector held back
  debt,       \* history: value consumed minus value stored
  wrote,      \* history: the limbs stored
  digits      \* history: every word stored was a digit

vars == <<kernel, n, len, i, phase, lanes, chain, prev, debt, wrote, digits>>

Arity == Len(kernel.coef)
Count == IF kernel.stores = "n+1" THEN (n + L) \div L ELSE (n + L - 1) \div L
Last == i = Count - 1

-----------------------------------------------------------------------------
(* Masks *)

(* u52_rsh1_tail_mask, u52_limb_mask *)
TailMask_always_full(k) == Lane
TailMask(k) == IF k % L = 0 THEN Lane ELSE 0 .. (k % L) - 1

(* the lanes of vector i below limb k: u52_fold_x, u52_t2_term, the mn, mr of eval2 *)
Clip(k) == {l \in Lane : l < k - i * L}

(* the top part's lanes in the four loops of mpn_u52_eval2_canon *)
TopLanes_boundary_skipped(s) == IF (i + 1) * L <= s THEN Lane ELSE {}
TopLanes(s) ==
  CASE (i + 1) * L <= s -> Lane
    [] (i + 1) * L > s /\ (i + 1) * L <= n -> IF i = s \div L THEN 0 .. (s % L) - 1 ELSE {}
    [] OTHER -> Clip(s)

Loaded(k) ==
  CASE kernel.reads[k] = "vec"   -> Lane
    [] kernel.reads[k] = "tail"  -> IF Last THEN TailMask(n) ELSE Lane
    [] kernel.reads[k] = "top"   -> TopLanes(len[k])
    [] OTHER                -> Clip(len[k])

StoreMask ==
  CASE kernel.stores = "vec"  -> Lane
    [] kernel.stores = "tail" -> IF Last THEN TailMask(n) ELSE Lane
    [] OTHER             -> Clip(n + 1)

-----------------------------------------------------------------------------
(* One turn of the loop *)

Sum(f) == LET upto[k \in 1 .. Arity] == f[k] + (IF k = 1 THEN 0 ELSE upto[k - 1]) IN upto[Arity]
Combined(xs) ==
  LET masks == [k \in 1 .. Arity |-> Loaded(k)]
  IN  [l \in Lane |->
         Word(Sum([k \in 1 .. Arity |-> IF l \in masks[k] THEN kernel.coef[k] * xs[k][l] ELSE 0]))]

Resolved(t) ==
  CASE kernel.chain = "pos" -> Canonize(t, chain)
    [] kernel.chain = "neg" -> CanonNeg(t, chain)
    [] OTHER           -> [vec |-> t, chain |-> NoCarry]

Halved(lo, nx) == IF kernel.chain = "none" THEN HalfNc(lo, nx) ELSE HalfCanon(lo, nx)

(* A halving kernel runs one vector behind, and stores two at the end. *)
StoresBelow == kernel.half /\ i > 0
StoresHere == ~kernel.half \/ Last
Here(v) == IF kernel.half THEN Halved(v, Zero) ELSE v

(* What the operands mean: their limbs below their lengths, signed unless *)
(* the kernel is for non-negative lanes.                                  *)
Limb(k, x) == IF kernel.chain = "pos" THEN x ELSE Signed(x)
OwnLanes(k) == IF kernel.reads[k] = "vec" THEN Lane ELSE Clip(len[k])
TrueLanes(xs) ==
  [l \in Lane |-> Sum([k \in 1 .. Arity |->
     IF l \in OwnLanes(k) THEN kernel.coef[k] * Limb(k, xs[k][l]) ELSE 0])]
(* The lane budget: no lane's true combination leaves the word. *)
InBudget(x) == IF kernel.chain = "pos" THEN 0 <= x /\ x < Width
               ELSE -(Width \div 2) <= x /\ x < Width \div 2

Load ==
  /\ phase = "load" /\ i < Count
  /\ \E xs \in [1 .. Arity -> [Lane -> Words[Arity]]] :
       LET true == TrueLanes(xs)
       IN  /\ \A l \in Lane : InBudget(true[l])
           /\ lanes' = Combined(xs)
           /\ debt' = debt + Power(B, i * L) * Number(true, L, B)
  /\ phase' = "resolve"
  /\ UNCHANGED <<kernel, n, len, i, chain, prev, wrote, digits>>

Resolve ==
  LET resolved == Resolved(lanes)
      v == resolved.vec
      below == Halved(prev, v)
      here == Masked(Here(v), StoreMask)
      stored == (IF StoresBelow THEN Power(B, (i - 1) * L) * Value(below) ELSE 0)
                  + (IF StoresHere THEN Power(B, i * L) * Value(here) ELSE 0)
  IN  /\ phase = "resolve"
      /\ kernel.half /\ i = 0 => v[0] % 2 = 0    \* the halved value is even
      /\ i' = i + 1
      /\ chain' = resolved.chain
      /\ prev' = IF kernel.half /\ ~Last THEN v ELSE Zero
      /\ debt' = debt - (IF kernel.half THEN 2 * stored ELSE stored)
      /\ wrote' = wrote \cup (IF StoresBelow THEN {(i - 1) * L + l : l \in Lane} ELSE {})
                        \cup (IF StoresHere THEN {i * L + l : l \in StoreMask} ELSE {})
      /\ digits' = (/\ digits
                    /\ StoresBelow => \A l \in Lane : below[l] < B
                    /\ StoresHere => \A l \in Lane : here[l] < B)
      /\ phase' = "load" /\ lanes' = Zero
      /\ UNCHANGED <<kernel, n, len>>

Init ==
  /\ kernel \in Kernels /\ n \in Lengths
  /\ len \in [1 .. Arity -> 0 .. n]
  /\ \A k \in 1 .. Arity : /\ kernel.reads[k] \notin {"short", "top"} => len[k] = n
                           /\ kernel.reads[k] = "top" => len[k] > 0
  /\ \E c \in IF kernel.carry THEN CarriesIn ELSE {0} :
       /\ kernel.chain = "pos" => c >= 0
       /\ chain = IF kernel.chain = "pos" THEN [NoCarry EXCEPT !.hi = c] ELSE CarryIn(Word(c))
       /\ debt = c
  /\ i = 0 /\ phase = "load" /\ lanes = Zero /\ prev = Zero /\ wrote = {} /\ digits = TRUE

Next == Load \/ Resolve

Spec == Init /\ [][Next]_vars

-----------------------------------------------------------------------------
(* Properties *)

Done == i = Count

(* What a halving kernel still holds: all of the held vector but the parity *)
(* it already gave to the vector below.                                     *)
Held == IF kernel.half /\ 0 < i /\ ~Done THEN Power(B, (i - 1) * L) * (Value(prev) - (prev[0] % 2)) ELSE 0

(* No value appears or disappears: at every turn what has been read and not *)
(* yet stored is exactly what the chain and the held vector carry.  A region *)
(* stored under a mask ends with digits that are right modulo the region, so *)
(* that nothing is lost when the value fits; eval2's n + 1 limbs hold it all. *)
(* A carry returned and handed to another call as its _c stands for the same *)
(* value: canonneg_done and canonneg_init agree.                             *)
Accounted ==
  /\ phase = "load" =>
       CASE ~Done \/ kernel.stores = "vec" -> debt = Held + Power(B, i * L) * ChainValue(chain)
         [] Done /\ kernel.stores = "tail" -> IF kernel.chain = "none" THEN debt = 0 ELSE digits /\ debt % Power(B, n) = 0
         [] OTHER                     -> digits /\ debt = 0
  /\ kernel.chain = "neg" => ChainValue(CarryIn(Word(ChainValue(chain)))) = ChainValue(chain)

(* Tail-masked kernels touch no limb of their neighbour and leave none of    *)
(* their own unwritten; eval2 writes exactly n + 1; the others fill vectors. *)
Footprint ==
  LET room == CASE kernel.stores = "vec" -> Count * L [] kernel.stores = "tail" -> n [] OTHER -> n + 1
  IN  /\ wrote \subseteq 0 .. room - 1
      /\ Done => wrote = 0 .. room - 1
=============================================================================
