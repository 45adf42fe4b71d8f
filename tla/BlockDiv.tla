------------------------------ MODULE BlockDiv ------------------------------
(***************************************************************************)
(* The block division of include/div.h, divrem.h and dc_div.h: div3by2     *)
(* estimates a quotient block, divrem_core and blk_sbpi1 are schoolbook    *)
(* division with it, blk_dcpi1_div_qr_n halves recursively, and            *)
(* blk_chunk_divide and blk_dcpi1_div_qr peel the quotient in chunks.  The *)
(* recursion is a stack of frames; dividend, divisor and quotient are      *)
(* arrays of blocks, shared by all of them, and a frame works on a window  *)
(* of each.  A block is a digit base Beta (2^416 in the code).             *)
(***************************************************************************)
EXTENDS DigitNumbers, Sequences

CONSTANTS
  Beta,            \* the base of a block
  DC_THRESHOLD,    \* blocks below which the divisor is schoolbook's
  Guard,           \* what the reciprocal reads of the second block: its digits
                   \* base Guard, 2^32 in the code
  Ulps,            \* how far off, in units of its last place, it may be
  Problems         \* records [nn, dn, num, den]: what the wrapper may ask for

P(n) == Power(Beta, n)

ASSUME BlockDivAssumption ==
  /\ Beta \in Nat /\ Beta > 2 /\ Beta % 2 = 0
  /\ DC_THRESHOLD \in Nat /\ DC_THRESHOLD >= 4
  /\ Guard \in Nat /\ Guard > 1 /\ Guard % 2 = 0 /\ Beta % Guard = 0
  /\ Ulps \subseteq Int
  /\ \A p \in Problems :
       /\ {p.dn, p.nn, p.den, p.num} \subseteq Nat
       /\ 2 <= p.dn /\ p.dn < p.nn
       /\ P(p.dn) <= 2 * p.den /\ p.den < P(p.dn)
       /\ p.num < P(p.nn - 1)

VARIABLES
  np,       \* the dividend, which the remainder replaces
  qp,       \* the quotient
  dp,       \* the divisor
  v,        \* the reciprocal seed of its two top blocks
  stack,    \* calls in progress, the innermost last
  ret       \* the qh of the call that just returned, or NoReturn

vars == <<np, qp, dp, v, stack, ret>>

-----------------------------------------------------------------------------
(* Arrays of blocks *)

Blocks(n) == 0 .. n - 1
Value(x, at, len) == Number([i \in Blocks(len) |-> x[at + i]], len, Beta)
Put(x, at, len, val) ==
  [i \in DOMAIN x |-> IF at <= i /\ i < at + len THEN (val \div P(i - at)) % Beta ELSE x[i]]

(* block_sub_n, block_submul_vec and block_add_n: the window, and what is   *)
(* borrowed from or carried into the blocks above it.                       *)
SubN(x, at, len, val) ==
  LET left == Value(x, at, len) - val
  IN  [to |-> Put(x, at, len, left), out |-> -(left \div P(len))]
AddN_carry_lost(x, at, len, val) == [to |-> Put(x, at, len, Value(x, at, len) + val), out |-> 0]
AddN(x, at, len, val) ==
  LET sum == Value(x, at, len) + val
  IN  [to |-> Put(x, at, len, sum), out |-> sum \div P(len)]

-----------------------------------------------------------------------------
(* div3by2 *)

(* recip_3by2_seed: an estimate of 2^895 / (the top 448 bits of <d1, d0>),  *)
(* some units off, of which the last 31 bits and the top one are dropped.   *)
(* Rounding aside it is the exact reciprocal; Recip3by2 has the iteration.  *)
Exact(d1, d0) == ((Beta * Beta * Beta - 1) \div (d1 * Beta + d0)) - Beta
Seeds(d1, d0) ==
  LET top == d1 * Guard + d0 \div (Beta \div Guard)
      one == Beta * Guard
      near == {((one * one) \div 2) \div top + e : e \in Ulps}
      held(r) == IF r < one \div 2 THEN one \div 2 ELSE IF r < one THEN r ELSE one - 1
  IN  {held(r) \div (Guard \div 2) - Beta : r \in near}

(* <u2, u1, u0> / <d1, d0> for <u2, u1> < <d1, d0>. *)
Div3by2(u2, u1, u0, d1, d0, seed) ==
  LET D == d1 * Beta + d0
      q == seed * u2 + u2 * Beta + u1
      q0 == q % Beta
      up == ((q \div Beta) % Beta) + 1
      over == q >= Beta * Beta \/ up = Beta
      q1 == up % Beta
      r == IF over THEN (((u1 - d0) % Beta) * Beta) + u0
           ELSE (u1 * Beta + u0 - D * q1) % (Beta * Beta)
      down == r \div Beta >= q0
      ra == IF down THEN (r + D) % (Beta * Beta) ELSE r
      qa == IF down THEN (q1 - 1) % Beta ELSE q1
  IN  IF ra >= D THEN [q |-> (qa + 1) % Beta, r |-> ra - D] ELSE [q |-> qa, r |-> ra]

-----------------------------------------------------------------------------
(* Frames *)

NoReturn == -1
None == 0

(* A call of fn divides np[n .. n+qn+dn) by dp[d .. d+dn) into qp[q .. q+qn). *)
Frame(fn, q, n, d, qn, dn) ==
  [fn |-> fn, pc |-> "start", q |-> q, n |-> n, d |-> d, qn |-> qn, dn |-> dn,
   qh |-> 0,                  \* the quotient's block above qn
   j |-> qn,                  \* schoolbook: the blocks left; chunks: p
   qhat |-> 0, top |-> None,  \* schoolbook: the block found, and n2 - cy in a
                              \* rare turn
   cy |-> 0,                  \* the borrow to make good by adding D back
   adds |-> 0,                \* history: how often that was done
   was |-> None]              \* history: what was to be divided

Top == stack[Len(stack)]
Below == SubSeq(stack, 1, Len(stack) - 1)
Becomes(f) == stack' = Append(Below, f)
Calls(f, g) == stack' = Append(Append(Below, f), g)

At(fns, pc) == stack # << >> /\ Top.fn \in fns /\ Top.pc = pc
Den(f) == Value(dp, f.d, f.dn)
Low(f) == f.dn \div 2
High(f) == f.dn - Low(f)
Divider(n) == IF n < DC_THRESHOLD THEN "sb" ELSE "dcn"

(* divrem_u64_dc, once it has normalized both numbers: the dividend has a   *)
(* block of padding.                                                        *)
Init ==
  \E p \in Problems :
    /\ np = Put([i \in Blocks(p.nn) |-> 0], 0, p.nn, p.num)
    /\ qp = [i \in Blocks(p.nn - p.dn) |-> 0]
    /\ dp = Put([i \in Blocks(p.dn) |-> 0], 0, p.dn, p.den)
    /\ v \in Seeds(p.den \div P(p.dn - 1), (p.den \div P(p.dn - 2)) % Beta)
    /\ stack = <<[Frame(IF p.dn < DC_THRESHOLD THEN "core" ELSE "chunks", 0, 0, 0, p.nn - p.dn, p.dn)
                    EXCEPT !.was = p.num]>>
    /\ ret = NoReturn

Entered(f) == [f EXCEPT !.was = Value(np, f.n, f.qn + f.dn)]

Return(qh) ==
  /\ ret' = qh
  /\ stack' = Append(Below, [Top EXCEPT !.pc = "done", !.qh = qh])

(* The caller takes the result, or the wrapper is done. *)
Leave ==
  /\ stack # << >> /\ Top.pc = "done"
  /\ stack' = Below
  /\ UNCHANGED <<np, qp, dp, v, ret>>

-----------------------------------------------------------------------------
(* Schoolbook: divrem_core ("core") and blk_sbpi1 ("sb") *)

SbStart ==
  /\ At({"sb", "core"}, "start")
  /\ LET f == Top
         s == SubN(np, f.n + f.qn, f.dn, Den(f))
         qh == IF f.fn = "sb" /\ s.out = 0 THEN 1 ELSE 0
     IN  /\ np' = IF qh = 1 THEN s.to ELSE np
         /\ Becomes([f EXCEPT !.pc = "turn", !.qh = qh])
  /\ UNCHANGED <<qp, dp, v, ret>>

(* The blocks div3by2 looks at in the turn of quotient block j. *)
N2(f, j) == np[f.n + j + f.dn]
N1(f, j) == np[f.n + j + f.dn - 1]
N0(f, j) == np[f.n + j + f.dn - 2]
D1(f) == dp[f.d + f.dn - 1]
D0(f) == dp[f.d + f.dn - 2]
Rare_never(f, j) == FALSE
Rare(f, j) == N2(f, j) = D1(f)

RareTurn ==
  /\ At({"sb", "core"}, "turn") /\ Top.j > 0
  /\ LET f == Top
         j == f.j - 1
         s == SubN(np, f.n + j, f.dn, (Beta - 1) * Den(f))
         top == N2(f, j) - s.out
     IN  /\ Rare(f, j)
         /\ np' = s.to
         /\ Becomes([f EXCEPT !.j = j, !.qhat = Beta - 1, !.top = top % Beta,
                             !.cy = IF top < 0 THEN 1 ELSE 0, !.pc = "rare", !.adds = 0])
  /\ UNCHANGED <<qp, dp, v, ret>>

Estimate(f, j) == Div3by2(N2(f, j), N1(f, j), N0(f, j), D1(f), D0(f), v)

UsualTurn ==
  /\ At({"sb", "core"}, "turn") /\ Top.j > 0
  /\ LET f == Top
         j == f.j - 1
         e == Estimate(f, j)
         s == SubN(np, f.n + j, f.dn - 2, e.q * Value(dp, f.d, f.dn - 2))
         r == e.r - s.out
     IN  /\ ~Rare(f, j)
         /\ np' = Put(s.to, f.n + j + f.dn - 2, 2, r % (Beta * Beta))
         /\ Becomes([f EXCEPT !.j = j, !.qhat = e.q, !.cy = IF r < 0 THEN 1 ELSE 0,
                             !.pc = "usual", !.adds = 0])
  /\ UNCHANGED <<qp, dp, v, ret>>

Counted(adds) == IF adds < 3 THEN adds + 1 ELSE adds

AddBackSb ==
  /\ \E pc \in {"rare", "usual"} : At({"sb", "core"}, pc)
  /\ Top.cy > 0
  /\ LET f == Top
         a == AddN(np, f.n + f.j, f.dn, Den(f))
         carry == IF f.pc = "usual" THEN a.out ELSE (f.top + a.out) \div Beta
     IN  /\ np' = a.to
         /\ Becomes([f EXCEPT !.qhat = (@ - 1) % Beta, !.cy = @ - carry, !.adds = Counted(@),
                             !.top = IF f.pc = "usual" THEN @ ELSE (@ + a.out) % Beta])
  /\ UNCHANGED <<qp, dp, v, ret>>

StoreBlock ==
  /\ \E pc \in {"rare", "usual"} : At({"sb", "core"}, pc)
  /\ Top.cy = 0
  /\ qp' = [qp EXCEPT ![Top.q + Top.j] = Top.qhat]
  /\ np' = IF Top.fn = "sb" THEN [np EXCEPT ![Top.n + Top.j + Top.dn] = 0] ELSE np
  /\ Becomes([Top EXCEPT !.pc = "turn", !.top = None])
  /\ UNCHANGED <<dp, v, ret>>

SbReturn ==
  /\ At({"sb", "core"}, "turn") /\ Top.j = 0
  /\ Return(Top.qh)
  /\ UNCHANGED <<np, qp, dp, v>>

-----------------------------------------------------------------------------
(* blk_dcpi1_div_qr_n ("dcn"): 2 dn by dn blocks *)

(* The high half of the quotient, from the high half of the divisor. *)
DcHigh ==
  /\ At({"dcn"}, "start")
  /\ LET f == Top
     IN  Calls([f EXCEPT !.pc = "cross high"],
               Entered(Frame(Divider(High(f)), f.q + Low(f), f.n + 2 * Low(f), f.d + Low(f),
                             High(f), High(f))))
  /\ UNCHANGED <<np, qp, dp, v, ret>>

(* What a quotient half found too much: its product with the rest of the    *)
(* divisor, of restLen blocks at the divisor's low end, and qh times it.    *)
Cross_without_qh(f, at, q, qlen, restLen) ==
  SubN(np, at, f.dn, Value(qp, q, qlen) * Value(dp, f.d, restLen))
Cross(f, at, q, qlen, restLen) ==
  LET rest == Value(dp, f.d, restLen)
      s == SubN(np, at, f.dn, Value(qp, q, qlen) * rest)
      t == SubN(s.to, at + qlen, restLen, rest)
  IN  IF ret = 1 THEN [to |-> t.to, out |-> s.out + t.out] ELSE s

DcCrossHigh ==
  /\ At({"dcn"}, "cross high")
  /\ LET f == Top
         c == Cross(f, f.n + Low(f), f.q + Low(f), High(f), Low(f))
     IN  /\ np' = c.to
         /\ Becomes([f EXCEPT !.pc = "fix high", !.qh = ret, !.cy = c.out, !.adds = 0])
  /\ ret' = NoReturn
  /\ UNCHANGED <<qp, dp, v>>

(* The quotient half is one too large: block_sub_1 and block_add_n.  qh     *)
(* takes the borrow, except for the low half's, whose qh is not kept.       *)
AddBackDc(pc, at, q, qlen) ==
  /\ At({"dcn", "chunk"}, pc)
  /\ Top.cy > 0
  /\ LET f == Top
         s == SubN(qp, q, qlen, 1)
         a == AddN(np, at, f.dn, Den(f))
     IN  /\ qp' = s.to
         /\ np' = a.to
         /\ Becomes([f EXCEPT !.cy = @ - a.out, !.adds = Counted(@),
                             !.qh = IF pc = "fix low" THEN @ ELSE @ - s.out])
  /\ UNCHANGED <<dp, v, ret>>

DcFixHigh == AddBackDc("fix high", Top.n + Low(Top), Top.q + Low(Top), High(Top))

DcLow ==
  /\ At({"dcn"}, "fix high") /\ Top.cy = 0
  /\ LET f == Top
     IN  Calls([f EXCEPT !.pc = "cross low"],
               Entered(Frame(Divider(Low(f)), f.q, f.n + High(f), f.d + High(f), Low(f), Low(f))))
  /\ UNCHANGED <<np, qp, dp, v, ret>>

DcCrossLow ==
  /\ At({"dcn"}, "cross low")
  /\ LET f == Top
         c == Cross(f, f.n, f.q, Low(f), High(f))
     IN  /\ np' = c.to
         /\ Becomes([f EXCEPT !.pc = "fix low", !.cy = c.out, !.adds = 0])
  /\ ret' = NoReturn
  /\ UNCHANGED <<qp, dp, v>>

DcFixLow == AddBackDc("fix low", Top.n, Top.q, Low(Top))

DcReturn ==
  /\ At({"dcn"}, "fix low") /\ Top.cy = 0
  /\ Return(Top.qh)
  /\ UNCHANGED <<np, qp, dp, v>>

-----------------------------------------------------------------------------
(* blk_chunk_divide ("chunk"): qn blocks of quotient, at most dn *)

ChunkStart ==
  /\ At({"chunk"}, "start")
  /\ LET f == Top
         k == f.dn - f.qn
         small == Frame("sb", f.q, f.n, f.d, f.qn, f.dn)
         large == Frame("dcn", f.q, f.n + k, f.d + k, f.qn, f.qn)
     IN  Calls([f EXCEPT !.pc = IF f.qn < DC_THRESHOLD \/ k = 0 THEN "pass" ELSE "cross"],
               Entered(IF f.qn < DC_THRESHOLD THEN small ELSE large))
  /\ UNCHANGED <<np, qp, dp, v, ret>>

ChunkPass ==
  /\ At({"chunk"}, "pass")
  /\ Return(ret)
  /\ UNCHANGED <<np, qp, dp, v>>

ChunkCross ==
  /\ At({"chunk"}, "cross")
  /\ LET f == Top
         c == Cross(f, f.n, f.q, f.qn, f.dn - f.qn)
     IN  /\ np' = c.to
         /\ Becomes([f EXCEPT !.pc = "fix", !.qh = ret, !.cy = c.out, !.adds = 0])
  /\ ret' = NoReturn
  /\ UNCHANGED <<qp, dp, v>>

ChunkFix == AddBackDc("fix", Top.n, Top.q, Top.qn)

ChunkReturn ==
  /\ At({"chunk"}, "fix") /\ Top.cy = 0
  /\ Return(Top.qh)
  /\ UNCHANGED <<np, qp, dp, v>>

-----------------------------------------------------------------------------
(* blk_dcpi1_div_qr ("chunks") *)

FirstChunk(qn, dn) == IF qn % dn = 0 THEN dn ELSE qn % dn

ChunksStart ==
  /\ At({"chunks"}, "start")
  /\ LET f == Top
         c == FirstChunk(f.qn, f.dn)
         p == f.qn - c
     IN  Calls([f EXCEPT !.pc = "first", !.j = p],
               Entered(Frame("chunk", f.q + p, f.n + p, f.d, c, f.dn)))
  /\ UNCHANGED <<np, qp, dp, v, ret>>

ChunksFirst ==
  /\ At({"chunks"}, "first")
  /\ Becomes([Top EXCEPT !.pc = "next", !.qh = ret])
  /\ ret' = NoReturn
  /\ UNCHANGED <<np, qp, dp, v>>

ChunksNext ==
  /\ At({"chunks"}, "next") /\ Top.j > 0
  /\ LET f == Top
         p == f.j - f.dn
     IN  Calls([f EXCEPT !.j = p],
               Entered(Frame("dcn", f.q + p, f.n + p, f.d, f.dn, f.dn)))
  /\ UNCHANGED <<np, qp, dp, v, ret>>

ChunksReturn ==
  /\ At({"chunks"}, "next") /\ Top.j = 0
  /\ Return(Top.qh)
  /\ UNCHANGED <<np, qp, dp, v>>

Schoolbook == SbStart \/ RareTurn \/ UsualTurn \/ AddBackSb \/ StoreBlock \/ SbReturn
Recursion == DcHigh \/ DcCrossHigh \/ DcFixHigh \/ DcLow \/ DcCrossLow \/ DcFixLow \/ DcReturn
Chunks == ChunkStart \/ ChunkPass \/ ChunkCross \/ ChunkFix \/ ChunkReturn
            \/ ChunksStart \/ ChunksFirst \/ ChunksNext \/ ChunksReturn

Next == Schoolbook \/ Recursion \/ Chunks \/ Leave

Spec == Init /\ [][Next]_vars
FairSpec == Spec /\ WF_vars(Next)

-----------------------------------------------------------------------------
(* Properties *)

(* Every call, at every level, keeps its promise when it returns: dividend  *)
(* = (qh, quotient) * divisor + remainder, the remainder below the divisor  *)
(* and qh a bit.  It is what allows the callers to go on from the halves,   *)
(* and blk_dcpi1_div_qr to ignore the qh of all chunks but the first.       *)
Divides ==
  (stack # << >> /\ Top.pc = "done") =>
    LET f == Top
        rest == Value(np, f.n, f.dn)
    IN  /\ f.qh \in {0, 1}
        /\ rest < Den(f)
        /\ f.was - rest = (f.qh * P(f.qn) + Value(qp, f.q, f.qn)) * Den(f)

(* div3by2 is only asked what it can answer - its two top blocks are below  *)
(* the divisor's - and then answers exactly, from an exact seed.            *)
(* So the add-back loops are short: a quotient block is at most one too      *)
(* large, Beta - 1 for an equal top block included, and a half of blocks two *)
(* ("R<0 => Q too big; <= 2 iters", dc_div_design.md).                      *)
EstimateExact ==
  /\ (At({"sb", "core"}, "turn") /\ Top.j > 0 /\ ~Rare(Top, Top.j - 1)) =>
       LET f == Top
           j == f.j - 1
           D == D1(f) * Beta + D0(f)
           e == Estimate(f, j)
       IN  /\ N2(f, j) * Beta + N1(f, j) < D
           /\ e.q \in 0 .. Beta - 1 /\ e.r \in 0 .. D - 1
           /\ (N2(f, j) * Beta + N1(f, j)) * Beta + N0(f, j) = e.q * D + e.r
  /\ \A k \in 1 .. Len(stack) : stack[k].adds <= IF stack[k].fn \in {"sb", "core"} THEN 1 ELSE 2

(* The while(b) and while(cy) loops and the recursion end. *)
Terminates == <>(stack = << >>)
=============================================================================
