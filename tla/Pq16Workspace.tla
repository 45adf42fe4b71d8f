--------------------------- MODULE Pq16Workspace ---------------------------
(***************************************************************************)
(* Where pq16_mul_r of include/pq16.h puts its buffers: one allocation of  *)
(* the caller's scratch arena for both spectra, aligned by hand, and three *)
(* more for the centred band.  Addresses are bytes of a tier; the arena    *)
(* routes by size and aligns to 64 bytes or to a page (scratch.h, salloc). *)
(***************************************************************************)
EXTENDS Integers

CONSTANTS
  Align,     \* SCRATCH_ALIGN
  Page       \* the arena's page_size: routing threshold and heap alignment

ASSUME WorkspaceAssumption ==
  /\ Align \in Nat \ {0} /\ Align % 8 = 0
  /\ Page \in Nat \ {0} /\ Page % 8 = 0

RoundUp(p, a) == (p + (a - 1)) - ((p + (a - 1)) % a)

(* at: the bump pointers of both tiers *)
salloc(at, bytes) ==
  LET tier == IF bytes < Page THEN "stack" ELSE "heap"
      lo == RoundUp(at[tier], IF tier = "stack" THEN Align ELSE Page)
  IN  [tier |-> tier, lo |-> lo, hi |-> lo + bytes, at |-> [at EXCEPT ![tier] = lo + bytes]]

(* The two spectra in one block: 2 nfull doubles each, 32 doubles between.    *)
spectra_unaligned(daw, nfull) ==  \* the block is used from its start
  LET db == daw + 8 * (2 * nfull + 32)
  IN  [da |-> [lo |-> daw, hi |-> daw + 16 * nfull], db |-> [lo |-> db, hi |-> db + 16 * nfull]]
spectra(daw, nfull) ==
  LET da == (daw + 127) - ((daw + 127) % 128)
      db == da + 8 * (2 * nfull + 32)
  IN  [da |-> [lo |-> da, hi |-> da + 16 * nfull], db |-> [lo |-> db, hi |-> db + 16 * nfull]]

(* Every allocation of a call, in order, with the parts that are used. *)
workspace(at, nfull, rl, cen) ==
  LET daw == salloc(at, 8 * (4 * nfull + 48))
      ca == salloc(daw.at, 8 * (nfull \div 2 + 8))
      cb == salloc(ca.at, 8 * (nfull \div 2 + 8))
      cr == salloc(cb.at, 8 * (rl + 8))
      both == spectra(daw.lo, nfull)
      Used(block, bytes) == [block |-> block, lo |-> block.lo, hi |-> block.lo + bytes]
      twoParts == {[block |-> daw, lo |-> both.da.lo, hi |-> both.da.hi],
                   [block |-> daw, lo |-> both.db.lo, hi |-> both.db.hi]}
  IN  IF cen THEN [at |-> cr.at,
                   parts |-> twoParts \cup {Used(ca, 4 * nfull), Used(cb, 4 * nfull), Used(cr, 8 * rl)}]
      ELSE [at |-> daw.at, parts |-> twoParts]

-----------------------------------------------------------------------------
(* Spectra start at whole tiles of 128 bytes, lie in the block that was asked *)
(* for and do not meet (pq16.h:1960-1968).                                    *)
SpectraFit(daw, bytes, both) ==
  /\ both.da.lo % 128 = 0 /\ both.db.lo % 128 = 0
  /\ daw <= both.da.lo /\ both.da.hi <= both.db.lo /\ both.db.hi <= daw + bytes

(* No two buffers meet, and none leaves its block. *)
Apart(x, y) == x.block.tier # y.block.tier \/ x.hi <= y.lo \/ y.hi <= x.lo
PartsFit(parts) ==
  /\ \A x \in parts : x.block.lo <= x.lo /\ x.hi <= x.block.hi
  /\ \A x, y \in parts : x # y => Apart(x, y)
=============================================================================
