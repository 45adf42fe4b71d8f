------------------------------ MODULE Scratch ------------------------------
(***************************************************************************)
(* The per-thread two-tier scratch arena of include/scratch.h.             *)
(*                                                                         *)
(* A tier is one bump region over an mmap reservation.  Addresses are      *)
(* offsets from the region's base, counted in cells; a cell holds 0 or the *)
(* number of the live block whose owner wrote it last (so stale data keeps *)
(* the number it was written with).  The arena is thread-local             *)
(* (scratch__tls), so one thread is the whole system; the actors are its   *)
(* nested scopes and the kernel's mmap/madvise/mprotect.                   *)
(***************************************************************************)
EXTENDS Integers, Sequences

CONSTANTS
  SCRATCH_ALIGN,     \* alignment of the stack tier
  PAGE,              \* page_size: routing threshold, alignment of the heap tier
  OsPage,            \* the 4096 of scratch__commit and region_trim
  HugePage,          \* the kernel's huge page
  StackReserve, HeapReserve,
  HugeTiers,         \* tiers created with SCRATCH_PAGES_HUGETLB
  ExplicitCommit,    \* SCRATCH_EXPLICIT_COMMIT
  Sizes,             \* request sizes
  MaxScopes,         \* bound: nested SCRATCH(s) guards
  MaxBlocks          \* bound: live blocks

Tiers == {"stack", "heap"}

(* The code rounds with & ~(a - 1), so its alignments are powers of two; *)
(* rounding by the remainder is the same there and defined for any a.    *)
ASSUME ScratchAssumption ==
  /\ SCRATCH_ALIGN \in Nat \ {0} /\ PAGE \in Nat \ {0}
  /\ OsPage \in Nat \ {0} /\ HugePage \in Nat \ {0}
  /\ StackReserve \in Nat /\ HeapReserve \in Nat
  /\ HugeTiers \subseteq Tiers
  /\ ExplicitCommit \in BOOLEAN
  /\ Sizes \subseteq Nat
  /\ MaxScopes \in Nat /\ MaxBlocks \in Nat

Reserve == [t \in Tiers |-> IF t = "stack" THEN StackReserve ELSE HeapReserve]
Cells(t) == 0 .. Reserve[t] - 1

VARIABLES
  status,    \* scratch__tls_ready, and "aborted" after SCRATCH_OOM
  at,        \* region.at per tier
  dirty,     \* region.dirty per tier
  commit,    \* region.commit per tier (SCRATCH_EXPLICIT_COMMIT)
  huge,      \* whether the tier's mapping is really hugetlb
  mem,       \* contents of the reservation
  marks,     \* the open scratch_marks: both bump pointers, and the live blocks below
  live       \* the callers' blocks, oldest first

region == <<at, dirty, commit, huge>>
vars == <<status, at, dirty, commit, huge, mem, marks, live>>

Block(t, p, n, zeroed) ==
  [tier |-> t, lo |-> p, hi |-> p + n, scope |-> Len(marks),
   state |-> IF zeroed THEN "zeroed" ELSE "raw"]
BlockStates == {"raw", "zeroed", "written"}
Span(b) == b.lo .. b.hi - 1

-----------------------------------------------------------------------------
(* Helpers *)

AlignUp_off_by_one(p, a) == (p + a) - ((p + a) % a) - 1
AlignUp(p, a) == (p + (a - 1)) - ((p + (a - 1)) % a)

Route(n) == IF n < PAGE THEN "stack" ELSE "heap"
AlignOf(t) == IF t = "stack" THEN SCRATCH_ALIGN ELSE PAGE

Start(t) == AlignUp(at[t], AlignOf(t))

(* scratch__commit *)
Committed_unclamped(t, upto) == AlignUp(upto, OsPage)
Committed_of_start(t, upto) == AlignUp(Start(t), OsPage)
Committed(t, upto) ==
  LET newc == AlignUp(upto, OsPage)
  IN  IF newc > Reserve[t] THEN Reserve[t] ELSE newc

(* The kernel: MADV_DONTNEED discards anonymous pages; on a hugetlb mapping *)
(* it is refused unless the address is a huge-page boundary.               *)
DontNeedWorks(t, from) == huge[t] => from % HugePage = 0

-----------------------------------------------------------------------------
(* Creation and release of the thread's arena *)

Init ==
  /\ status = "absent"
  /\ at = [t \in Tiers |-> 0] /\ dirty = [t \in Tiers |-> 0]
  /\ commit = [t \in Tiers |-> 0] /\ huge = [t \in Tiers |-> FALSE]
  /\ mem = [t \in Tiers |-> [c \in Cells(t) |-> 0]]
  /\ marks = << >> /\ live = << >>

(* scratch_thread() on first use: region_create twice.  The kernel may have *)
(* no huge pages, and then the tier falls back to an anonymous mapping.     *)
Create ==
  /\ status = "absent"
  /\ status' = "ready"
  /\ huge' \in {h \in [Tiers -> BOOLEAN] : \A t \in Tiers : h[t] => t \in HugeTiers}
  /\ at' = [t \in Tiers |-> 0] /\ dirty' = [t \in Tiers |-> 0]
  /\ commit' = [t \in Tiers |-> IF huge'[t] THEN Reserve[t] ELSE 0]
  /\ mem' = [t \in Tiers |-> [c \in Cells(t) |-> 0]]
  /\ UNCHANGED <<marks, live>>

(* region_create: the kernel refuses to map a reservation (SCRATCH_OOM). *)
CreateFails ==
  /\ status = "absent"
  /\ status' = "aborted"
  /\ UNCHANGED <<region, mem, marks, live>>

(* scratch_thread_release(), by a caller that holds no open scope. *)
Release ==
  /\ status = "ready" /\ marks = << >>
  /\ status' = "absent"
  /\ at' = [t \in Tiers |-> 0] /\ dirty' = [t \in Tiers |-> 0]
  /\ commit' = [t \in Tiers |-> 0] /\ huge' = [t \in Tiers |-> FALSE]
  /\ live' = << >>
  /\ UNCHANGED <<mem, marks>>

-----------------------------------------------------------------------------
(* Allocation *)

(* region_alloc: what it does to the region record for n cells of tier t. *)
Bump_dirty_stays(t, n) ==
  LET next == Start(t) + n
  IN  /\ next <= Reserve[t]
      /\ commit' = commit
      /\ at' = [at EXCEPT ![t] = next]
      /\ dirty' = dirty
Bump(t, n) ==
  LET next == Start(t) + n
  IN  /\ next <= Reserve[t]
      /\ commit' = IF ExplicitCommit /\ next > commit[t]
                   THEN [commit EXCEPT ![t] = Committed(t, next)] ELSE commit
      /\ at' = [at EXCEPT ![t] = next]
      /\ dirty' = [dirty EXCEPT ![t] = IF next > @ THEN next ELSE @]

(* region_alloc_zeroed clears only the part of the block below the old dirty. *)
Cleared_last_cell_missed(t, p, n) == {c \in p .. p + n - 2 : c < dirty[t]}
Cleared(t, p, n) == {c \in p .. p + n - 1 : c < dirty[t]}

Alloc(n) ==
  LET t == Route(n)
  IN  /\ status = "ready" /\ Len(live) < MaxBlocks
      /\ Bump(t, n)
      /\ live' = Append(live, Block(t, Start(t), n, FALSE))
      /\ UNCHANGED <<status, huge, mem, marks>>

AllocZeroed(n) ==
  LET t == Route(n)
      p == Start(t)
  IN  /\ status = "ready" /\ Len(live) < MaxBlocks
      /\ Bump(t, n)
      /\ mem' = [mem EXCEPT ![t] =
                   [c \in Cells(t) |-> IF c \in Cleared(t, p, n) THEN 0 ELSE @[c]]]
      /\ live' = Append(live, Block(t, p, n, TRUE))
      /\ UNCHANGED <<status, huge, marks>>

(* SCRATCH_OOM: the tier is exhausted, or mprotect refuses to commit more. *)
Exhausted(n) ==
  LET next == Start(Route(n)) + n
  IN  /\ status = "ready"
      /\ next > Reserve[Route(n)] \/ (ExplicitCommit /\ next > commit[Route(n)])
      /\ status' = "aborted"
      /\ UNCHANGED <<region, mem, marks, live>>

(* The owner of block i fills it. *)
Write(i) ==
  LET b == live[i]
  IN  /\ status = "ready"
      /\ mem' = [mem EXCEPT ![b.tier] =
                   [c \in Cells(b.tier) |-> IF c \in Span(b) THEN i ELSE @[c]]]
      /\ live' = [live EXCEPT ![i].state = "written"]
      /\ UNCHANGED <<status, region, marks>>

-----------------------------------------------------------------------------
(* Scopes and trimming *)

(* SCRATCH(s): scratch_save. *)
Save ==
  /\ status = "ready" /\ Len(marks) < MaxScopes
  /\ marks' = Append(marks, [at |-> at, blocks |-> Len(live)])
  /\ UNCHANGED <<status, region, mem, live>>

(* Scope exit, run by the cleanup attribute: innermost mark first. *)
Restored_one_tier(m) == [at EXCEPT !["stack"] = m.at["stack"]]
Restored(m) == m.at

Restore ==
  LET m == marks[Len(marks)]
  IN  /\ status = "ready" /\ marks # << >>
      /\ at' = Restored(m)
      /\ marks' = SubSeq(marks, 1, Len(marks) - 1)
      /\ live' = SubSeq(live, 1, m.blocks)
      /\ UNCHANGED <<status, dirty, commit, huge, mem>>

(* scratch_trim: both tiers; dirty comes down whatever madvise answered. *)
TrimFrom_rounded_down(t) == at[t] - (at[t] % OsPage)
TrimFrom(t) == AlignUp(at[t], OsPage)

Trim ==
  /\ status = "ready"
  /\ mem' = [t \in Tiers |-> [c \in Cells(t) |->
               IF /\ dirty[t] > TrimFrom(t) /\ DontNeedWorks(t, TrimFrom(t))
                  /\ TrimFrom(t) <= c /\ c < AlignUp(dirty[t], OsPage)
               THEN 0 ELSE mem[t][c]]]
  /\ dirty' = [t \in Tiers |-> IF dirty[t] > TrimFrom(t) THEN TrimFrom(t) ELSE dirty[t]]
  /\ UNCHANGED <<status, at, commit, huge, marks, live>>

Next ==
  \/ Create \/ CreateFails \/ Release \/ Save \/ Restore \/ Trim
  \/ \E n \in Sizes : Alloc(n) \/ AllocZeroed(n) \/ Exhausted(n)
  \/ \E i \in 1 .. Len(live) : Write(i)

Spec == Init /\ [][Next]_vars

-----------------------------------------------------------------------------
(* Properties *)

BlockSet == [tier : Tiers, lo : Nat, hi : Nat, scope : Nat, state : BlockStates]
MarkSet == [at : [Tiers -> Nat], blocks : Nat]

(* Types and ranges of the region records: no pointer leaves [base, cap]. *)
TypeOK ==
  /\ status \in {"absent", "ready", "aborted"}
  /\ at \in [Tiers -> Nat] /\ dirty \in [Tiers -> Nat] /\ commit \in [Tiers -> Nat]
  /\ \A t \in Tiers : at[t] <= Reserve[t] /\ dirty[t] <= Reserve[t] /\ commit[t] <= Reserve[t]
  /\ huge \in [Tiers -> BOOLEAN]
  /\ DOMAIN mem = Tiers
  /\ \A t \in Tiers : mem[t] \in [Cells(t) -> Nat]
  /\ marks \in Seq(MarkSet)
  /\ live \in Seq(BlockSet)

(* "[dirty,cap) is kernel-zero" (the comment on region.dirty): the licence  *)
(* by which region_alloc_zeroed skips its memset.                          *)
ZeroAboveDirty ==
  status = "ready" =>
    \A t \in Tiers : \A c \in Cells(t) : c >= dirty[t] => mem[t][c] = 0

(* What a caller holds is what it put there, whatever other scopes allocate, *)
(* write, leave or trim: a zeroed block is zero until its owner writes it,   *)
(* a written block keeps its owner's data.                                   *)
BlocksIntact ==
  status = "ready" =>
    \A i \in 1 .. Len(live) : \A c \in Span(live[i]) :
      /\ live[i].state = "zeroed" => mem[live[i].tier][c] = 0
      /\ live[i].state = "written" => mem[live[i].tier][c] = i

(* Live blocks are aligned for their tier, lie below the bump pointer and  *)
(* never overlap: an older block of the same tier ends before a newer one. *)
BlocksSeparate ==
  \A i \in 1 .. Len(live) :
    /\ live[i].lo % AlignOf(live[i].tier) = 0
    /\ live[i].lo <= live[i].hi
    /\ live[i].hi <= at[live[i].tier]
    /\ \A j \in 1 .. i - 1 :
         live[j].tier = live[i].tier => live[j].hi <= live[i].lo

(* Leaving scopes leaks nothing: the bump pointer of a tier is the end of its *)
(* newest live block, or its base when none is left.                          *)
NoLeak ==
  \A t \in Tiers :
    LET mine == {i \in 1 .. Len(live) : live[i].tier = t}
    IN  IF mine = {} THEN at[t] = 0
        ELSE \E i \in mine : at[t] = live[i].hi /\ \A j \in mine : j <= i

(* Under SCRATCH_EXPLICIT_COMMIT every cell of a live block is committed, *)
(* so that touching it cannot fault.                                      *)
LiveCommitted ==
  ExplicitCommit => \A i \in 1 .. Len(live) : live[i].hi <= commit[live[i].tier]

(* The arena implements the scoped store: buffers without addresses. *)
Contents(b) == [k \in 0 .. b.hi - b.lo - 1 |-> mem[b.tier][b.lo + k]]
Store == INSTANCE ScopedStore WITH
           running <- status,
           depth   <- Len(marks),
           buffers <- [i \in 1 .. Len(live) |->
                         [scope |-> live[i].scope, state |-> live[i].state,
                          data |-> Contents(live[i])]]
ImplementsScopedStore == Store!StoreSpec
=============================================================================
