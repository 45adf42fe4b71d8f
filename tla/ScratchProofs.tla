--------------------------- MODULE ScratchProofs ---------------------------
(***************************************************************************)
(* The scratch arena keeps its callers' blocks intact, loses none, commits *)
(* what it hands out and implements the scoped store, for every alignment, *)
(* page size, reservation, set of request sizes and bound, and for lazy    *)
(* and explicit commit alike, as long as no tier is backed by hugetlb      *)
(* pages (with them region_trim breaks the dirty invariant: run            *)
(* scratch_hugetlb).  At the end, the arena's largest customer: the        *)
(* buffers of pq16_mul_r lie apart inside their allocations.               *)
(***************************************************************************)
EXTENDS Scratch, Pq16Workspace, SequenceTheorems, TLAPS

(* Nothing is live and no scope is open before the arena exists. *)
IdleEmpty == status = "absent" => live = << >> /\ marks = << >>

NoHuge == \A t \in Tiers : ~huge[t]

MemIsFunction == mem = [t \in Tiers |-> mem[t]]

AtBelowDirty == \A t \in Tiers : at[t] <= dirty[t]

(* Open marks are nested, and the blocks below a mark end below its pointers. *)
MarksNested ==
  \A d \in 1 .. Len(marks) :
    /\ marks[d].blocks <= Len(live)
    /\ \A t \in Tiers : marks[d].at[t] <= at[t]
    /\ \A i \in 1 .. marks[d].blocks : live[i].hi <= marks[d].at[live[i].tier]
    /\ \A e \in 1 .. d - 1 :
         /\ marks[e].blocks <= marks[d].blocks
         /\ \A t \in Tiers : marks[e].at[t] <= marks[d].at[t]

IInv ==
  /\ TypeOK /\ IdleEmpty /\ NoHuge /\ MemIsFunction
  /\ AtBelowDirty /\ ZeroAboveDirty
  /\ BlocksSeparate /\ BlocksIntact /\ MarksNested

-----------------------------------------------------------------------------
(* Arithmetic of the bump pointer *)

(* Aligning up never moves down, and lands on a multiple (scratch__align_up). *)
LEMMA AlignUpBounds ==
  ASSUME NEW p \in Nat, NEW a \in Nat \ {0}
  PROVE  /\ AlignUp(p, a) \in Nat
         /\ p <= AlignUp(p, a)
         /\ AlignUp(p, a) % a = 0
<1> DEFINE x == p + (a - 1)
           r == x % a
<1>1. x \in Nat /\ r \in 0 .. a - 1
  OBVIOUS
<1>2. AlignUp(p, a) = x - r
  BY DEF AlignUp
<1>3. (x - r) % a = 0
  OBVIOUS
<1> QED BY <1>1, <1>2, <1>3

LEMMA ReserveType == \A t \in Tiers : Reserve[t] \in Nat /\ AlignOf(t) \in Nat \ {0}
BY ScratchAssumption DEF Reserve, AlignOf, Tiers

(* What region_alloc does to the region record. *)
LEMMA BumpEffect ==
  ASSUME TypeOK, AtBelowDirty, NEW t \in Tiers, NEW n \in Nat, Bump(t, n)
  PROVE  /\ Start(t) \in Nat /\ at[t] <= Start(t) /\ Start(t) % AlignOf(t) = 0
         /\ at' = [at EXCEPT ![t] = Start(t) + n]
         /\ Start(t) + n <= Reserve[t]
         /\ at' \in [Tiers -> Nat] /\ \A u \in Tiers : at'[u] <= Reserve[u] /\ at[u] <= at'[u]
         /\ dirty' \in [Tiers -> Nat]
         /\ \A u \in Tiers : dirty'[u] <= Reserve[u] /\ dirty[u] <= dirty'[u] /\ at'[u] <= dirty'[u]
         /\ commit' \in [Tiers -> Nat] /\ \A u \in Tiers : commit'[u] <= Reserve[u]
<1>1. /\ Start(t) \in Nat /\ at[t] <= Start(t) /\ Start(t) % AlignOf(t) = 0
  BY AlignUpBounds, ReserveType DEF Start, TypeOK
<1>2. at' = [at EXCEPT ![t] = Start(t) + n] /\ Start(t) + n <= Reserve[t]
  BY DEF Bump
<1>3. at' \in [Tiers -> Nat] /\ \A u \in Tiers : at'[u] <= Reserve[u] /\ at[u] <= at'[u]
  BY SMTT(40), <1>1, <1>2, ReserveType DEF TypeOK
<1>4. /\ dirty' \in [Tiers -> Nat]
      /\ \A u \in Tiers : dirty'[u] <= Reserve[u] /\ dirty[u] <= dirty'[u] /\ at'[u] <= dirty'[u]
  <2>1. dirty' = [dirty EXCEPT ![t] = IF Start(t) + n > @ THEN Start(t) + n ELSE @]
    BY DEF Bump
  <2>2. \A u \in Tiers : /\ at[u] \in Nat /\ dirty[u] \in Nat /\ Reserve[u] \in Nat
                         /\ dirty[u] <= Reserve[u] /\ at[u] <= dirty[u]
    BY ReserveType DEF TypeOK, AtBelowDirty
  <2>3. dirty \in [Tiers -> Nat] /\ at \in [Tiers -> Nat]
    BY DEF TypeOK
  <2>4. dirty' \in [Tiers -> Nat]
    BY <1>1, <2>1, <2>2, <2>3
  <2>5. \A u \in Tiers : /\ at'[u] = IF u = t THEN Start(t) + n ELSE at[u]
                         /\ dirty'[u] = IF u = t /\ Start(t) + n > dirty[u] THEN Start(t) + n ELSE dirty[u]
    BY <1>2, <2>1, <2>3
  <2>6. Start(t) + n \in Nat /\ Start(t) + n <= Reserve[t]
    BY <1>1, <1>2
  <2> DEFINE next == Start(t) + n
  <2> HIDE DEF next
  <2>7. next \in Nat /\ next <= Reserve[t]
    BY <2>6 DEF next
  <2>8. \A u \in Tiers : /\ at'[u] = IF u = t THEN next ELSE at[u]
                         /\ dirty'[u] = IF u = t /\ next > dirty[u] THEN next ELSE dirty[u]
    BY <2>5 DEF next
  <2>9. ASSUME NEW u \in Tiers
        PROVE  dirty'[u] <= Reserve[u] /\ dirty[u] <= dirty'[u] /\ at'[u] <= dirty'[u]
    <3>1. CASE u = t
      BY <3>1, <2>2, <2>7, <2>8
    <3>2. CASE u # t
      BY <3>2, <2>2, <2>8
    <3> QED BY <3>1, <3>2
  <2> QED BY <2>4, <2>9
<1>5. commit' \in [Tiers -> Nat] /\ \A u \in Tiers : commit'[u] <= Reserve[u]
  <2>1. AlignUp(Start(t) + n, OsPage) \in Nat
    BY <1>1, AlignUpBounds, ScratchAssumption
  <2>2. Committed(t, Start(t) + n) \in Nat /\ Committed(t, Start(t) + n) <= Reserve[t]
    BY <2>1, ReserveType DEF Committed
  <2> QED BY <2>2, ReserveType DEF TypeOK, Bump
<1> QED BY <1>1, <1>2, <1>3, <1>4, <1>5

(* Fields of the live blocks. *)
LEMMA LiveTypes ==
  ASSUME TypeOK
  PROVE  /\ Len(live) \in Nat
         /\ \A i \in 1 .. Len(live) :
              /\ live[i] \in BlockSet
              /\ live[i].tier \in Tiers /\ live[i].lo \in Nat /\ live[i].hi \in Nat
              /\ live[i].state \in BlockStates
<1>1. Len(live) \in Nat /\ \A i \in 1 .. Len(live) : live[i] \in BlockSet
  BY DEF TypeOK
<1> QED BY <1>1 DEF BlockSet

(* Fields of the open marks. *)
LEMMA MarkTypes ==
  ASSUME TypeOK
  PROVE  /\ Len(marks) \in Nat
         /\ \A d \in 1 .. Len(marks) :
              /\ marks[d] \in MarkSet
              /\ marks[d].at \in [Tiers -> Nat] /\ marks[d].blocks \in Nat
<1>1. Len(marks) \in Nat /\ \A d \in 1 .. Len(marks) : marks[d] \in MarkSet
  BY DEF TypeOK
<1> QED BY <1>1 DEF MarkSet

(* The new block lies above the old bump pointer, hence above every live block. *)
LEMMA NewBlock ==
  ASSUME TypeOK, AtBelowDirty, BlocksSeparate, NEW t \in Tiers, NEW n \in Nat,
         NEW z \in BOOLEAN, Bump(t, n),
         live' = Append(live, Block(t, Start(t), n, z)), marks' = marks
  PROVE  /\ live' \in Seq(BlockSet) /\ Len(live') = Len(live) + 1
         /\ \A i \in 1 .. Len(live) : live'[i] = live[i]
         /\ live'[Len(live) + 1] = Block(t, Start(t), n, z)
         /\ BlocksSeparate'
<1> DEFINE b == Block(t, Start(t), n, z)
<1>0. /\ Start(t) \in Nat /\ at[t] <= Start(t) /\ Start(t) % AlignOf(t) = 0
      /\ at'[t] = Start(t) + n
      /\ \A u \in Tiers : at[u] \in Nat /\ at'[u] \in Nat /\ at[u] <= at'[u]
  BY BumpEffect DEF TypeOK
<1>1. b \in BlockSet
  BY <1>0 DEF Block, BlockSet, BlockStates, TypeOK
<1>2. /\ live' \in Seq(BlockSet) /\ Len(live') = Len(live) + 1
      /\ \A i \in 1 .. Len(live) : live'[i] = live[i]
      /\ live'[Len(live) + 1] = b
      /\ Len(live) \in Nat
  BY <1>1 DEF TypeOK
<1>3. b.tier = t /\ b.lo = Start(t) /\ b.hi = Start(t) + n
  BY DEF Block
<1>4. \A i \in 1 .. Len(live) :
        /\ live[i].tier \in Tiers /\ live[i].lo \in Nat /\ live[i].hi \in Nat
        /\ live[i].hi <= at[live[i].tier]
  BY LiveTypes DEF BlocksSeparate
<1>5. ASSUME NEW i \in 1 .. Len(live') PROVE
         /\ live'[i].lo % AlignOf(live'[i].tier) = 0
         /\ live'[i].lo <= live'[i].hi
         /\ live'[i].hi <= at'[live'[i].tier]
         /\ \A j \in 1 .. i - 1 :
              live'[j].tier = live'[i].tier => live'[j].hi <= live'[i].lo
  <2>1. CASE i \in 1 .. Len(live)
    <3>1. live'[i].hi <= at'[live'[i].tier]
      <4>1. /\ live'[i] = live[i] /\ live[i].tier \in Tiers /\ live[i].hi \in Nat
            /\ live[i].hi <= at[live[i].tier]
        BY <2>1, <1>2, <1>4
      <4>2. /\ at[live[i].tier] \in Nat /\ at'[live[i].tier] \in Nat
            /\ at[live[i].tier] <= at'[live[i].tier]
        BY <4>1, <1>0
      <4>3. live[i].hi <= at'[live[i].tier]
        BY <4>1, <4>2
      <4> QED BY <4>1, <4>3
    <3> QED BY <2>1, <3>1, <1>2 DEF BlocksSeparate
  <2>2. CASE i = Len(live) + 1
    <3>1. live'[i].lo = Start(t) /\ live'[i].hi = Start(t) + n /\ live'[i].tier = t
      BY <2>2, <1>2, <1>3
    <3>2. \A j \in 1 .. i - 1 : live'[j].tier = t => live'[j].hi <= Start(t)
      BY <2>2, <1>0, <1>2, <1>4
    <3> QED BY <3>1, <3>2, <1>0
  <2> QED BY <2>1, <2>2, <1>2
<1> QED BY <1>2, <1>5 DEF BlocksSeparate

-----------------------------------------------------------------------------
(* Every action preserves the invariant *)

LEMMA InitInv == Init => IInv
<1> SUFFICES ASSUME Init PROVE IInv
  OBVIOUS
<1>1. Len(live) = 0 /\ Len(marks) = 0 /\ live \in Seq(BlockSet) /\ marks \in Seq(MarkSet)
  BY DEF Init
<1>2. TypeOK
  BY <1>1, ReserveType DEF Init, TypeOK
<1>3. ZeroAboveDirty /\ BlocksSeparate /\ BlocksIntact /\ MarksNested
  BY <1>1 DEF Init, ZeroAboveDirty, BlocksSeparate, BlocksIntact, MarksNested
<1> QED BY <1>2, <1>3 DEF Init, IInv, IdleEmpty, NoHuge, MemIsFunction, AtBelowDirty

LEMMA CreateInv == ASSUME HugeTiers = {}, IInv, Create PROVE IInv'
<1>1. Len(live) = 0 /\ Len(marks) = 0 /\ live' = live /\ marks' = marks /\ live = << >> /\ marks = << >>
  BY DEF IInv, Create, IdleEmpty
<1>2. huge' \in [Tiers -> BOOLEAN] /\ NoHuge'
  BY DEF Create, NoHuge
<1>3. TypeOK'
  BY <1>1, <1>2, ReserveType DEF IInv, Create, TypeOK, NoHuge
<1>4. BlocksSeparate' /\ BlocksIntact' /\ MarksNested'
  BY <1>1 DEF BlocksSeparate, BlocksIntact, MarksNested
<1>5. ZeroAboveDirty' /\ AtBelowDirty' /\ MemIsFunction' /\ IdleEmpty'
  BY <1>1 DEF Create, ZeroAboveDirty, AtBelowDirty, MemIsFunction, IdleEmpty
<1> QED BY <1>2, <1>3, <1>4, <1>5 DEF IInv

LEMMA ReleaseInv == ASSUME IInv, Release PROVE IInv'
<1>1. Len(live') = 0 /\ Len(marks') = 0 /\ live' = << >> /\ marks' = << >> /\ live' \in Seq(BlockSet)
  BY DEF Release
<1>2. TypeOK'
  BY <1>1, ReserveType DEF IInv, Release, TypeOK
<1>3. BlocksSeparate' /\ BlocksIntact' /\ MarksNested'
  BY <1>1 DEF BlocksSeparate, BlocksIntact, MarksNested
<1>4. ZeroAboveDirty' /\ AtBelowDirty' /\ MemIsFunction' /\ IdleEmpty' /\ NoHuge'
  BY <1>1 DEF Release, ZeroAboveDirty, AtBelowDirty, MemIsFunction, IdleEmpty, NoHuge, IInv
<1> QED BY <1>2, <1>3, <1>4 DEF IInv

(* Marks stay nested when blocks are only appended and no pointer moves down. *)
LEMMA MarksKept ==
  ASSUME TypeOK, MarksNested, marks' = marks,
         Len(live') \in Nat, Len(live) <= Len(live'),
         \A i \in 1 .. Len(live) : live'[i].hi = live[i].hi /\ live'[i].tier = live[i].tier,
         at' \in [Tiers -> Nat], \A t \in Tiers : at[t] <= at'[t]
  PROVE  MarksNested'
<1> SUFFICES ASSUME NEW d \in 1 .. Len(marks)
             PROVE  /\ marks[d].blocks <= Len(live')
                    /\ \A t \in Tiers : marks[d].at[t] <= at'[t]
                    /\ \A i \in 1 .. marks[d].blocks : live'[i].hi <= marks[d].at[live'[i].tier]
                    /\ \A e \in 1 .. d - 1 :
                         /\ marks[e].blocks <= marks[d].blocks
                         /\ \A t \in Tiers : marks[e].at[t] <= marks[d].at[t]
  BY DEF MarksNested
<1>1. marks[d].blocks \in Nat /\ marks[d].at \in [Tiers -> Nat] /\ at \in [Tiers -> Nat] /\ Len(live) \in Nat
  BY MarkTypes, LiveTypes DEF TypeOK
<1>2. marks[d].blocks <= Len(live)
  BY DEF MarksNested
<1>3. \A t \in Tiers : marks[d].at[t] <= at'[t]
  BY <1>1 DEF MarksNested
<1>4. ASSUME NEW i \in 1 .. marks[d].blocks
      PROVE  live'[i].hi <= marks[d].at[live'[i].tier]
  <2>1. i \in 1 .. Len(live)
    BY <1>1, <1>2
  <2>2. live[i].hi <= marks[d].at[live[i].tier]
    BY DEF MarksNested
  <2> QED BY <2>1, <2>2
<1> QED BY <1>1, <1>2, <1>3, <1>4 DEF MarksNested

LEMMA AllocInv == ASSUME NEW n \in Sizes, IInv, Alloc(n) PROVE IInv'
<1> DEFINE t == Route(n)
<1> USE DEF IInv
<1>1. t \in Tiers /\ n \in Nat /\ Bump(t, n) /\ marks' = marks /\ mem' = mem
      /\ live' = Append(live, Block(t, Start(t), n, FALSE)) /\ status' = status /\ huge' = huge /\ status = "ready"
  BY ScratchAssumption DEF Route, Tiers, Alloc
<1>2. /\ live' \in Seq(BlockSet) /\ Len(live') = Len(live) + 1
      /\ \A i \in 1 .. Len(live) : live'[i] = live[i]
      /\ live'[Len(live) + 1] = Block(t, Start(t), n, FALSE)
      /\ BlocksSeparate'
  BY <1>1, NewBlock, Zenon
<1>3. /\ at' \in [Tiers -> Nat] /\ \A u \in Tiers : at'[u] <= Reserve[u] /\ at[u] <= at'[u]
      /\ dirty' \in [Tiers -> Nat]
      /\ \A u \in Tiers : dirty'[u] <= Reserve[u] /\ dirty[u] <= dirty'[u] /\ at'[u] <= dirty'[u]
      /\ commit' \in [Tiers -> Nat] /\ \A u \in Tiers : commit'[u] <= Reserve[u]
  BY <1>1, BumpEffect, Zenon
<1>4. TypeOK'
  BY <1>1, <1>2, <1>3 DEF TypeOK
<1>5. MarksNested'
  BY <1>1, <1>2, <1>3, MarksKept, LiveTypes
<1>6. ZeroAboveDirty'
  <2> SUFFICES ASSUME NEW u \in Tiers, NEW c \in Cells(u), c >= dirty'[u]
               PROVE  mem[u][c] = 0
    BY <1>1 DEF ZeroAboveDirty, Cells
  <2>1. c \in Int /\ dirty[u] \in Nat /\ dirty'[u] \in Nat /\ dirty[u] <= dirty'[u]
    BY <1>3, ReserveType DEF Cells, TypeOK
  <2> QED BY <2>1, <1>1 DEF ZeroAboveDirty
<1>7. BlocksIntact'
  <2> SUFFICES ASSUME NEW i \in 1 .. Len(live'), NEW c \in Span(live'[i])
               PROVE  /\ live'[i].state = "zeroed" => mem[live'[i].tier][c] = 0
                      /\ live'[i].state = "written" => mem[live'[i].tier][c] = i
    BY <1>1 DEF BlocksIntact, Span
  <2>1. CASE i \in 1 .. Len(live)
    BY ZenonT(60), <2>1, <1>1, <1>2 DEF BlocksIntact
  <2>2. CASE i = Len(live) + 1
    <3>1. live'[i].state = "raw"
      BY <2>2, <1>2 DEF Block
    <3> QED BY <3>1
  <2> QED BY <2>1, <2>2, <1>2, LiveTypes
<1>8. IdleEmpty' /\ NoHuge' /\ MemIsFunction' /\ AtBelowDirty'
  BY <1>1, <1>3 DEF IdleEmpty, NoHuge, MemIsFunction, AtBelowDirty
<1> QED BY <1>2, <1>4, <1>5, <1>6, <1>7, <1>8

(* The bytes of the new block that region_alloc_zeroed does not clear were     *)
(* never written: this is where the dirty invariant is needed.                 *)
LEMMA AllocZeroedInv == ASSUME NEW n \in Sizes, IInv, AllocZeroed(n) PROVE IInv'
<1> DEFINE t == Route(n)
           p == Start(t)
<1> USE DEF IInv
<1>1. t \in Tiers /\ n \in Nat /\ Bump(t, n) /\ marks' = marks
      /\ live' = Append(live, Block(t, p, n, TRUE)) /\ status' = status /\ huge' = huge /\ status = "ready"
      /\ mem' = [mem EXCEPT ![t] = [c \in Cells(t) |-> IF c \in Cleared(t, p, n) THEN 0 ELSE @[c]]]
  BY ScratchAssumption DEF Route, Tiers, AllocZeroed
<1>2. /\ live' \in Seq(BlockSet) /\ Len(live') = Len(live) + 1
      /\ \A i \in 1 .. Len(live) : live'[i] = live[i]
      /\ live'[Len(live) + 1] = Block(t, p, n, TRUE)
      /\ BlocksSeparate'
  BY <1>1, NewBlock, Zenon
<1>3. /\ at' \in [Tiers -> Nat] /\ \A u \in Tiers : at'[u] <= Reserve[u] /\ at[u] <= at'[u]
      /\ dirty' \in [Tiers -> Nat]
      /\ \A u \in Tiers : dirty'[u] <= Reserve[u] /\ dirty[u] <= dirty'[u] /\ at'[u] <= dirty'[u]
      /\ commit' \in [Tiers -> Nat] /\ \A u \in Tiers : commit'[u] <= Reserve[u]
      /\ p \in Nat /\ at[t] <= p /\ p + n <= Reserve[t]
  BY <1>1, BumpEffect, Zenon
<1>4. /\ mem' = [u \in Tiers |-> mem'[u]]
      /\ \A u \in Tiers : mem'[u] \in [Cells(u) -> Nat]
      /\ \A u \in Tiers : \A c \in Cells(u) :
           mem'[u][c] = IF u = t /\ c \in Cleared(t, p, n) THEN 0 ELSE mem[u][c]
  BY <1>1 DEF MemIsFunction, TypeOK
<1>5. TypeOK'
  <2>1. DOMAIN mem' = Tiers
    BY <1>4
  <2> QED BY <2>1, <1>1, <1>2, <1>3, <1>4 DEF TypeOK
<1>6. MarksNested'
  BY <1>1, <1>2, <1>3, MarksKept, LiveTypes
<1>7. ZeroAboveDirty'
  <2> SUFFICES ASSUME NEW u \in Tiers, NEW c \in Cells(u), c >= dirty'[u]
               PROVE  mem'[u][c] = 0
    BY <1>1 DEF ZeroAboveDirty, Cells
  <2>1. c \in Int /\ dirty[u] \in Nat /\ dirty'[u] \in Nat /\ dirty[u] <= dirty'[u]
    BY <1>3, ReserveType DEF Cells, TypeOK
  <2> QED BY <2>1, <1>1, <1>4 DEF ZeroAboveDirty
<1>8. BlocksIntact'
  <2> SUFFICES ASSUME NEW i \in 1 .. Len(live'), NEW c \in Span(live'[i])
               PROVE  /\ live'[i].state = "zeroed" => mem'[live'[i].tier][c] = 0
                      /\ live'[i].state = "written" => mem'[live'[i].tier][c] = i
    BY <1>1 DEF BlocksIntact, Span
  <2>1. CASE i \in 1 .. Len(live)
    <3>1. /\ live'[i] = live[i] /\ live[i].tier \in Tiers /\ live[i].lo \in Nat /\ live[i].hi \in Nat
          /\ live[i].hi <= at[live[i].tier] /\ at[live[i].tier] <= Reserve[live[i].tier]
          /\ at[live[i].tier] \in Nat
      BY <2>1, <1>2, LiveTypes DEF BlocksSeparate, TypeOK
    <3>2. c \in Cells(live[i].tier) /\ c < at[live[i].tier]
      BY SMTT(40), <3>1, ReserveType DEF Span, Cells
    <3>3. ~(live[i].tier = t /\ c \in Cleared(t, p, n))
      BY <3>1, <3>2, <1>3 DEF Cleared, Cells
    <3>4. mem'[live[i].tier][c] = mem[live[i].tier][c]
      BY <3>1, <3>2, <3>3, <1>4
    <3> QED BY <2>1, <3>1, <3>4, <1>1 DEF BlocksIntact
  <2>2. CASE i = Len(live) + 1
    <3>1. live'[i].state = "zeroed" /\ live'[i].tier = t /\ live'[i].lo = p /\ live'[i].hi = p + n
      BY <2>2, <1>2 DEF Block
    <3>2. c \in p .. p + n - 1 /\ c \in Cells(t)
      BY <3>1, <1>1, <1>3, ReserveType DEF Span, Cells
    <3>3. c \in Cleared(t, p, n) \/ c >= dirty[t]
      BY <3>2, <1>1 DEF Cleared, TypeOK, Cells
    <3>4. mem'[t][c] = 0
      BY <3>2, <3>3, <1>1, <1>4 DEF ZeroAboveDirty
    <3> QED BY <3>1, <3>4
  <2> QED BY <2>1, <2>2, <1>2, LiveTypes
<1>9. IdleEmpty' /\ NoHuge' /\ MemIsFunction' /\ AtBelowDirty'
  BY <1>1, <1>3, <1>4 DEF IdleEmpty, NoHuge, MemIsFunction, AtBelowDirty
<1> QED BY <1>2, <1>5, <1>6, <1>7, <1>8, <1>9

LEMMA ExhaustedInv == ASSUME NEW n \in Sizes, IInv, Exhausted(n) PROVE IInv'
BY DEF IInv, Exhausted, region, TypeOK, IdleEmpty, NoHuge, MemIsFunction, AtBelowDirty,
       ZeroAboveDirty, BlocksSeparate, BlocksIntact, MarksNested

LEMMA CreateFailsInv == ASSUME IInv, CreateFails PROVE IInv'
BY DEF IInv, CreateFails, region, TypeOK, IdleEmpty, NoHuge, MemIsFunction, AtBelowDirty,
       ZeroAboveDirty, BlocksSeparate, BlocksIntact, MarksNested

(* A block's owner writes only its own cells, and they lie below dirty. *)
LEMMA WriteInv == ASSUME NEW i \in 1 .. Len(live), IInv, Write(i) PROVE IInv'
<1> DEFINE b == live[i]
<1> USE DEF IInv
<1>1. /\ b \in BlockSet /\ b.tier \in Tiers /\ b.lo \in Nat /\ b.hi \in Nat
      /\ b.hi <= at[b.tier] /\ at[b.tier] <= dirty[b.tier]
      /\ at[b.tier] \in Nat /\ dirty[b.tier] \in Nat /\ i \in Nat
  <2>1. /\ b \in BlockSet /\ b.tier \in Tiers /\ b.lo \in Nat /\ b.hi \in Nat /\ i \in Nat
    BY LiveTypes
  <2>2. b.hi <= at[b.tier]
    BY DEF BlocksSeparate
  <2>3. at[b.tier] <= dirty[b.tier] /\ at[b.tier] \in Nat /\ dirty[b.tier] \in Nat
    BY <2>1 DEF AtBelowDirty, TypeOK
  <2> QED BY <2>1, <2>2, <2>3
<1>2. /\ mem' = [u \in Tiers |-> mem'[u]]
      /\ \A u \in Tiers : mem'[u] \in [Cells(u) -> Nat]
      /\ \A u \in Tiers : \A c \in Cells(u) :
           mem'[u][c] = IF u = b.tier /\ c \in Span(b) THEN i ELSE mem[u][c]
  <2> DEFINE new == [c \in Cells(b.tier) |-> IF c \in Span(b) THEN i ELSE mem[b.tier][c]]
  <2>1. \A u \in Tiers : mem[u] \in [Cells(u) -> Nat]
    BY DEF TypeOK
  <2>2. mem' = [mem EXCEPT ![b.tier] = new]
    BY DEF Write
  <2>3. new \in [Cells(b.tier) -> Nat]
    BY <1>1, <2>1
  <2> HIDE DEF new
  <2>4. mem' = [u \in Tiers |-> IF u = b.tier THEN new ELSE mem[u]]
    BY <2>2 DEF MemIsFunction
  <2>5. /\ mem' = [u \in Tiers |-> mem'[u]]
        /\ \A u \in Tiers : mem'[u] \in [Cells(u) -> Nat]
    BY <2>1, <2>3, <2>4
  <2>6. \A u \in Tiers : \A c \in Cells(u) :
          mem'[u][c] = IF u = b.tier /\ c \in Span(b) THEN i ELSE mem[u][c]
    BY <2>4 DEF new
  <2> QED BY <2>5, <2>6
<1>3. /\ live' = [live EXCEPT ![i].state = "written"]
      /\ UNCHANGED <<status, at, dirty, commit, huge, marks>> /\ status = "ready"
  BY DEF Write, region
<1>4. /\ live' \in Seq(BlockSet) /\ Len(live') = Len(live)
      /\ \A j \in 1 .. Len(live) :
           /\ live'[j].tier = live[j].tier /\ live'[j].lo = live[j].lo /\ live'[j].hi = live[j].hi
           /\ j # i => live'[j].state = live[j].state
      /\ live'[i].state = "written"
  <2>1. [b EXCEPT !.state = "written"] \in BlockSet
    BY <1>1 DEF BlockSet, BlockStates
  <2>2. live' = [live EXCEPT ![i] = [b EXCEPT !.state = "written"]]
    BY <1>3
  <2>3. live \in Seq(BlockSet)
    BY DEF TypeOK
  <2>4. /\ live' \in Seq(BlockSet) /\ Len(live') = Len(live)
        /\ \A j \in 1 .. Len(live) :
             live'[j] = IF j = i THEN [b EXCEPT !.state = "written"] ELSE live[j]
    BY <2>1, <2>2, <2>3, ExceptSeq
  <2>5. \A j \in 1 .. Len(live) : live[j] \in BlockSet
    BY LiveTypes
  <2> QED BY ZenonT(60), <2>4, <2>5 DEF BlockSet
<1>5. TypeOK'
  <2>1. DOMAIN mem' = Tiers
    BY <1>2
  <2> QED BY <2>1, <1>2, <1>3, <1>4 DEF TypeOK
<1>6. MarksNested'
  BY <1>3, <1>4, MarksKept, LiveTypes DEF TypeOK
<1>7. ZeroAboveDirty'
  <2> SUFFICES ASSUME NEW u \in Tiers, NEW c \in Cells(u), c >= dirty[u]
               PROVE  mem'[u][c] = 0
    BY <1>3 DEF ZeroAboveDirty, Cells
  <2>1. ~(u = b.tier /\ c \in Span(b))
    BY <1>1, ReserveType DEF Span, Cells
  <2> QED BY <2>1, <1>2, <1>3 DEF ZeroAboveDirty
<1>8. BlocksSeparate'
  BY <1>3, <1>4, LiveTypes DEF BlocksSeparate
<1>9. BlocksIntact'
  <2> SUFFICES ASSUME NEW j \in 1 .. Len(live), NEW c \in Span(live[j])
               PROVE  /\ live'[j].state = "zeroed" => mem'[live[j].tier][c] = 0
                      /\ live'[j].state = "written" => mem'[live[j].tier][c] = j
    BY <1>3, <1>4 DEF BlocksIntact, Span
  <2>1. /\ live[j].tier \in Tiers /\ live[j].lo \in Nat /\ live[j].hi \in Nat
        /\ live[j].hi <= at[live[j].tier] /\ at[live[j].tier] <= Reserve[live[j].tier]
        /\ at[live[j].tier] \in Nat
    BY LiveTypes DEF BlocksSeparate, TypeOK
  <2>2. c \in Cells(live[j].tier)
    BY SMTT(40), <2>1, ReserveType DEF Span, Cells
  <2>3. CASE j = i
    BY <2>1, <2>2, <2>3, <1>2, <1>4
  <2>4. CASE j # i
    <3>1. ~(live[j].tier = b.tier /\ c \in Span(b))
      <4>1. SUFFICES ASSUME live[j].tier = b.tier PROVE c < b.lo \/ c >= b.hi
        BY <2>1, <1>1 DEF Span
      <4>2. c \in Nat /\ live[j].lo <= c /\ c < live[j].hi
        BY <2>1 DEF Span
      <4>3. CASE j < i
        <5>1. live[j].hi <= b.lo
          BY <4>1, <4>3, <1>1 DEF BlocksSeparate
        <5> QED BY <5>1, <4>2, <2>1, <1>1
      <4>4. CASE i < j
        <5>1. b.hi <= live[j].lo
          BY <4>1, <4>4, <1>1 DEF BlocksSeparate
        <5> QED BY <5>1, <4>2, <2>1, <1>1
      <4> QED BY <4>3, <4>4, <2>4, <1>1
    <3>2. mem'[live[j].tier][c] = mem[live[j].tier][c]
      BY <3>1, <2>1, <2>2, <1>2
    <3> QED BY <2>4, <3>2, <1>3, <1>4 DEF BlocksIntact
  <2> QED BY <2>3, <2>4
<1>10. IdleEmpty' /\ NoHuge' /\ MemIsFunction' /\ AtBelowDirty'
  BY <1>2, <1>3 DEF IdleEmpty, NoHuge, MemIsFunction, AtBelowDirty
<1> QED BY <1>5, <1>6, <1>7, <1>8, <1>9, <1>10

(* A prefix of a sequence. *)
LEMMA Prefix ==
  ASSUME NEW S, NEW s \in Seq(S), NEW n \in 0 .. Len(s)
  PROVE  /\ SubSeq(s, 1, n) \in Seq(S) /\ Len(SubSeq(s, 1, n)) = n
         /\ \A i \in 1 .. n : SubSeq(s, 1, n)[i] = s[i]
<1>1. n \in Int /\ \A i \in 1 .. n : s[i] \in S
  BY ElementOfSeq, LenProperties
<1>2. /\ SubSeq(s, 1, n) \in Seq(S)
      /\ Len(SubSeq(s, 1, n)) = IF 1 <= n THEN n - 1 + 1 ELSE 0
      /\ \A i \in 1 .. n - 1 + 1 : SubSeq(s, 1, n)[i] = s[1 + i - 1]
  BY <1>1, SubSeqProperties
<1>3. \A i \in 1 .. n : i \in 1 .. n - 1 + 1 /\ 1 + i - 1 = i
  BY LenProperties
<1> QED BY <1>2, <1>3, LenProperties

(* What MarksNested says of one mark. *)
LEMMA MarkNested ==
  ASSUME MarksNested, NEW d \in 1 .. Len(marks)
  PROVE  /\ marks[d].blocks <= Len(live)
         /\ \A t \in Tiers : marks[d].at[t] <= at[t]
         /\ \A i \in 1 .. marks[d].blocks : live[i].hi <= marks[d].at[live[i].tier]
         /\ \A e \in 1 .. d - 1 :
              /\ marks[e].blocks <= marks[d].blocks
              /\ \A t \in Tiers : marks[e].at[t] <= marks[d].at[t]
BY DEF MarksNested

LEMMA SaveInv == ASSUME IInv, Save PROVE IInv'
<1> DEFINE m == [at |-> at, blocks |-> Len(live)]
<1> USE DEF IInv
<1>1. /\ marks' = Append(marks, m) /\ status = "ready"
      /\ UNCHANGED <<status, at, dirty, commit, huge, mem, live>>
  BY DEF Save, region
<1>2. m \in MarkSet /\ m.at = at /\ m.blocks = Len(live)
  BY LiveTypes DEF MarkSet, TypeOK
<1>3. /\ marks' \in Seq(MarkSet) /\ Len(marks') = Len(marks) + 1
      /\ \A d \in 1 .. Len(marks) : marks'[d] = marks[d]
      /\ marks'[Len(marks) + 1] = m
  BY <1>1, <1>2 DEF TypeOK
<1>4. TypeOK'
  BY <1>1, <1>3 DEF TypeOK
<1>5. MarksNested'
  <2> SUFFICES ASSUME NEW d \in 1 .. Len(marks')
               PROVE  /\ marks'[d].blocks <= Len(live)
                      /\ \A t \in Tiers : marks'[d].at[t] <= at[t]
                      /\ \A i \in 1 .. marks'[d].blocks : live[i].hi <= marks'[d].at[live[i].tier]
                      /\ \A e \in 1 .. d - 1 :
                           /\ marks'[e].blocks <= marks'[d].blocks
                           /\ \A t \in Tiers : marks'[e].at[t] <= marks'[d].at[t]
    BY <1>1 DEF MarksNested
  <2>1. CASE d \in 1 .. Len(marks)
    <3>1. marks'[d] = marks[d] /\ \A e \in 1 .. d - 1 : e \in 1 .. Len(marks) /\ marks'[e] = marks[e]
      BY <2>1, <1>3, MarkTypes
    <3> QED BY <2>1, <3>1, MarkNested
  <2>2. CASE d = Len(marks) + 1
    <3>1. marks'[d] = m /\ \A e \in 1 .. d - 1 : e \in 1 .. Len(marks) /\ marks'[e] = marks[e]
      BY <2>2, <1>3, MarkTypes
    <3>2. \A i \in 1 .. Len(live) : live[i].hi <= at[live[i].tier]
      BY DEF BlocksSeparate
    <3>3. \A t \in Tiers : at[t] \in Nat
      BY DEF TypeOK
    <3>4. \A e \in 1 .. d - 1 : marks[e].blocks <= Len(live) /\ \A t \in Tiers : marks[e].at[t] <= at[t]
      BY <3>1, MarkNested
    <3> HIDE DEF m
    <3> QED BY <3>1, <3>2, <3>3, <3>4, <1>2
  <2> QED BY <2>1, <2>2, <1>3, MarkTypes
<1> QED BY <1>1, <1>4, <1>5 DEF IdleEmpty, NoHuge, MemIsFunction, AtBelowDirty,
           ZeroAboveDirty, BlocksSeparate, BlocksIntact

(* Leaving a scope: the blocks that stay end below the restored pointers. *)
LEMMA RestoreInv == ASSUME IInv, Restore PROVE IInv'
<1> DEFINE m == marks[Len(marks)]
<1> USE DEF IInv
<1>1. /\ marks # << >> /\ at' = m.at /\ status = "ready"
      /\ marks' = SubSeq(marks, 1, Len(marks) - 1) /\ live' = SubSeq(live, 1, m.blocks)
      /\ UNCHANGED <<status, dirty, commit, huge, mem>>
  BY DEF Restore, Restored
<1>2. Len(marks) \in Nat \ {0} /\ Len(marks) \in 1 .. Len(marks)
  BY <1>1, EmptySeq DEF TypeOK
<1>3. m.at \in [Tiers -> Nat] /\ m.blocks \in Nat /\ m.blocks <= Len(live)
  BY <1>2, MarkTypes, MarkNested
<1>a. /\ \A t \in Tiers : m.at[t] <= at[t]
      /\ \A i \in 1 .. m.blocks : live[i].hi <= m.at[live[i].tier]
      /\ \A e \in 1 .. Len(marks) - 1 :
           marks[e].blocks <= m.blocks /\ \A t \in Tiers : marks[e].at[t] <= m.at[t]
  BY <1>2, MarkNested
<1> HIDE DEF m
<1>4. /\ marks' \in Seq(MarkSet) /\ Len(marks') = Len(marks) - 1
      /\ \A d \in 1 .. Len(marks') : marks'[d] = marks[d]
  <2>1. marks \in Seq(MarkSet) /\ Len(marks) - 1 \in 0 .. Len(marks)
    BY <1>2 DEF TypeOK
  <2> QED BY <1>1, <2>1, Prefix
<1>5. /\ live' \in Seq(BlockSet) /\ Len(live') = m.blocks
      /\ \A i \in 1 .. Len(live') : live'[i] = live[i]
  <2>1. live \in Seq(BlockSet) /\ m.blocks \in 0 .. Len(live)
    BY <1>3, LiveTypes DEF TypeOK
  <2> QED BY <1>1, <2>1, Prefix
<1>6. \A t \in Tiers : at'[t] \in Nat /\ at'[t] <= at[t] /\ at'[t] <= Reserve[t] /\ at'[t] <= dirty'[t]
  BY <1>1, <1>3, <1>a, ReserveType DEF AtBelowDirty, TypeOK
<1>7. TypeOK'
  BY <1>1, <1>3, <1>4, <1>5, <1>6 DEF TypeOK
<1>8. \A i \in 1 .. Len(live') : live'[i].hi <= at'[live'[i].tier] /\ i \in 1 .. Len(live)
  BY <1>1, <1>3, <1>5, <1>a, LiveTypes
<1>9. BlocksSeparate'
  <2> SUFFICES ASSUME NEW i \in 1 .. Len(live')
               PROVE  /\ live[i].lo % AlignOf(live[i].tier) = 0
                      /\ live[i].lo <= live[i].hi
                      /\ \A j \in 1 .. i - 1 :
                           live'[j].tier = live[i].tier => live'[j].hi <= live[i].lo
    BY <1>5, <1>8 DEF BlocksSeparate
  <2>1. i \in 1 .. Len(live) /\ \A j \in 1 .. i - 1 : j \in 1 .. Len(live') /\ live'[j] = live[j]
    BY <1>3, <1>5, <1>8
  <2> QED BY <2>1 DEF BlocksSeparate
<1>10. BlocksIntact' /\ ZeroAboveDirty'
  <2>1. ZeroAboveDirty'
    BY <1>1 DEF ZeroAboveDirty
  <2>2. \A i \in 1 .. Len(live') : i \in 1 .. Len(live) /\ live'[i] = live[i]
    BY <1>5, <1>8
  <2>3. ASSUME NEW i \in 1 .. Len(live'), NEW c \in Span(live'[i])
        PROVE  /\ live'[i].state = "zeroed" => mem'[live'[i].tier][c] = 0
               /\ live'[i].state = "written" => mem'[live'[i].tier][c] = i
    <3>1. i \in 1 .. Len(live) /\ live'[i] = live[i] /\ c \in Span(live[i]) /\ mem' = mem
      BY <2>2, <1>1
    <3> QED BY <3>1, <1>1 DEF BlocksIntact
  <2> QED BY <2>1, <2>3 DEF BlocksIntact, Span
<1>11. MarksNested'
  <2> SUFFICES ASSUME NEW d \in 1 .. Len(marks')
               PROVE  /\ marks[d].blocks <= Len(live')
                      /\ \A t \in Tiers : marks[d].at[t] <= at'[t]
                      /\ \A i \in 1 .. marks[d].blocks : live'[i].hi <= marks[d].at[live'[i].tier]
                      /\ \A e \in 1 .. d - 1 :
                           /\ marks[e].blocks <= marks[d].blocks
                           /\ \A t \in Tiers : marks[e].at[t] <= marks[d].at[t]
    <3>1. \A d \in 1 .. Len(marks') : \A e \in 1 .. d - 1 : e \in 1 .. Len(marks') /\ marks'[e] = marks[e]
      BY <1>2, <1>4
    <3> QED BY <3>1, <1>4 DEF MarksNested
  <2>1. d \in 1 .. Len(marks) /\ d \in 1 .. Len(marks) - 1 /\ marks[d].blocks \in Nat
    BY <1>2, <1>4, MarkTypes
  <2>2. marks[d].blocks <= m.blocks /\ \A t \in Tiers : marks[d].at[t] <= m.at[t]
    BY <2>1, <1>a
  <2>3. ASSUME NEW i \in 1 .. marks[d].blocks
        PROVE  live'[i].hi <= marks[d].at[live'[i].tier]
    <3>1. i \in 1 .. Len(live') /\ live'[i] = live[i]
      BY <2>1, <2>2, <1>3, <1>5
    <3> QED BY <3>1, <2>1, MarkNested
  <2>4. \A e \in 1 .. d - 1 :
          marks[e].blocks <= marks[d].blocks /\ \A t \in Tiers : marks[e].at[t] <= marks[d].at[t]
    BY <2>1, MarkNested
  <2> QED BY <2>2, <2>3, <2>4, <1>1, <1>5
<1>12. IdleEmpty' /\ NoHuge' /\ MemIsFunction' /\ AtBelowDirty'
  BY <1>1, <1>6 DEF IdleEmpty, NoHuge, MemIsFunction, AtBelowDirty
<1> QED BY <1>7, <1>9, <1>10, <1>11, <1>12

(* Trimming discards only cells above the bump pointers, and what it leaves *)
(* above the lowered dirty mark is zero.                                    *)
LEMMA TrimInv == ASSUME IInv, Trim PROVE IInv'
<1> USE DEF IInv
<1>1. status = "ready" /\ UNCHANGED <<status, at, commit, huge, marks, live>>
  BY DEF Trim
<1>2. \A t \in Tiers : /\ at[t] \in Nat /\ dirty[t] \in Nat /\ at[t] <= dirty[t]
                       /\ TrimFrom(t) \in Nat /\ at[t] <= TrimFrom(t)
                       /\ AlignUp(dirty[t], OsPage) \in Nat /\ dirty[t] <= AlignUp(dirty[t], OsPage)
                       /\ DontNeedWorks(t, TrimFrom(t))
  BY AlignUpBounds, ScratchAssumption DEF TrimFrom, TypeOK, AtBelowDirty, NoHuge, DontNeedWorks
<1>3. /\ dirty' \in [Tiers -> Nat]
      /\ \A t \in Tiers : /\ dirty'[t] = IF dirty[t] > TrimFrom(t) THEN TrimFrom(t) ELSE dirty[t]
                         /\ dirty'[t] <= Reserve[t] /\ at[t] <= dirty'[t]
  BY <1>2, ReserveType DEF Trim, TypeOK
<1>4. /\ mem' = [t \in Tiers |-> mem'[t]]
      /\ \A t \in Tiers : mem'[t] \in [Cells(t) -> Nat]
      /\ \A t \in Tiers : \A c \in Cells(t) :
           mem'[t][c] = IF dirty[t] > TrimFrom(t) /\ TrimFrom(t) <= c /\ c < AlignUp(dirty[t], OsPage)
                        THEN 0 ELSE mem[t][c]
  BY <1>2 DEF Trim, TypeOK
<1>5. TypeOK'
  <2>1. DOMAIN mem' = Tiers
    BY <1>4
  <2> QED BY <2>1, <1>1, <1>3, <1>4 DEF TypeOK
<1>6. ZeroAboveDirty'
  <2> SUFFICES ASSUME NEW t \in Tiers, NEW c \in Cells(t), c >= dirty'[t]
               PROVE  mem'[t][c] = 0
    BY <1>1 DEF ZeroAboveDirty, Cells
  <2>1. c \in Int /\ (c >= dirty[t] => mem[t][c] = 0)
    BY <1>1 DEF ZeroAboveDirty, Cells
  <2> QED BY <2>1, <1>2, <1>3, <1>4
<1>7. BlocksIntact'
  <2> SUFFICES ASSUME NEW i \in 1 .. Len(live), NEW c \in Span(live[i])
               PROVE  /\ live[i].state = "zeroed" => mem'[live[i].tier][c] = 0
                      /\ live[i].state = "written" => mem'[live[i].tier][c] = i
    BY <1>1 DEF BlocksIntact, Span
  <2>1. /\ live[i].tier \in Tiers /\ live[i].lo \in Nat /\ live[i].hi \in Nat
        /\ live[i].hi <= at[live[i].tier] /\ at[live[i].tier] <= Reserve[live[i].tier]
    BY LiveTypes DEF BlocksSeparate, TypeOK
  <2>2. c \in Cells(live[i].tier) /\ c < TrimFrom(live[i].tier)
    BY SMTT(40), <2>1, <1>2, ReserveType DEF Span, Cells
  <2>3. mem'[live[i].tier][c] = mem[live[i].tier][c]
    <3>1. ASSUME NEW t \in Tiers, NEW d \in Cells(t), d < TrimFrom(t)
          PROVE  mem'[t][d] = mem[t][d]
      <4>1. ~(TrimFrom(t) <= d)
        BY <3>1, <1>2 DEF Cells
      <4> QED BY <4>1, <1>4
    <3> QED BY <3>1, <2>1, <2>2
  <2> QED BY <2>3, <1>1 DEF BlocksIntact
<1>8. BlocksSeparate' /\ MarksNested'
  BY <1>1 DEF BlocksSeparate, MarksNested
<1>9. IdleEmpty' /\ NoHuge' /\ MemIsFunction' /\ AtBelowDirty'
  BY <1>1, <1>3, <1>4 DEF IdleEmpty, NoHuge, MemIsFunction, AtBelowDirty
<1> QED BY <1>5, <1>6, <1>7, <1>8, <1>9

LEMMA StutterInv == ASSUME IInv, UNCHANGED vars PROVE IInv'
<1> USE DEF IInv, vars
<1>1. TypeOK'
  BY DEF TypeOK
<1>2. IdleEmpty' /\ NoHuge' /\ MemIsFunction' /\ AtBelowDirty' /\ ZeroAboveDirty'
  BY DEF IdleEmpty, NoHuge, MemIsFunction, AtBelowDirty, ZeroAboveDirty
<1>3. BlocksSeparate' /\ MarksNested'
  BY DEF BlocksSeparate, MarksNested
<1>4. BlocksIntact'
  BY DEF BlocksIntact, Span
<1> QED BY <1>1, <1>2, <1>3, <1>4

-----------------------------------------------------------------------------
(* The theorems *)

(* The inductive invariant of an arena none of whose tiers asks for hugetlb. *)
THEOREM Invariant == ASSUME HugeTiers = {} PROVE Spec => []IInv
<1>1. Init => IInv
  BY InitInv
<1>2. IInv /\ [Next]_vars => IInv'
  <2> SUFFICES ASSUME IInv, [Next]_vars PROVE IInv'
    OBVIOUS
  <2>1. CASE Create \/ CreateFails
    BY <2>1, CreateInv, CreateFailsInv
  <2>2. CASE Release
    BY <2>2, ReleaseInv
  <2>3. CASE Save
    BY <2>3, SaveInv
  <2>4. CASE Restore
    BY <2>4, RestoreInv
  <2>5. CASE Trim
    BY <2>5, TrimInv
  <2>6. CASE \E n \in Sizes : Alloc(n) \/ AllocZeroed(n) \/ Exhausted(n)
    BY <2>6, AllocInv, AllocZeroedInv, ExhaustedInv
  <2>7. CASE \E i \in 1 .. Len(live) : Write(i)
    BY <2>7, WriteInv
  <2>8. CASE UNCHANGED vars
    BY <2>8, StutterInv
  <2> QED BY <2>1, <2>2, <2>3, <2>4, <2>5, <2>6, <2>7, <2>8 DEF Next
<1> QED BY <1>1, <1>2, PTL DEF Spec

(* Every pointer of a region record stays within its reservation. *)
THEOREM TypeCorrect == ASSUME HugeTiers = {} PROVE Spec => []TypeOK
<1>1. IInv => TypeOK
  BY DEF IInv
<1> QED BY <1>1, Invariant, PTL

(* Above the dirty mark memory is zero: region_alloc_zeroed may skip it. *)
THEOREM DirtyMarkSound == ASSUME HugeTiers = {} PROVE Spec => []ZeroAboveDirty
<1>1. IInv => ZeroAboveDirty
  BY DEF IInv
<1> QED BY <1>1, Invariant, PTL

(* No two live blocks overlap, all are aligned and below the bump pointer. *)
THEOREM Separation == ASSUME HugeTiers = {} PROVE Spec => []BlocksSeparate
<1>1. IInv => BlocksSeparate
  BY DEF IInv
<1> QED BY <1>1, Invariant, PTL

(* A zeroed block is zero until written, a written one keeps its owner's data. *)
THEOREM Integrity == ASSUME HugeTiers = {} PROVE Spec => []BlocksIntact
<1>1. IInv => BlocksIntact
  BY DEF IInv
<1> QED BY <1>1, Invariant, PTL

-----------------------------------------------------------------------------
(* Three more results, resting on the inductive invariant above: scopes leak *)
(* nothing, live blocks lie in committed memory, and the arena implements    *)
(* ScopedStore.                                                              *)

(* p holds, for each tier, the end of its newest block among the first n. *)
EndsOf(blocks, n, p) ==
  \A t \in Tiers :
    \/ p[t] = 0 /\ \A j \in 1 .. n : blocks[j].tier # t
    \/ \E i \in 1 .. n : /\ blocks[i].tier = t /\ p[t] = blocks[i].hi
                         /\ \A j \in i + 1 .. n : blocks[j].tier # t

(* The pointers and every saved mark end the blocks below them. *)
Tight ==
  /\ EndsOf(live, Len(live), at)
  /\ \A d \in 1 .. Len(marks) : EndsOf(live, marks[d].blocks, marks[d].at)

CommittedToAt == ExplicitCommit => \A t \in Tiers : at[t] <= commit[t]

(* Mark d stands between the blocks of the scopes outside it and the rest. *)
ScopesNested ==
  \A i \in 1 .. Len(live) :
    /\ live[i].scope <= Len(marks)
    /\ \A d \in 1 .. Len(marks) : i <= marks[d].blocks <=> live[i].scope < d

AInv == Tight /\ CommittedToAt /\ ScopesNested

-----------------------------------------------------------------------------
(* Scopes leak nothing, and what is live is committed *)

(* EndsOf reads only the tiers and ends of the blocks it counts. *)
LEMMA EndsSame ==
  ASSUME NEW r, NEW s, NEW n \in Nat, NEW p, EndsOf(r, n, p),
         \A i \in 1 .. n : s[i].tier = r[i].tier /\ s[i].hi = r[i].hi
  PROVE  EndsOf(s, n, p)
<1> SUFFICES ASSUME NEW t \in Tiers
             PROVE  \/ p[t] = 0 /\ \A j \in 1 .. n : s[j].tier # t
                    \/ \E i \in 1 .. n : /\ s[i].tier = t /\ p[t] = s[i].hi
                                         /\ \A j \in i + 1 .. n : s[j].tier # t
  BY DEF EndsOf
<1>1. CASE p[t] = 0 /\ \A j \in 1 .. n : r[j].tier # t
  BY <1>1
<1>2. ASSUME NEW i \in 1 .. n, r[i].tier = t, p[t] = r[i].hi, \A j \in i + 1 .. n : r[j].tier # t
      PROVE  \E k \in 1 .. n : s[k].tier = t /\ p[t] = s[k].hi /\ \A j \in k + 1 .. n : s[j].tier # t
  <2>1. s[i].tier = t /\ p[t] = s[i].hi /\ \A j \in i + 1 .. n : s[j].tier # t
    BY <1>2
  <2> QED BY <2>1
<1> QED BY <1>1, <1>2 DEF EndsOf

(* What both forms of allocation do to the blocks. *)
LEMMA Appended ==
  ASSUME IInv, AInv, NEW t \in Tiers, NEW n \in Nat, NEW z \in BOOLEAN, Bump(t, n),
         live' = Append(live, Block(t, Start(t), n, z)), marks' = marks
  PROVE  AInv'
<1> USE DEF IInv, AInv
<1> DEFINE b == Block(t, Start(t), n, z)
<1>1. /\ Len(live) \in Nat /\ Len(live') = Len(live) + 1
      /\ \A i \in 1 .. Len(live) : live'[i] = live[i]
      /\ live'[Len(live) + 1] = b
  BY NewBlock, LiveTypes, Zenon
<1>2. b.tier = t /\ b.hi = Start(t) + n /\ b.scope = Len(marks)
  BY DEF Block
<1>3. /\ at' = [at EXCEPT ![t] = Start(t) + n] /\ at \in [Tiers -> Nat]
      /\ Start(t) \in Nat /\ Start(t) + n <= Reserve[t]
  BY BumpEffect DEF TypeOK
<1>4. Tight'
  <2>1. EndsOf(live', Len(live) + 1, at')
    <3> DEFINE k == Len(live) + 1
    <3>1. /\ at'[t] = live'[k].hi /\ \A u \in Tiers \ {t} : at'[u] = at[u]
          /\ live'[k].tier = t /\ k \in Nat
      BY <1>1, <1>2, <1>3
    <3> SUFFICES ASSUME NEW u \in Tiers
                 PROVE  \/ at'[u] = 0 /\ \A j \in 1 .. k : live'[j].tier # u
                        \/ \E i \in 1 .. k : /\ live'[i].tier = u /\ at'[u] = live'[i].hi
                                             /\ \A j \in i + 1 .. k : live'[j].tier # u
      BY DEF EndsOf
    <3> HIDE DEF b
    <3>2. CASE u = t
      <4>1. k \in 1 .. k /\ \A j \in k + 1 .. k : live'[j].tier # u
        BY <1>1
      <4> QED BY <3>1, <3>2, <4>1
    <3>3. CASE u # t
      <4>1. at'[u] = at[u] /\ live'[k].tier # u
        BY <3>1, <3>3
      <4>2. CASE at[u] = 0 /\ \A j \in 1 .. Len(live) : live[j].tier # u
        <5>1. \A j \in 1 .. k : live'[j].tier # u
          BY <1>1, <4>1, <4>2
        <5> QED BY <4>1, <4>2, <5>1
      <4>3. ASSUME NEW i \in 1 .. Len(live), live[i].tier = u, at[u] = live[i].hi,
                   \A j \in i + 1 .. Len(live) : live[j].tier # u
            PROVE  \E h \in 1 .. k : live'[h].tier = u /\ at'[u] = live'[h].hi /\ \A j \in h + 1 .. k : live'[j].tier # u
        <5>1. i \in 1 .. k /\ live'[i].tier = u /\ at'[u] = live'[i].hi
          BY <1>1, <4>1, <4>3
        <5>2. \A j \in i + 1 .. k : live'[j].tier # u
          BY SMTT(40), <1>1, <4>1, <4>3
        <5> QED BY <5>1, <5>2
      <4> QED BY SMTT(40), <4>2, <4>3 DEF Tight, EndsOf
    <3> QED BY <3>2, <3>3
  <2>2. ASSUME NEW d \in 1 .. Len(marks) PROVE EndsOf(live', marks[d].blocks, marks[d].at)
    <3>1. marks[d].blocks \in Nat /\ marks[d].blocks <= Len(live)
      BY MarkTypes, MarkNested
    <3>2. \A i \in 1 .. marks[d].blocks : live'[i].tier = live[i].tier /\ live'[i].hi = live[i].hi
      BY <1>1, <3>1
    <3> QED BY <3>1, <3>2, EndsSame DEF Tight
  <2> QED BY <1>1, <2>1, <2>2 DEF Tight
<1>5. CommittedToAt'
  <2> SUFFICES ASSUME ExplicitCommit, NEW u \in Tiers PROVE at'[u] <= commit'[u]
    BY DEF CommittedToAt
  <2> DEFINE next == Start(t) + n
  <2>0. next \in Nat /\ OsPage \in Nat \ {0}
    BY <1>3, ScratchAssumption
  <2>1. next \in Nat /\ next <= AlignUp(next, OsPage) /\ AlignUp(next, OsPage) \in Nat
    <3> HIDE DEF next
    <3> QED BY <2>0, AlignUpBounds
  <2>2. Committed(t, next) >= next /\ Committed(t, next) \in Nat
    BY <2>1, <1>3, ReserveType DEF Committed
  <2>3. commit' = IF next > commit[t] THEN [commit EXCEPT ![t] = Committed(t, next)] ELSE commit
    BY DEF Bump
  <2>4. commit \in [Tiers -> Nat] /\ at[u] <= commit[u]
    BY DEF TypeOK, CommittedToAt
  <2>5. at'[u] = IF u = t THEN next ELSE at[u]
    BY <1>3
  <2> HIDE DEF next
  <2>6. CASE u = t
    BY <2>1, <2>2, <2>3, <2>4, <2>5, <2>6
  <2>7. CASE u # t
    BY <2>3, <2>4, <2>5, <2>7
  <2> QED BY <2>6, <2>7
<1>6. ScopesNested'
  <2> SUFFICES ASSUME NEW i \in 1 .. Len(live) + 1
               PROVE  /\ live'[i].scope <= Len(marks)
                      /\ \A d \in 1 .. Len(marks) : i <= marks[d].blocks <=> live'[i].scope < d
    BY <1>1 DEF ScopesNested
  <2>1. CASE i \in 1 .. Len(live)
    BY <2>1, <1>1 DEF ScopesNested
  <2>2. CASE i = Len(live) + 1
    <3>1. live'[i].scope = Len(marks) /\ Len(marks) \in Nat
      BY <2>2, <1>1, <1>2, MarkTypes
    <3>2. \A d \in 1 .. Len(marks) : marks[d].blocks \in Nat /\ marks[d].blocks <= Len(live)
      BY MarkTypes, MarkNested
    <3> QED BY <3>1, <3>2, <2>2, <1>1
  <2> QED BY <2>1, <2>2, <1>1
<1> QED BY <1>4, <1>5, <1>6

(* Steps that leave scopes, pointers, commit and the extent of blocks alone. *)
LEMMA ArenaUntouched ==
  ASSUME IInv, AInv, UNCHANGED <<at, commit, marks>>, Len(live') = Len(live),
         \A i \in 1 .. Len(live) : /\ live'[i].tier = live[i].tier /\ live'[i].hi = live[i].hi
                                   /\ live'[i].scope = live[i].scope
  PROVE  AInv'
<1>1. Len(live) \in Nat /\ TypeOK
  BY LiveTypes DEF IInv
<1>2. Tight'
  <2>1. EndsOf(live', Len(live), at)
    BY <1>1, EndsSame DEF AInv, Tight
  <2>2. ASSUME NEW d \in 1 .. Len(marks) PROVE EndsOf(live', marks[d].blocks, marks[d].at)
    <3>1. marks[d].blocks \in Nat /\ marks[d].blocks <= Len(live)
      BY MarkTypes, MarkNested DEF IInv
    <3>2. \A i \in 1 .. marks[d].blocks : live'[i].tier = live[i].tier /\ live'[i].hi = live[i].hi
      BY <1>1, <3>1
    <3> QED BY <3>1, <3>2, EndsSame DEF AInv, Tight
  <2> QED BY <2>1, <2>2 DEF Tight
<1>3. CommittedToAt' /\ ScopesNested'
  BY DEF AInv, CommittedToAt, ScopesNested
<1> QED BY <1>2, <1>3 DEF AInv

(* A new mark stands above all that is live. *)
LEMMA SaveKeeps == ASSUME IInv, AInv, Save PROVE AInv'
<1> DEFINE m == [at |-> at, blocks |-> Len(live)]
<1>1. marks' = Append(marks, m) /\ UNCHANGED <<at, commit, live>>
  BY DEF Save, region
<1>2. /\ Len(marks) \in Nat /\ Len(live) \in Nat /\ m \in MarkSet /\ marks \in Seq(MarkSet)
      /\ \A i \in 1 .. Len(live) : live[i].scope \in Nat
  <2>1. Len(marks) \in Nat /\ Len(live) \in Nat /\ m \in MarkSet /\ marks \in Seq(MarkSet)
    BY LiveTypes, MarkTypes DEF IInv, TypeOK, MarkSet
  <2>2. \A i \in 1 .. Len(live) : live[i] \in BlockSet
    BY LiveTypes DEF IInv
  <2> QED BY <2>1, <2>2 DEF BlockSet
<1>3. /\ Len(marks') = Len(marks) + 1 /\ \A d \in 1 .. Len(marks) : marks'[d] = marks[d]
      /\ marks'[Len(marks) + 1].at = at /\ marks'[Len(marks) + 1].blocks = Len(live)
  BY <1>1, <1>2
<1>4. Tight'
  <2>1. ASSUME NEW d \in 1 .. Len(marks) + 1 PROVE EndsOf(live, marks'[d].blocks, marks'[d].at)
    <3>1. CASE d \in 1 .. Len(marks)
      BY <3>1, <1>3 DEF AInv, Tight
    <3>2. CASE d = Len(marks) + 1
      BY <3>2, <1>3 DEF AInv, Tight
    <3> QED BY <3>1, <3>2, <1>2
  <2> QED BY <2>1, <1>1, <1>3 DEF AInv, Tight
<1>5. ScopesNested'
  <2> SUFFICES ASSUME NEW i \in 1 .. Len(live)
               PROVE  /\ live[i].scope <= Len(marks) + 1
                      /\ \A d \in 1 .. Len(marks) + 1 : i <= marks'[d].blocks <=> live[i].scope < d
    BY <1>1, <1>3 DEF ScopesNested
  <2>1. live[i].scope <= Len(marks)
    BY DEF AInv, ScopesNested
  <2>2. \A d \in 1 .. Len(marks) : i <= marks'[d].blocks <=> live[i].scope < d
    BY <1>3 DEF AInv, ScopesNested
  <2> QED BY <2>1, <2>2, <1>2, <1>3
<1>6. CommittedToAt'
  BY <1>1 DEF AInv, CommittedToAt
<1> QED BY <1>4, <1>5, <1>6 DEF AInv

(* Leaving a scope: its mark's pointers end the blocks that stay. *)
LEMMA RestoreKeeps == ASSUME IInv, AInv, Restore PROVE AInv'
<1> DEFINE m == marks[Len(marks)]
<1>1. /\ marks # << >> /\ at' = m.at /\ commit' = commit
      /\ marks' = SubSeq(marks, 1, Len(marks) - 1) /\ live' = SubSeq(live, 1, m.blocks)
  BY DEF Restore, Restored
<1>2. Len(marks) \in Nat \ {0} /\ Len(marks) \in 1 .. Len(marks)
  BY <1>1, EmptySeq DEF IInv, TypeOK
<1>3. m.at \in [Tiers -> Nat] /\ m.blocks \in Nat /\ m.blocks <= Len(live) /\ \A t \in Tiers : m.at[t] <= at[t]
  BY <1>2, MarkTypes, MarkNested DEF IInv
<1>4. /\ Len(marks') = Len(marks) - 1 /\ \A d \in 1 .. Len(marks') : marks'[d] = marks[d]
  <2>1. marks \in Seq(MarkSet) /\ Len(marks) - 1 \in 0 .. Len(marks)
    BY <1>2 DEF IInv, TypeOK
  <2> QED BY <1>1, <2>1, Prefix
<1>5. /\ Len(live') = m.blocks /\ \A i \in 1 .. Len(live') : live'[i] = live[i] /\ i \in 1 .. Len(live)
      /\ \A i \in 1 .. Len(live) : live[i].scope \in Nat
  <2>1. live \in Seq(BlockSet) /\ m.blocks \in 0 .. Len(live)
    BY <1>3, LiveTypes DEF IInv, TypeOK
  <2>2. \A i \in 1 .. Len(live) : live[i] \in BlockSet
    BY LiveTypes DEF IInv
  <2>3. \A i \in 1 .. Len(live) : live[i].scope \in Nat
    BY <2>2 DEF BlockSet
  <2>4. Len(live') = m.blocks /\ \A i \in 1 .. m.blocks : live'[i] = live[i]
    BY <1>1, <2>1, Prefix
  <2>5. \A i \in 1 .. m.blocks : i \in 1 .. Len(live)
    BY <1>3, LiveTypes DEF IInv
  <2> QED BY <2>3, <2>4, <2>5
<1>6. Tight'
  <2>1. EndsOf(live', m.blocks, m.at)
    <3>1. EndsOf(live, m.blocks, m.at)
      BY <1>2 DEF AInv, Tight
    <3> QED BY <3>1, <1>3, <1>5, EndsSame
  <2>2. ASSUME NEW d \in 1 .. Len(marks') PROVE EndsOf(live', marks'[d].blocks, marks'[d].at)
    <3>1. d \in 1 .. Len(marks) - 1 /\ d \in 1 .. Len(marks) /\ marks'[d] = marks[d]
      BY <1>2, <1>4
    <3>2. marks[d].blocks \in Nat /\ marks[d].blocks <= m.blocks
      BY <3>1, <1>2, MarkTypes, MarkNested DEF IInv
    <3>3. \A i \in 1 .. marks[d].blocks : live'[i].tier = live[i].tier /\ live'[i].hi = live[i].hi
      BY <3>2, <1>3, <1>5
    <3>4. EndsOf(live, marks[d].blocks, marks[d].at)
      BY <3>1 DEF AInv, Tight
    <3> QED BY <3>1, <3>2, <3>3, <3>4, EndsSame
  <2> QED BY <2>1, <2>2, <1>1, <1>5 DEF Tight
<1>7. CommittedToAt'
  <2> SUFFICES ASSUME ExplicitCommit, NEW t \in Tiers PROVE m.at[t] <= commit[t]
    BY <1>1 DEF CommittedToAt
  <2>1. m.at[t] \in Nat /\ at[t] \in Nat /\ commit[t] \in Nat /\ m.at[t] <= at[t] /\ at[t] <= commit[t]
    BY <1>3 DEF IInv, TypeOK, AInv, CommittedToAt
  <2> QED BY <2>1
<1>8. ScopesNested'
  <2> SUFFICES ASSUME NEW i \in 1 .. m.blocks
               PROVE  /\ live[i].scope <= Len(marks) - 1
                      /\ \A d \in 1 .. Len(marks) - 1 : i <= marks[d].blocks <=> live[i].scope < d
    BY <1>4, <1>5 DEF ScopesNested
  <2>1. i \in 1 .. Len(live) /\ live[i].scope \in Nat
    BY <1>5
  <2>2. \A d \in 1 .. Len(marks) : i <= marks[d].blocks <=> live[i].scope < d
    BY <2>1 DEF AInv, ScopesNested
  <2>3. live[i].scope < Len(marks)
    BY <2>2, <1>2
  <2> QED BY <2>1, <2>2, <2>3, <1>2
<1> QED BY <1>6, <1>7, <1>8 DEF AInv

LEMMA CreateKeeps == ASSUME IInv, AInv, Create PROVE AInv'
<1>1. live' = << >> /\ marks' = << >> /\ at' = [t \in Tiers |-> 0] /\ Len(live') = 0 /\ Len(marks') = 0
  BY DEF IInv, Create, IdleEmpty
<1>2. \A t \in Tiers : commit'[t] >= 0 /\ at'[t] = 0
  BY <1>1, ReserveType DEF Create
<1> QED BY <1>1, <1>2 DEF AInv, Tight, EndsOf, CommittedToAt, ScopesNested

LEMMA ReleaseKeeps == ASSUME IInv, AInv, Release PROVE AInv'
<1>1. live' = << >> /\ marks' = << >> /\ at' = [t \in Tiers |-> 0] /\ Len(live') = 0 /\ Len(marks') = 0
  BY DEF Release
<1>2. \A t \in Tiers : commit'[t] = 0 /\ at'[t] = 0
  BY <1>1 DEF Release
<1> QED BY <1>1, <1>2 DEF AInv, Tight, EndsOf, CommittedToAt, ScopesNested

LEMMA WriteKeeps == ASSUME IInv, AInv, NEW i \in 1 .. Len(live), Write(i) PROVE AInv'
<1>1. live' = [live EXCEPT ![i].state = "written"] /\ UNCHANGED <<at, commit, marks>>
  BY DEF Write, region
<1>2. live \in Seq(BlockSet) /\ \A j \in 1 .. Len(live) : live[j] \in BlockSet
  BY LiveTypes DEF IInv, TypeOK
<1>3. [live[i] EXCEPT !.state = "written"] \in BlockSet
  BY <1>2 DEF BlockSet, BlockStates
<1>4. Len(live') = Len(live) /\ \A j \in 1 .. Len(live) :
        live'[j] = IF j = i THEN [live[i] EXCEPT !.state = "written"] ELSE live[j]
  BY <1>1, <1>2, <1>3, ExceptSeq
<1>5. \A j \in 1 .. Len(live) : /\ live'[j].tier = live[j].tier /\ live'[j].hi = live[j].hi
                                /\ live'[j].scope = live[j].scope
  BY ZenonT(60), <1>2, <1>4 DEF BlockSet
<1> QED BY <1>1, <1>4, <1>5, ArenaUntouched

(* Both invariants together are kept by every step. *)
LEMMA ArenaStep == ASSUME IInv, AInv, [Next]_vars PROVE AInv'
<1>1. CASE Create
  BY <1>1, CreateKeeps
<1>2. CASE Release
  BY <1>2, ReleaseKeeps
<1>3. CASE Save
  BY <1>3, SaveKeeps
<1>4. CASE Restore
  BY <1>4, RestoreKeeps
<1>5. CASE CreateFails \/ Trim \/ UNCHANGED vars \/ \E n \in Sizes : Exhausted(n)
  <2>1. UNCHANGED <<at, commit, marks, live>>
    BY <1>5 DEF CreateFails, Trim, vars, Exhausted, region
  <2> QED BY <2>1, ArenaUntouched
<1>6. ASSUME NEW n \in Sizes, Alloc(n) \/ AllocZeroed(n) PROVE AInv'
  <2>1. Route(n) \in Tiers /\ n \in Nat
    BY ScratchAssumption DEF Route, Tiers
  <2>2. CASE Alloc(n)
    <3>1. /\ Bump(Route(n), n) /\ live' = Append(live, Block(Route(n), Start(Route(n)), n, FALSE))
          /\ marks' = marks
      BY <2>2 DEF Alloc
    <3> QED BY <2>1, <3>1, Appended, Zenon
  <2>3. CASE AllocZeroed(n)
    <3>1. /\ Bump(Route(n), n) /\ live' = Append(live, Block(Route(n), Start(Route(n)), n, TRUE))
          /\ marks' = marks
      BY <2>3 DEF AllocZeroed
    <3> QED BY <2>1, <3>1, Appended, Zenon
  <2> QED BY <1>6, <2>2, <2>3
<1>7. CASE \E i \in 1 .. Len(live) : Write(i)
  BY <1>7, WriteKeeps
<1> QED BY <1>1, <1>2, <1>3, <1>4, <1>5, <1>6, <1>7 DEF Next

LEMMA ArenaInit == Init => AInv
<1> SUFFICES ASSUME Init PROVE AInv
  OBVIOUS
<1>1. Len(live) = 0 /\ Len(marks) = 0 /\ \A t \in Tiers : at[t] = 0 /\ commit[t] = 0
  BY DEF Init
<1> QED BY <1>1 DEF AInv, Tight, EndsOf, CommittedToAt, ScopesNested

THEOREM ArenaInvariant == ASSUME HugeTiers = {} PROVE Spec => [](IInv /\ AInv)
<1>1. AInv /\ [Next]_vars /\ IInv => AInv'
  BY ArenaStep
<1> QED BY <1>1, ArenaInit, Invariant, PTL DEF Spec

(* Leaving scopes (scratch_restore) gives back exactly their blocks: in every  *)
(* state a tier's pointer is the end of its newest live block, or its base.    *)
THEOREM NothingLeaks == ASSUME HugeTiers = {} PROVE Spec => []NoLeak
<1>1. IInv /\ AInv => NoLeak
  <2> SUFFICES ASSUME IInv, AInv, NEW t \in Tiers
               PROVE  LET mine == {i \in 1 .. Len(live) : live[i].tier = t}
                      IN  IF mine = {} THEN at[t] = 0
                          ELSE \E i \in mine : at[t] = live[i].hi /\ \A j \in mine : j <= i
    BY DEF NoLeak
  <2>1. Len(live) \in Nat
    BY LiveTypes DEF IInv
  <2>2. CASE at[t] = 0 /\ \A j \in 1 .. Len(live) : live[j].tier # t
    BY <2>2
  <2>3. ASSUME NEW i \in 1 .. Len(live), live[i].tier = t, at[t] = live[i].hi,
               \A j \in i + 1 .. Len(live) : live[j].tier # t
        PROVE  LET mine == {k \in 1 .. Len(live) : live[k].tier = t}
               IN  IF mine = {} THEN at[t] = 0
                   ELSE \E k \in mine : at[t] = live[k].hi /\ \A j \in mine : j <= k
    <3>1. \A j \in 1 .. Len(live) : live[j].tier = t => j <= i
      BY <2>1, <2>3
    <3> QED BY <3>1, <2>3
  <2> QED BY <2>2, <2>3 DEF AInv, Tight, EndsOf
<1> QED BY <1>1, ArenaInvariant, PTL

(* Under SCRATCH_EXPLICIT_COMMIT scratch__commit keeps ahead of the pointers,  *)
(* clamp and page rounding included: no live block reaches an uncommitted page.*)
THEOREM CommitSuffices == ASSUME HugeTiers = {} PROVE Spec => []LiveCommitted
<1>1. IInv /\ AInv => LiveCommitted
  <2> SUFFICES ASSUME IInv, AInv, ExplicitCommit, NEW i \in 1 .. Len(live)
               PROVE  live[i].hi <= commit[live[i].tier]
    BY DEF LiveCommitted
  <2>1. live[i].tier \in Tiers /\ live[i].hi \in Nat
    BY LiveTypes DEF IInv
  <2>2. /\ live[i].hi <= at[live[i].tier] /\ at[live[i].tier] <= commit[live[i].tier]
        /\ at[live[i].tier] \in Nat /\ commit[live[i].tier] \in Nat
    BY <2>1 DEF IInv, BlocksSeparate, TypeOK, AInv, CommittedToAt
  <2> QED BY <2>1, <2>2
<1> QED BY <1>1, ArenaInvariant, PTL

-----------------------------------------------------------------------------
(* The arena implements the scoped store *)

Buffer(i) == [scope |-> live[i].scope, state |-> live[i].state, data |-> Contents(live[i])]
Buffers == [i \in 1 .. Len(live) |-> Buffer(i)]

(* A function on 1 .. n is a sequence of length n. *)
LEMMA TableLength ==
  ASSUME NEW n \in Nat, NEW f, f = [i \in 1 .. n |-> f[i]]
  PROVE  Len(f) = n
<1> DEFINE S == {f[i] : i \in 1 .. n}
<1>1. f \in [1 .. n -> S]
  OBVIOUS
<1> HIDE DEF S
<1>2. f \in Seq(S)
  BY <1>1, SeqDef
<1> QED BY <1>1, <1>2, LenProperties

LEMMA BuffersLength ==
  ASSUME TypeOK
  PROVE  /\ Len(Buffers) = Len(live) /\ Len(live) \in Nat
         /\ \A i \in 1 .. Len(live) : Buffers[i] = Buffer(i)
<1>1. Len(live) \in Nat
  BY LiveTypes
<1>2. Buffers = [i \in 1 .. Len(live) |-> Buffers[i]] /\ \A i \in 1 .. Len(live) : Buffers[i] = Buffer(i)
  BY DEF Buffers
<1> QED BY <1>1, <1>2, TableLength

(* A block whose cells keep their values keeps its buffer. *)
LEMMA BufferKept ==
  ASSUME NEW i \in 1 .. Len(live), TypeOK, live'[i] = live[i],
         \A c \in Span(live[i]) : mem'[live[i].tier][c] = mem[live[i].tier][c]
  PROVE  Buffer(i)' = Buffer(i)
<1>1. live[i].lo \in Nat /\ live[i].hi \in Nat
  BY LiveTypes
<1>2. \A k \in 0 .. live[i].hi - live[i].lo - 1 : live[i].lo + k \in Span(live[i])
  BY <1>1 DEF Span
<1>3. Contents(live[i])' = Contents(live[i])
  BY <1>2 DEF Contents
<1> QED BY <1>3 DEF Buffer

(* A block appended becomes a buffer obtained. *)
LEMMA ObtainStep ==
  ASSUME IInv, IInv', NEW t \in Tiers, NEW n \in Sizes, NEW z \in BOOLEAN, Bump(t, n),
         live' = Append(live, Block(t, Start(t), n, z)), UNCHANGED <<status, marks>>, status = "ready",
         \A i \in 1 .. Len(live) : \A c \in Span(live[i]) : mem'[live[i].tier][c] = mem[live[i].tier][c]
  PROVE  Store!Obtain(z)
<1> DEFINE b == Block(t, Start(t), n, z)
<1> PICK k : k = Len(live) + 1
  OBVIOUS
<1>0. n \in Nat /\ TypeOK /\ TypeOK' /\ AtBelowDirty /\ BlocksSeparate
  BY ScratchAssumption DEF IInv
<1>1. /\ Len(live) \in Nat /\ Len(live') = k /\ live'[k] = b /\ k \in Nat /\ k \in 1 .. k
      /\ \A i \in 1 .. Len(live) : live'[i] = live[i]
  <2>1. /\ Len(live) \in Nat /\ Len(live') = Len(live) + 1 /\ live'[Len(live) + 1] = b
        /\ \A i \in 1 .. Len(live) : live'[i] = live[i]
    BY <1>0, NewBlock, LiveTypes, Zenon
  <2> HIDE DEF b
  <2> QED BY <2>1
<1>2. Start(t) \in Nat
  BY <1>0, BumpEffect
<1>3. /\ b.tier = t /\ b.lo = Start(t) /\ b.hi = Start(t) + n /\ b.scope = Len(marks)
      /\ b.state = IF z THEN "zeroed" ELSE "raw"
      /\ z => b.state = "zeroed"
  BY DEF Block
<1> HIDE DEF b
<1>4. /\ Len(Buffers) = Len(live) /\ Len(Buffers') = k
      /\ \A i \in 1 .. Len(live) : Buffers[i] = Buffer(i)
      /\ \A i \in 1 .. k : Buffers'[i] = Buffer(i)'
  <2>1. Buffers' = [i \in 1 .. k |-> Buffers'[i]] /\ \A i \in 1 .. k : Buffers'[i] = Buffer(i)'
    BY <1>1 DEF Buffers
  <2>2. Len(Buffers') = k
    BY <2>1, <1>1, TableLength
  <2> QED BY <2>1, <2>2, <1>0, BuffersLength
<1>5. \A i \in 1 .. Len(Buffers) : Buffers'[i] = Buffers[i]
  <2> SUFFICES ASSUME NEW i \in 1 .. Len(live) PROVE Buffers'[i] = Buffers[i]
    BY <1>4
  <2>1. Buffer(i)' = Buffer(i)
    BY <1>0, <1>1, BufferKept
  <2> QED BY <2>1, <1>1, <1>4
<1>6. /\ Buffers'[k].scope = Len(marks) /\ Buffers'[k].state = IF z THEN "zeroed" ELSE "raw"
      /\ Buffers'[k].data = [x \in 0 .. n - 1 |-> mem'[t][Start(t) + x]]
  <2>1. b.hi - b.lo - 1 = n - 1
    BY <1>0, <1>2, <1>3
  <2>2. Buffers'[k] = [scope |-> b.scope, state |-> b.state,
                       data |-> [x \in 0 .. b.hi - b.lo - 1 |-> mem'[b.tier][b.lo + x]]]
    <3>1. Buffers'[k] = Buffer(k)'
      BY <1>1, <1>4
    <3> QED BY <3>1, <1>1 DEF Buffer, Contents
  <2> QED BY <2>1, <2>2, <1>3
<1>7. z => \A x \in 0 .. n - 1 : mem'[t][Start(t) + x] = 0
  <2> SUFFICES ASSUME z, NEW x \in 0 .. n - 1 PROVE mem'[t][Start(t) + x] = 0
    OBVIOUS
  <2>1. BlocksIntact' /\ status' = "ready"
    BY DEF IInv
  <2>2. k \in 1 .. Len(live') /\ live'[k].state = "zeroed" /\ live'[k].tier = t
    BY <1>1, <1>3
  <2>3. Start(t) + x \in live'[k].lo .. live'[k].hi - 1
    <3>1. live'[k].lo = Start(t) /\ live'[k].hi = Start(t) + n
      BY <1>1, <1>3
    <3>2. Start(t) + x \in Start(t) .. (Start(t) + n) - 1
      BY <1>0, <1>2
    <3> QED BY <3>1, <3>2
  <2>4. \A i \in 1 .. Len(live') : \A c \in live'[i].lo .. live'[i].hi - 1 :
          live'[i].state = "zeroed" => mem'[live'[i].tier][c] = 0
    BY <2>1 DEF BlocksIntact, Span
  <2>5. mem'[live'[k].tier][Start(t) + x] = 0
    BY <2>2, <2>3, <2>4, Zenon
  <2> QED BY <2>2, <2>5
<1> DEFINE B == Buffers
           C == Buffers'
<1>8. /\ Len(C) = Len(B) + 1 /\ \A i \in 1 .. Len(B) : C[i] = B[i]
      /\ C[Len(C)].scope = Len(marks) /\ C[Len(C)].state = IF z THEN "zeroed" ELSE "raw"
      /\ \E w \in Sizes : DOMAIN C[Len(C)].data = 0 .. w - 1
      /\ z => \A x \in DOMAIN C[Len(C)].data : C[Len(C)].data[x] = 0
  <2>1. Len(C) = k /\ Len(C) = Len(B) + 1 /\ DOMAIN C[k].data = 0 .. n - 1
    BY <1>4, <1>6
  <2>2. z => \A x \in 0 .. n - 1 : C[k].data[x] = 0
    BY <1>6, <1>7
  <2> HIDE DEF C, B
  <2> QED BY <2>1, <2>2, <1>5, <1>6 DEF B, C
<1> QED BY <1>8 DEF Store!Obtain, Buffers, Buffer

(* A scope's blocks are those above its mark. *)
LEMMA LeaveStep == ASSUME IInv, AInv, IInv', Restore PROVE Store!Leave
<1> DEFINE m == marks[Len(marks)]
<1>1. /\ marks # << >> /\ status = "ready" /\ UNCHANGED <<status, mem>>
      /\ marks' = SubSeq(marks, 1, Len(marks) - 1) /\ live' = SubSeq(live, 1, m.blocks)
  BY DEF Restore
<1>2. Len(marks) \in Nat \ {0} /\ Len(marks) \in 1 .. Len(marks)
  BY <1>1, EmptySeq DEF IInv, TypeOK
<1>3. m.blocks \in Nat /\ m.blocks <= Len(live) /\ m.blocks \in 0 .. Len(live)
  BY <1>2, MarkTypes, MarkNested DEF IInv
<1> HIDE DEF m
<1>4. Len(marks') = Len(marks) - 1
  <2>1. marks \in Seq(MarkSet) /\ Len(marks) - 1 \in 0 .. Len(marks)
    BY <1>2 DEF IInv, TypeOK
  <2> QED BY <1>1, <2>1, Prefix
<1>5. Len(live') = m.blocks /\ \A i \in 1 .. m.blocks : live'[i] = live[i]
  <2>1. live \in Seq(BlockSet)
    BY DEF IInv, TypeOK
  <2> QED BY <1>1, <1>3, <2>1, Prefix
<1>6. Buffers' = SubSeq(Buffers, 1, m.blocks)
  <2>1. \A i \in 1 .. m.blocks : Buffer(i)' = Buffer(i)
    BY <1>1, <1>5 DEF Buffer, Contents
  <2>2. Buffers' = [i \in 1 .. m.blocks |-> Buffer(i)]
    BY <1>5, <2>1 DEF Buffers
  <2>3. \A i \in 1 .. m.blocks : i \in 1 .. Len(live) /\ Buffers[i] = Buffer(i)
    BY <1>3, BuffersLength DEF IInv
  <2>4. SubSeq(Buffers, 1, m.blocks) = [i \in 1 .. m.blocks |-> Buffer(i)]
      BY <1>3, <2>3
  <2> QED BY <2>2, <2>4
<1>7. \A i \in 1 .. Len(Buffers) : i > m.blocks <=> Buffers[i].scope = Len(marks)
  <2>0. Len(Buffers) = Len(live) /\ \A i \in 1 .. Len(live) : Buffers[i].scope = live[i].scope
    <3>1. Len(Buffers) = Len(live) /\ \A i \in 1 .. Len(live) : Buffers[i] = Buffer(i)
      BY BuffersLength DEF IInv
    <3>2. \A i \in 1 .. Len(live) : Buffer(i).scope = live[i].scope
      BY DEF Buffer
    <3> QED BY <3>1, <3>2
  <2> SUFFICES ASSUME NEW i \in 1 .. Len(live) PROVE i > m.blocks <=> live[i].scope = Len(marks)
    BY <2>0
  <2>1. live[i] \in BlockSet /\ i \in Nat
    BY LiveTypes DEF IInv
  <2>2. live[i].scope \in Nat /\ live[i].scope <= Len(marks)
    BY <2>1 DEF BlockSet, AInv, ScopesNested
  <2>3. i <= m.blocks <=> live[i].scope < Len(marks)
    BY <1>2 DEF AInv, ScopesNested, m
  <2> QED BY <2>1, <2>2, <2>3, <1>2, <1>3
<1>8. m.blocks \in 0 .. Len(Buffers)
  BY <1>3, BuffersLength DEF IInv
<1> DEFINE D == [i \in 1 .. Len(live) |->
                   [scope |-> live[i].scope, state |-> live[i].state, data |-> Contents(live[i])]]
<1>9. D = Buffers /\ D' = Buffers'
  BY DEF Buffers, Buffer
<1> HIDE DEF D
<1>10. \E k \in 0 .. Len(D) : D' = SubSeq(D, 1, k) /\ \A i \in 1 .. Len(D) : i > k <=> D[i].scope = Len(marks)
  BY <1>6, <1>7, <1>8, <1>9
<1>11. status = "ready" /\ Len(marks) > 0 /\ Len(marks)' = Len(marks) - 1 /\ status' = status
  BY <1>1, <1>2, <1>4
<1> QED BY <1>10, <1>11, Zenon DEF Store!Leave, D

(* An owner's write fills its buffer and no other. *)
LEMMA FillStep == ASSUME IInv, NEW i \in 1 .. Len(live), Write(i) PROVE Store!Fill(i)
<1> DEFINE b == live[i]
<1>1. /\ live' = [live EXCEPT ![i].state = "written"] /\ UNCHANGED <<status, marks>> /\ status = "ready"
      /\ mem' = [mem EXCEPT ![b.tier] = [c \in Cells(b.tier) |-> IF c \in Span(b) THEN i ELSE @[c]]]
  BY DEF Write
<1>2. /\ live \in Seq(BlockSet) /\ Len(live) \in Nat /\ b.tier \in Tiers /\ i \in Nat
      /\ \A j \in 1 .. Len(live) : /\ live[j] \in BlockSet /\ live[j].tier \in Tiers
                                    /\ live[j].lo \in Nat /\ live[j].hi \in Nat
  BY LiveTypes DEF IInv, TypeOK
<1>3. [b EXCEPT !.state = "written"] \in BlockSet
  BY <1>2 DEF BlockSet, BlockStates
<1>4. Len(live') = Len(live) /\ \A j \in 1 .. Len(live) :
        live'[j] = IF j = i THEN [b EXCEPT !.state = "written"] ELSE live[j]
  BY <1>1, <1>2, <1>3, ExceptSeq
<1>5. \A j \in 1 .. Len(live) : Span(live[j]) \subseteq Cells(live[j].tier)
  <2> SUFFICES ASSUME NEW j \in 1 .. Len(live), NEW c \in Span(live[j]) PROVE c \in Cells(live[j].tier)
    OBVIOUS
  <2>1. /\ live[j].hi <= at[live[j].tier] /\ at[live[j].tier] <= Reserve[live[j].tier]
        /\ at[live[j].tier] \in Nat /\ Reserve[live[j].tier] \in Nat
    BY <1>2, ReserveType DEF IInv, TypeOK, BlocksSeparate
  <2> QED BY <1>2, <2>1 DEF Span, Cells
<1>6. \A u \in Tiers : \A c \in Cells(u) : mem'[u][c] = IF u = b.tier /\ c \in Span(b) THEN i ELSE mem[u][c]
  BY <1>1, <1>2 DEF IInv, TypeOK
<1>7. ASSUME NEW j \in 1 .. Len(live), j # i PROVE Buffer(j)' = Buffer(j)
  <2>1. \A c \in Span(live[j]) : ~(live[j].tier = b.tier /\ c \in Span(b))
    BY SMTT(40), <1>2, <1>7 DEF IInv, BlocksSeparate, Span
  <2>2. \A c \in Span(live[j]) : mem'[live[j].tier][c] = mem[live[j].tier][c]
    BY <1>2, <1>5, <1>6, <2>1
  <2>3. live'[j] = live[j] /\ TypeOK
    BY <1>4, <1>7 DEF IInv
  <2> QED BY <2>2, <2>3, BufferKept
<1>8. Buffer(i)' = [scope |-> b.scope, state |-> "written", data |-> [x \in 0 .. b.hi - b.lo - 1 |-> i]]
  <2>1. /\ live'[i].tier = b.tier /\ live'[i].lo = b.lo /\ live'[i].hi = b.hi
        /\ live'[i].scope = b.scope /\ live'[i].state = "written"
    BY <1>2, <1>4 DEF BlockSet
  <2>2. \A x \in 0 .. b.hi - b.lo - 1 : b.lo + x \in Span(b)
    BY <1>2 DEF Span
  <2>3. \A x \in 0 .. b.hi - b.lo - 1 : mem'[b.tier][b.lo + x] = i
    BY <2>2, <1>2, <1>5, <1>6
  <2> QED BY <2>1, <2>3 DEF Buffer, Contents
<1>9. Buffers' = [Buffers EXCEPT ![i].state = "written", ![i].data = [x \in DOMAIN @ |-> i]]
  <2>1. Buffers' = [j \in 1 .. Len(live) |-> Buffer(j)']
    BY <1>4 DEF Buffers
  <2>2. [Buffers EXCEPT ![i].state = "written", ![i].data = [x \in DOMAIN @ |-> i]]
        = [j \in 1 .. Len(live) |-> IF j = i
             THEN [scope |-> b.scope, state |-> "written", data |-> [x \in 0 .. b.hi - b.lo - 1 |-> i]]
             ELSE Buffer(j)]
    <3> DEFINE R == [scope |-> b.scope, state |-> "written", data |-> [x \in 0 .. b.hi - b.lo - 1 |-> i]]
               f == [Buffers EXCEPT ![i].state = "written", ![i].data = [x \in DOMAIN @ |-> i]]
    <3>1. Buffers[i].scope = b.scope /\ DOMAIN Buffers[i].data = 0 .. b.hi - b.lo - 1
      BY DEF Buffers, Buffer, Contents
    <3>2. f[i] = R
      BY <3>1 DEF Buffers, Buffer
    <3>3. \A j \in 1 .. Len(live) : j # i => f[j] = Buffer(j)
      BY DEF Buffers
    <3>4. f = [j \in 1 .. Len(live) |-> f[j]]
      BY DEF Buffers
    <3> HIDE DEF f, R
    <3>5. f = [j \in 1 .. Len(live) |-> IF j = i THEN R ELSE Buffer(j)]
      BY <3>2, <3>3, <3>4
    <3> QED BY <3>5 DEF f, R
  <2> QED BY <2>1, <2>2, <1>7, <1>8
<1> QED BY <1>1, <1>9 DEF Store!Fill, Buffers, Buffer

(* Trimming, like stuttering, is invisible to the owners of buffers. *)
LEMMA TrimInvisible == ASSUME IInv, Trim PROVE UNCHANGED <<status, Len(marks), Buffers>>
<1>1. UNCHANGED <<status, at, marks, live>>
  BY DEF Trim
<1>2. ASSUME NEW i \in 1 .. Len(live) PROVE Buffer(i)' = Buffer(i)
  <2>1. /\ live[i].tier \in Tiers /\ live[i].lo \in Nat /\ live[i].hi \in Nat /\ TypeOK
        /\ live[i].hi <= at[live[i].tier] /\ at[live[i].tier] <= Reserve[live[i].tier]
        /\ at[live[i].tier] \in Nat /\ Reserve[live[i].tier] \in Nat
    BY LiveTypes, ReserveType DEF IInv, TypeOK, BlocksSeparate
  <2>2. TrimFrom(live[i].tier) \in Nat /\ at[live[i].tier] <= TrimFrom(live[i].tier)
    BY <2>1, AlignUpBounds, ScratchAssumption DEF TrimFrom
  <2>3. \A c \in Span(live[i]) : c \in Cells(live[i].tier) /\ ~(TrimFrom(live[i].tier) <= c)
    BY SMTT(40), <2>1, <2>2 DEF Span, Cells
  <2>4. \A c \in Span(live[i]) : mem'[live[i].tier][c] = mem[live[i].tier][c]
    BY <2>1, <2>3 DEF Trim
  <2> QED BY <1>1, <2>1, <2>4, BufferKept
<1>3. Buffers' = Buffers
  BY <1>1, <1>2 DEF Buffers
<1> QED BY <1>1, <1>3

(* The steps that only touch blocks' contents leave older buffers alone. *)
LEMMA AllocObtains ==
  ASSUME IInv, IInv', NEW n \in Sizes, Alloc(n) \/ AllocZeroed(n)
  PROVE  \E z \in BOOLEAN : Store!Obtain(z)
<1> DEFINE t == Route(n)
<1>1. t \in Tiers /\ n \in Nat /\ IInv
  BY ScratchAssumption DEF Route, Tiers
<1>2. CASE Alloc(n)
  <2>1. /\ Bump(t, n) /\ live' = Append(live, Block(t, Start(t), n, FALSE))
        /\ UNCHANGED <<status, marks, mem>> /\ status = "ready"
    BY <1>2 DEF Alloc
  <2>2. \A i \in 1 .. Len(live) : \A c \in Span(live[i]) : mem'[live[i].tier][c] = mem[live[i].tier][c]
    BY <2>1
  <2>3. Store!Obtain(FALSE)
    BY <1>1, <2>1, <2>2, ObtainStep, Zenon
  <2> QED BY <2>3
<1>3. CASE AllocZeroed(n)
  <2>1. /\ Bump(t, n) /\ live' = Append(live, Block(t, Start(t), n, TRUE))
        /\ UNCHANGED <<status, marks>> /\ status = "ready"
        /\ mem' = [mem EXCEPT ![t] = [c \in Cells(t) |-> IF c \in Cleared(t, Start(t), n) THEN 0 ELSE @[c]]]
    BY <1>3 DEF AllocZeroed
  <2>2. Start(t) \in Nat /\ at[t] <= Start(t) /\ at[t] \in Nat
    BY <1>1, <2>1, BumpEffect DEF IInv, TypeOK
  <2>3. ASSUME NEW i \in 1 .. Len(live), NEW c \in Span(live[i])
        PROVE  mem'[live[i].tier][c] = mem[live[i].tier][c]
    <3>1. /\ live[i].tier \in Tiers /\ live[i].lo \in Nat /\ live[i].hi \in Nat
          /\ live[i].hi <= at[live[i].tier] /\ at[live[i].tier] <= Reserve[live[i].tier]
          /\ at[live[i].tier] \in Nat /\ Reserve[live[i].tier] \in Nat
      BY LiveTypes, ReserveType DEF IInv, TypeOK, BlocksSeparate
    <3>2. c \in Cells(live[i].tier) /\ c < at[live[i].tier] /\ c \in Int
      BY <3>1 DEF Span, Cells
    <3>3. ~(live[i].tier = t /\ c \in Cleared(t, Start(t), n))
      BY <1>1, <2>2, <3>2 DEF Cleared
    <3> QED BY <2>1, <3>1, <3>2, <3>3 DEF IInv, TypeOK
  <2>4. Store!Obtain(TRUE)
    BY <1>1, <2>1, <2>3, ObtainStep, Zenon
  <2> QED BY <2>4
<1> QED BY <1>2, <1>3

LEMMA StoreStep ==
  ASSUME IInv, AInv, IInv', [Next]_vars
  PROVE  [Store!StoreNext]_Store!storeVars
<1> USE DEF Store!StoreNext
<1>1. CASE Create
  <2>1. status = "absent" /\ status' = "ready" /\ UNCHANGED <<marks, live>> /\ live = << >> /\ live' = << >>
    BY <1>1 DEF Create, IInv, IdleEmpty
  <2>2. Len(live) = 0
    BY <2>1
  <2> QED BY <2>1, <2>2 DEF Store!Open
<1>2. CASE Release
  <2>1. /\ status = "ready" /\ status' = "absent" /\ marks = << >> /\ marks' = << >> /\ live' = << >>
    BY <1>2 DEF Release
  <2>2. Len(marks) = 0 /\ Len(marks') = 0 /\ Len(live') = 0
    BY <2>1
  <2>3. Buffers' = << >>
    BY <2>1, <2>2 DEF Buffers
  <2> QED BY <2>1, <2>2, <2>3 DEF Store!Close, Buffers, Buffer
<1>3. CASE CreateFails \/ \E n \in Sizes : Exhausted(n)
  <2>1. status \in {"absent", "ready"} /\ status' = "aborted" /\ UNCHANGED <<marks, live, mem>>
    BY <1>3 DEF CreateFails, Exhausted
  <2>2. UNCHANGED Buffers
    BY <2>1 DEF Buffers, Buffer, Contents
  <2> QED BY <2>1, <2>2 DEF Store!GiveUp, Buffers, Buffer
<1>4. CASE Save
  <2>1. /\ status = "ready" /\ marks' = Append(marks, [at |-> at, blocks |-> Len(live)])
        /\ UNCHANGED <<status, live, mem>>
    BY <1>4 DEF Save
  <2>2. marks \in Seq(MarkSet) /\ [at |-> at, blocks |-> Len(live)] \in MarkSet
    BY LiveTypes DEF IInv, TypeOK, MarkSet
  <2>3. Len(marks') = Len(marks) + 1
    BY <2>1, <2>2
  <2>4. UNCHANGED Buffers
    BY <2>1 DEF Buffers, Buffer, Contents
  <2> QED BY <2>1, <2>3, <2>4 DEF Store!Enter, Buffers, Buffer
<1>5. CASE Restore
  BY <1>5, LeaveStep
<1>6. CASE Trim
  BY <1>6, TrimInvisible DEF Store!storeVars, Buffers, Buffer
<1>7. CASE \E n \in Sizes : Alloc(n) \/ AllocZeroed(n)
  BY <1>7, AllocObtains
<1>8. CASE \E i \in 1 .. Len(live) : Write(i)
  <2>1. PICK i \in 1 .. Len(live) : Write(i)
    BY <1>8
  <2>2. Store!Fill(i)
    BY <2>1, FillStep
  <2>3. i \in 1 .. Len(Buffers)
    BY BuffersLength DEF IInv
  <2> QED BY <2>2, <2>3 DEF Buffers, Buffer
<1>9. CASE UNCHANGED vars
  <2>1. UNCHANGED <<status, marks, live, mem>>
    BY <1>9 DEF vars
  <2>2. UNCHANGED <<status, Len(marks), Buffers>>
    BY <2>1 DEF Buffers, Buffer, Contents
  <2> QED BY <2>2 DEF Store!storeVars, Buffers, Buffer
<1> QED BY <1>1, <1>2, <1>3, <1>4, <1>5, <1>6, <1>7, <1>8, <1>9 DEF Next

(* scratch.h keeps ScopedStore's promise: to its callers the two tiers, marks, *)
(* dirty and committed parts and trimming are a stack of scopes that hold      *)
(* private buffers.                                                            *)
THEOREM ArenaRefines == ASSUME HugeTiers = {} PROVE Spec => ImplementsScopedStore
<1>1. Init => Store!StoreInit
  <2> SUFFICES ASSUME Init PROVE Store!StoreInit
    OBVIOUS
  <2>1. status = "absent" /\ Len(marks) = 0 /\ Len(live) = 0
    BY DEF Init
  <2>2. Buffers = << >>
    BY <2>1 DEF Buffers
  <2> QED BY <2>1, <2>2 DEF Store!StoreInit, Buffers, Buffer
<1>2. IInv /\ AInv /\ IInv' /\ [Next]_vars => [Store!StoreNext]_Store!storeVars
  BY StoreStep
<1> QED BY <1>1, <1>2, ArenaInvariant, PTL DEF Spec, ImplementsScopedStore, Store!StoreSpec

-----------------------------------------------------------------------------
(* The workspace of pq16_mul_r, for every size and wherever both tiers' tops *)
(* stand.                                                                    *)

(* Rounding up reaches a multiple within one step. *)
LEMMA Round128 ==
  ASSUME NEW p \in Nat
  PROVE  LET r == (p + 127) - ((p + 127) % 128)
         IN  r \in Nat /\ r % 128 = 0 /\ p <= r /\ r <= p + 127
  OBVIOUS

LEMMA RoundUpBounds ==
  ASSUME NEW p \in Nat, NEW a \in Nat \ {0}
  PROVE  RoundUp(p, a) \in Nat /\ p <= RoundUp(p, a)
<1>1. (p + (a - 1)) % a \in 0 .. a - 1
  OBVIOUS
<1> QED BY <1>1 DEF RoundUp

(* A multiple of an alignment that is itself a multiple of 8. *)
LEMMA RoundUpBy8 ==
  ASSUME NEW p \in Nat, NEW a \in Nat \ {0}, a % 8 = 0
  PROVE  RoundUp(p, a) % 8 = 0
<1> DEFINE x == p + (a - 1)
<1>1. PICK m \in Nat : a = 8 * m
  OBVIOUS
<1>2. x \in Nat
  OBVIOUS
<1>3. PICK k \in Nat : x - (x % a) = a * k
  <2>1. x = a * (x \div a) + (x % a) /\ x \div a \in Nat /\ x % a \in Nat
    BY <1>2
  <2> HIDE DEF x
  <2>2. x - (x % a) = a * (x \div a)
    BY <2>1, <1>2
  <2> QED BY <2>1, <2>2
<1>4. m * k \in Nat /\ a * k = 8 * (m * k)
  BY <1>1, <1>3
<1>5. RoundUp(p, a) = 8 * (m * k)
  BY <1>3, <1>4 DEF RoundUp
<1> HIDE DEF x
<1> QED BY <1>4, <1>5

(* An allocation is a multiple of 8 above the tier's old top, and the top     *)
(* moves to its end; the other tier's does not move.                         *)
LEMMA SallocFacts ==
  ASSUME NEW tops \in [{"stack", "heap"} -> Nat], NEW bytes \in Nat
  PROVE  LET s == salloc(tops, bytes)
         IN  /\ s.tier \in {"stack", "heap"} /\ s.lo \in Nat /\ s.hi = s.lo + bytes /\ s.hi \in Nat
             /\ tops[s.tier] <= s.lo /\ s.lo % 8 = 0
             /\ s.at \in [{"stack", "heap"} -> Nat] /\ s.at[s.tier] = s.hi
             /\ \A t \in {"stack", "heap"} : tops[t] <= s.at[t]
<1> DEFINE tier == IF bytes < Page THEN "stack" ELSE "heap"
           lo == RoundUp(tops[tier], IF tier = "stack" THEN Align ELSE Page)
<1>1. tier \in {"stack", "heap"} /\ tops[tier] \in Nat
  OBVIOUS
<1>2. lo \in Nat /\ tops[tier] <= lo /\ lo % 8 = 0
  BY <1>1, RoundUpBounds, RoundUpBy8, WorkspaceAssumption
<1>3. salloc(tops, bytes) = [tier |-> tier, lo |-> lo, hi |-> lo + bytes, at |-> [tops EXCEPT ![tier] = lo + bytes]]
  BY DEF salloc
<1> HIDE DEF tier, lo
<1> QED BY <1>1, <1>2, <1>3

(* The spectra fit, whatever the address and the transform: 48 spare doubles  *)
(* pay for the alignment and for the 32 between them.  Every transform has a  *)
(* multiple of 128 points (f16_choose, pq16_choose); 8 is enough.             *)
THEOREM SpectraAlwaysFit ==
  ASSUME NEW daw \in Nat, daw % 8 = 0, NEW nfull \in Nat, nfull % 8 = 0
  PROVE  SpectraFit(daw, 8 * (4 * nfull + 48), spectra(daw, nfull))
<1> DEFINE r == (daw + 127) - ((daw + 127) % 128)
<1>1. r \in Nat /\ r % 128 = 0 /\ daw <= r /\ r <= daw + 127
  BY Round128
<1>2. r <= daw + 120
  BY <1>1
<1>3. PICK k \in Nat : nfull = 8 * k
  OBVIOUS
<1>4. 8 * (2 * nfull + 32) = 128 * (k + 2)
  BY <1>3
<1>5. (r + 128 * (k + 2)) % 128 = 0
  BY <1>1, <1>3
<1> QED BY <1>1, <1>2, <1>3, <1>4, <1>5 DEF SpectraFit, spectra

(* Of two allocations the later one lies above the earlier, or in the other   *)
(* tier.                                                                     *)
LEMMA LaterApart ==
  ASSUME NEW tops \in [{"stack", "heap"} -> Nat], NEW m \in Nat,
         NEW before \in [{"stack", "heap"} -> Nat], NEW n \in Nat,
         \A t \in {"stack", "heap"} : salloc(tops, m).at[t] <= before[t]
  PROVE  \/ salloc(tops, m).tier # salloc(before, n).tier
         \/ salloc(tops, m).hi <= salloc(before, n).lo
<1>1. salloc(tops, m).at[salloc(tops, m).tier] = salloc(tops, m).hi /\ salloc(tops, m).tier \in {"stack", "heap"}
      /\ salloc(tops, m).hi \in Nat
  BY SallocFacts, ZenonT(60)
<1>2. before[salloc(before, n).tier] <= salloc(before, n).lo /\ salloc(before, n).lo \in Nat
  BY SallocFacts, ZenonT(60)
<1> QED BY <1>1, <1>2

(* Every buffer of a call lies in its allocation and meets no other, centred  *)
(* or not, wherever both tiers stand and however its allocations are routed.  *)
THEOREM WorkspaceFits ==
  ASSUME NEW tops \in [{"stack", "heap"} -> Nat], NEW nfull \in Nat, nfull % 8 = 0,
         NEW rl \in Nat, NEW cen \in BOOLEAN
  PROVE  PartsFit(workspace(tops, nfull, rl, cen).parts)
<1> DEFINE bs == 8 * (4 * nfull + 48)
           bc == 8 * (nfull \div 2 + 8)
           br == 8 * (rl + 8)
           daw == salloc(tops, bs)
           ca == salloc(daw.at, bc)
           cb == salloc(ca.at, bc)
           cr == salloc(cb.at, br)
           both == spectra(daw.lo, nfull)
           pa == [block |-> daw, lo |-> both.da.lo, hi |-> both.da.hi]
           pb == [block |-> daw, lo |-> both.db.lo, hi |-> both.db.hi]
           pca == [block |-> ca, lo |-> ca.lo, hi |-> ca.lo + 4 * nfull]
           pcb == [block |-> cb, lo |-> cb.lo, hi |-> cb.lo + 4 * nfull]
           pcr == [block |-> cr, lo |-> cr.lo, hi |-> cr.lo + 8 * rl]
           Tier == {"stack", "heap"}
<1>1. /\ bs \in Nat /\ bc \in Nat /\ br \in Nat
      /\ 4 * nfull \in Nat /\ 4 * nfull <= bc /\ 8 * rl \in Nat /\ 8 * rl <= br
  OBVIOUS
<1>2. /\ daw.at \in [Tier -> Nat] /\ daw.lo \in Nat /\ daw.lo % 8 = 0
      /\ daw.hi = daw.lo + bs
  BY <1>1, SallocFacts, ZenonT(60)
<1>3. /\ ca.at \in [Tier -> Nat] /\ ca.lo \in Nat /\ ca.hi = ca.lo + bc
      /\ \A t \in Tier : daw.at[t] <= ca.at[t]
  BY <1>1, <1>2, SallocFacts, ZenonT(60)
<1>4. /\ cb.at \in [Tier -> Nat] /\ cb.lo \in Nat /\ cb.hi = cb.lo + bc
      /\ \A t \in Tier : ca.at[t] <= cb.at[t]
  BY <1>1, <1>3, SallocFacts, ZenonT(60)
<1>5. cr.lo \in Nat /\ cr.hi = cr.lo + br
  BY <1>1, <1>4, SallocFacts, ZenonT(60)
<1>6. \A t \in Tier : daw.at[t] <= daw.at[t] /\ ca.at[t] <= ca.at[t] /\ cb.at[t] <= cb.at[t] /\ daw.at[t] <= cb.at[t]
  <2> SUFFICES ASSUME NEW t \in Tier
      PROVE daw.at[t] <= daw.at[t] /\ ca.at[t] <= ca.at[t] /\ cb.at[t] <= cb.at[t] /\ daw.at[t] <= cb.at[t]
    OBVIOUS
  <2>1. daw.at[t] \in Nat /\ ca.at[t] \in Nat /\ cb.at[t] \in Nat
    BY <1>2, <1>3, <1>4
  <2>2. daw.at[t] <= ca.at[t] /\ ca.at[t] <= cb.at[t]
    BY <1>3, <1>4
  <2> HIDE DEF daw, ca, cb
  <2> QED BY <2>1, <2>2
<1>7. /\ daw.tier # ca.tier \/ daw.hi <= ca.lo
      /\ daw.tier # cb.tier \/ daw.hi <= cb.lo
      /\ daw.tier # cr.tier \/ daw.hi <= cr.lo
      /\ ca.tier # cb.tier \/ ca.hi <= cb.lo
      /\ ca.tier # cr.tier \/ ca.hi <= cr.lo
      /\ cb.tier # cr.tier \/ cb.hi <= cr.lo
  <2>1. (daw.tier # ca.tier \/ daw.hi <= ca.lo) /\ (ca.tier # cb.tier \/ ca.hi <= cb.lo)
        /\ (cb.tier # cr.tier \/ cb.hi <= cr.lo)
    BY <1>1, <1>2, <1>3, <1>4, <1>6, LaterApart, ZenonT(60)
  <2>2. (daw.tier # cb.tier \/ daw.hi <= cb.lo) /\ (ca.tier # cr.tier \/ ca.hi <= cr.lo)
    BY <1>1, <1>2, <1>3, <1>4, LaterApart, ZenonT(60)
  <2>3. daw.tier # cr.tier \/ daw.hi <= cr.lo
    BY <1>1, <1>2, <1>4, <1>6, LaterApart, ZenonT(60)
  <2> QED BY <2>1, <2>2, <2>3
<1>8. SpectraFit(daw.lo, bs, both)
  BY <1>2, SpectraAlwaysFit
<1> HIDE DEF daw, ca, cb, cr, both, bs, bc, br
<1>9. /\ daw.lo <= pa.lo /\ pa.hi <= pb.lo /\ pb.hi <= daw.hi
      /\ pa.lo \in Int /\ pa.hi \in Int /\ pb.lo \in Int /\ pb.hi \in Int
      /\ pa.lo <= pa.hi /\ pb.lo <= pb.hi
  <2>1. both.da.lo \in Int /\ both.da.hi = both.da.lo + 16 * nfull
        /\ both.db.lo \in Int /\ both.db.hi = both.db.lo + 16 * nfull
    BY <1>2 DEF both, spectra
  <2> QED BY <2>1, <1>2, <1>8 DEF SpectraFit
<1>10. PartsFit({pa, pb})
  BY <1>1, <1>2, <1>9 DEF PartsFit, Apart
<1>11. PartsFit({pa, pb, pca, pcb, pcr})
  BY <1>1, <1>2, <1>3, <1>4, <1>5, <1>7, <1>9, SMTT(30) DEF PartsFit, Apart
<1>12. workspace(tops, nfull, rl, cen).parts = IF cen THEN {pa, pb} \cup {pca, pcb, pcr} ELSE {pa, pb}
  BY DEF workspace, daw, ca, cb, cr, both, bs, bc, br
<1>13. {pa, pb} \cup {pca, pcb, pcr} = {pa, pb, pca, pcb, pcr}
  OBVIOUS
<1> QED BY <1>10, <1>11, <1>12, <1>13
=============================================================================
