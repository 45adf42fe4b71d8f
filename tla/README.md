# simd_bigint: formal models, checks and proofs

`simd_bigint` is a C big-integer library for AVX-512. Its public layer works on
little-endian arrays of unsigned 64-bit limbs; inside, numbers are vectors of
eight 52-bit digits ("u52"), FFT points or NTT residues. It has almost no
concurrency. What is hard in it is arithmetic on *redundant* digits, memory
plans in which nearly every value overlaps another one, corrections that run
for one operand in millions, tables and buffers that outlive the call that
sized them, and an arena whose zeroed blocks are free only as long as a
high-water mark tells the truth. Random tests reach few of these; the modules
here enumerate them on small digits, vectors and blocks, and prove the most
important ones for all sizes.

All paths below are relative to the repository; headers are in `include/`.

## Inventory

| Part | State | Operations | What makes it correct |
|---|---|---|---|
| Scratch arena, `scratch.h` | per thread: two regions (`at`, `cap`, `base`, `dirty`, `commit`), marks on the C stack | create, destroy, alloc, alloc_zeroed, save/restore (`SCRATCH`), trim, commit | live blocks are disjoint and aligned; zeroed blocks are zero; leaving a scope frees exactly its blocks; memory above `dirty` is kernel-zero |
| Carry chains and lane kernels, `canon.h`, `interp_helpers.h`, `addsub_nc_impl` | registers of one pass: digit overflow, mask carry, borrow, held vector | canonicalize, fold, halve, evaluate, add/sub without carries, compare-and-subtract, add with carry, divide by 3 | the value is conserved between vectors; masked stores touch nothing else; a returned carry resumes exactly |
| Multiply, `mul.h`, `mul_vec.h`, `u52-mparam.h` | recursion with scratch scopes | basecase, karatsuba, toom32/33/42, strips, dispatch | each algorithm gets a legal shape; class 0/1 of lanes is truthful; lanes stay inside 64 bits; the shared memory holds what is read from it |
| Middle product, `mulmid.h` | none | two complete forms; `mulmid_basecase` is unfinished | the diagonals asked for, without the highs of the one below |
| Block division, `div.h`, `divrem.h`, `dc_div.h` | dividend reduced in place, quotient, recursion | 3/2 estimate, schoolbook, 2n/n recursion, chunks; wrappers for 64-bit words | dividend = quotient * divisor + remainder at each level; few corrections |
| 3/2 reciprocals, `recip_3by2*.h`, `src/avx512` | none | Newton iteration in assembly, seed and full kernel | the seed is within one of the exact reciprocal, the full kernel exact |
| Scalar division, `sbn_div.h`, `sbn_mpn.h` | none | GMP-style division of words | quotient and remainder |
| n-limb additions, `addsub_n*` | none | add and subtract with carry, blocks, vectors, masked tail | exact carries |
| u64/u52 codec and `simd_mpn_mul`, `u64cvt.h` | scratch scope of a call | decode, encode per class, choice of engine | product limbs right for either class; lanes above the product zero |
| NTT engines, `p30.h`, `p50.h`, `ntmul.h` | thread-local plans (root tables); global Karatsuba tables of p30 | truncated transforms over 5 or 4 primes, CRT, size ladder, fallback between engines | any truncation inverts; CRT bound holds; a refusal leaves the result to the other engine |
| FFT engines, `fft16.h`, `pq16.h` | thread-local plan and tables, workspace | size choice, transforms of radix 1/3/5/7, carry emission on parallel fronts | the transform holds the product; carries close; tables serve every size that uses them |
| Reference FFT, `reference/int_fft.hpp` | thread-local tables, workspace, input cache | five codecs, cascades, prime-factor stages, three recoveries | the product, whatever calls came before |

The parts meet as follows. The codec calls the multiply on scratch memory it
saved and restores; multiply and division open a scope of their own per call;
division calls the multiply (`blk_mul`) and canonicalizes its result; the
multiply's algorithms are sequences of lane kernels and recursive products;
engines are tried in order and refuse by returning 0. Contracts between them
are stated in `docs/design.md` ("Design Invariants") and in comments; the ones
that matter most are the lane *classes* (0: non-negative, inside the basecase
bound; 1: signed) and "folds must run to the top of the mixed span".

Hard behaviours: signed and oversized digits rippling over vector boundaries;
full-vector loads and stores next to foreign data; values that die while
another takes their place; parities, sizes and signs that change which limbs
exist; rare quotient estimates; loops that end only because a carry is
returned; refusals halfway through a call; plans that serve sizes they were not
built for; a failed `madvise`; first use of tables by several threads.
`PROJECT.json` lists each hazard at its line and the properties aimed at it.

## Modules

| Module | Models | State and actions |
|---|---|---|
| `ScopedStore` | what the arena promises: buffers without addresses in nested scopes | abstract specification |
| `Scratch` | `scratch.h`, one thread's arena | the region fields of both tiers, cells of memory, marks, live blocks; one action per entry point, with commit, partial zeroing and trim inside |
| `DigitNumbers` | the value of a sequence of digits | recursive functions |
| `Lanes` | vectors of lanes: masks, `alignr`, `canonize`, `canonneg`, the two halvings | operators |
| `LaneKernels` | the twenty streaming kernels | a turn of a kernel's loop is `Load` then `Resolve`; operand lanes are chosen as they are read |
| `CarryOps` | `u52_cmp_and_sub`, `u52_add_carry` with their aliasings | arrays of limbs with foreign lanes; `ScanAbove`, `Compare`, `Combine`, `Spill` follow the loops |
| `DivExact3` | `mpn_u52_divexact3` | `Unrolled`, `Single`, `TailVector`: the three loops |
| `Basecase` | `mul_u52_1`, `mul_u52_basecase`, `mul_u52_vec` and its fast form, block products and additions of `div.h`, the middle products | operands, result, the registers kept from one output vector to the next; one action per output vector |
| `AddSubN` | `mpn_add_n`, `mpn_sub_n` on full words | one action per store: block, vector, masked tail, single limb |
| `MulShapes` | splits and shape tests of the multiply, and its strips | operators |
| `MulDispatch` | `mul_u52_dispatch` and its recursion | a stack of calls; products are classes and intervals of lane values; `Dispatch`, `Recurse`, `Return`, `Receive`, and `Toom42Directly` for the strips that bypass the dispatch |
| `ProductPlans` | karatsuba, toom32, toom33, toom42 with `u52_toom_interp_5pts`, and the strips with the seams between them, on their shared memory | limbs are linear combinations of coefficient limbs; an algorithm is a list of instructions run vector by vector (`MakeStep`, `StreamVector`) |
| `BlockDiv` | `divrem_core`, `blk_sbpi1`, `blk_dcpi1_div_qr_n`, `blk_chunk_divide`, `blk_dcpi1_div_qr`, `div3by2` | dividend, quotient and divisor blocks and a stack of frames; one action per step between calls |
| `Recip3by2` | `recip_3by2_seed.s`, `recip_3by2.s` | three Newton steps with the word products they leave out, the tail that verifies and corrects |
| `U64Codec` | `u64cvt.h` and the encoders of `canon.h` | words to digits and back through the code's byte tables |
| `SimdMul` | `simd_mpn_mul` | a call's buffers in a stale arena; kernel, refusal, decode, product, encode |
| `Divrem64` | `divrem_u64`, `divrem_u64_dc` | one arena for divisor, dividend and quotient; decode-shift, seed extraction, block division, encode |
| `SbnDiv` | `sbn_div.h` | normalization, the quotient loop, the corrections |
| `TruncatedNtt` | `p30.h`: `p30_mul_r` and `p30_sqr_r` for one prime, from residues to scaled residues | the two arrays, the thread's root tables, the list of passes and calls still to do; a recursive function (`FwdRec`, `FusedSb`, ...) replaces its call by its body, a pass rewrites an array |
| `P30Io` | `p30.h` from limbs to residues of five primes, and back by Garner and two carry chains | one action per block of vectors, hand-over to the scalar tail, spill check |
| `P50Ntt` | `p50.h`: its transform, plan, decoding, Garner, carries and regrouping | operators on arrays and plans |
| `NtEngines` | `ntmul.h` over both engines; `p50_mul_r`, `p50_sqr_r` | a thread's sequence of calls with one plan; pick, refusal, the other engine, the steps of a p50 call |
| `PqFft` | the passes of `fft16.h`, and the field they are computed in | operators on arrays of points |
| `Fronts` | packing, carry chains and junctions of the emitted product | operators |
| `FftCall` | the state both FFT engines work on, and what a product must be | variables and properties |
| `Fft16` | `fft16_mul`, `f16_plan_ensure`, the round trip of the test | one action per phase: choice, plan, transforms, pointwise, inverse, emit |
| `Pq16Passes`, `Pq16Workspace`, `Pq16` | the passes of `pq16.h`; where its buffers lie; `pq16_mul_r` | as for `Fft16`, with tables of its own and a scratch scope per call |
| `IntFftPasses`, `IntFft` | `reference/int_fft.hpp` | its passes; a session of calls over thread-local tables, cache and partial sums |
| `NumberProofs` | induction over the natural numbers, powers, numbers as sums of digits, division with remainder | lemmas, proved |
| `ScratchProofs`, `LaneProofs`, `KernelProofs`, `MulDispatchProofs`, `BlockDivProofs`, `BasecaseProofs`, `SbnDivProofs` | theorems, see below | - |
| `MCVectors`, `MCMulPlans`, `MCProducts`, `MCBlockDiv`, `MCEntries`, `MCFftEngines`, `MCEngines` | compose the machines a run checks, one machine per behaviour, and give their inputs | - |

Names are the code's where TLA+ allows it; a definition named `X_something` is a
faulty variant of `X`, kept to show that a property would notice.

### What the models abstract

* `Scratch` counts memory in cells and pages of a few cells. `HugeTiers` are
  the tiers whose hugetlb mapping succeeds. The commit policy is a constant.
* `Lanes` keeps machine words of `B * H` values: `B` is a digit's range, `H`
  the headroom above it (2^52 and 2^12 in the code). Wrap-around is kept.
* `MulDispatch` does not compute. It keeps for each lane of a product the
  interval of its values in units of 2^52. Intervals are added as if the lanes
  were independent, which can only widen them: for karatsuba's recomposition, for
  the points of toom32, toom33 and toom42 as they stack up before the last fold,
  and for every sum before it is halved. The two differences of a call (`|a0 -
  a1|`, `|b0 - b1|`) have lengths of their own, chosen anew at every call from
  those that change a shape (`Gaps`, by depth of the recursion): all nine
  pairs of zero, full length and a top vector less in the outermost call, both
  full or one zero in the calls below it, full further down.
* `ProductPlans` computes for all operands at once: a limb holds a formal
  combination of the coefficient limbs, in which additions, halvings and the
  division by 3 are exact. Carries move value between limbs of one number and
  are left to `LaneKernels`; that a limb may be signed is kept in `mixed`.
* `BlockDiv` takes full multiplication as exact (it is `ProductPlans`' and
  `LaneKernels`' subject) and the reciprocal as exact or `Ulps` units off.
* `SimdMul` and `Divrem64` stand on contracts: an assembly or FFT kernel
  returns the product or refuses, the digit product returns any redundant form
  of either class, the block division returns quotient and remainder. The
  assembly of `src/x86_64` enters by its contract everywhere.
* `TruncatedNtt` has a vector of `W` = 4 lanes instead of 16, the prime 7681 and
  words of 15 bits, which leaves as little room above `4p` as the code's primes
  leave below 2^32. Memory that was never written holds `Unset`, which spreads
  through arithmetic. `P30Io` has the transform as the cyclic convolution that
  `TruncatedNtt` shows it to be, and all five primes of either set.
* The FFTs are computed exactly, in fields of prime order in which pairs
  `<<re, im>>` behave as complex numbers: a wrong root, sign, conjugate or
  position shows, rounding does not. The code itself bounds rounding by probing.

## Runs

Each run lets a behaviour choose its machine and input first; where a run
composes several machines the others stay parked.

| Run | Question | Bounds |
|---|---|---|
| `scratch` | On anonymous memory, is the dirty mark sound, are blocks private and inside committed memory, does nothing leak, does the arena implement `ScopedStore`? | tiers of 6 and 9 cells, no multiple of a page; pages of 4, blocks of 1, 3, 5 cells, two scopes, two blocks; `ExplicitCommit` on: without it the same steps are taken, with no marks to keep |
| `scratch_hugetlb` | The comment on `dirty` on a hugetlb tier. **Violated** | as above |
| `vectors` | Do all kernels conserve value, stay in their region and resume carries; are comparison, subtraction and addition right for all lengths and aliasings; does the division by 3 hand on the right borrow? | two lanes of base 8, headroom 4, operands of one to five limbs of digits 0 and 7, kernels on 1, 3 and 4 limbs with every pair of lane values for one operand and extreme ones for more; `DivExact3` with vectors of four base-4 digits, blocks of two vectors, 1 to 13 limbs, all digits |
| `mul_plans` | Shapes, classes and lane bounds of the whole recursion; is each plan's result the product; are neighbours, dying operands and the last fold right? | the code's own thresholds, 30 shapes on both sides of each cutpoint, some of them for a karatsuba or a toom over karatsubas whose children are signed; differences short by nothing, a vector or everything; the widest lane formed is 1687 of the 2048 a signed word holds; vectors of 8 limbs, 20 shapes with parts before, at and after a vector boundary and eight shapes of strips (equalized and not, a remainder shorter than b, multiples of a vector); lengths 0, 8 and full, both signs, both classes |
| `block_div` | Quotient, remainder and estimates at every level; do correction loops end; are the reciprocals what they promise? | base 4, exact seeds; all 4/2 problems, 5/3 for four divisors, extreme quotients, divisors and remainders at 9/4, 9/5, and a selection of 11/6 and 15/7; reciprocals with words of 16 bits and eight lanes of 13 |
| `block_div_seed` | The claim that the division absorbs a seed one off. **Violated** | base 128, seeds one unit off, divisors next to 128^3/m |
| `entries` | Do the public product, the 64-bit division and the scalar division return what they should from a stale arena? | words of 16 bits and digits of 13, the real byte tables; zero words on top, arena of 0 or 65535, every kernel and refusal; `SbnDiv` with words of 5 bits, divisors of three and four words |
| `entries_padded` | The same for dividends padded with many zero words. **Violated** | 20 zero words on top |
| `products` | Are basecase, middle products, block operations and n-limb additions right and confined to their limbs; does p30's transform invert at every truncation, in the lazy range, with a harmless side channel? | vectors of 8 lanes, digits base 128, headroom 64; all narrow shapes, wide ones 9 to 25 by up to 24; additions of 1 to 56 limbs with carry in; truncations up to 16 vectors with and without ladder, products and squares, leaf walks over 64 to 512 vectors, sequences of calls of changing size |
| `fft` | Do both FFT engines return the product and nothing else, over sequences of calls, with tables, workspace and carries right on the way? | every radix 1, 3, 5, 7 and both bands; builds with each switch but one, lowered limits and tiers; digits below 16; fields of prime order 8191, 6143, 5119, 3583; 512 to about 1800 points |
| `fft_3x2` | The switch `F16_PFA3X2` "kept switchable". **Violated** | the remaining switch |
| `engines` | Do the NTT engines and the reference FFT return the product over sequences of calls, whatever tables, caches and partial sums hold? | p50: limbs of 16 bits, words of 15, trunks of 23 to 25 bits, four primes 6529 to 7937, all three trunk sizes; p30: limbs of 28 bits and two sets of five primes near 4000, 4100; the reference FFT with every codec, large calls before small ones, refused widths, empty operands |

Why these are enough. The carry logic of a kernel looks at one vector and what
the one before passed on, so two or three vectors show every hand-over, and
two lanes every ripple; lane values include 0, the largest digit, one above it
and negative ones, which are the only distinctions the masks make. (For
`CarryOps`, `LaneKernels`, `DivExact3` and `SbnDiv` the proofs below remove the bounds.) Memory plans
depend on the parts' lengths modulo a vector and on the top part against `n`;
the shapes take each. Division by base-4 blocks makes add-backs, equal top
blocks and overflowing halves frequent. A truncation up to 16 vectors takes
every path of the three spine recursions through four levels, in both
directions; the leaf walks take each of the three leaf sizes and, at 512, two
sizes of moths. The FFTs' sizes are the least of every radix at which every
cascade, leaf, front and pointwise form occurs; limits that only bound
precision are lowered so that sizes beyond them occur too. The runs do not
check deadlock: all but the arena's are programs that stop, and the arena stops
when memory is exhausted (`SCRATCH_OOM` aborts).

Fairness. `block_div` assumes weak fairness of the division's steps, for
`Terminates` only: the code is a single sequential computation, which runs on.
Nothing else assumes fairness.

Every property has a mutant of a mapped definition that breaks it
(`PROJECT.json`, "mutants").

### The disagreements

1. **`scratch_hugetlb`.** `region.dirty` is documented as "[dirty,cap) is
   kernel-zero" (`scratch.h:103`). `region_trim` aligns its range to 4096 bytes
   and ignores `madvise`'s result. On a tier that really is backed by
   `MAP_HUGETLB` the kernel refuses a range that is not a multiple of the huge
   page, yet `dirty` comes down: data of an earlier scope stays above the mark,
   and `region_alloc_zeroed` will hand it out as zeroes. The tier,
   `SCRATCH_PAGES_HUGETLB`, is opt-in; the theorems assume no such tier.
2. **`block_div_seed`.** `recip_3by2_seed.h:10-12` and `recip_3by2_seed.s:7` say
   that the division absorbs a seed one off. `div3by2` (`div.h:171`) is exact
   for the exact reciprocal V (theorem `Div3by2Exact`), and the whole division
   then is (`DivisionRight`). With V - 1 a remainder
   that is already right can lie in [Beta^2 - D, Beta^2) with its top block at
   least q0; the first correction then takes one from the quotient and adds D,
   which wraps past Beta^2, and the second does not see it. Reproduced with the
   built library: for

       N = 0xbd966d9e241a1b555e1c025d47f015503ee86905c14acc2264e22506d30b6eeb
             68a485661c8a657fef68063dd168dd9b2841cab9ffffffffffffffffffffffff
             fffff289ccccb06bed1342203873cda253a68c9473726dad751d7bec6a07cf01
             69531a0233d72444ffffffffffffffffffffffffffffffffffffffffffffffff
             ffffffffffffffffffffffffffffffffffffffffffffffffffffffff
       D = 0xbd966d9e2d337498e3ffeaf0deeccb506762fa9b377366be27d44ce1c9c5226f
             00a93f7bf1413bcfc521d42387f70c5a1728a605428b758d709949b989b33f9f
             c781f82368f43a1d461eabdb4f318c6f7a19b2e373b06b0a1c622b2817ec7478
             f8c70e422bb6d0fd

   (one number each, broken over lines) `divrem_u64` returns a quotient ending
   in `def39d`, where the true one ends in `def39e`, and a remainder that has
   lost 2^832. Such divisors are rare: 2^1248 / D within about 2^-28 of an
   integer. The claim that the seed is one-sided, "seed in {V-1, V}"
   (`recip_3by2_seed.h:6-7`), does not hold either: for

       I = 0x893165e4da7465cec133291cd8028fbb7445fd35a259db0038f1c455eb765e45
             d77afdcd3921c97f76ef7eb52d64769ed39b58e0bbe5cb9cbfa2331c8694bc7b
             dd7fbcac12b53933e86df15aa052f44fad1ab4b104f0592db6319fb60e641931
             1a272f70ae0c6e87

   it is V + 1. `SeedAndReciprocal` states what is true: within one on either
   side, and corrected by the full kernel.
3. **`entries_padded`.** The 64-bit division sizes its quotient buffer from the
   bit lengths of its operands (`Q52`, `divrem.h:265-268`) and encodes the
   quotient from word counts (`qm`, `divrem.h:244`): a dividend with many zero
   words on top has quotient words read from beyond the digits written. A
   smaller relative: the early return leaves `*rn64_out` untrimmed.
4. **`fft_3x2`.** `fft16.h:909` keeps `F16_PFA3X2` switchable; with it, the
   centred band of radix 3 merges half branches (`fft16.h:2745`, `2756-2758`)
   and then emits them as whole ones (`2768`).

### Observations that are not findings

* `mul.h:374-379` justifies Karatsuba's lane budget by the clamp `T22 <= 112`.
  Basecase products also arise from Karatsuba's own "too thin" fallback with up
  to 131 rows. `LaneBudget` holds there too, with room to spare.
* `divrem.h:125` comments the rare branch as `<n2,n1> >= <d1,d0>`; the code
  tests `n2 == d1`. Both are right, by `EstimateExact`.
* `divrem.h:191-192` stores a whole vector for the digit shifted out; the
  wrappers allocate for it in part only. In the order in which the buffers are
  filled the next buffer is written later, and `DivremRight` holds.
* In `blk_chunk_divide` the overflow bit of the cross step cannot be 1 under the
  u64 wrapper, whose dividend has a zero block on top.
* `p30_mul_r` chooses the least `M`, so the branch `z <= h` of `p30_fused_rec`
  and `p30_fused_pre` (`p30.h:1199`, `1372`), for a truncation in the lower half
  of a node without tails, is never taken: in the model it is there, as
  `"low_double"`, and no call reaches it.
* `mulmid.h:264` stores a zero behind the accumulators that nothing reads.
* `p30_kara_init` (`p30.h:608`) fills global tables behind a plain flag.

## Proofs

Eight modules, checked by `tlapm`. Theorems hold for every value of the
constants that satisfies the modules' named assumptions, which the code
justifies and TLC evaluates on every run.

**Arena** (`ScratchProofs`, from `ScratchAssumption`: sizes are natural numbers,
alignments positive; and `HugeTiers = {}`, because with a hugetlb tier the mark
is wrong, see above). `TypeCorrect`, `DirtyMarkSound`, `Separation` and
`Integrity` support each other. Their inductive invariant `IInv` adds
`AtBelowDirty` (without it a write could land above the mark), `MarksNested` (a
saved mark lies above the blocks that were live when it was taken, so a restore
returns to a state in which they still fit), `IdleEmpty` and `MemIsFunction`.
`NothingLeaks` and `CommitSuffices` need more: `AInv` says that a tier's
pointer *is* the end of its newest block (`Tight`), that the committed prefix
covers every saved pointer (`CommittedToAt`), and that scopes nest. With both
invariants `ArenaRefines` shows every step of the arena to be a step of
`ScopedStore` or invisible to it.

**Numbers** (`NumberProofs`). The value of a vector is a sum over its
lanes, and the library's induction theorems take an operator as a parameter,
which the provers cannot instantiate. `ByInduction` says the same of a *set* of
numbers, from the well-foundedness of `<`: a set that contains 0 and with every
number its successor is all of Nat, because its complement has no least
element. A statement about n becomes the set of numbers that satisfy it. That
the recursive functions exist, and satisfy their equations, is proved the same
way. On it rest powers and their laws, the value of a stretch of digits - it
splits at every position, is below the power of its length, and determines its
digits -, sums that telescope, the digits of a number as remainders, and the
arithmetic of products and of division with remainder that the other modules
cite.

**Lanes** (`LaneProofs`, from `LanesAssumption`: even base, even headroom below
it). The code ripples all carries of a vector by one integer addition of two
masks. `CanonizeExact` and `CanonNegExact` show that this addition does what a
ripple through the lanes would, and that value is neither lost nor invented:
digits of the result, plus the carry handed to the next vector at weight B^L,
are the lanes plus the carry taken in. The argument gives each lane its carry
(`CanonizedLanes`, `CanonNegLanes`); these telescope in the sum.
`HalfCanonExact` and `HalfNcExact` do it for halving. They hold for vectors of
every width.

**Kernels** (`KernelProofs`). `ValueAccounted` and `ExactlyTheRegion` lift this
to the twenty streaming kernels over any number of vectors: nothing is lost
between vectors, and exactly the region is written. `IInv` has the shape of the
loop's state, the size of the chain (`ChainFits`: a carry that could not
overflow the next vector), the type of the held vectors, and `Balance`: what
has been stored, what is held and what the chain owes, weighted, is what was
read. `FInv` is the same for the written limbs. The hypothesis
`KernelParameters` (lanes are machine words, no region is empty, a carry handed
in is one that canon's calls return) describes the inputs; TLC evaluates it for the
run's inputs in `MCVectors`. Both are about the lanes as they are read: `LaneKernels`
has no memory for operands, and says nothing of a result stored over an operand
before it is read. Which areas overlap is a matter of the plans (`ProductPlans`).

**Comparison, subtraction, addition** (in `KernelProofs`). `CarryAlwaysRight`: sign,
difference, sum and carry are those of the numbers, for operands of every two
lengths, digits of every even base, the result apart or in place of either
operand, and any foreign data past the operands; and no limb outside the result changes, at any moment.
The invariant follows the code: while scanning, the vectors above are equal;
when the comparison stops, the top differing *lane* decides the order of the
numbers (this is why comparing two masks as integers works); while combining,
`Balanced` telescopes result and borrow over the vectors done, `Kept` says that
the operands' vectors still to come are untouched; and at the end a positive
difference of n limbs leaves no borrow. This invariant was checked with TLC for
vectors of 1, 2 and 4 lanes first. Working on it exposed an ambiguous CASE in
the model's return value, which TLC had resolved in the code's favour.

**Multiply dispatch** (`MulDispatchProofs`, from `MulDispatchAssumption`:
thresholds are natural numbers with `3 < T22 <= T33`). `CallsAlwaysFit`: every
call of the recursion has a shape its algorithm is written for and is smaller
than its caller, and strips fit their buffer, for operands of every size and
differences of every length; the invariant is that of a stack whose frames were
each called with a legal shape. `ClassAlwaysHonest`: no lane of a product
reported as class 0 can be negative. Its invariant `CInv` carries the lower
ends of the lanes' intervals through the algorithms' sums.

**Block division** (`BlockDivProofs`, from `BlockDivAssumption`: an even base, a
threshold from 4 on).

* `Div3by2Exact`: with the exact reciprocal, `div3by2` returns quotient block and
  remainder for every even base, normalized divisor and dividend below its
  multiple by the base. With E = Beta^2 - D and c the larger of E and
  q0 * Beta, the uncorrected remainder r satisfies c - Beta^2 <= r < c, which
  leaves room for exactly the two corrections the code makes.
* `DivisionRight`: every call that returns - the driver, the schoolbook loop, a
  half-by-half division at any depth, a chunk, the unbalanced loop - leaves
  quotient * divisor + remainder = dividend, remainder < divisor and a bit for
  the quotient's overflow. `EstimatesRight`: no estimate is more than one
  divisor too large in the schoolbook loop, more than two in the others, and
  `div3by2` is never asked for a quotient that does not fit a block. Both
  `Spec => [](SeedExact => ...)`, for all problems, bases and thresholds.
* The hypothesis is one on the reciprocal, and the program's own does not always
  meet it: `recip_3by2_seed` reads 448 of 832 bits (finding 2). What it gives is
  `SeedWithinOne`: from the divisor's top block and `Guard` digits' worth of the
  second, with an error in the last place from -Guard/2 to Guard/2 - 2
  (`UlpsSmall`; Guard is 2^32 in the code, which drops 31 bits), the seed is the
  exact reciprocal, one more or one less, for every base, guard and normalized
  divisor. That the Newton steps stay within one in the code's own arithmetic is
  checked on `Recip3by2`, not proved.

The inductive invariant `IInv` says what holds of a whole stack of calls in the
middle of the recursion. Every frame is `Good`: typed, its window placed inside
its dividend with a normalized divisor whose top blocks are the seed's, its
counters bounded by the add-backs it may still need, its dividend at most
barely too large for its quotient (`Fair`: the caller may ask for a quotient
that overflows by one bit, and the callee must return that bit). A nested call
lies `Inside` its caller's window. A caller `Waits`: what it has taken out of
its dividend so far, plus what the callee was asked, is the dividend it began
with. The innermost frame is `Running`, with a `Balance` for its program point.
What a call promises is a statement about the caller's *partial* dividend, so
`Divides` alone is not inductive: the frame below, whose dividend is being
rewritten through the callee's window, has to be in it. Each quotient digit,
half and chunk then comes down to one lemma on estimates: the top part of a
division is at most two too large because the divisor is normalized. `IInv` was
checked with TLC in the instance of `block_div` first. `block_div_seed` shows
that the hypothesis is needed: there the seed is one off (finding 2).

**Division by 3** (in `KernelProofs`, from `D3Parameters`: digits of an even
number of bits, vectors of a power of two of lanes, and residue sums of a block
within what `u52_d3_mod3` takes). `ThirdAlwaysExact`: after every vector the
quotient written falls short of a third of the dividend read by exactly the
borrow that `cv` announces, and after the tail by at most two units of the
region. Four facts carry it. The count of a digit's bits, odd ones twice, is the
digit modulo 3, by induction over the bits. After d shifts of `u52_d3_prefix`
a lane holds the sum of the 2^d lanes up to it, hence in the end of all from
lane 0 on. One quotient digit q of x with borrow b in and b' out satisfies
3q = x - b + B b' exactly (`DigitRight`): 3^-1 undoes the multiplication modulo
B, the remainder of x - b is what the overflow must be, and B = 1 modulo 3.
These telescope over the lanes of a vector, over vectors and over the masked
tail (`VectorRight`, `VectorDone`, `TailDone`). `QuotientOfPrefix` is not
inductive, as nothing in it keeps the sum in reach: inside an unrolled block
`cv` is handed on unreduced. `D3IInv` adds that it is at most a vector's largest
sum for each vector of the block done (`CarryBound`), and that a block begun
finds all its vectors (`Announced`). TLC evaluates `D3Parameters` for the run's
inputs in `MCVectors`.

**Addition and footprints** (`BasecaseProofs`, from `LanesAssumption`,
`RoomAssumption` and the lengths of calls, `ProductInputs` and `AddSubInputs`,
which TLC evaluates for the inputs of `products`). `AdditionRight`: whatever
blocks, vectors, masked tail and single limbs a call of `mpn_add_n` or
`mpn_sub_n` is made of, every word written and every carry handed on are the
schoolbook's. A sum of two words generates a carry when it wraps and passes one
on when it is the largest word (`WordAdds`; a difference: when it wraps, when it
is zero), so the two comparison masks are the carries of the lanes, and the one
addition of the masks ripples them; `RippleWordsRight` proves this for the
lowest `count` lanes, which the masked tail uses: there the lanes above must
neither generate nor pass on. A vector's carries are then the schoolbook's from
limb vi to vi + count (`CarrySteps`). `CarryRight` is not inductive: `AddShape`
adds that while blocks are left the limbs left are the short end and whole
vectors (`WholeBlocks`), without which a block could reach past the operands.
`AdditionExact` sums the words up: the numbers are those of the sum and the
difference. `FootprintKept`: each store of a product begins at a vector whose
limbs lie below the end of the result, from the turns' own guards.

**Products of the basecase** (in `BasecaseProofs`, from `LanesAssumption`,
`RoomAssumption`, `ProductInputs` and `DigitInputs`, which TLC evaluates for the
inputs of `products`: operands of canonical digits, no lane overflows, that is
2 * bn <= H - up to 2048 digits in the code's vectors, far above the thresholds
of the basecase - and the result has room).
`ProductsAlwaysRight`: `ProductRight` for every program, length and operand.

* Diagonal registers. A table says what register k holds at every position; a
  table is right (`RightTable`) if for every column t the entries of registers
  k at t - k sum to the column. Registers that hold the positions of one
  vector, with those that were kept from the vector below, then leave exactly
  the columns of that vector (`VectorLeaves`), whatever table it is. The tables
  are right because a splat digit's low and high halves, in registers k and
  k + 1, are one row of the product, and L rows in a block are a share of the
  column (`ShareColumn`).
* `mul_u52_basecase` has the intricate one: vectors of b are splat over vectors
  of a except a's top vector, which is splat over b's so that only its digits
  are used (`Splats`, `PairTerms`); the last vector splats the shorter of the
  two tops. `WideParts` cuts both operands at their top vectors, and the four
  parts together are the product (`WideTableRight`).
* Carries. `Settles` says that words with carries between them are the digits
  of columns; `ColumnsSettle` makes such a vector the next digits of the
  schoolbook's sum (`Resolved`). `canonize`, its cheap path in
  `canonize_fast`, and `DIV_canon` settle any words, `block_addc` and
  `block_subb` any two digits (`CanonizeSettled`, `FastSettled`,
  `RippledCarries`, `BlockBorrows`).
* The carry out of the estimate is a single bit although `canon2` only reports
  whether there was one: the columns' numbers are a product of L-digit numbers
  plus a 2 L-digit one, so below twice the square of the base
  (`EstimateCarry`, by `RowNumber` and `ColumnsNumber`).
* `block_ge2`: the top lane in which the blocks differ is the top bit in which
  the two comparison masks differ (`MasksCompare`, `BlocksOrdered`).

`ProductRight` speaks of finished calls only. `ProductInv` adds what a call
in progress has: the limbs below vi * L are right, the registers kept hold the
table at the vector below, and chain or carry is the schoolbook's into limb
vi * L.

**Middle products** (in `BasecaseProofs`, from `LanesAssumption`,
`RoomAssumption` and `MiddleInputs`, which TLC evaluates for the inputs of
`products`: a is not empty and no longer than b, digits are below the base, the
result fits, and no lane overflows, that is 2 * an <= H).
`MiddleAlwaysRight`: each lane sums the lows or highs of one diagonal, a
number of terms below the base, so no addition wraps; the highs go one lane up,
the last of a vector into the next. The invariant `MidInv` says that the
limbs below vi * L are right and that the register kept holds the highs of
the diagonal just below them, 0 before the first. The last vector keeps its
valid lanes by the two masks, so highs from diagonals above the result enter
no limb. The transposed tail computes the same diagonals from reversed blocks
and sums across lanes: `TotalBlocks` and `TotalReversed` say that a sum may be cut
into blocks and reversed.

**Scalar division** (`SbnDivProofs`, from `SbnAssumption`: words of at least one
bit, calls of words with a divisor of at least three whose top word is not
zero, and a dividend at least as long).
`SbnDivisionRight`: for every such call, `sbn_divrem` leaves quotient and
remainder. All that the code computes is reduced modulo W or W^2, so each step
is first shown to be that of exact numbers:

* `PairInverse`: `sbn_invert_pi1` gives the v with
  W^3 = (W + v) * (d1 W + d0) + k, 1 <= k <= d1 W + d0. The one-word inverse is
  corrected for d0, then for the product of d0, and each correction
  (`FirstCorrection`) sees from a wrap of p how much too large v is.
* `ThreeByTwo`: with it, the remainder that belongs to the estimate lies between
  -T and W^2, below W^2 - T or below q0 W; this is the same bound that makes
  `div3by2` exact (`Estimated`, in `NumberProofs`), and it tells from the
  wrapped remainder which of three quotients is right.
* The kernels' contract in columns gives their numbers (`Submuls`, `Adds`):
  what moves up telescopes. The shifts multiply and divide by 2^cnt
  (`LeftShift`, `RightShift`).
* A turn (`LargestTurn`, `EstimatedTurn`) divides the running remainder and the
  next word by the divisor, although the top word is kept in a register
  (`Rest`) and its place in the array is stale, and although only
  dn - 2 words are subtracted: a borrow beyond the two words of the 3/2
  remainder means one divisor too much, and adding back dn - 1 words and the
  register repairs it. In the other branch all dn words are subtracted and
  the carry is ignored; it is then exactly what the register held.

`SbnInv` is inductive where `SbnRight` is not: `Scaled` keeps divisor and
reciprocal related to the call's divisor, `Accounted` says that words, running
remainder and the digits found so far make up the shifted dividend, that the
remainder is below the divisor, and that the digits still to find are 0.
It was checked with TLC in the instance of `entries` first. That the
quotient has no carry needs the zero word above the dividend: its top
part, a word shifted out, is below the divisor's top word.

**Workspace** (in `ScratchProofs`, from `WorkspaceAssumption`). `SpectraAlwaysFit` and
`WorkspaceFits`: the hand-made alignment of both spectra stays inside the
block, for every size and every state of the arena.

### What is only model-checked

* `Terminates` is liveness under fairness, which the prover does not do.
* What passes through a module with RECURSIVE operators, for which the prover
  has no backend: `FftCall`, `Fronts`, `IntFft`, `IntFftPasses`, `P50Ntt`,
  `Pq16Passes`, `PqFft` and the modules above them (`Fft16`, `Pq16`,
  `NtEngines`), hence all properties of `fft` and `engines`; `U64Codec` uses
  bitwise operators, hence `PackedRight` and `DivremRight`.
* `LaneBudget` is a statement about the code's own thresholds (it fails for
  larger ones), and so no theorem over the constants.
* Not attempted: `PlanRight` and `NothingTrampled` (sums of formal combinations
  for every split), `SeedAndReciprocal` (a property of the code's own digit
  sizes and Newton steps), and the invariants of `TruncatedNtt`.

## Not modelled

* `mulmid_basecase` (`mulmid.h`) accumulates in two branches, one of them
  empty, and stores nothing: there is nothing to state about it.
* `simd_mpn_mul` with an empty operand, which its callers exclude.
* The radix-2 stage of `int_fft.hpp`, which no size reaches.
* Rounding in the FFTs, which is out of reach of a model checker.
* Memory of the operands in `LaneKernels`: lanes are chosen when they are loaded.
* `TruncatedNtt` takes Montgomery reduction (REDC) as an exact operation modulo
  the prime that lands in its proven range; the fold of a wide result before it is
  packed into 32 bits (`p30.h:586-590`) is not carried out.
* The product `4 * an` is a 32-bit integer in `int_fft.hpp:3527-3528` and `3551`;
  `IntFft` has it unbounded. It would wrap from 2^30 limbs on.
* The first use of p30's global tables by several threads (`p30.h:608-630`):
  a hazard without a property.
* `reference/p30x3_2.hpp`, `reference/ifma52_mul.cpp`, `p30_ref.h` and
  `canon_impl_deprecated`: older or dormant variants that nothing in the library
  calls; `recip_u1024_mono.s` and the reciprocal prototypes in the root
  directory, which only benches call; tests, benches and generators.

## Plan

1. Arena: modelled, checked; invariants and refinement proved.
2. Lane kernels, comparison, addition, addition of n limbs, division by 3:
   modelled, checked and proved. Basecase and middle products: modelled, checked
   and proved, with their footprints.
3. Dispatch: shapes and classes proved. Memory plans: checked.
4. Block division: modelled and checked; proved from an exact reciprocal to the
   remainder, and for the program's seed that it is within one of that. The Newton
   steps of the seed: checked.
5. Codec, public product, 64-bit and scalar division: modelled, checked; the
   scalar division proved.
6. NTT and FFT engines, reference FFT: modelled from limbs to limbs, checked.
   Next: size choice (`SizeRight`, `PlanServes`) and the lazy range as theorems,
   after moving what they need into modules without RECURSIVE operators.
7. Left to prove: the memory plans (`PlanRight`, `NothingTrampled`) and the Newton
   steps of the seed (`SeedAndReciprocal`).
