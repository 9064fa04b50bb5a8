---------------------------- MODULE ScallocSizes ----------------------------
(***************************************************************************)
(* The size arithmetic of scalloc.c in bytes, for SIZE_SZ = 8 and          *)
(* MALLOC_ALIGNMENT = 16: the padding of requests, the indices of the      *)
(* fastbins, bins and tcache bins, and what the parameters accept.  Sizes  *)
(* are far below SIZE_MAX: padding does not wrap.  An operator X_Slip is X *)
(* with a plausible slip.                                                  *)
(***************************************************************************)
EXTENDS Integers

CONSTANTS
  TCACHE_SMALL_BINS,
  TCACHE_LARGE_BINS,
  MAX_TCACHE_COUNT,  \* the largest value of num_slots
  IntBits            \* width of the unsigned int that __builtin_clz takes

ASSUME SizesAssumption ==
  {TCACHE_SMALL_BINS, TCACHE_LARGE_BINS, MAX_TCACHE_COUNT, IntBits} \subseteq Nat \ {0}

(* What the proofs use of the powers of two: TLC computes them, the        *)
(* provers know nothing about them.                                        *)
ASSUME PowersOfTwo ==
  2 ^ 0 = 1 /\ \A k \in 0 .. IntBits : 2 ^ k \in Nat /\ 2 ^ (k + 1) = 2 * 2 ^ k

SIZE_SZ == 8
MALLOC_ALIGNMENT == 16
MINSIZE == 32
MAX_FAST_SIZE == 160
MIN_LARGE_SIZE == 1024

Down(n) == n - (n % MALLOC_ALIGNMENT)

(* request2size: room for the size word, rounded up.                       *)
Request2size(req) ==
  LET n == req + SIZE_SZ + MALLOC_ALIGNMENT - 1
  IN  IF n < MINSIZE THEN MINSIZE ELSE Down(n)

-----------------------------------------------------------------------------
(* Fastbins and bins.                                                      *)

FastbinIndex(sz) == (sz \div 16) - 2
NFASTBINS == FastbinIndex(Request2size(MAX_FAST_SIZE)) + 1

(* set_max_fast, as do_set_mxfast calls it for value <= MAX_FAST_SIZE.     *)
MaxFast(value) == IF value <= 7 THEN 16 ELSE Down(value + SIZE_SZ)

LargebinIndex(sz) ==
  IF sz \div 64 <= 48 THEN 48 + (sz \div 64)
  ELSE IF sz \div 512 <= 20 THEN 91 + (sz \div 512)
  ELSE IF sz \div 4096 <= 10 THEN 110 + (sz \div 4096)
  ELSE IF sz \div 32768 <= 4 THEN 119 + (sz \div 32768)
  ELSE IF sz \div 262144 <= 2 THEN 124 + (sz \div 262144)
  ELSE 126

BinIndex(sz) == IF sz < MIN_LARGE_SIZE THEN sz \div 16 ELSE LargebinIndex(sz)

-----------------------------------------------------------------------------
(* The bins of a thread's cache: one size each below TCACHE_SMALL_BINS,    *)
(* then one power of two each.                                             *)

TCACHE_MAX_BINS == TCACHE_SMALL_BINS + TCACHE_LARGE_BINS
Csize2tidx(x) == (x - MINSIZE) \div MALLOC_ALIGNMENT
Tidx2csize(idx) == (idx * MALLOC_ALIGNMENT) + MINSIZE
MAX_TCACHE_SMALL_SIZE == Tidx2csize(TCACHE_SMALL_BINS - 1)

(* __builtin_clz looks at the low bits only; of zero it is undefined, and  *)
(* so is this.                                                             *)
Msb(n) == LET low == n % (2 ^ IntBits)
          IN  CHOOSE k \in 0 .. (IntBits - 1) : 2 ^ k <= low /\ low < 2 ^ (k + 1)
LargeCsize2tidx(nb) == TCACHE_SMALL_BINS + Msb(nb) - Msb(MAX_TCACHE_SMALL_SIZE)

Small(nb) == Csize2tidx(nb) < TCACHE_SMALL_BINS
Tidx(nb) == IF Small(nb) THEN Csize2tidx(nb) ELSE LargeCsize2tidx(nb)

(* do_set_tcache_max and do_set_tcache_count accept a value.               *)
AcceptsMax_OffByOne(value) == Tidx(Request2size(value)) <= TCACHE_MAX_BINS
AcceptsMax(value) == Tidx(Request2size(value)) < TCACHE_MAX_BINS
AcceptsCount(value) == value <= MAX_TCACHE_COUNT
=============================================================================
