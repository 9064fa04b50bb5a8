------------------------ MODULE ScallocTcacheProofs ------------------------
(***************************************************************************)
(* Proofs about the size arithmetic of scalloc.c and about the per-thread  *)
(* caches that use it, for any threads, chunks, requests and tunables.     *)
(*                                                                         *)
(* The inductive invariant of the caches says that every bin is a chain of *)
(* chunks, each link mangled with its own address, that the chunks of a    *)
(* chain are of its bin, in ascending order, and nowhere else, and that    *)
(* they and the free slots make up tcache_count.                           *)
(***************************************************************************)
EXTENDS ScallocTcache, FiniteSetTheorems, WellFoundedInduction, TLAPS

-----------------------------------------------------------------------------
(* Sizes.                                                                  *)

(* Rounding down by 16.                                                    *)
LEMMA DownProps ==
  ASSUME NEW n \in Nat
  PROVE  /\ Down(n) \in Nat /\ Down(n) <= n /\ Down(n) > n - 16
         /\ Down(n) % 16 = 0
  BY DEF Down, MALLOC_ALIGNMENT

(* A padded request (request2size) is an aligned chunk size that leaves    *)
(* the program its bytes after the size word, and wastes less than one     *)
(* alignment unless the smallest chunk is needed.                          *)
THEOREM RequestFits ==
  ASSUME NEW req \in Nat
  PROVE  LET nb == Request2size(req)
         IN  /\ nb \in Nat /\ nb >= MINSIZE /\ nb % MALLOC_ALIGNMENT = 0
             /\ req <= nb - SIZE_SZ
             /\ nb = MINSIZE \/ nb - SIZE_SZ < req + MALLOC_ALIGNMENT
<1> DEFINE n == req + SIZE_SZ + MALLOC_ALIGNMENT - 1
<1>1. n \in Nat /\ n = req + 23
  BY DEF SIZE_SZ, MALLOC_ALIGNMENT
<1>2. CASE n < MINSIZE
  BY <1>1, <1>2 DEF Request2size, MINSIZE, MALLOC_ALIGNMENT, SIZE_SZ
<1>3. CASE ~(n < MINSIZE)
  <2>1. Request2size(req) = Down(n)
    BY <1>1, <1>3 DEF Request2size
  <2>2. Down(n) \in Nat /\ Down(n) <= n /\ Down(n) > n - 16 /\ Down(n) % 16 = 0
    BY <1>1, DownProps
  <2>3. Down(n) >= 32
    <3>1. n >= 32
      BY <1>1, <1>3 DEF MINSIZE
    <3>2. PICK d \in Nat : d = Down(n)
      BY <2>2
    <3>3. d % 16 = 0 /\ d > 16
      BY <1>1, <2>2, <3>1, <3>2
    <3>4. d >= 32
      BY <3>3
    <3> QED
      BY <3>2, <3>4
  <2> QED
    BY <1>1, <2>1, <2>2, <2>3 DEF MINSIZE, MALLOC_ALIGNMENT, SIZE_SZ
<1> QED
  BY <1>1, <1>2, <1>3

(* The index of a large size is that of a large bin (largebin_index_64).   *)
LEMMA LargeInRange ==
  ASSUME NEW sz \in Nat, sz >= MIN_LARGE_SIZE
  PROVE  LargebinIndex(sz) \in 64 .. 126
  BY DEF LargebinIndex, MIN_LARGE_SIZE

(* bin_index names one of the bins that have chunks of one size, or of the *)
(* large ones: never bin 0 or 1 (the unsorted list), nor 127.              *)
THEOREM BinIndexInRange ==
  ASSUME NEW sz \in Nat, sz >= MINSIZE
  PROVE  BinIndex(sz) \in 2 .. 126
<1>1. CASE sz < MIN_LARGE_SIZE
  BY <1>1 DEF BinIndex, MIN_LARGE_SIZE, MINSIZE
<1>2. CASE ~(sz < MIN_LARGE_SIZE)
  <2>1. sz >= MIN_LARGE_SIZE
    BY <1>2 DEF MIN_LARGE_SIZE
  <2> QED
    BY <1>2, <2>1, LargeInRange DEF BinIndex
<1> QED
  BY <1>1, <1>2

(* The five widths of the large bins follow each other without going back. *)
LEMMA LargeMonotone ==
  ASSUME NEW a \in Nat, NEW b \in Nat, a <= b
  PROVE  LargebinIndex(a) <= LargebinIndex(b)
<1>1. /\ a \div 64 <= b \div 64 /\ a \div 512 <= b \div 512
      /\ a \div 4096 <= b \div 4096 /\ a \div 32768 <= b \div 32768
      /\ a \div 262144 <= b \div 262144
  OBVIOUS
<1> QED
  BY <1>1 DEF LargebinIndex

(* A larger size never has a smaller index: the scan of the bins above the *)
(* one of a request finds only chunks that are large enough.               *)
THEOREM BinIndexMonotone ==
  ASSUME NEW a \in Nat, NEW b \in Nat, a <= b
  PROVE  BinIndex(a) <= BinIndex(b)
<1>1. CASE b < MIN_LARGE_SIZE
  BY <1>1 DEF BinIndex, MIN_LARGE_SIZE
<1>2. CASE a < MIN_LARGE_SIZE /\ ~(b < MIN_LARGE_SIZE)
  <2>1. b >= MIN_LARGE_SIZE
    BY <1>2 DEF MIN_LARGE_SIZE
  <2>2. BinIndex(b) \in 64 .. 126
    BY <1>2, <2>1, LargeInRange DEF BinIndex
  <2>3. BinIndex(a) = a \div 16 /\ a < 1024
    BY <1>2 DEF BinIndex, MIN_LARGE_SIZE
  <2> QED
    BY <2>2, <2>3
<1>3. CASE ~(a < MIN_LARGE_SIZE)
  <2>1. ~(b < MIN_LARGE_SIZE)
    BY <1>3 DEF MIN_LARGE_SIZE
  <2> QED
    BY <1>3, <2>1, LargeMonotone DEF BinIndex
<1> QED
  BY <1>1, <1>2, <1>3

(* Whatever do_set_mxfast is given, the sizes that then go to a fastbin    *)
(* have one: what get_max_fast tells the compiler.                         *)
THEOREM FastbinIndexInRange ==
  ASSUME NEW value \in Nat, value <= MAX_FAST_SIZE,
         NEW sz \in Nat, sz >= MINSIZE, sz <= MaxFast(value)
  PROVE  MaxFast(value) <= MAX_FAST_SIZE /\ FastbinIndex(sz) \in 0 .. (NFASTBINS - 1)
<1>1. MaxFast(value) <= 160
  BY DEF MaxFast, MAX_FAST_SIZE, SIZE_SZ, Down, MALLOC_ALIGNMENT
<1>2. NFASTBINS = 10
  BY DEF NFASTBINS, FastbinIndex, Request2size, MAX_FAST_SIZE, SIZE_SZ, MINSIZE, Down,
         MALLOC_ALIGNMENT
<1>3. MaxFast(value) \in Int
  BY DEF MaxFast, MAX_FAST_SIZE, SIZE_SZ, Down, MALLOC_ALIGNMENT
<1>4. sz >= 32 /\ sz <= 160
  BY <1>1, <1>3 DEF MINSIZE
<1>5. (sz \div 16) - 2 \in 0 .. 9
  BY <1>4
<1> QED
  BY <1>1, <1>2, <1>5 DEF FastbinIndex, MAX_FAST_SIZE
-----------------------------------------------------------------------------
(* The bins of a cache.                                                    *)

(* Lemma: a set of numbers has a least one.                                *)
LEMMA LeastNumber ==
  ASSUME NEW T, T \subseteq Nat, T # {}
  PROVE  \E m \in T : \A k \in T : m <= k
<1> DEFINE D == {0 .. k : k \in T}
<1>1. D \subseteq FiniteSubsetsOf(Nat) /\ D # {}
  <2>1. ASSUME NEW k \in T PROVE 0 .. k \in SUBSET Nat /\ IsFiniteSet(0 .. k)
    <3>1. k \in Int /\ 0 \in Int /\ 0 .. k \in SUBSET Nat OBVIOUS
    <3> QED BY <3>1, FS_Interval
  <2> QED BY <2>1 DEF FiniteSubsetsOf
<1>2. IsWellFoundedOn(StrictSubsetOrdering(Nat), FiniteSubsetsOf(Nat))
  BY FS_StrictSubsetOrderingWellFounded
<1>3. \E d \in D : \A e \in D : ~(<<e, d>> \in StrictSubsetOrdering(Nat))
  <2> HIDE DEF D
  <2> QED BY <1>1, <1>2, WFMin
<1>4. PICK m \in T : \A e \in D : ~(<<e, 0 .. m>> \in StrictSubsetOrdering(Nat)) BY <1>3
<1>5. ASSUME NEW k \in T, k < m PROVE FALSE
  <2>1. k \in Nat /\ m \in Nat OBVIOUS
  <2>2. 0 .. k \subseteq 0 .. m /\ m \in 0 .. m /\ m \notin 0 .. k BY <1>5, <2>1
  <2>3. <<0 .. k, 0 .. m>> \in (SUBSET Nat) \X (SUBSET Nat) BY <2>1
  <2> QED BY <1>4, <2>2, <2>3, ZenonT(40) DEF StrictSubsetOrdering
<1> QED BY <1>5

(* Lemma: the powers of two grow.                                          *)
LEMMA PowersGrow ==
  ASSUME NEW j \in 0 .. IntBits, NEW k \in 0 .. IntBits, j <= k
  PROVE  2 ^ j <= 2 ^ k
<1> DEFINE T == {n \in 0 .. IntBits : j <= n /\ ~(2 ^ j <= 2 ^ n)}
<1>1. ASSUME T # {} PROVE FALSE
  <2>0. T \subseteq Nat /\ IntBits \in Nat BY SizesAssumption
  <2>1. PICK m \in T : \A n \in T : m <= n BY ONLY <1>1, <2>0, LeastNumber
  <2>2. m \in 0 .. IntBits /\ j <= m /\ ~(2 ^ j <= 2 ^ m) OBVIOUS
  <2>3. m # j BY <2>2, PowersOfTwo
  <2>4. m - 1 \in 0 .. IntBits /\ j <= m - 1 /\ ~(m <= m - 1) /\ (m - 1) + 1 = m
    BY <2>0, <2>2, <2>3
  <2>5. m - 1 \notin T BY <2>1, <2>4
  <2>6. 2 ^ j <= 2 ^ (m - 1) BY <2>4, <2>5
  <2>7. 2 ^ m = 2 * 2 ^ (m - 1) /\ 2 ^ (m - 1) \in Nat /\ 2 ^ j \in Nat /\ 2 ^ m \in Nat
    BY <2>2, <2>4, PowersOfTwo
  <2> QED BY <2>2, <2>6, <2>7
<1> QED BY <1>1

(* Lemma: what __builtin_clz finds in a number that fits (Msb).            *)
LEMMA MsbIs ==
  ASSUME NEW n \in Nat, 1 <= n, n < 2 ^ IntBits
  PROVE  Msb(n) \in 0 .. (IntBits - 1) /\ 2 ^ Msb(n) <= n /\ n < 2 ^ (Msb(n) + 1)
<1> DEFINE T == {k \in 0 .. IntBits : n < 2 ^ k}
<1>1. IntBits \in Nat /\ IntBits \in T /\ T \subseteq Nat BY SizesAssumption
<1>2. PICK m \in T : \A k \in T : m <= k BY ONLY <1>1, LeastNumber
<1>3. m \in 0 .. IntBits /\ n < 2 ^ m /\ m # 0
  <2>1. ~(n < 1) OBVIOUS
  <2> QED BY <2>1, PowersOfTwo
<1>4. m - 1 \in 0 .. IntBits /\ m - 1 \in 0 .. (IntBits - 1) /\ ~(m <= m - 1) /\ (m - 1) + 1 = m
  BY <1>1, <1>3
<1>5. ~(n < 2 ^ (m - 1)) /\ 2 ^ (m - 1) \in Nat BY <1>2, <1>4, PowersOfTwo
<1>6. \E k \in 0 .. (IntBits - 1) : 2 ^ k <= n /\ n < 2 ^ (k + 1)
  <2>1. 2 ^ (m - 1) <= n BY <1>5
  <2> QED BY <1>3, <1>4, <2>1
<1>7. n % (2 ^ IntBits) = n
  <2>1. 2 ^ IntBits \in Nat BY <1>1, PowersOfTwo
  <2> QED BY <2>1
<1>8. Msb(n) = CHOOSE k \in 0 .. (IntBits - 1) : 2 ^ k <= n /\ n < 2 ^ (k + 1)
  BY <1>7, Zenon DEF Msb
<1> QED BY <1>6, <1>8, Zenon

(* Lemma: it is no less for a larger number.                               *)
LEMMA MsbGrows ==
  ASSUME NEW a \in Nat, NEW b \in Nat, 1 <= a, a <= b, b < 2 ^ IntBits
  PROVE  Msb(a) \in Int /\ Msb(b) \in Int /\ Msb(a) <= Msb(b)
<1>1. 2 ^ IntBits \in Nat BY SizesAssumption, PowersOfTwo
<1>2. a < 2 ^ IntBits /\ 1 <= b BY <1>1
<1>3. PICK p \in 0 .. (IntBits - 1) : p = Msb(a) /\ 2 ^ p <= a BY <1>2, MsbIs
<1>4. PICK q \in 0 .. (IntBits - 1) : q = Msb(b) /\ b < 2 ^ (q + 1) BY <1>2, MsbIs
<1>5. ASSUME q < p PROVE FALSE
  <2>1. q + 1 \in 0 .. IntBits /\ p \in 0 .. IntBits /\ q + 1 <= p BY <1>5, SizesAssumption
  <2>2. 2 ^ (q + 1) <= 2 ^ p BY <2>1, PowersGrow
  <2>3. 2 ^ (q + 1) \in Nat /\ 2 ^ p \in Nat BY <2>1, PowersOfTwo
  <2> QED BY <1>3, <1>4, <2>2, <2>3
<1>6. p \in Int /\ q \in Int OBVIOUS
<1> QED BY <1>3, <1>4, <1>5, <1>6

ChunkSizes == {x \in Nat : x >= MINSIZE /\ x % MALLOC_ALIGNMENT = 0}

(* Lemma: a small size has a bin of its own.                               *)
LEMMA SmallBin ==
  ASSUME NEW x \in ChunkSizes, Small(x)
  PROVE  Tidx(x) \in 0 .. (TCACHE_SMALL_BINS - 1) /\ x = Tidx2csize(Tidx(x))
<1>1. x \in Nat /\ x >= 32 /\ x % 16 = 0 BY DEF ChunkSizes, MINSIZE, MALLOC_ALIGNMENT
<1>2. Tidx(x) = (x - 32) \div 16 /\ (x - 32) \div 16 < TCACHE_SMALL_BINS
  BY DEF Small, Tidx, Csize2tidx, MINSIZE, MALLOC_ALIGNMENT
<1>3. (x - 32) \div 16 \in Nat /\ x = ((x - 32) \div 16) * 16 + 32 BY <1>1
<1>4. (x - 32) \div 16 \in 0 .. (TCACHE_SMALL_BINS - 1) BY <1>2, <1>3, SizesAssumption
<1> QED BY <1>2, <1>3, <1>4 DEF Tidx2csize, MINSIZE, MALLOC_ALIGNMENT

(* Lemma: a size that is not small is above the small ones.                *)
LEMMA NotSmall ==
  ASSUME NEW x \in ChunkSizes
  PROVE  Small(x) <=> x <= MAX_TCACHE_SMALL_SIZE
<1>1. x \in Nat /\ x >= 32 /\ x % 16 = 0 BY DEF ChunkSizes, MINSIZE, MALLOC_ALIGNMENT
<1>2. MAX_TCACHE_SMALL_SIZE = (TCACHE_SMALL_BINS - 1) * 16 + 32 /\ TCACHE_SMALL_BINS \in Nat
  BY SizesAssumption DEF MAX_TCACHE_SMALL_SIZE, Tidx2csize, MINSIZE, MALLOC_ALIGNMENT
<1>3. Small(x) <=> (x - 32) \div 16 < TCACHE_SMALL_BINS
  BY DEF Small, Csize2tidx, MINSIZE, MALLOC_ALIGNMENT
<1> QED BY <1>1, <1>2, <1>3

MpTuned == mp \in {Tuned(m, n) : m \in MaxSettings, n \in CountSettings}
MpOK == MpTuned /\ Below4GiB

(* Lemma: whatever was set, the tcache_max in force is a number.           *)
LEMMA TunedMax == MpTuned => mp.tcache_max_bytes \in Nat
<1> SUFFICES ASSUME MpTuned PROVE mp.tcache_max_bytes \in Nat OBVIOUS
<1>1. PICK m \in MaxSettings, n \in CountSettings : mp = Tuned(m, n) BY DEF MpTuned
<1>2. Request2size(m) \in Nat BY TcacheAssumption, RequestFits
<1>3. MAX_TCACHE_SMALL_SIZE \in Nat
  BY SizesAssumption DEF MAX_TCACHE_SMALL_SIZE, Tidx2csize, MINSIZE, MALLOC_ALIGNMENT
<1> QED BY <1>1, <1>2, <1>3 DEF Tuned

(* Lemma: what the tunables may be.                                        *)
LEMMA Tunables ==
  ASSUME MpOK
  PROVE  /\ mp.tcache_count \in 0 .. MAX_TCACHE_COUNT
         /\ mp.tcache_max_bytes \in Nat
         /\ \E m \in MaxSettings :
              /\ Request2size(m) \in ChunkSizes
              /\ AcceptsMax(m) => Request2size(m) < 2 ^ IntBits
              /\ IF AcceptsMax(m)
                 THEN /\ mp.tcache_max_bytes = Request2size(m) + 1
                      /\ mp.tcache_small_bins = IF Small(Request2size(m))
                                                THEN Csize2tidx(Request2size(m)) + 1
                                                ELSE TCACHE_SMALL_BINS
                 ELSE /\ mp.tcache_max_bytes = MAX_TCACHE_SMALL_SIZE + 1
                      /\ mp.tcache_small_bins = TCACHE_SMALL_BINS
<1>1. PICK m \in MaxSettings, n \in CountSettings : mp = Tuned(m, n) BY DEF MpOK, MpTuned
<1>2. m \in Nat /\ n \in Nat BY TcacheAssumption
<1>3. Request2size(m) \in ChunkSizes BY <1>2, RequestFits DEF ChunkSizes
<1>4. /\ mp.tcache_count = IF AcceptsCount(n) THEN n ELSE FILL_COUNT
      /\ mp.tcache_max_bytes
           = (IF AcceptsMax(m) THEN Request2size(m) ELSE MAX_TCACHE_SMALL_SIZE) + 1
      /\ mp.tcache_small_bins
           = IF AcceptsMax(m) /\ Small(Request2size(m)) THEN Csize2tidx(Request2size(m)) + 1
             ELSE TCACHE_SMALL_BINS
  BY <1>1 DEF Tuned
<1>5. mp.tcache_count \in 0 .. MAX_TCACHE_COUNT
  BY <1>2, <1>4, SizesAssumption, TcacheAssumption DEF AcceptsCount
<1>6. MAX_TCACHE_SMALL_SIZE \in Nat
  BY SizesAssumption DEF MAX_TCACHE_SMALL_SIZE, Tidx2csize, MINSIZE, MALLOC_ALIGNMENT
<1>7. Request2size(m) \in Nat BY <1>3 DEF ChunkSizes
<1>8. mp.tcache_max_bytes \in Nat BY <1>4, <1>6, <1>7
<1>9. AcceptsMax(m) => Request2size(m) < 2 ^ IntBits
  <2>1. 2 ^ IntBits \in Nat BY SizesAssumption, PowersOfTwo
  <2>2. mp.tcache_max_bytes <= 2 ^ IntBits BY DEF MpOK, Below4GiB
  <2> QED BY <1>4, <1>7, <2>1, <2>2
<1> QED BY <1>3, <1>4, <1>5, <1>8, <1>9

(* Lemma: a size that goes to the cache has a bin, the small ones theirs.  *)
LEMMA CacheableBin ==
  ASSUME MpOK, NEW x \in ChunkSizes, Cacheable(x)
  PROVE  Tidx(x) \in Bins /\ (Small(x) <=> Tidx(x) \in 0 .. (TCACHE_SMALL_BINS - 1))
<1>1. Bins = 0 .. (TCACHE_SMALL_BINS + TCACHE_LARGE_BINS - 1)
      /\ TCACHE_SMALL_BINS \in Nat /\ TCACHE_LARGE_BINS \in Nat
  BY SizesAssumption DEF Bins, TCACHE_MAX_BINS
<1>2. CASE Small(x)
  <2>1. Tidx(x) \in 0 .. (TCACHE_SMALL_BINS - 1) BY <1>2, SmallBin
  <2>2. Tidx(x) \in Bins BY <1>1, <2>1
  <2> QED BY <1>2, <2>1, <2>2
<1>3. CASE ~Small(x)
  <2> DEFINE M == MAX_TCACHE_SMALL_SIZE
  <2>1. PICK m \in MaxSettings :
          /\ Request2size(m) \in ChunkSizes
          /\ AcceptsMax(m) => Request2size(m) < 2 ^ IntBits
          /\ mp.tcache_max_bytes = IF AcceptsMax(m) THEN Request2size(m) + 1 ELSE M + 1
    BY Tunables
  <2>2. PICK nb \in Nat : nb = Request2size(m) BY <2>1 DEF ChunkSizes
  <2>3. x \in Nat /\ M \in Nat /\ M >= 1 /\ ~(x <= M) /\ x < mp.tcache_max_bytes
    <3>1. ~(x <= M) BY <1>3, NotSmall
    <3>2. x \in Nat /\ x < mp.tcache_max_bytes BY DEF Cacheable, ChunkSizes
    <3>3. M \in Nat /\ M >= 1
      BY SizesAssumption DEF MAX_TCACHE_SMALL_SIZE, Tidx2csize, MINSIZE, MALLOC_ALIGNMENT
    <3> QED BY <3>1, <3>2, <3>3
  <2> HIDE DEF M
  <2>4. AcceptsMax(m) /\ x <= nb /\ ~(nb <= M) BY <2>1, <2>2, <2>3
  <2>5. ~Small(nb) BY <2>1, <2>2, <2>4, NotSmall DEF M
  <2>6. Tidx(x) = TCACHE_SMALL_BINS + Msb(x) - Msb(M)
        /\ Tidx(nb) = TCACHE_SMALL_BINS + Msb(nb) - Msb(M)
        /\ Tidx(nb) < TCACHE_SMALL_BINS + TCACHE_LARGE_BINS
    BY <1>3, <2>2, <2>4, <2>5 DEF Tidx, LargeCsize2tidx, M, AcceptsMax, TCACHE_MAX_BINS
  <2>7. 2 ^ IntBits \in Nat BY SizesAssumption, PowersOfTwo
  <2>8. 1 <= M /\ M <= x /\ 1 <= x /\ x <= nb /\ nb < 2 ^ IntBits /\ x < 2 ^ IntBits
    BY <2>1, <2>2, <2>3, <2>4, <2>7
  <2>9. Msb(M) \in Int /\ Msb(x) \in Int /\ Msb(nb) \in Int /\ Msb(M) <= Msb(x) /\ Msb(x) <= Msb(nb)
    BY <2>3, <2>8, MsbGrows
  <2>10. Tidx(x) \in Int /\ Tidx(x) >= TCACHE_SMALL_BINS
         /\ Tidx(x) < TCACHE_SMALL_BINS + TCACHE_LARGE_BINS
    BY <1>1, <2>6, <2>9
  <2>11. Tidx(x) \in Bins /\ Tidx(x) \notin 0 .. (TCACHE_SMALL_BINS - 1)
    BY <1>1, <2>10
  <2> QED BY <1>3, <2>11
<1> QED BY <1>2, <1>3

(* Lemma: a small bin has chunks of one size.                              *)
LEMMA SmallBinOneSize ==
  ASSUME MpOK, NEW x \in ChunkSizes, NEW y \in ChunkSizes, Small(x),
         Small(y) \/ Cacheable(y), Tidx(x) = Tidx(y)
  PROVE  x = y
<1>1. Tidx(x) \in 0 .. (TCACHE_SMALL_BINS - 1) /\ x = Tidx2csize(Tidx(x)) BY SmallBin
<1>2. Small(y) BY <1>1, CacheableBin
<1>3. y = Tidx2csize(Tidx(y)) BY <1>2, SmallBin
<1> QED BY <1>1, <1>3

(* Lemma: what _int_malloc stashes goes to the cache (Stash).              *)
LEMMA StashedBin ==
  ASSUME MpOK, NEW x \in ChunkSizes, Csize2tidx(x) < mp.tcache_small_bins
  PROVE  Small(x) /\ Cacheable(x)
<1>1. PICK m \in MaxSettings :
        /\ Request2size(m) \in ChunkSizes
        /\ IF AcceptsMax(m)
           THEN /\ mp.tcache_max_bytes = Request2size(m) + 1
                /\ mp.tcache_small_bins = IF Small(Request2size(m))
                                          THEN Csize2tidx(Request2size(m)) + 1
                                          ELSE TCACHE_SMALL_BINS
           ELSE /\ mp.tcache_max_bytes = MAX_TCACHE_SMALL_SIZE + 1
                /\ mp.tcache_small_bins = TCACHE_SMALL_BINS
  BY Tunables
<1>2. PICK nb \in ChunkSizes : nb = Request2size(m) BY <1>1
<1>3. x \in Nat /\ nb \in Nat /\ x >= 32 /\ nb >= 32 /\ x % 16 = 0 /\ nb % 16 = 0
  BY DEF ChunkSizes, MINSIZE, MALLOC_ALIGNMENT
<1>4. Csize2tidx(x) = (x - 32) \div 16 /\ Csize2tidx(nb) = (nb - 32) \div 16
  BY DEF Csize2tidx, MINSIZE, MALLOC_ALIGNMENT
<1>5. MAX_TCACHE_SMALL_SIZE \in Nat /\ TCACHE_SMALL_BINS \in Nat
  BY SizesAssumption DEF MAX_TCACHE_SMALL_SIZE, Tidx2csize, MINSIZE, MALLOC_ALIGNMENT
<1>6. (Small(x) <=> x <= MAX_TCACHE_SMALL_SIZE) /\ (Small(nb) <=> nb <= MAX_TCACHE_SMALL_SIZE)
  BY NotSmall
<1>7. CASE AcceptsMax(m) /\ Small(nb)
  <2>1. (x - 32) \div 16 < (nb - 32) \div 16 + 1 BY <1>1, <1>2, <1>4, <1>7
  <2>2. x <= nb BY <1>3, <2>1
  <2> QED BY <1>1, <1>2, <1>3, <1>5, <1>6, <1>7, <2>2 DEF Cacheable
<1>8. CASE ~(AcceptsMax(m) /\ Small(nb))
  <2>1. Small(x) BY <1>1, <1>2, <1>8 DEF Small
  <2> QED BY <1>1, <1>2, <1>3, <1>5, <1>6, <1>8, <2>1 DEF Cacheable
<1> QED BY <1>7, <1>8

-----------------------------------------------------------------------------
(* The chunks of a bin: a chain of n chunks s[1] .. s[n] that starts at a  *)
(* head h and goes on in links l.                                          *)

Met(n, s, k) == IF k \in 1 .. n THEN s[k] ELSE None
Elems(n, s) == {s[k] : k \in 1 .. n}

Chain(h, l, n, s) ==
  /\ n \in Nat /\ s \in [1 .. n -> Chunks]
  /\ \A j, k \in 1 .. n : s[j] = s[k] => j = k
  /\ h = Plain(Met(n, s, 1))
  /\ \A k \in 1 .. n : l[s[k]] = Protect(s[k], Met(n, s, k + 1))

(* Where the chunk s[k] of the chain hangs.                                *)
PlaceOf(t, i, s, k) == IF k = 1 THEN FirstPlace(t, i) ELSE PlaceAfter(t, i, s[k - 1])

(* Lemma: the links are read in the right way.                             *)
LEMMA ChainReveal ==
  ASSUME NEW h, NEW n, NEW s, Chain(h, links, n, s)
  PROVE  \A k \in 1 .. n : Reveal(s[k]) = Met(n, s, k + 1)
<1> SUFFICES ASSUME NEW k \in 1 .. n PROVE Reveal(s[k]) = Met(n, s, k + 1) OBVIOUS
<1>1. links[s[k]] = Protect(s[k], Met(n, s, k + 1)) BY DEF Chain
<1> QED BY <1>1 DEF Reveal, Protect

(* Lemma: and so are the places of a chain.                                *)
LEMMA ChainRead ==
  ASSUME NEW t, NEW i, NEW n, NEW s, Chain(entries[t][i], links, n, s)
  PROVE  \A k \in 1 .. (n + 1) : Read(PlaceOf(t, i, s, k)) = Met(n, s, k)
<1>1. n \in Nat /\ s \in [1 .. n -> Chunks] /\ entries[t][i] = Plain(Met(n, s, 1))
      /\ \A k \in 1 .. n : links[s[k]] = Protect(s[k], Met(n, s, k + 1))
  BY DEF Chain
<1>3. Read(FirstPlace(t, i)) = Met(n, s, 1)
  BY <1>1 DEF Read, Value, FirstPlace, Plain
<1>4. ASSUME NEW k \in 1 .. (n + 1), k # 1 PROVE Read(PlaceAfter(t, i, s[k - 1])) = Met(n, s, k)
  <2>1. k - 1 \in 1 .. n /\ (k - 1) + 1 = k BY <1>1, <1>4
  <2>2. s[k - 1] \in Chunks /\ s[k - 1] # None BY <1>1, <2>1, TcacheAssumption
  <2>3. links[s[k - 1]] = Protect(s[k - 1], Met(n, s, k)) BY <1>1, <2>1
  <2> QED BY <2>2, <2>3 DEF Read, Value, PlaceAfter, Protect
<1> QED BY <1>3, <1>4 DEF PlaceOf

Steps == Cardinality(Chunks) + 1
Walks(t, i, f) ==
  f = [n \in 1 .. Steps |-> IF n = 1 THEN Read(FirstPlace(t, i)) ELSE Following[f[n - 1]]]

(* Lemma: Walk is what satisfies its recursive definition.                 *)
LEMMA WalkUnfolds ==
  ASSUME NEW t, NEW i
  PROVE  Walk(t, i) = [n \in 1 .. Steps |-> (CHOOSE f : Walks(t, i, f))[n]]
BY Zenon DEF Walk, Walks, Steps

(* Lemma: a chain has no more chunks than there are, all different.        *)
LEMMA ChainShort ==
  ASSUME NEW h, NEW l, NEW n, NEW s, Chain(h, l, n, s)
  PROVE  /\ n \in Nat /\ Cardinality(Chunks) \in Nat /\ n <= Cardinality(Chunks)
         /\ IsFiniteSet(Elems(n, s)) /\ Cardinality(Elems(n, s)) = n
         /\ Elems(n, s) \subseteq Chunks /\ None \notin Elems(n, s)
<1>1. n \in Nat /\ s \in [1 .. n -> Chunks] /\ \A j, k \in 1 .. n : s[j] = s[k] => j = k
  BY DEF Chain
<1>2. Elems(n, s) \subseteq Chunks /\ None \notin Elems(n, s)
  BY <1>1, TcacheAssumption DEF Elems
<1>3. s \in Bijection(1 .. n, Elems(n, s))
  <2>1. s \in [1 .. n -> Elems(n, s)] BY <1>1 DEF Elems
  <2>2. s \in Injection(1 .. n, Elems(n, s)) BY <1>1, <2>1 DEF Injection, IsInjective
  <2>3. s \in Surjection(1 .. n, Elems(n, s)) BY <2>1 DEF Surjection, Elems
  <2> QED BY <2>2, <2>3 DEF Bijection
<1>4. IsFiniteSet(1 .. n) /\ Cardinality(1 .. n) = n BY <1>1, FS_Interval
<1>5. IsFiniteSet(Elems(n, s)) /\ Cardinality(Elems(n, s)) = n 
  <2>1. ExistsBijection(1 .. n, Elems(n, s)) BY <1>3 DEF ExistsBijection
  <2> QED BY ONLY <1>4, <2>1, FS_Bijection
<1>6. Cardinality(Elems(n, s)) <= Cardinality(Chunks) /\ Cardinality(Chunks) \in Nat
  BY <1>2, TcacheAssumption, FS_Subset, FS_CardinalityType
<1> QED BY <1>1, <1>2, <1>5, <1>6

(* Lemma: a walk meets the chunks of the chain, then null only.            *)
LEMMA ChainWalk ==
  ASSUME NEW t, NEW i, NEW n, NEW s, Chain(entries[t][i], links, n, s)
  PROVE  Walk(t, i) = [k \in 1 .. Steps |-> Met(n, s, k)]
<1> DEFINE C == Cardinality(Chunks)
           g == [k \in 1 .. Steps |-> Met(n, s, k)]
           w == CHOOSE f : Walks(t, i, f)
<1>1. n \in Nat /\ C \in Nat /\ n <= C /\ Steps = C + 1 BY ChainShort DEF Steps
<1>2. s \in [1 .. n -> Chunks] BY DEF Chain
<1>0. \A k \in 1 .. n : Reveal(s[k]) = Met(n, s, k + 1) BY ChainReveal
<1>3. Read(FirstPlace(t, i)) = Met(n, s, 1)
  <2>1. 1 \in 1 .. (n + 1) BY <1>1
  <2>2. Read(PlaceOf(t, i, s, 1)) = Met(n, s, 1) BY <2>1, ChainRead
  <2> QED BY <2>2 DEF PlaceOf
<1>4. ASSUME NEW k \in 1 .. Steps, k # 1 PROVE Following[Met(n, s, k - 1)] = Met(n, s, k)
  <2>1. CASE k - 1 \in 1 .. n
    <3>1. s[k - 1] \in Chunks /\ (k - 1) + 1 = k BY <1>1, <1>2, <2>1
    <3>2. Met(n, s, k - 1) = s[k - 1] /\ Reveal(s[k - 1]) = Met(n, s, k)
      BY <1>0, <2>1, <3>1 DEF Met
    <3> QED BY <3>1, <3>2 DEF Following
  <2>2. CASE k - 1 \notin 1 .. n
    <3>1. k \notin 1 .. n BY <1>1, <1>4, <2>2
    <3>2. Met(n, s, k - 1) = None /\ Met(n, s, k) = None BY <2>2, <3>1 DEF Met
    <3> QED BY <3>2, TcacheAssumption DEF Following
  <2> QED BY <2>1, <2>2
<1> HIDE DEF C
<1>5. Walks(t, i, g)
  <2>1. ASSUME NEW k \in 1 .. Steps
        PROVE  Met(n, s, k) = IF k = 1 THEN Read(FirstPlace(t, i)) ELSE Following[g[k - 1]]
    <3>1. k # 1 => k - 1 \in 1 .. Steps BY <1>1
    <3> QED BY <1>3, <1>4, <3>1
  <2> QED BY <2>1 DEF Walks
<1>6. Walks(t, i, w) BY <1>5
<1> HIDE DEF g, w
<1>7. \A k \in 1 .. Steps : w[k] = IF k = 1 THEN Read(FirstPlace(t, i)) ELSE Following[w[k - 1]]
  BY <1>6 DEF Walks
<1>8. ASSUME NEW k \in 1 .. Steps, w[k] # Met(n, s, k) PROVE FALSE
  <2> DEFINE T == {j \in 1 .. Steps : w[j] # Met(n, s, j)}
  <2>1. T \subseteq Nat /\ T # {} BY <1>1, <1>8
  <2>2. PICK m \in T : \A j \in T : m <= j BY <2>1, LeastNumber
  <2>3. m # 1 BY <1>3, <1>7, <2>2
  <2>4. m - 1 \in 1 .. Steps /\ ~(m <= m - 1) BY <1>1, <2>2, <2>3
  <2>5. w[m - 1] = Met(n, s, m - 1) BY <2>2, <2>4
  <2> QED BY <1>4, <1>7, <2>2, <2>3, <2>5
<1>9. Walk(t, i) = [k \in 1 .. Steps |-> w[k]] BY WalkUnfolds DEF w
<1> QED BY <1>8, <1>9

(* Lemma: so that the bin has the chunks of the chain, and its walk ends.  *)
LEMMA ChainBin ==
  ASSUME NEW t, NEW i, NEW n, NEW s, Chain(entries[t][i], links, n, s)
  PROVE  InBin(t, i) = Elems(n, s) /\ Last(Walk(t, i)) = None
<1>1. n \in Nat /\ n <= Cardinality(Chunks) /\ Cardinality(Chunks) \in Nat
      /\ Steps = Cardinality(Chunks) + 1
  BY ChainShort DEF Steps
<1>2. s \in [1 .. n -> Chunks] BY DEF Chain
<1>9. Walk(t, i) = [k \in 1 .. Steps |-> Met(n, s, k)] BY ChainWalk
<1>10. InBin(t, i) = Elems(n, s)
  <2>1. \A k \in 1 .. n : s[k] \in Chunks /\ s[k] # None BY <1>2, TcacheAssumption
  <2>2. entries[t][i].to = Met(n, s, 1) BY DEF Chain, Plain
  <2>3. CASE n = 0
    <3>1. entries[t][i].to = None /\ Elems(n, s) = {} BY <1>1, <2>2, <2>3 DEF Met, Elems
    <3> QED BY <3>1 DEF InBin
  <2>4. CASE n # 0
    <3>1. 1 \in 1 .. n BY <1>1, <2>4
    <3>2. entries[t][i].to # None BY <2>1, <2>2, <3>1 DEF Met
    <3>3. ToSet(Walk(t, i)) = {Met(n, s, k) : k \in 1 .. Steps} BY <1>9 DEF ToSet
    <3>4. 1 .. n \subseteq 1 .. Steps BY <1>1
    <3>5. {Met(n, s, k) : k \in 1 .. Steps} \cap Chunks = Elems(n, s)
      BY <2>1, <3>4, TcacheAssumption DEF Met, Elems
    <3> QED BY <3>2, <3>3, <3>5 DEF InBin
  <2> QED BY <2>3, <2>4
<1>11. Last(Walk(t, i)) = None
  <2>1. Len(Walk(t, i)) = Steps BY <1>1, <1>9
  <2>2. Steps \in 1 .. Steps /\ Steps \notin 1 .. n BY <1>1
  <2> QED BY <1>9, <2>1, <2>2 DEF Last, Met
<1> QED BY <1>10, <1>11

(* Lemma: a search stops at a place of the chain: the first that it must.  *)
LEMMA ChainSearch ==
  ASSUME NEW t, NEW i, NEW n, NEW s, Chain(entries[t][i], links, n, s), NEW stops
  PROVE  \E k \in 1 .. (n + 1) :
           /\ Location(t, i, stops) = PlaceOf(t, i, s, k)
           /\ k \in 1 .. n => s[k] \in stops
           /\ \A j \in 1 .. n : j < k => s[j] \notin stops
<1> DEFINE C == Cardinality(Chunks)
           w == Walk(t, i)
           I == {k \in 1 .. Len(w) : w[k] \notin Chunks \/ w[k] \in stops}
<1>1. n \in Nat /\ C \in Nat /\ n <= C /\ Steps = C + 1 BY ChainShort DEF Steps
<1>2. \A k \in 1 .. n : s[k] \in Chunks BY DEF Chain
<1>3. w = [k \in 1 .. Steps |-> Met(n, s, k)] BY ChainWalk
<1> HIDE DEF C, w
<1>4. Len(w) = Steps /\ \A k \in 1 .. Steps : w[k] = Met(n, s, k) BY <1>1, <1>3
<1>5. n + 1 \in I
  <2>1. n + 1 \in 1 .. Len(w) /\ n + 1 \notin 1 .. n BY <1>1, <1>4
  <2> QED BY <1>4, <2>1, TcacheAssumption DEF Met
<1>6. I \subseteq Nat /\ I \subseteq 1 .. Steps BY <1>1, <1>4
<1>7. \E m \in I : \A k \in I : m <= k BY ONLY <1>5, <1>6, LeastNumber
<1>8. Min(I) \in I /\ \A k \in I : Min(I) <= k BY <1>7 DEF Min
<1>9. Location(t, i, stops)
        = IF Min(I) = 1 THEN FirstPlace(t, i) ELSE PlaceAfter(t, i, w[Min(I) - 1])
  BY <1>5 DEF Location, SelectInSeq, w
<1>10. PICK k : k = Min(I) OBVIOUS
<1>11. k \in I /\ \A j \in I : k <= j BY <1>8, <1>10
<1> HIDE DEF I
<1>12. k \in Nat /\ k \in 1 .. Steps /\ k \in 1 .. (n + 1) BY <1>1, <1>5, <1>6, <1>11
<1>13. Location(t, i, stops) = PlaceOf(t, i, s, k)
  <2>1. k # 1 => k - 1 \in 1 .. n /\ k - 1 \in 1 .. Steps BY <1>1, <1>12
  <2>2. k # 1 => w[k - 1] = s[k - 1] BY <1>4, <2>1 DEF Met
  <2> QED BY <1>9, <1>10, <2>2 DEF PlaceOf
<1>14. k \in 1 .. n => s[k] \in stops
  <2>1. k \in 1 .. n => w[k] = s[k] /\ s[k] \in Chunks BY <1>2, <1>4, <1>12 DEF Met
  <2> QED BY <1>11, <2>1 DEF I
<1>15. ASSUME NEW j \in 1 .. n, j < k PROVE s[j] \notin stops
  <2>1. j \notin I BY <1>11, <1>12, <1>15
  <2>2. j \in 1 .. Len(w) /\ w[j] = s[j] BY <1>1, <1>4 DEF Met
  <2> QED BY <2>1, <2>2 DEF I
<1> QED BY <1>12, <1>13, <1>14, <1>15

-----------------------------------------------------------------------------
(* What put and get do to a chain.                                         *)

Inserted(n, s, k, c) ==
  [j \in 1 .. (n + 1) |-> IF j < k THEN s[j] ELSE IF j = k THEN c ELSE s[j - 1]]
Removed(n, s, k) == [j \in 1 .. (n - 1) |-> IF j < k THEN s[j] ELSE s[j + 1]]

(* Lemma: a chain whose links stay is a chain.                             *)
LEMMA ChainStays ==
  ASSUME NEW h, NEW l, NEW m, NEW n, NEW s, Chain(h, l, n, s),
         \A c \in Elems(n, s) : m[c] = l[c]
  PROVE  Chain(h, m, n, s)
<1>1. \A k \in 1 .. n : s[k] \in Elems(n, s) BY DEF Elems
<1> QED BY <1>1 DEF Chain

(* Lemma: a new chunk at position k, as tcache_put_n leaves the links.     *)
LEMMA ChainInsert ==
  ASSUME NEW h, NEW l, NEW n, NEW s, Chain(h, l, n, s),
         NEW k \in 1 .. (n + 1), NEW c \in Chunks, c \notin Elems(n, s),
         NEW g, NEW m,
         IF k = 1 THEN g = Plain(c) ELSE g = h /\ m[s[k - 1]] = Protect(s[k - 1], c),
         m[c] = Protect(c, Met(n, s, k)),
         \A j \in 1 .. n : j + 1 # k => m[s[j]] = l[s[j]]
  PROVE  /\ Chain(g, m, n + 1, Inserted(n, s, k, c))
         /\ Elems(n + 1, Inserted(n, s, k, c)) = Elems(n, s) \cup {c}
<1> DEFINE r == Inserted(n, s, k, c)
<1>1. /\ n \in Nat /\ s \in [1 .. n -> Chunks] /\ \A i, j \in 1 .. n : s[i] = s[j] => i = j
      /\ h = Plain(Met(n, s, 1)) /\ \A j \in 1 .. n : l[s[j]] = Protect(s[j], Met(n, s, j + 1))
  BY DEF Chain
<1>2. \A j \in 1 .. n : s[j] # c BY DEF Elems
<1>3. /\ r \in [1 .. (n + 1) -> Chunks]
      /\ \A j \in 1 .. (n + 1) : r[j] = IF j < k THEN s[j] ELSE IF j = k THEN c ELSE s[j - 1]
  <2>1. ASSUME NEW j \in 1 .. (n + 1)
        PROVE  (IF j < k THEN s[j] ELSE IF j = k THEN c ELSE s[j - 1]) \in Chunks
    <3>1. j < k => j \in 1 .. n BY <1>1
    <3>2. ~(j < k) /\ j # k => j - 1 \in 1 .. n BY <1>1
    <3> QED BY <1>1, <3>1, <3>2
  <2> QED BY <2>1 DEF Inserted
<1> HIDE DEF r
<1>4. \A j \in 1 .. (n + 1) :
        \/ j < k /\ j \in 1 .. n /\ r[j] = s[j]
        \/ j = k /\ r[j] = c
        \/ j > k /\ j - 1 \in 1 .. n /\ r[j] = s[j - 1]
  BY <1>1, <1>3
<1>5. ASSUME NEW i \in 1 .. (n + 1), NEW j \in 1 .. (n + 1), r[i] = r[j] PROVE i = j
  <2>1. \/ i < k /\ i \in 1 .. n /\ r[i] = s[i]
        \/ i = k /\ r[i] = c
        \/ i > k /\ i - 1 \in 1 .. n /\ r[i] = s[i - 1]
    BY <1>4
  <2>2. \/ j < k /\ j \in 1 .. n /\ r[j] = s[j]
        \/ j = k /\ r[j] = c
        \/ j > k /\ j - 1 \in 1 .. n /\ r[j] = s[j - 1]
    BY <1>4
  <2> QED BY <1>1, <1>2, <1>5, <2>1, <2>2
<1>6. g = Plain(Met(n + 1, r, 1))
  <2>1. 1 \in 1 .. (n + 1) BY <1>1
  <2>2. CASE k = 1 BY <1>3, <2>1, <2>2 DEF Met
  <2>3. CASE k # 1
    <3>1. 1 \in 1 .. n /\ 1 < k BY <1>1, <2>3
    <3>2. Met(n + 1, r, 1) = Met(n, s, 1) BY <1>3, <2>1, <3>1 DEF Met
    <3> QED BY <1>1, <2>3, <3>2
  <2> QED BY <2>2, <2>3
<1>7. ASSUME NEW j \in 1 .. (n + 1) PROVE m[r[j]] = Protect(r[j], Met(n + 1, r, j + 1))
  <2>1. CASE j = k
    <3>1. Met(n + 1, r, j + 1) = Met(n, s, k)
      <4>1. CASE k = n + 1
        <5>1. j + 1 \notin 1 .. (n + 1) /\ k \notin 1 .. n BY <1>1, <2>1, <4>1
        <5> QED BY <5>1 DEF Met
      <4>2. CASE k # n + 1
        <5>1. j + 1 \in 1 .. (n + 1) /\ k \in 1 .. n /\ ~(j + 1 < k) /\ j + 1 # k /\ (j + 1) - 1 = k
          BY <1>1, <2>1, <4>2
        <5> QED BY <1>3, <5>1 DEF Met
      <4> QED BY <4>1, <4>2
    <3> QED BY <1>4, <2>1, <3>1
  <2>2. CASE j + 1 = k
    <3>1. j \in 1 .. n /\ j < k /\ k # 1 /\ k - 1 = j BY <1>1, <2>2
    <3>2. r[j] = s[j] /\ r[k] = c BY <1>3, <3>1
    <3>3. Met(n + 1, r, j + 1) = c BY <2>2, <3>2 DEF Met
    <3> QED BY <3>1, <3>2, <3>3
  <2>3. CASE j < k /\ j + 1 # k
    <3>1. j \in 1 .. n /\ j + 1 \in 1 .. n /\ j + 1 \in 1 .. (n + 1) /\ j + 1 < k BY <1>1, <2>3
    <3>2. r[j] = s[j] /\ r[j + 1] = s[j + 1] BY <1>3, <2>3, <3>1
    <3>3. Met(n + 1, r, j + 1) = Met(n, s, j + 1) BY <3>1, <3>2 DEF Met
    <3> QED BY <1>1, <2>3, <3>1, <3>2, <3>3
  <2>4. CASE j > k
    <3>1. j - 1 \in 1 .. n /\ (j - 1) + 1 = j /\ (j - 1) + 1 # k BY <1>1, <2>4
    <3>2. r[j] = s[j - 1] BY <1>4, <2>4
    <3>3. Met(n + 1, r, j + 1) = Met(n, s, j)
      <4>1. CASE j = n + 1
        <5>1. j + 1 \notin 1 .. (n + 1) /\ j \notin 1 .. n BY <1>1, <4>1
        <5> QED BY <5>1 DEF Met
      <4>2. CASE j # n + 1
        <5>1. j + 1 \in 1 .. (n + 1) /\ j \in 1 .. n /\ ~(j + 1 < k) /\ j + 1 # k /\ (j + 1) - 1 = j
          BY <1>1, <2>4, <4>2
        <5> QED BY <1>3, <5>1 DEF Met
      <4> QED BY <4>1, <4>2
    <3>4. l[s[j - 1]] = Protect(s[j - 1], Met(n, s, j)) BY <1>1, <3>1
    <3>5. m[s[j - 1]] = l[s[j - 1]] BY <3>1
    <3> QED BY <3>2, <3>3, <3>4, <3>5
  <2> QED BY <1>1, <2>1, <2>2, <2>3, <2>4
<1>8. Elems(n + 1, r) = Elems(n, s) \cup {c}
  <2>1. ASSUME NEW j \in 1 .. (n + 1) PROVE r[j] \in Elems(n, s) \cup {c}
    BY <1>4 DEF Elems
  <2>2. ASSUME NEW j \in 1 .. n PROVE s[j] \in Elems(n + 1, r)
    <3>1. CASE j < k
      <4>1. j \in 1 .. (n + 1) /\ r[j] = s[j] BY <1>1, <1>3, <3>1
      <4> QED BY <4>1 DEF Elems
    <3>2. CASE ~(j < k)
      <4>1. j + 1 \in 1 .. (n + 1) /\ ~(j + 1 < k) /\ j + 1 # k /\ (j + 1) - 1 = j BY <1>1, <3>2
      <4>2. r[j + 1] = s[j] BY <1>3, <4>1
      <4> QED BY <4>1, <4>2 DEF Elems
    <3> QED BY <3>1, <3>2
  <2>3. c \in Elems(n + 1, r) BY <1>3 DEF Elems
  <2> QED BY <2>1, <2>2, <2>3 DEF Elems
<1>9. n + 1 \in Nat BY <1>1
<1> QED BY <1>3, <1>5, <1>6, <1>7, <1>8, <1>9 DEF Chain, r

(* Lemma: the chunk at position k taken out, as tcache_get_n leaves them.  *)
LEMMA ChainRemove ==
  ASSUME NEW h, NEW l, NEW n, NEW s, Chain(h, l, n, s),
         NEW k \in 1 .. n, NEW g, NEW m,
         IF k = 1 THEN g = Plain(Met(n, s, 2))
         ELSE g = h /\ m[s[k - 1]] = Protect(s[k - 1], Met(n, s, k + 1)),
         \A j \in 1 .. n : j # k /\ j + 1 # k => m[s[j]] = l[s[j]]
  PROVE  /\ Chain(g, m, n - 1, Removed(n, s, k))
         /\ Elems(n - 1, Removed(n, s, k)) = Elems(n, s) \ {s[k]}
<1> DEFINE r == Removed(n, s, k)
<1>1. /\ n \in Nat /\ s \in [1 .. n -> Chunks] /\ \A i, j \in 1 .. n : s[i] = s[j] => i = j
      /\ h = Plain(Met(n, s, 1)) /\ \A j \in 1 .. n : l[s[j]] = Protect(s[j], Met(n, s, j + 1))
  BY DEF Chain
<1>2. n - 1 \in Nat BY <1>1
<1>3. /\ r \in [1 .. (n - 1) -> Chunks]
      /\ \A j \in 1 .. (n - 1) : r[j] = IF j < k THEN s[j] ELSE s[j + 1]
  <2>1. \A j \in 1 .. (n - 1) : j \in 1 .. n /\ j + 1 \in 1 .. n BY <1>1
  <2> QED BY <1>1, <2>1 DEF Removed
<1> HIDE DEF r
<1>4. \A j \in 1 .. (n - 1) :
        \/ j < k /\ j \in 1 .. n /\ r[j] = s[j]
        \/ ~(j < k) /\ j + 1 \in 1 .. n /\ r[j] = s[j + 1]
  BY <1>1, <1>3
<1>5. ASSUME NEW i \in 1 .. (n - 1), NEW j \in 1 .. (n - 1), r[i] = r[j] PROVE i = j
  <2>1. \/ i < k /\ i \in 1 .. n /\ r[i] = s[i]
        \/ ~(i < k) /\ i + 1 \in 1 .. n /\ r[i] = s[i + 1]
    BY <1>4
  <2>2. \/ j < k /\ j \in 1 .. n /\ r[j] = s[j]
        \/ ~(j < k) /\ j + 1 \in 1 .. n /\ r[j] = s[j + 1]
    BY <1>4
  <2> QED BY <1>1, <1>5, <2>1, <2>2
<1>6. ASSUME NEW j \in 1 .. (n - 1), ~(j < k) PROVE Met(n - 1, r, j) = Met(n, s, j + 1)
  <2>1. j + 1 \in 1 .. n BY <1>1
  <2> QED BY <1>3, <1>6, <2>1 DEF Met
<1>7. ASSUME NEW j \in 1 .. (n - 1), j < k PROVE Met(n - 1, r, j) = Met(n, s, j)
  <2>1. j \in 1 .. n BY <1>1
  <2> QED BY <1>3, <1>7, <2>1 DEF Met
<1>8. Met(n - 1, r, n) = None /\ Met(n, s, n + 1) = None
  <2>1. n \notin 1 .. (n - 1) /\ n + 1 \notin 1 .. n BY <1>1
  <2> QED BY <2>1 DEF Met
<1>9. \A j \in 1 .. n : ~(j < k) => Met(n - 1, r, j) = Met(n, s, j + 1)
  <2>1. ASSUME NEW j \in 1 .. n, ~(j < k) PROVE Met(n - 1, r, j) = Met(n, s, j + 1)
    <3>1. j = n \/ j \in 1 .. (n - 1) BY <1>1
    <3> QED BY <1>6, <1>8, <2>1, <3>1
  <2> QED BY <2>1
<1>10. g = Plain(Met(n - 1, r, 1))
  <2>1. 1 \in 1 .. n BY <1>1
  <2>2. CASE k = 1
    <3>1. Met(n - 1, r, 1) = Met(n, s, 1 + 1) BY <1>9, <2>1, <2>2
    <3> QED BY <2>2, <3>1
  <2>3. CASE k # 1
    <3>1. 1 \in 1 .. (n - 1) /\ 1 < k BY <1>1, <2>3
    <3> QED BY <1>1, <1>7, <2>3, <3>1
  <2> QED BY <2>2, <2>3
<1>11. ASSUME NEW j \in 1 .. (n - 1) PROVE m[r[j]] = Protect(r[j], Met(n - 1, r, j + 1))
  <2>1. j + 1 \in 1 .. n /\ j \in 1 .. n BY <1>1
  <2>2. CASE j + 1 = k
    <3>1. k # 1 /\ k - 1 = j /\ j < k /\ ~(j + 1 < k) BY <1>1, <2>2
    <3>2. r[j] = s[j] BY <1>3, <3>1
    <3>3. Met(n - 1, r, j + 1) = Met(n, s, k + 1) BY <1>9, <2>1, <2>2, <3>1
    <3> QED BY <3>1, <3>2, <3>3
  <2>3. CASE j < k /\ j + 1 # k
    <3>1. j + 1 < k /\ j + 1 \in 1 .. (n - 1) /\ j # k BY <1>1, <2>3
    <3>2. r[j] = s[j] /\ Met(n - 1, r, j + 1) = Met(n, s, j + 1) BY <1>3, <1>7, <2>3, <3>1
    <3> QED BY <1>1, <2>1, <2>3, <3>1, <3>2
  <2>4. CASE ~(j < k)
    <3>1. ~(j + 1 < k) /\ j + 1 # k /\ (j + 1) + 1 # k BY <1>1, <2>4
    <3>2. r[j] = s[j + 1] /\ Met(n - 1, r, j + 1) = Met(n, s, (j + 1) + 1)
      BY <1>3, <1>9, <2>1, <2>4, <3>1
    <3>3. l[s[j + 1]] = Protect(s[j + 1], Met(n, s, (j + 1) + 1)) BY <1>1, <2>1
    <3>4. m[s[j + 1]] = l[s[j + 1]] BY <2>1, <3>1
    <3> QED BY <3>2, <3>3, <3>4
  <2> QED BY <2>2, <2>3, <2>4
<1>12. Elems(n - 1, r) = Elems(n, s) \ {s[k]}
  <2>1. ASSUME NEW j \in 1 .. (n - 1) PROVE r[j] \in Elems(n, s) \ {s[k]}
    <3>1. CASE j < k
      <4>1. j \in 1 .. n /\ j # k /\ r[j] = s[j] BY <1>1, <1>3, <3>1
      <4>2. s[j] # s[k] BY <1>1, <4>1
      <4> QED BY <4>1, <4>2 DEF Elems
    <3>2. CASE ~(j < k)
      <4>1. j + 1 \in 1 .. n /\ j + 1 # k /\ r[j] = s[j + 1] BY <1>1, <1>3, <3>2
      <4>2. s[j + 1] # s[k] BY <1>1, <4>1
      <4> QED BY <4>1, <4>2 DEF Elems
    <3> QED BY <3>1, <3>2
  <2>2. ASSUME NEW j \in 1 .. n, s[j] # s[k] PROVE s[j] \in Elems(n - 1, r)
    <3>1. CASE j < k
      <4>1. j \in 1 .. (n - 1) /\ r[j] = s[j] BY <1>1, <1>3, <3>1
      <4> QED BY <4>1 DEF Elems
    <3>2. CASE ~(j < k)
      <4>1. j # k BY <2>2
      <4>2. j - 1 \in 1 .. (n - 1) /\ ~(j - 1 < k) /\ (j - 1) + 1 = j BY <1>1, <3>2, <4>1
      <4>3. r[j - 1] = s[j] BY <1>3, <4>2
      <4> QED BY <4>2, <4>3 DEF Elems
    <3> QED BY <3>1, <3>2
  <2> QED BY <2>1, <2>2 DEF Elems
<1> QED BY <1>2, <1>3, <1>5, <1>10, <1>11, <1>12 DEF Chain, r

(* The sizes along a chain never fall.                                     *)
Ascending(sz, n, s) == \A i, j \in 1 .. n : i < j => sz[s[i]] <= sz[s[j]]

(* Lemma: a chunk is inserted after the smaller and before the larger.     *)
LEMMA AscendingInsert ==
  ASSUME NEW n \in Nat, NEW s, NEW sz, NEW zs, NEW c,
         Ascending(sz, n, s), \A j \in 1 .. n : zs[s[j]] = sz[s[j]],
         NEW k \in 1 .. (n + 1),
         \A j \in 1 .. n : IF j < k THEN zs[s[j]] <= zs[c] ELSE zs[c] <= zs[s[j]]
  PROVE  Ascending(zs, n + 1, Inserted(n, s, k, c))
<1> DEFINE r == Inserted(n, s, k, c)
<1>1. \A j \in 1 .. (n + 1) :
        \/ j < k /\ j \in 1 .. n /\ r[j] = s[j]
        \/ j = k /\ r[j] = c
        \/ j > k /\ j - 1 \in 1 .. n /\ ~(j - 1 < k) /\ r[j] = s[j - 1]
  <2>1. \A j \in 1 .. (n + 1) : r[j] = IF j < k THEN s[j] ELSE IF j = k THEN c ELSE s[j - 1]
    BY DEF Inserted
  <2> HIDE DEF r
  <2> QED BY <2>1
<1> HIDE DEF r
<1>2. ASSUME NEW i \in 1 .. (n + 1), NEW j \in 1 .. (n + 1), i < j PROVE zs[r[i]] <= zs[r[j]]
  <2>1. \/ i < k /\ i \in 1 .. n /\ r[i] = s[i]
        \/ i = k /\ r[i] = c
        \/ i > k /\ i - 1 \in 1 .. n /\ ~(i - 1 < k) /\ r[i] = s[i - 1]
    BY <1>1
  <2>2. \/ j < k /\ j \in 1 .. n /\ r[j] = s[j]
        \/ j = k /\ r[j] = c
        \/ j > k /\ j - 1 \in 1 .. n /\ ~(j - 1 < k) /\ r[j] = s[j - 1]
    BY <1>1
  <2>3. \A a, b \in 1 .. n : a < b => zs[s[a]] <= zs[s[b]] BY DEF Ascending
  <2>4. i > k => i - 1 < j - 1 BY <1>2
  <2>5. i < k /\ j > k => i < j - 1 BY <1>2
  <2> QED BY <1>2, <2>1, <2>2, <2>3, <2>4, <2>5
<1> QED BY <1>2 DEF Ascending, r

(* Lemma: a chain that loses a chunk still ascends.                        *)
LEMMA AscendingRemove ==
  ASSUME NEW n \in Nat, NEW s, NEW sz, NEW zs, Ascending(sz, n, s),
         NEW k \in 1 .. n, \A j \in 1 .. n : j # k => zs[s[j]] = sz[s[j]]
  PROVE  Ascending(zs, n - 1, Removed(n, s, k))
<1> DEFINE r == Removed(n, s, k)
<1>1. \A j \in 1 .. (n - 1) :
        \/ j < k /\ j \in 1 .. n /\ r[j] = s[j]
        \/ ~(j < k) /\ j + 1 \in 1 .. n /\ j + 1 # k /\ r[j] = s[j + 1]
  <2>1. \A j \in 1 .. (n - 1) : r[j] = IF j < k THEN s[j] ELSE s[j + 1] BY DEF Removed
  <2> HIDE DEF r
  <2> QED BY <2>1
<1> HIDE DEF r
<1>2. ASSUME NEW i \in 1 .. (n - 1), NEW j \in 1 .. (n - 1), i < j PROVE zs[r[i]] <= zs[r[j]]
  <2>1. \/ i < k /\ i \in 1 .. n /\ r[i] = s[i]
        \/ ~(i < k) /\ i + 1 \in 1 .. n /\ i + 1 # k /\ r[i] = s[i + 1]
    BY <1>1
  <2>2. \/ j < k /\ j \in 1 .. n /\ r[j] = s[j]
        \/ ~(j < k) /\ j + 1 \in 1 .. n /\ j + 1 # k /\ r[j] = s[j + 1]
    BY <1>1
  <2>3. \A a, b \in 1 .. n : a < b /\ a # k /\ b # k => zs[s[a]] <= zs[s[b]] BY DEF Ascending
  <2>4. i + 1 < j + 1 /\ i < j + 1 BY <1>2
  <2> QED BY <1>2, <2>1, <2>2, <2>3, <2>4
<1> QED BY <1>2 DEF Ascending, r

-----------------------------------------------------------------------------
(* The inductive invariant.                                                *)

Words == [by : Chunks \cup {None}, to : Chunks \cup {None}]
CallRecords ==
  [pc : {"idle", "init", "arena", "cut", "verify", "shutdown", "shutdown_free"},
   req : Requests \cup {None}, nb : Nat, filled : BOOLEAN, p : Chunks \cup {None},
   closing : BOOLEAN]

TypeOK ==
  /\ tcache \in [Threads -> BOOLEAN] /\ shutting_down \in [Threads -> BOOLEAN]
  /\ num_slots \in [Threads -> [Bins -> 0 .. MAX_TCACHE_COUNT]]
  /\ entries \in [Threads -> [Bins -> Words]]
  /\ links \in [Chunks -> Words]
  /\ key \in [Chunks -> BOOLEAN]
  /\ size \in [Chunks -> Nat]
  /\ pool \subseteq Chunks
  /\ live \in [DOMAIN live -> Requests] /\ DOMAIN live \subseteq Chunks
  /\ op \in [Threads -> CallRecords]
  /\ aborted \in BOOLEAN

(* Every bin is a chain, in ascending order.                               *)
Bin(t, i, n, s) == Chain(entries[t][i], links, n, s) /\ Ascending(size, n, s)
Lists == \A t \in Threads, i \in Bins : \E n, s : Bin(t, i, n, s)

(* Its chunks are of its sizes, and carry the key.                         *)
Tagged ==
  \A t \in Threads, i \in Bins : \A c \in InBin(t, i) :
    Tidx(size[c]) = i /\ Cacheable(size[c]) /\ key[c]
Sized == \A c \in Chunks \ pool : size[c] \in ChunkSizes

(* Chunks and free slots make up tcache_count, in the caches that are open.*)
Slotted ==
  \A t \in Threads : tcache[t] =>
    \A i \in Bins : Cardinality(InBin(t, i)) + num_slots[t][i] = mp.tcache_count
Closed ==
  \A t \in Threads :
    /\ shutting_down[t] => ~tcache[t]
    /\ op[t].closing => shutting_down[t]
    /\ ~tcache[t] /\ ~op[t].closing => Cached(t) = {}

(* The chunks that a thread caches, and the one it takes out of a cache    *)
(* that it gives up.                                                       *)
Held(t) == Cached(t) \cup IF op[t].closing /\ op[t].p # None THEN {op[t].p} ELSE {}

(* The caches as ChunkCache sees them, with what their invariant is there: *)
(* the chunks in them have sizes, so that one that leaves or enters a cache*)
(* changes the count of its own size only.                                 *)
Holding == [t \in Threads |-> Held(t)]
Caches == INSTANCE ChunkCache WITH
  Needs <- Request2size, asked <- live, limit <- mp.tcache_count, cache <- Holding

CachesTyped ==
  /\ IsFiniteSet(Chunks)
  /\ Holding \in [Threads -> SUBSET Chunks]
  /\ size \in [Chunks -> Sizes \cup {0}]
  /\ mp.tcache_count \in Nat
OfSize(t, sz) == {d \in Holding[t] : size[d] = sz}
CachesBounded == \A t \in Threads, sz \in Sizes : Cardinality(OfSize(t, sz)) <= mp.tcache_count
CachesInv == CachesTyped /\ Caches!OnePlace /\ CachesBounded

(* Where a thread stands in a call.                                        *)
NbFor(req) ==
  LET nb == Request2size(req.bytes)
  IN  IF req.al > MALLOC_ALIGNMENT THEN Request2size(nb + req.al + MINSIZE) ELSE nb
CallOK(t) ==
  LET call == op[t]
  IN  /\ call.pc = "idle" => call = Idle
      /\ call.pc \in {"init", "arena", "cut"} =>
           call.req \in Requests /\ call.nb = NbFor(call.req) /\ call.p = None
      /\ call.pc = "init" => ~tcache[t]
      /\ call.pc # "arena" => ~call.filled
      /\ call.filled =>
           /\ tcache[t] /\ Small(call.nb) /\ Cacheable(call.nb)
           /\ InBin(t, Tidx(call.nb)) # {}
      /\ call.pc = "verify" =>
           /\ tcache[t] /\ call.p \in Chunks /\ Cacheable(size[call.p])
           /\ call.p \in Cached(t) \cup DOMAIN live
      /\ call.pc = "shutdown" => call.p = None
      /\ call.pc = "shutdown_free" => call.p \in Chunks
      /\ call.closing <=> call.pc \in {"shutdown", "shutdown_free"}
Calls ==
  \A t \in Threads :
    /\ CallOK(t)
    /\ op[t].closing => op[t].p \notin Cached(t)
    /\ \A u \in Threads \ {t} : op[t].p # None => op[u].p # op[t].p
Aborts == aborted => \E t \in Threads : op[t].pc = "verify" /\ op[t].p \in Cached(t)

IInv ==
  /\ TypeOK /\ MpOK /\ Lists /\ Tagged /\ Sized /\ Slotted /\ Closed
  /\ CachesInv /\ Calls /\ Aborts

-----------------------------------------------------------------------------
(* What ChunkCache promises of caches that take its steps.                 *)

(* Lemma: its bounds, in the terms of this module.                         *)
LEMMA BoundedIs == (Caches!Bounded <=> CachesBounded) /\ (Caches!Bounded <=> CachesBounded)'
BY Zenon DEF Caches!Bounded, Caches!Cardinality, Cardinality, CachesBounded, OfSize
LEMMA RoomIs ==
  \A t, sz : Caches!RoomFor(t, sz) <=> Cardinality(OfSize(t, sz)) < mp.tcache_count
BY Zenon DEF Caches!RoomFor, Caches!Cardinality, Cardinality, OfSize

(* At the start nothing is cached and nothing has a size.                  *)
LEMMA CachesInit ==
  ASSUME IsFiniteSet(Chunks), Caches!Init
  PROVE  CachesInv
<1>1. CachesTyped BY DEF Caches!Init, CachesTyped
<1>2. Caches!OnePlace BY DEF Caches!Init, Caches!OnePlace
<1>3. ASSUME NEW t \in Threads, NEW sz \in Sizes
      PROVE  Cardinality(OfSize(t, sz)) <= mp.tcache_count
  <2>1. OfSize(t, sz) = {} BY DEF Caches!Init, OfSize
  <2> QED BY <2>1, FS_EmptySet DEF Caches!Init
<1> QED BY <1>1, <1>2, <1>3 DEF CachesInv, CachesBounded

(* The chunks of one size in a cache are finite in number, and fewer of    *)
(* them are no more than tcache_count.                                     *)
LEMMA OfSizeFinite ==
  ASSUME CachesTyped, NEW t \in Threads, NEW sz
  PROVE  IsFiniteSet(OfSize(t, sz))
         /\ Cardinality(OfSize(t, sz)) \in Nat
<1>1. OfSize(t, sz) \subseteq Chunks BY DEF CachesTyped, OfSize
<1> QED BY <1>1, FS_Subset, FS_CardinalityType DEF CachesTyped

(* A part of such a set is no larger than tcache_count.                    *)
LEMMA FewerBounded ==
  ASSUME CachesInv, NEW t \in Threads, NEW sz \in Sizes,
         NEW S, S \subseteq OfSize(t, sz)
  PROVE  Cardinality(S) <= mp.tcache_count
<1>1. IsFiniteSet(OfSize(t, sz))
      /\ Cardinality(OfSize(t, sz)) \in Nat
      BY OfSizeFinite DEF CachesInv
<1>2. Cardinality(S) <= Cardinality(OfSize(t, sz))
      /\ Cardinality(S) \in Nat
      BY <1>1, FS_Subset, FS_CardinalityType
<1>3. Cardinality(OfSize(t, sz)) <= mp.tcache_count BY DEF CachesInv, CachesBounded
<1> QED BY <1>1, <1>2, <1>3 DEF CachesInv, CachesTyped

(* A step that takes chunks out of caches, or leaves them alone, and gives *)
(* a new size only to a chunk that is not cached afterwards.               *)
LEMMA ShrinkBounded ==
  ASSUME CachesInv, CachesTyped', mp'.tcache_count = mp.tcache_count,
         \A t \in Threads : \A d \in Holding'[t] : d \in Holding[t] /\ size'[d] = size[d]
  PROVE  CachesBounded'
<1>1. ASSUME NEW t \in Threads, NEW sz \in Sizes
      PROVE  Cardinality(OfSize(t, sz)') <= mp'.tcache_count
  <2>1. OfSize(t, sz)' \subseteq OfSize(t, sz) BY DEF OfSize
  <2> QED BY <2>1, FewerBounded
<1> QED BY <1>1 DEF CachesBounded

(* A step that puts c into the cache of t while there is room for it.      *)
LEMMA AddBounded ==
  ASSUME CachesInv, mp'.tcache_count = mp.tcache_count, NEW t \in Threads, NEW c \in Chunks,
         Holding' = [Holding EXCEPT ![t] = @ \cup {c}],
         Caches!RoomFor(t, size'[c]),
         \A s \in Threads : c \notin Holding[s],
         \A d \in Chunks \ {c} : size'[d] = size[d]
  PROVE  CachesBounded'
<1>1. ASSUME NEW s \in Threads, NEW sz \in Sizes
      PROVE  Cardinality(OfSize(s, sz)') <= mp'.tcache_count
  <2> DEFINE Old == OfSize(s, sz)
             New == OfSize(s, sz)'
  <2>1. IsFiniteSet(Old) /\ Cardinality(Old) \in Nat BY OfSizeFinite DEF CachesInv
  <2>2. Holding[s] \subseteq Chunks BY DEF CachesInv, CachesTyped
  <2>3. CASE s = t /\ size'[c] = sz
    <3>1. New = Old \cup {c} BY <2>2, <2>3 DEF CachesInv, CachesTyped, OfSize
    <3>2. Cardinality(Old) < mp.tcache_count BY <2>3, RoomIs
    <3>3. c \notin Old BY DEF OfSize
    <3>4. Cardinality(New) = Cardinality(Old) + 1 BY <2>1, <3>1, <3>3, FS_AddElement
    <3> QED BY <2>1, <3>2, <3>4 DEF CachesInv, CachesTyped
  <2>4. CASE ~(s = t /\ size'[c] = sz)
    <3>1. New \subseteq Old BY <2>2, <2>4 DEF CachesInv, CachesTyped, OfSize
    <3> QED BY <3>1, FewerBounded
  <2> QED BY <2>3, <2>4
<1> QED BY <1>1 DEF CachesBounded

-----------------------------------------------------------------------------
(* What the helpers of the actions do.                                     *)
LEMMA CutSizes ==
  ASSUME CachesTyped, NEW c \in Chunks, Caches!Cut(c)
  PROVE  /\ size' \in [Chunks -> Sizes \cup {0}]
         /\ \A d \in Chunks \ {c} : size'[d] = size[d]
BY DEF Caches!Cut, CachesTyped

(* A chunk that is given out is one more that the program has ...          *)
LEMMA AsksDomain ==
  ASSUME NEW c \in Chunks, Caches!Asks(c)
  PROVE  DOMAIN live' = DOMAIN live \cup {c}
BY DEF Caches!Asks

(* ... and one that is given back is one fewer.                            *)
LEMMA ForgetsDomain ==
  ASSUME NEW c \in Chunks, Caches!Forgets(c)
  PROVE  DOMAIN live' = DOMAIN live \ {c}
BY DEF Caches!Forgets

(* Every step keeps each chunk in one place and the caches bounded.        *)
LEMMA CachesStep == CachesInv /\ [Caches!Next]_(Caches!vars) => CachesInv'
<1> SUFFICES ASSUME CachesInv, [Caches!Next]_(Caches!vars) PROVE CachesInv'
    OBVIOUS
<1> USE DEF CachesInv
<1>1. CASE UNCHANGED Caches!vars
  <2>1. CachesTyped' /\ Caches!OnePlace' BY <1>1 DEF CachesTyped, Caches!OnePlace, Caches!vars
  <2>2. CachesBounded' BY <1>1 DEF CachesBounded, OfSize, Caches!vars
  <2> QED BY <2>1, <2>2
<1>2. ASSUME mp'.tcache_count = mp.tcache_count, NEW c \in pool, Caches!Give(c) PROVE CachesInv'
  <2>1. c \in Chunks /\ \A t \in Threads : c \notin Holding[t] BY DEF Caches!OnePlace
  <2>2. DOMAIN live' = DOMAIN live \cup {c} BY <1>2, <2>1, AsksDomain DEF Caches!Give
  <2>3. CachesTyped' BY <1>2, <2>1, CutSizes DEF Caches!Give, CachesTyped
  <2>4. Caches!OnePlace' BY <1>2, <2>1, <2>2 DEF Caches!Give, Caches!OnePlace
  <2>5. \A t \in Threads : \A d \in Holding'[t] : d \in Holding[t] /\ size'[d] = size[d]
        BY <1>2, <2>1, CutSizes DEF Caches!Give, CachesTyped
  <2> QED BY <1>2, <2>3, <2>4, <2>5, ShrinkBounded
<1>3. ASSUME mp'.tcache_count = mp.tcache_count, NEW c \in pool, NEW t \in Threads, Caches!Stash(t, c) PROVE CachesInv'
  <2>1. c \in Chunks /\ \A s \in Threads : c \notin Holding[s] BY DEF Caches!OnePlace
  <2>2. Holding' = [Holding EXCEPT ![t] = @ \cup {c}] BY <1>3 DEF Caches!Stash
  <2>3. CachesTyped' BY <1>3, <2>1, <2>2, CutSizes DEF Caches!Stash, CachesTyped
  <2>4. Caches!OnePlace' BY <1>3, <2>1, <2>2 DEF Caches!Stash, Caches!OnePlace, CachesTyped
  <2>5. CachesBounded'
    <3>1. Caches!RoomFor(t, size'[c]) BY <1>3 DEF Caches!Stash
    <3>2. \A d \in Chunks \ {c} : size'[d] = size[d] BY <1>3, <2>1, CutSizes DEF Caches!Stash
    <3> QED BY <1>3, <2>1, <2>2, <3>1, <3>2, AddBounded
  <2> QED BY <2>3, <2>4, <2>5
<1>4. ASSUME mp'.tcache_count = mp.tcache_count, NEW c \in DOMAIN live, Caches!Release(c) PROVE CachesInv'
  <2>1. c \in Chunks /\ \A t \in Threads : c \notin Holding[t] BY DEF Caches!OnePlace
  <2>2. DOMAIN live' = DOMAIN live \ {c} BY <1>4, <2>1, ForgetsDomain DEF Caches!Release
  <2>3. CachesTyped' BY <1>4, <2>1 DEF Caches!Release, CachesTyped
  <2>4. Caches!OnePlace' BY <1>4, <2>1, <2>2 DEF Caches!Release, Caches!OnePlace
  <2>5. \A t \in Threads : \A d \in Holding'[t] : d \in Holding[t] /\ size'[d] = size[d]
        BY <1>4, <2>1 DEF Caches!Release, CachesTyped
  <2> QED BY <1>4, <2>3, <2>4, <2>5, ShrinkBounded
<1>5. ASSUME mp'.tcache_count = mp.tcache_count, NEW c \in DOMAIN live, NEW t \in Threads, Caches!Keep(t, c)
      PROVE  CachesInv'
  <2>1. c \in Chunks /\ \A s \in Threads : c \notin Holding[s] BY DEF Caches!OnePlace
  <2>2. Holding' = [Holding EXCEPT ![t] = @ \cup {c}] BY <1>5 DEF Caches!Keep
  <2>3. DOMAIN live' = DOMAIN live \ {c} BY <1>5, <2>1, ForgetsDomain DEF Caches!Keep
  <2>4. CachesTyped' BY <1>5, <2>1, <2>2 DEF Caches!Keep, CachesTyped
  <2>5. Caches!OnePlace' BY <1>5, <2>1, <2>2, <2>3 DEF Caches!Keep, Caches!OnePlace, CachesTyped
  <2>6. CachesBounded'
    <3>1. Caches!RoomFor(t, size'[c]) /\ \A d \in Chunks \ {c} : size'[d] = size[d]
          BY <1>5 DEF Caches!Keep
    <3> QED BY <1>5, <2>1, <2>2, <3>1, AddBounded
  <2> QED BY <2>4, <2>5, <2>6
<1>6. ASSUME mp'.tcache_count = mp.tcache_count, NEW t \in Threads, NEW c \in Holding[t],
             Caches!Hit(t, c)
      PROVE  CachesInv'
  <2>1. c \in Chunks /\ c \notin pool /\ c \notin DOMAIN live BY DEF Caches!OnePlace, CachesTyped
  <2>2. Holding' = [Holding EXCEPT ![t] = @ \ {c}] BY <1>6 DEF Caches!Hit
  <2>3. DOMAIN live' = DOMAIN live \cup {c} BY <1>6, <2>1, AsksDomain DEF Caches!Hit
  <2>4. CachesTyped' BY <1>6, <2>2 DEF Caches!Hit, CachesTyped
  <2>5. Caches!OnePlace' BY <1>6, <2>1, <2>2, <2>3 DEF Caches!Hit, Caches!OnePlace, CachesTyped
  <2>6. \A s \in Threads : \A d \in Holding'[s] : d \in Holding[s] /\ size'[d] = size[d]
        BY <1>6, <2>2 DEF Caches!Hit, CachesTyped
  <2> QED BY <1>6, <2>4, <2>5, <2>6, ShrinkBounded
<1>7. ASSUME mp'.tcache_count = mp.tcache_count, NEW t \in Threads, NEW c \in Holding[t],
             Caches!Drop(t, c)
      PROVE  CachesInv'
  <2>1. c \in Chunks /\ c \notin pool /\ c \notin DOMAIN live BY DEF Caches!OnePlace, CachesTyped
  <2>2. Holding' = [Holding EXCEPT ![t] = @ \ {c}] BY <1>7 DEF Caches!Drop
  <2>3. CachesTyped' BY <1>7, <2>1, <2>2 DEF Caches!Drop, CachesTyped
  <2>4. Caches!OnePlace' BY <1>7, <2>1, <2>2 DEF Caches!Drop, Caches!OnePlace, CachesTyped
  <2>5. \A s \in Threads : \A d \in Holding'[s] : d \in Holding[s] /\ size'[d] = size[d]
        BY <1>7, <2>1, <2>2 DEF Caches!Drop, CachesTyped, Caches!OnePlace
  <2> QED BY <1>7, <2>3, <2>4, <2>5, ShrinkBounded
<1> QED BY <1>1, <1>2, <1>3, <1>4, <1>5, <1>6, <1>7 DEF Caches!Next

-----------------------------------------------------------------------------
(* What a write through a place of a chain changes (Store).                *)
LEMMA StoreAt ==
  ASSUME TypeOK, NEW t \in Threads, NEW i \in Bins, NEW n, NEW s,
         Chain(entries[t][i], links, n, s), NEW k \in 1 .. (n + 1),
         NEW p \in Chunks \cup {None}, NEW c \in Chunks, NEW l \in Words,
         k # 1 => s[k - 1] # c, Store(PlaceOf(t, i, s, k), p, c, l)
  PROVE  /\ entries' \in [Threads -> [Bins -> Words]] /\ links' \in [Chunks -> Words]
         /\ \A u \in Threads, j \in Bins : u # t \/ j # i => entries'[u][j] = entries[u][j]
         /\ links'[c] = l
         /\ \A d \in Chunks : d # c /\ (k # 1 => d # s[k - 1]) => links'[d] = links[d]
         /\ IF k = 1 THEN entries'[t][i] = Plain(p)
            ELSE entries'[t][i] = entries[t][i] /\ links'[s[k - 1]] = Protect(s[k - 1], p)
<1>1. n \in Nat /\ s \in [1 .. n -> Chunks] BY DEF Chain
<1>2. entries \in [Threads -> [Bins -> Words]] /\ links \in [Chunks -> Words] BY DEF TypeOK
<1>3. CASE k = 1
  <2>1. entries' = [entries EXCEPT ![t][i] = Plain(p)] /\ links' = [links EXCEPT ![c] = l]
    BY <1>3 DEF PlaceOf, Store, FirstPlace, Encoded
  <2>2. Plain(p) \in Words BY DEF Plain, Words
  <2>3. entries' \in [Threads -> [Bins -> Words]] /\ entries'[t][i] = Plain(p)
        /\ \A u \in Threads, j \in Bins : u # t \/ j # i => entries'[u][j] = entries[u][j]
    BY ONLY <1>2, <2>1, <2>2, t \in Threads, i \in Bins
  <2>4. links' \in [Chunks -> Words] /\ links'[c] = l
        /\ \A d \in Chunks : d # c => links'[d] = links[d]
    BY ONLY <1>2, <2>1, c \in Chunks, l \in Words
  <2> QED BY <1>3, <2>3, <2>4
<1>4. CASE k # 1
  <2>1. k - 1 \in 1 .. n BY <1>1, <1>4
  <2>2. PICK e \in Chunks : e = s[k - 1] BY <1>1, <2>1
  <2>3. e # None /\ e # c BY <1>4, <2>2, TcacheAssumption
  <2>4. entries' = entries /\ links' = [links EXCEPT ![e] = Protect(e, p), ![c] = l]
    BY <1>4, <2>2, <2>3 DEF PlaceOf, Store, PlaceAfter, Encoded
  <2>5. Protect(e, p) \in Words BY DEF Protect, Words
  <2>6. /\ links' \in [Chunks -> Words] /\ links'[c] = l /\ links'[e] = Protect(e, p)
        /\ \A d \in Chunks : d # c /\ d # e => links'[d] = links[d]
    BY ONLY <1>2, <2>3, <2>4, <2>5, c \in Chunks, l \in Words, e \in Chunks
  <2> QED BY <1>2, <1>4, <2>2, <2>4, <2>6
<1> QED BY <1>3, <1>4

(* Lemma: after a step a chain is a bin's chunks as well (ChainBin).       *)
LEMMA ChainBins ==
  \A t, i, n, s : Chain(entries[t][i], links, n, s) => InBin(t, i) = Elems(n, s)
BY ChainBin
(* Lemma: what a chain's bin is, after a step.                           *)
LEMMA ChainBinsNext ==
  (\A t, i, n, s : Chain(entries[t][i], links, n, s) => InBin(t, i) = Elems(n, s))'
BY ChainBins, PTL
(* Lemma: and for one chain.                                             *)
LEMMA ChainBinNext ==
  ASSUME NEW t, NEW i, NEW n, NEW s, Chain(entries'[t][i], links', n, s)
  PROVE  InBin(t, i)' = Elems(n, s)
BY ChainBinsNext

(* Lemma: a bin none of whose words is written.                            *)
LEMMA BinStays ==
  ASSUME Lists, NEW t \in Threads, NEW i \in Bins, entries'[t][i] = entries[t][i],
         \A c \in InBin(t, i) : links'[c] = links[c]
  PROVE  /\ InBin(t, i)' = InBin(t, i)
         /\ (\A c \in InBin(t, i) : size'[c] = size[c]) => \E n, s : Bin(t, i, n, s)'
<1>1. PICK n, s : Bin(t, i, n, s) BY DEF Lists
<1>2. Chain(entries[t][i], links, n, s) /\ Ascending(size, n, s) BY <1>1 DEF Bin
<1>3. InBin(t, i) = Elems(n, s) BY <1>2, ChainBin
<1>4. Chain(entries'[t][i], links', n, s) BY <1>2, <1>3, ChainStays
<1>5. InBin(t, i)' = Elems(n, s) BY <1>4, ChainBinNext
<1>6. ASSUME \A c \in InBin(t, i) : size'[c] = size[c] PROVE Bin(t, i, n, s)'
  <2>1. \A k \in 1 .. n : size'[s[k]] = size[s[k]] BY <1>3, <1>6 DEF Elems
  <2>2. Ascending(size', n, s) BY <1>2, <2>1 DEF Ascending
  <2> QED BY <1>4, <2>2 DEF Bin
<1> QED BY <1>3, <1>5, <1>6

(* Lemma: the bins have chunks, each in one of them only, and none that is *)
(* the arena's or the program's.                                           *)
LEMMA BinsApart ==
  ASSUME IInv
  PROVE  /\ \A t \in Threads, i \in Bins :
              /\ InBin(t, i) \subseteq Cached(t) /\ InBin(t, i) \subseteq Chunks
              /\ InBin(t, i) \cap pool = {} /\ InBin(t, i) \cap DOMAIN live = {}
         /\ \A t, u \in Threads, i, j \in Bins :
              t # u \/ i # j => InBin(t, i) \cap InBin(u, j) = {}
<1>1. \A t \in Threads, i \in Bins : InBin(t, i) \subseteq Chunks
  <2> TAKE t \in Threads, i \in Bins
  <2>1. PICK n, s : Chain(entries[t][i], links, n, s) BY DEF IInv, Lists, Bin
  <2> QED BY <2>1, ChainBin, ChainShort
<1>2. \A t \in Threads, i \in Bins : InBin(t, i) \subseteq Cached(t) BY DEF Cached
<1>3. /\ pool \cap DOMAIN live = {}
      /\ \A t \in Threads :
           /\ Held(t) \cap (pool \cup DOMAIN live) = {}
           /\ \A u \in Threads \ {t} : Held(u) \cap Held(t) = {}
  BY DEF IInv, CachesInv, Caches!OnePlace, Holding
<1>4. \A t \in Threads : Cached(t) \subseteq Held(t) BY DEF Held
<1>5. ASSUME NEW t \in Threads, NEW u \in Threads, NEW i \in Bins, NEW j \in Bins,
             t # u \/ i # j
      PROVE  InBin(t, i) \cap InBin(u, j) = {}
  <2>1. CASE t # u BY <1>2, <1>3, <1>4, <2>1
  <2>2. CASE t = u BY <1>5, <2>2 DEF IInv, Tagged
  <2> QED BY <2>1, <2>2
<1>6. \A t \in Threads, i \in Bins :
        InBin(t, i) \cap pool = {} /\ InBin(t, i) \cap DOMAIN live = {}
  BY <1>2, <1>3, <1>4
<1> QED BY <1>1, <1>2, <1>5, <1>6

(* Lemma: what a write through a place of one bin leaves of the others.    *)
LEMMA OtherBins ==
  ASSUME IInv, NEW t \in Threads, NEW i \in Bins, NEW c \in Chunks,
         \A u \in Threads, j \in Bins : u # t \/ j # i => c \notin InBin(u, j),
         \A u \in Threads, j \in Bins : u # t \/ j # i => entries'[u][j] = entries[u][j],
         \A d \in Chunks : d # c /\ d \notin InBin(t, i) => links'[d] = links[d],
         \A d \in Chunks : d # c => size'[d] = size[d],
         NEW u \in Threads, NEW j \in Bins, u # t \/ j # i
  PROVE  InBin(u, j)' = InBin(u, j) /\ \E n, s : Bin(u, j, n, s)'
<1>1. InBin(u, j) \subseteq Chunks /\ InBin(u, j) \cap InBin(t, i) = {} BY BinsApart
<1>2. \A d \in InBin(u, j) : links'[d] = links[d] /\ size'[d] = size[d] BY <1>1
<1>3. Lists BY DEF IInv
<1> QED BY <1>2, <1>3, BinStays

(* Lemma: c is put before the k-th chunk of bin i of t, where it fits.     *)
LEMMA PutBin ==
  ASSUME IInv, NEW t \in Threads, NEW i \in Bins, NEW n, NEW s,
         Bin(t, i, n, s), NEW k \in 1 .. (n + 1), NEW c \in Chunks,
         \A u \in Threads, j \in Bins : c \notin InBin(u, j),
         Store(PlaceOf(t, i, s, k), c, c, Protect(c, Read(PlaceOf(t, i, s, k)))),
         size' \in [Chunks -> Nat], \A d \in Chunks : d # c => size'[d] = size[d],
         \A j \in 1 .. n : IF j < k THEN size[s[j]] <= size'[c] ELSE size'[c] <= size[s[j]]
  PROVE  /\ entries' \in [Threads -> [Bins -> Words]] /\ links' \in [Chunks -> Words]
         /\ Lists'
         /\ InBin(t, i)' = InBin(t, i) \cup {c}
         /\ \A u \in Threads, j \in Bins : u # t \/ j # i => InBin(u, j)' = InBin(u, j)
<1>1. Chain(entries[t][i], links, n, s) /\ Ascending(size, n, s) BY DEF Bin
<1>2. n \in Nat /\ s \in [1 .. n -> Chunks] /\ \A a, b \in 1 .. n : s[a] = s[b] => a = b
  BY <1>1 DEF Chain
<1>3. InBin(t, i) = Elems(n, s) BY <1>1, ChainBin
<1>4. \A a \in 1 .. n : s[a] # c /\ s[a] \in InBin(t, i) BY <1>3 DEF Elems
<1>5. k # 1 => k - 1 \in 1 .. n BY <1>2
<1>6. Read(PlaceOf(t, i, s, k)) = Met(n, s, k) BY <1>1, ChainRead
<1>7. PICK l \in Words : l = Protect(c, Met(n, s, k))
  <2>1. Met(n, s, k) \in Chunks \cup {None} BY <1>2 DEF Met
  <2>2. Protect(c, Met(n, s, k)) \in Words BY <2>1 DEF Protect, Words
  <2> QED BY <2>2
<1>20. PICK p \in Chunks \cup {None} : p = c OBVIOUS
<1>8. Store(PlaceOf(t, i, s, k), p, c, l) BY <1>6, <1>7, <1>20
<1>9. k # 1 => s[k - 1] # c BY <1>4, <1>5
<1>10. TypeOK BY DEF IInv
<1>11. /\ entries' \in [Threads -> [Bins -> Words]] /\ links' \in [Chunks -> Words]
       /\ \A u \in Threads, j \in Bins : u # t \/ j # i => entries'[u][j] = entries[u][j]
       /\ links'[c] = l
       /\ \A d \in Chunks : d # c /\ (k # 1 => d # s[k - 1]) => links'[d] = links[d]
       /\ IF k = 1 THEN entries'[t][i] = Plain(p)
          ELSE entries'[t][i] = entries[t][i] /\ links'[s[k - 1]] = Protect(s[k - 1], p)
  BY ONLY <1>1, <1>8, <1>9, <1>10, k \in 1 .. (n + 1), t \in Threads, i \in Bins, c \in Chunks,
          p \in Chunks \cup {None}, l \in Words, StoreAt
<1>12. ASSUME NEW a \in 1 .. n, a + 1 # k PROVE links'[s[a]] = links[s[a]]
  <2>1. k # 1 => a # k - 1 BY <1>2, <1>12
  <2>2. k # 1 => s[a] # s[k - 1] BY <1>2, <1>5, <2>1
  <2> QED BY <1>2, <1>4, <1>11, <2>2
<1>13. c \notin Elems(n, s) BY <1>3
<1>14. /\ Chain(entries'[t][i], links', n + 1, Inserted(n, s, k, c))
       /\ Elems(n + 1, Inserted(n, s, k, c)) = Elems(n, s) \cup {c}
  <2>1. PICK h : h = entries[t][i] OBVIOUS
  <2>2. PICK g : g = entries'[t][i] OBVIOUS
  <2>3. PICK m : m = links' OBVIOUS
  <2>4. Chain(h, links, n, s) BY <1>1, <2>1
  <2>5. IF k = 1 THEN g = Plain(c) ELSE g = h /\ m[s[k - 1]] = Protect(s[k - 1], c)
    BY <1>11, <1>20, <2>1, <2>2, <2>3
  <2>6. m[c] = Protect(c, Met(n, s, k)) BY <1>7, <1>11, <2>3
  <2>7. \A j \in 1 .. n : j + 1 # k => m[s[j]] = links[s[j]] BY <1>12, <2>3
  <2>8. /\ Chain(g, m, n + 1, Inserted(n, s, k, c))
        /\ Elems(n + 1, Inserted(n, s, k, c)) = Elems(n, s) \cup {c}
    BY ONLY <1>13, <2>4, <2>5, <2>6, <2>7, c \in Chunks, k \in 1 .. (n + 1), ChainInsert
  <2> QED BY <2>2, <2>3, <2>8
<1>15. InBin(t, i)' = InBin(t, i) \cup {c} BY <1>3, <1>14, ChainBinNext
<1>16. Ascending(size', n + 1, Inserted(n, s, k, c))
  <2>1. \A j \in 1 .. n : size'[s[j]] = size[s[j]] BY <1>2, <1>4
  <2> QED BY <1>1, <1>2, <2>1, AscendingInsert
<1>17. \E m, r : Bin(t, i, m, r)' BY <1>14, <1>16 DEF Bin
<1>18. ASSUME NEW u \in Threads, NEW j \in Bins, u # t \/ j # i
       PROVE  InBin(u, j)' = InBin(u, j) /\ \E m, r : Bin(u, j, m, r)'
  <2>1. \A d \in Chunks : d # c /\ d \notin InBin(t, i) => links'[d] = links[d]
    BY <1>4, <1>5, <1>11
  <2> QED BY <1>11, <1>18, <2>1, OtherBins
<1> QED BY <1>11, <1>15, <1>17, <1>18 DEF Lists

(* Lemma: the k-th chunk of bin i of t is taken out.                       *)
LEMMA TakeBin ==
  ASSUME IInv, NEW t \in Threads, NEW i \in Bins, NEW n, NEW s,
         Bin(t, i, n, s), NEW k \in 1 .. n,
         Store(PlaceOf(t, i, s, k), Reveal(s[k]), s[k], Plain(None)),
         size' \in [Chunks -> Nat], \A d \in Chunks : d # s[k] => size'[d] = size[d]
  PROVE  /\ entries' \in [Threads -> [Bins -> Words]] /\ links' \in [Chunks -> Words]
         /\ Lists'
         /\ InBin(t, i)' = InBin(t, i) \ {s[k]}
         /\ \A u \in Threads, j \in Bins : u # t \/ j # i => InBin(u, j)' = InBin(u, j)
<1>1. Chain(entries[t][i], links, n, s) /\ Ascending(size, n, s) BY DEF Bin
<1>2. n \in Nat /\ s \in [1 .. n -> Chunks] /\ \A a, b \in 1 .. n : s[a] = s[b] => a = b
  BY <1>1 DEF Chain
<1>3. InBin(t, i) = Elems(n, s) BY <1>1, ChainBin
<1>4. \A a \in 1 .. n : s[a] \in InBin(t, i) BY <1>3 DEF Elems
<1>5. k # 1 => k - 1 \in 1 .. n /\ k - 1 # k BY <1>2
<1>6. PICK c \in Chunks : c = s[k] BY <1>2
<1>7. PICK p \in Chunks \cup {None} : p = Met(n, s, k + 1) BY <1>2 DEF Met
<1>8. Reveal(s[k]) = p BY <1>1, <1>7, ChainReveal
<1>9. Plain(None) \in Words /\ TypeOK BY DEF Plain, Words, IInv
<1>10. k # 1 => s[k - 1] # c BY <1>2, <1>5, <1>6
<1>11. k \in 1 .. (n + 1) BY <1>2
<1>12. Store(PlaceOf(t, i, s, k), p, c, Plain(None)) BY <1>6, <1>8
<1>13. /\ entries' \in [Threads -> [Bins -> Words]] /\ links' \in [Chunks -> Words]
       /\ \A u \in Threads, j \in Bins : u # t \/ j # i => entries'[u][j] = entries[u][j]
       /\ \A d \in Chunks : d # c /\ (k # 1 => d # s[k - 1]) => links'[d] = links[d]
       /\ IF k = 1 THEN entries'[t][i] = Plain(p)
          ELSE entries'[t][i] = entries[t][i] /\ links'[s[k - 1]] = Protect(s[k - 1], p)
  BY ONLY <1>1, <1>9, <1>10, <1>11, <1>12, t \in Threads, i \in Bins, c \in Chunks,
          p \in Chunks \cup {None}, StoreAt
<1>14. ASSUME NEW a \in 1 .. n, a # k, a + 1 # k PROVE links'[s[a]] = links[s[a]]
  <2>1. k # 1 => a # k - 1 BY <1>2, <1>14
  <2>2. k # 1 => s[a] # s[k - 1] BY <1>2, <1>5, <2>1
  <2>3. s[a] # c /\ s[a] \in Chunks BY <1>2, <1>6, <1>14
  <2> QED BY <1>13, <2>2, <2>3
<1>15. /\ Chain(entries'[t][i], links', n - 1, Removed(n, s, k))
       /\ Elems(n - 1, Removed(n, s, k)) = Elems(n, s) \ {s[k]}
  <2>1. PICK h : h = entries[t][i] OBVIOUS
  <2>2. PICK g : g = entries'[t][i] OBVIOUS
  <2>3. PICK m : m = links' OBVIOUS
  <2>4. Chain(h, links, n, s) BY <1>1, <2>1
  <2>5. k = 1 => p = Met(n, s, 2) BY <1>7
  <2>6. IF k = 1 THEN g = Plain(Met(n, s, 2))
        ELSE g = h /\ m[s[k - 1]] = Protect(s[k - 1], Met(n, s, k + 1))
    BY <1>7, <1>13, <2>1, <2>2, <2>3, <2>5
  <2>7. \A j \in 1 .. n : j # k /\ j + 1 # k => m[s[j]] = links[s[j]] BY <1>14, <2>3
  <2>8. /\ Chain(g, m, n - 1, Removed(n, s, k))
        /\ Elems(n - 1, Removed(n, s, k)) = Elems(n, s) \ {s[k]}
    BY ONLY <2>4, <2>6, <2>7, k \in 1 .. n, ChainRemove
  <2> QED BY <2>2, <2>3, <2>8
<1>16. InBin(t, i)' = InBin(t, i) \ {s[k]} BY <1>3, <1>15, ChainBinNext
<1>17. Ascending(size', n - 1, Removed(n, s, k))
  <2>1. \A j \in 1 .. n : j # k => size'[s[j]] = size[s[j]] BY <1>2
  <2> QED BY <1>1, <1>2, <2>1, AscendingRemove
<1>18. \E m, r : Bin(t, i, m, r)' BY <1>15, <1>17 DEF Bin
<1>19. ASSUME NEW u \in Threads, NEW j \in Bins, u # t \/ j # i
       PROVE  InBin(u, j)' = InBin(u, j) /\ \E m, r : Bin(u, j, m, r)'
  <2>1. \A d \in Chunks : d # c /\ d \notin InBin(t, i) => links'[d] = links[d]
    BY <1>4, <1>5, <1>13
  <2>2. c \in InBin(t, i) BY <1>4, <1>6
  <2>3. \A v \in Threads, w \in Bins : v # t \/ w # i => c \notin InBin(v, w)
    BY <2>2, BinsApart
  <2>4. \A d \in Chunks : d # c => size'[d] = size[d] BY <1>6
  <2> QED BY <1>13, <1>19, <2>1, <2>3, <2>4, OtherBins
<1> QED BY <1>13, <1>16, <1>18, <1>19 DEF Lists

-----------------------------------------------------------------------------
(* What the helpers of the actions keep.                                   *)

(* Lemma: the bins are finite.                                             *)
LEMMA BinsFinite ==
  ASSUME IInv, NEW t \in Threads, NEW i \in Bins
  PROVE  IsFiniteSet(InBin(t, i)) /\ Cardinality(InBin(t, i)) \in Nat
<1>1. PICK n, s : Chain(entries[t][i], links, n, s) BY DEF IInv, Lists, Bin
<1> QED BY <1>1, ChainBin, ChainShort

(* Lemma: counting down a counter that is not zero, or up below its top.   *)
LEMMA Counts ==
  ASSUME NEW m \in Nat, NEW x \in 0 .. m
  PROVE  /\ x # 0 => (x + -1) % (m + 1) = x - 1
         /\ x < m => (x + 1) % (m + 1) = x + 1
<1>1. ASSUME x # 0 PROVE (x + -1) % (m + 1) = x - 1
  <2>1. PICK y \in Nat : y = x - 1 BY <1>1
  <2>2. y < m + 1 /\ m + 1 \in Nat BY <2>1
  <2>3. y % (m + 1) = y BY <2>2
  <2> QED BY <2>1, <2>3
<1>2. ASSUME x < m PROVE (x + 1) % (m + 1) = x + 1
  <2>1. PICK y \in Nat : y = x + 1 OBVIOUS
  <2>2. y < m + 1 /\ m + 1 \in Nat BY <1>2, <2>1
  <2>3. y % (m + 1) = y BY <2>2
  <2> QED BY <2>1, <2>3
<1> QED BY <1>1, <1>2

(* Lemma: what tcache_put_n keeps (PutN).                                  *)
LEMMA PutKeeps ==
  ASSUME IInv, NEW t \in Threads, NEW i \in Bins, NEW n, NEW s,
         Bin(t, i, n, s), NEW k \in 1 .. (n + 1), NEW c \in Chunks,
         \A u \in Threads, j \in Bins : c \notin InBin(u, j),
         tcache[t], num_slots[t][i] # 0, PutN(PlaceOf(t, i, s, k), c),
         size' \in [Chunks -> Nat], \A d \in Chunks : d # c => size'[d] = size[d],
         \A j \in 1 .. n : IF j < k THEN size[s[j]] <= size'[c] ELSE size'[c] <= size[s[j]],
         Tidx(size'[c]) = i, Cacheable(size'[c]), mp' = mp, tcache' = tcache
  PROVE  /\ entries' \in [Threads -> [Bins -> Words]] /\ links' \in [Chunks -> Words]
         /\ key' \in [Chunks -> BOOLEAN]
         /\ num_slots' \in [Threads -> [Bins -> 0 .. MAX_TCACHE_COUNT]]
         /\ Lists' /\ Tagged' /\ Slotted'
         /\ InBin(t, i)' = InBin(t, i) \cup {c}
         /\ \A u \in Threads, j \in Bins : u # t \/ j # i => InBin(u, j)' = InBin(u, j)
<1> DEFINE at == PlaceOf(t, i, s, k)
<1>1. at.t = t /\ at.i = i BY DEF PlaceOf, FirstPlace, PlaceAfter
<1>2. /\ Store(at, c, c, Protect(c, Read(at))) /\ key' = [key EXCEPT ![c] = TRUE]
      /\ num_slots' = [num_slots EXCEPT ![t][i] = (@ + -1) % (MAX_TCACHE_COUNT + 1)]
  BY <1>1 DEF PutN, Slots
<1>3. /\ entries' \in [Threads -> [Bins -> Words]] /\ links' \in [Chunks -> Words]
      /\ Lists'
      /\ InBin(t, i)' = InBin(t, i) \cup {c}
      /\ \A u \in Threads, j \in Bins : u # t \/ j # i => InBin(u, j)' = InBin(u, j)
  <2> HIDE DEF at
  <2>1. Store(PlaceOf(t, i, s, k), c, c, Protect(c, Read(PlaceOf(t, i, s, k)))) BY <1>2 DEF at
  <2> QED BY <2>1, PutBin
<1>4. key' \in [Chunks -> BOOLEAN] /\ key'[c] /\ \A d \in Chunks : d # c => key'[d] = key[d]
  BY <1>2 DEF IInv, TypeOK
<1>5. num_slots \in [Threads -> [Bins -> 0 .. MAX_TCACHE_COUNT]] /\ MAX_TCACHE_COUNT \in Nat
  BY SizesAssumption DEF IInv, TypeOK
<1>6. PICK x \in 0 .. MAX_TCACHE_COUNT : x = num_slots[t][i] BY <1>5
<1>7. (x + -1) % (MAX_TCACHE_COUNT + 1) = x - 1 /\ x - 1 \in 0 .. MAX_TCACHE_COUNT
  BY <1>5, <1>6, Counts
<1>8. num_slots' = [num_slots EXCEPT ![t][i] = x - 1]
  <2>1. num_slots' = [num_slots EXCEPT ![t][i] = (num_slots[t][i] + -1) % (MAX_TCACHE_COUNT + 1)]
    BY <1>2, <1>5
  <2> QED BY <1>6, <1>7, <2>1
<1>9. /\ num_slots' \in [Threads -> [Bins -> 0 .. MAX_TCACHE_COUNT]]
      /\ num_slots'[t][i] = x - 1
      /\ \A u \in Threads, j \in Bins : u # t \/ j # i => num_slots'[u][j] = num_slots[u][j]
  BY ONLY <1>5, <1>7, <1>8, t \in Threads, i \in Bins
<1>10. /\ InBin(t, i) \subseteq Chunks
       /\ \A u \in Threads, j \in Bins : InBin(u, j) \subseteq Chunks
  BY BinsApart
<1>11. Tagged'
  <2>1. ASSUME NEW u \in Threads, NEW j \in Bins, NEW d \in InBin(u, j)
        PROVE  Tidx(size'[d]) = j /\ size'[d] < mp'.tcache_max_bytes /\ key'[d]
    <3>1. d \in Chunks /\ d # c BY <1>10, <2>1
    <3>2. size'[d] = size[d] /\ key'[d] = key[d] BY <1>4, <3>1
    <3>3. Tidx(size[d]) = j /\ Cacheable(size[d]) /\ key[d] BY DEF IInv, Tagged
    <3> QED BY <3>2, <3>3 DEF Cacheable
  <2>2. Tidx(size'[c]) = i /\ size'[c] < mp'.tcache_max_bytes /\ key'[c] BY <1>4 DEF Cacheable
  <2>3. ASSUME NEW u \in Threads, NEW j \in Bins, NEW d \in InBin(u, j)'
        PROVE  Tidx(size'[d]) = j /\ size'[d] < mp'.tcache_max_bytes /\ key'[d]
    <3>1. d \in InBin(u, j) \/ (u = t /\ j = i /\ d = c) BY <1>3
    <3> QED BY <2>1, <2>2, <3>1
  <2> QED BY <2>3 DEF Tagged, Cacheable
<1>12. Slotted'
  <2>1. ASSUME NEW u \in Threads, tcache[u], NEW j \in Bins
        PROVE  Cardinality(InBin(u, j)') + num_slots'[u][j] = mp.tcache_count
    <3>1. Cardinality(InBin(u, j)) + num_slots[u][j] = mp.tcache_count
      BY <2>1 DEF IInv, Slotted
    <3>2. CASE u = t /\ j = i
      <4>1. IsFiniteSet(InBin(t, i)) /\ Cardinality(InBin(t, i)) \in Nat BY BinsFinite
      <4>2. Cardinality(InBin(t, i) \cup {c}) = Cardinality(InBin(t, i)) + 1
        BY <4>1, FS_AddElement
      <4>3. InBin(u, j)' = InBin(t, i) \cup {c} BY <1>3, <3>2
      <4>4. PICK a \in Nat : a = Cardinality(InBin(t, i)) BY <4>1
      <4>5. Cardinality(InBin(u, j)') = a + 1 BY <4>2, <4>3, <4>4
      <4>6. num_slots'[u][j] = x - 1 /\ a + x = mp.tcache_count BY <1>6, <1>9, <3>1, <3>2, <4>4
      <4> QED BY <4>5, <4>6
    <3>3. CASE ~(u = t /\ j = i) BY <1>3, <1>9, <3>1, <3>3
    <3> QED BY <3>2, <3>3
  <2> QED BY <2>1 DEF Slotted
<1> QED BY <1>3, <1>4, <1>9, <1>11, <1>12

(* Lemma: what tcache_get_n keeps (GetN).                                  *)
LEMMA GetKeeps ==
  ASSUME IInv, NEW t \in Threads, NEW i \in Bins, NEW n, NEW s,
         Bin(t, i, n, s), NEW k \in 1 .. n,
         tcache[t], GetN(PlaceOf(t, i, s, k), s[k]), mp' = mp, tcache' = tcache,
         size' \in [Chunks -> Nat], \A d \in Chunks : d # s[k] => size'[d] = size[d]
  PROVE  /\ entries' \in [Threads -> [Bins -> Words]] /\ links' \in [Chunks -> Words]
         /\ key' \in [Chunks -> BOOLEAN]
         /\ num_slots' \in [Threads -> [Bins -> 0 .. MAX_TCACHE_COUNT]]
         /\ Lists' /\ Tagged' /\ Slotted'
         /\ InBin(t, i)' = InBin(t, i) \ {s[k]} /\ s[k] \in InBin(t, i)
         /\ \A u \in Threads, j \in Bins : u # t \/ j # i => InBin(u, j)' = InBin(u, j)
<1> DEFINE at == PlaceOf(t, i, s, k)
<1>1. at.t = t /\ at.i = i BY DEF PlaceOf, FirstPlace, PlaceAfter
<1>2. /\ Store(at, Reveal(s[k]), s[k], Plain(None)) /\ key' = [key EXCEPT ![s[k]] = FALSE]
      /\ num_slots' = [num_slots EXCEPT ![t][i] = (@ + 1) % (MAX_TCACHE_COUNT + 1)]
  BY <1>1 DEF GetN, Slots
<1>3. /\ entries' \in [Threads -> [Bins -> Words]] /\ links' \in [Chunks -> Words]
      /\ Lists'
      /\ InBin(t, i)' = InBin(t, i) \ {s[k]}
      /\ \A u \in Threads, j \in Bins : u # t \/ j # i => InBin(u, j)' = InBin(u, j)
  <2> HIDE DEF at
  <2>1. Store(PlaceOf(t, i, s, k), Reveal(s[k]), s[k], Plain(None)) BY <1>2 DEF at
  <2> QED BY <2>1, TakeBin
<1>4. s[k] \in InBin(t, i)
  <2>1. InBin(t, i) = Elems(n, s) BY ChainBin DEF Bin
  <2> QED BY <2>1 DEF Elems
<1>5. /\ \A u \in Threads, j \in Bins : InBin(u, j) \subseteq Chunks
      /\ \A u \in Threads, j \in Bins : u # t \/ j # i => s[k] \notin InBin(u, j)
  BY <1>4, BinsApart
<1>6. key' \in [Chunks -> BOOLEAN] /\ \A d \in Chunks : d # s[k] => key'[d] = key[d]
  BY <1>2 DEF IInv, TypeOK
<1>7. num_slots \in [Threads -> [Bins -> 0 .. MAX_TCACHE_COUNT]] /\ MAX_TCACHE_COUNT \in Nat
  BY SizesAssumption DEF IInv, TypeOK
<1>8. PICK x \in 0 .. MAX_TCACHE_COUNT : x = num_slots[t][i] BY <1>7
<1>9. PICK a \in Nat : a = Cardinality(InBin(t, i)) BY BinsFinite
<1>10. a # 0 /\ Cardinality(InBin(t, i) \ {s[k]}) = a - 1
  <2>1. IsFiniteSet(InBin(t, i)) BY BinsFinite
  <2>2. Cardinality(InBin(t, i) \ {s[k]}) = a - 1 /\ Cardinality(InBin(t, i) \ {s[k]}) \in Nat
    BY <1>4, <1>9, <2>1, FS_RemoveElement, FS_CardinalityType
  <2> QED BY <2>2
<1>11. a + x = mp.tcache_count /\ mp.tcache_count \in 0 .. MAX_TCACHE_COUNT
  BY <1>8, <1>9, Tunables DEF IInv, Slotted
<1>12. x < MAX_TCACHE_COUNT BY <1>7, <1>10, <1>11
<1>13. (x + 1) % (MAX_TCACHE_COUNT + 1) = x + 1 /\ x + 1 \in 0 .. MAX_TCACHE_COUNT
  BY ONLY <1>7, <1>12, Counts, x \in 0 .. MAX_TCACHE_COUNT
<1>14. num_slots' = [num_slots EXCEPT ![t][i] = x + 1]
  <2>1. num_slots' = [num_slots EXCEPT ![t][i] = (num_slots[t][i] + 1) % (MAX_TCACHE_COUNT + 1)]
    BY <1>2, <1>7
  <2> QED BY <1>8, <1>13, <2>1
<1>15. /\ num_slots' \in [Threads -> [Bins -> 0 .. MAX_TCACHE_COUNT]]
       /\ num_slots'[t][i] = x + 1
       /\ \A u \in Threads, j \in Bins : u # t \/ j # i => num_slots'[u][j] = num_slots[u][j]
  BY ONLY <1>7, <1>13, <1>14, t \in Threads, i \in Bins
<1>16. Tagged'
  <2>1. ASSUME NEW u \in Threads, NEW j \in Bins, NEW d \in InBin(u, j)'
        PROVE  Tidx(size'[d]) = j /\ size'[d] < mp'.tcache_max_bytes /\ key'[d]
    <3>1. d \in InBin(u, j) /\ d # s[k]
      <4>1. CASE u = t /\ j = i BY <1>3, <4>1
      <4>2. CASE ~(u = t /\ j = i) BY <1>3, <1>5, <4>2
      <4> QED BY <4>1, <4>2
    <3>2. key'[d] = key[d] /\ size'[d] = size[d] BY <1>5, <1>6, <3>1
    <3>3. Tidx(size[d]) = j /\ Cacheable(size[d]) /\ key[d] BY <3>1 DEF IInv, Tagged
    <3> QED BY <3>2, <3>3 DEF Cacheable
  <2> QED BY <2>1 DEF Tagged, Cacheable
<1>17. Slotted'
  <2>1. ASSUME NEW u \in Threads, tcache[u], NEW j \in Bins
        PROVE  Cardinality(InBin(u, j)') + num_slots'[u][j] = mp.tcache_count
    <3>1. CASE u = t /\ j = i
      <4>1. Cardinality(InBin(u, j)') = a - 1 /\ num_slots'[u][j] = x + 1
        BY <1>3, <1>10, <1>15, <3>1
      <4> QED BY <1>11, <4>1
    <3>2. CASE ~(u = t /\ j = i)
      <4>1. Cardinality(InBin(u, j)) + num_slots[u][j] = mp.tcache_count
        BY <2>1 DEF IInv, Slotted
      <4> QED BY <1>3, <1>15, <3>2, <4>1
    <3> QED BY <3>1, <3>2
  <2> QED BY <2>1 DEF Slotted
<1> QED BY <1>3, <1>4, <1>6, <1>15, <1>16, <1>17

(* Lemma: a step that writes no word of a chain.                           *)
LEMMA BinsKept ==
  ASSUME IInv, UNCHANGED <<mp, entries, links>>,
         \A c \in Chunks : (\E t \in Threads, i \in Bins : c \in InBin(t, i)) =>
                             size'[c] = size[c] /\ (key[c] => key'[c])
  PROVE  /\ Lists' /\ Tagged'
         /\ \A t \in Threads, i \in Bins : InBin(t, i)' = InBin(t, i)
<1>1. \A t \in Threads, i \in Bins : InBin(t, i) \subseteq Chunks BY BinsApart
<1>2. ASSUME NEW t \in Threads, NEW i \in Bins
      PROVE  InBin(t, i)' = InBin(t, i) /\ \E n, s : Bin(t, i, n, s)'
  <2>1. \A c \in InBin(t, i) : size'[c] = size[c] BY <1>1
  <2>2. Lists /\ entries'[t][i] = entries[t][i] /\ \A c \in InBin(t, i) : links'[c] = links[c]
    BY DEF IInv
  <2> QED BY <2>1, <2>2, BinStays
<1>3. ASSUME NEW t \in Threads, NEW i \in Bins, NEW c \in InBin(t, i)
      PROVE  Tidx(size'[c]) = i /\ size'[c] < mp'.tcache_max_bytes /\ key'[c]
  <2>1. size'[c] = size[c] /\ (key[c] => key'[c]) BY <1>1
  <2>2. Tidx(size[c]) = i /\ Cacheable(size[c]) /\ key[c] BY DEF IInv, Tagged
  <2> QED BY <2>1, <2>2 DEF Cacheable
<1>4. Tagged' BY <1>2, <1>3 DEF Tagged, Cacheable
<1> QED BY <1>2, <1>4 DEF Lists

(* Lemma: the sizes that _int_malloc is asked for.                         *)
LEMMA NbForSize ==
  ASSUME NEW req \in Requests
  PROVE  Request2size(req.bytes) \in ChunkSizes /\ NbFor(req) \in ChunkSizes /\ NbFor(req) \in Nat
<1>1. req.bytes \in Nat /\ req.al \in Nat BY TcacheAssumption
<1>2. PICK nb \in ChunkSizes : nb = Request2size(req.bytes) BY <1>1, RequestFits DEF ChunkSizes
<1>3. nb + req.al + MINSIZE \in Nat BY <1>1, <1>2 DEF ChunkSizes, MINSIZE
<1>4. Request2size(nb + req.al + MINSIZE) \in ChunkSizes BY <1>3, RequestFits DEF ChunkSizes
<1>5. NbFor(req) \in ChunkSizes BY <1>2, <1>4 DEF NbFor
<1> QED BY <1>2, <1>5 DEF ChunkSizes

(* Lemma: what a thread caches after a put, a get, and neither.            *)
LEMMA CachedPut ==
  ASSUME NEW t \in Threads, NEW i \in Bins, NEW c,
         InBin(t, i)' = InBin(t, i) \cup {c},
         \A u \in Threads, j \in Bins : u # t \/ j # i => InBin(u, j)' = InBin(u, j)
  PROVE  Cached(t)' = Cached(t) \cup {c} /\ \A u \in Threads \ {t} : Cached(u)' = Cached(u)
<1>1. \A u \in Threads \ {t} : Cached(u)' = Cached(u) BY DEF Cached
<1>2. ASSUME NEW d \in Cached(t)' PROVE d \in Cached(t) \cup {c} BY <1>2 DEF Cached
<1>3. ASSUME NEW d \in Cached(t) PROVE d \in Cached(t)'
  <2>1. PICK j \in Bins : d \in InBin(t, j) BY DEF Cached
  <2>2. d \in InBin(t, j)' BY <2>1
  <2> QED BY <2>2 DEF Cached
<1>4. c \in Cached(t)' BY DEF Cached
<1> QED BY <1>1, <1>2, <1>3, <1>4

(* Lemma: a bin that loses a chunk.                                      *)
LEMMA CachedTake ==
  ASSUME IInv, NEW t \in Threads, NEW i \in Bins, NEW c \in InBin(t, i),
         InBin(t, i)' = InBin(t, i) \ {c},
         \A u \in Threads, j \in Bins : u # t \/ j # i => InBin(u, j)' = InBin(u, j)
  PROVE  /\ c \in Cached(t) /\ Cached(t)' = Cached(t) \ {c}
         /\ \A u \in Threads \ {t} : Cached(u)' = Cached(u)
<1>1. \A u \in Threads \ {t} : Cached(u)' = Cached(u) BY DEF Cached
<1>2. \A j \in Bins : j # i => c \notin InBin(t, j) BY BinsApart
<1>3. ASSUME NEW d \in Cached(t)' PROVE d \in Cached(t) /\ d # c
  <2>1. PICK j \in Bins : d \in InBin(t, j)' BY DEF Cached
  <2>2. d \in InBin(t, j) /\ d # c BY <1>2, <2>1
  <2> QED BY <2>2 DEF Cached
<1>4. ASSUME NEW d \in Cached(t), d # c PROVE d \in Cached(t)'
  <2>1. PICK j \in Bins : d \in InBin(t, j) BY DEF Cached
  <2>2. d \in InBin(t, j)' BY <1>4, <2>1
  <2> QED BY <2>2 DEF Cached
<1>5. c \in Cached(t) BY DEF Cached
<1> QED BY <1>1, <1>3, <1>4, <1>5

(* Lemma: no bin changes its chunks.                                     *)
LEMMA CachedKept ==
  ASSUME \A t \in Threads, i \in Bins : InBin(t, i)' = InBin(t, i)
  PROVE  \A t \in Threads : Cached(t)' = Cached(t)
BY DEF Cached

(* Lemma: where the chunks of the calls are.                               *)
LEMMA CallChunks ==
  ASSUME IInv
  PROVE  /\ \A t \in Threads : Cached(t) \subseteq Held(t) /\ Held(t) \subseteq Chunks
         /\ \A t \in Threads : Held(t) \cap (pool \cup DOMAIN live) = {}
         /\ \A t, u \in Threads : t # u => Held(t) \cap Held(u) = {}
         /\ pool \cap DOMAIN live = {}
         /\ \A t \in Threads : op[t].pc = "verify" =>
              op[t].p \in Chunks /\ op[t].p \in Cached(t) \cup DOMAIN live
<1>1. /\ pool \cap DOMAIN live = {}
      /\ \A t \in Threads :
           /\ Held(t) \cap (pool \cup DOMAIN live) = {}
           /\ \A u \in Threads \ {t} : Held(u) \cap Held(t) = {}
  BY DEF IInv, CachesInv, Caches!OnePlace, Holding
<1>2. \A t \in Threads : Held(t) \subseteq Chunks
  BY DEF IInv, CachesInv, CachesTyped, Holding
<1>3. \A t \in Threads : Cached(t) \subseteq Held(t) BY DEF Held
<1>4. \A t \in Threads : op[t].pc = "verify" =>
        op[t].p \in Chunks /\ op[t].p \in Cached(t) \cup DOMAIN live
  BY DEF IInv, Calls, CallOK
<1> QED BY <1>1, <1>2, <1>3, <1>4

(* Lemma: a thread that is left where it stands.                           *)
LEMMA CallStays ==
  ASSUME IInv, NEW u \in Threads, mp' = mp, op'[u] = op[u], tcache'[u] = tcache[u],
         Cached(u)' = Cached(u), \A i \in Bins : InBin(u, i)' = InBin(u, i),
         op[u].pc = "verify" =>
           /\ size'[op[u].p] = size[op[u].p]
           /\ op[u].p \in DOMAIN live => op[u].p \in DOMAIN live'
  PROVE  CallOK(u)'
<1>1. PICK k : k = op[u] OBVIOUS
<1>2. op'[u] = k BY <1>1
<1>3. k.pc = "verify" => size'[k.p] = size[k.p] /\ (k.p \in DOMAIN live => k.p \in DOMAIN live')
  BY <1>1
<1>4. /\ k.pc = "idle" => k = Idle
      /\ k.pc \in {"init", "arena", "cut"} =>
           k.req \in Requests /\ k.nb = NbFor(k.req) /\ k.p = None
      /\ k.pc = "init" => ~tcache[u]
      /\ k.pc # "arena" => ~k.filled
      /\ k.filled =>
           /\ tcache[u] /\ Small(k.nb) /\ Cacheable(k.nb)
           /\ InBin(u, Tidx(k.nb)) # {}
      /\ k.pc = "verify" =>
           /\ tcache[u] /\ k.p \in Chunks /\ Cacheable(size[k.p])
           /\ k.p \in Cached(u) \cup DOMAIN live
      /\ k.pc = "shutdown" => k.p = None
      /\ k.pc = "shutdown_free" => k.p \in Chunks
      /\ k.closing <=> k.pc \in {"shutdown", "shutdown_free"}
  <2>1. CallOK(u) BY DEF IInv, Calls
  <2> QED BY <1>1, <2>1, Zenon DEF CallOK
<1>5. k.filled => InBin(u, Tidx(k.nb))' # {}
  <2>1. ASSUME k.filled PROVE Tidx(k.nb) \in Bins
    <3>1. k.pc = "arena" /\ k.req \in Requests /\ k.nb = NbFor(k.req) /\ Small(k.nb)
      BY <1>4, <2>1
    <3>2. k.nb \in ChunkSizes BY <3>1, NbForSize
    <3>3. Cacheable(k.nb) /\ MpOK BY <1>4, <2>1 DEF IInv
    <3> QED BY <3>2, <3>3, CacheableBin
  <2> QED BY <1>4, <2>1
<1>6. k.pc = "verify" =>
        /\ tcache'[u] /\ k.p \in Chunks /\ size'[k.p] < mp'.tcache_max_bytes
        /\ k.p \in Cached(u)' \cup DOMAIN live'
  BY <1>3, <1>4 DEF Cacheable
<1>7. k.filled => tcache'[u] /\ Small(k.nb) /\ k.nb < mp'.tcache_max_bytes
  BY <1>4 DEF Cacheable
<1> QED BY <1>2, <1>4, <1>5, <1>6, <1>7, Zenon DEF CallOK, Cacheable

(* Lemma: a step of t that leaves the others where they stand.             *)
LEMMA CallsKept ==
  ASSUME IInv, NEW t \in Threads, NEW call \in CallRecords, op' = [op EXCEPT ![t] = call],
         mp' = mp,
         \A u \in Threads \ {t} :
           /\ tcache'[u] = tcache[u] /\ Cached(u)' = Cached(u)
           /\ \A i \in Bins : InBin(u, i)' = InBin(u, i)
           /\ op[u].pc = "verify" =>
                /\ size'[op[u].p] = size[op[u].p]
                /\ op[u].p \in DOMAIN live => op[u].p \in DOMAIN live'
           /\ call.p # None => op[u].p # call.p,
         CallOK(t)', call.closing => call.p \notin Cached(t)'
  PROVE  Calls' /\ op' \in [Threads -> CallRecords]
<1>1. op \in [Threads -> CallRecords] /\ Calls BY DEF IInv, TypeOK
<1>2. op' \in [Threads -> CallRecords] /\ op'[t] = call /\ \A u \in Threads \ {t} : op'[u] = op[u]
  BY <1>1
<1>3. ASSUME NEW u \in Threads \ {t} PROVE CallOK(u)'
  <2>1. op'[u] = op[u] BY <1>2
  <2> QED BY <2>1, CallStays
<1>4. ASSUME NEW u \in Threads \ {t}
      PROVE  (op'[u].closing => op'[u].p \notin Cached(u)')
             /\ \A v \in Threads \ {u} : op'[u].p # None => op'[v].p # op'[u].p
  <2>1. Cached(u)' = Cached(u) /\ op'[u] = op[u] BY <1>2
  <2>2. op[u].closing => op[u].p \notin Cached(u) BY <1>1 DEF Calls
  <2>3. \A v \in Threads \ {u} : op[u].p # None => op[v].p # op[u].p BY <1>1 DEF Calls
  <2>4. call.p # None => op[u].p # call.p OBVIOUS
  <2> QED BY <1>2, <2>1, <2>2, <2>3, <2>4
<1>5. \A u \in Threads \ {t} : call.p # None => op'[u].p # call.p BY <1>2
<1>6. ASSUME NEW u \in Threads
      PROVE  /\ CallOK(u)'
             /\ op'[u].closing => op'[u].p \notin Cached(u)'
             /\ \A v \in Threads \ {u} : op'[u].p # None => op'[v].p # op'[u].p
  <2>1. CASE u = t BY <1>2, <1>5, <2>1
  <2>2. CASE u # t
    <3>1. u \in Threads \ {t} BY <2>2
    <3> QED BY <1>3, <1>4, <3>1
  <2> QED BY <2>1, <2>2
<1> QED BY <1>2, <1>6 DEF Calls

-----------------------------------------------------------------------------
(* The steps of ChunkCache that the actions take, seen in what changes.    *)

(* Who else holds chunks still holds them.                                 *)
OthersHold(t) == \A u \in Threads \ {t} : Held(u)' = Held(u)

(* Lemma: nobody's chunks move.                                            *)
LEMMA AbstractStays ==
  ASSUME mp' = mp, UNCHANGED <<size, pool, live>>, \A t \in Threads : Held(t)' = Held(t)
  PROVE  UNCHANGED Caches!vars
<1>1. Holding' = Holding BY DEF Holding
<1> QED BY <1>1 DEF Caches!vars

(* Lemma: the cache map after a step that concerns one thread.             *)
LEMMA HeldMap ==
  ASSUME NEW t \in Threads, OthersHold(t), NEW S, Held(t)' = S
  PROVE  Holding' = [Holding EXCEPT ![t] = S]
BY DEF OthersHold, Holding

(* Lemma: the cache of t serves a request (ChunkCache!Hit).                *)
LEMMA AbstractHit ==
  ASSUME mp' = mp, NEW t \in Threads, NEW c \in Held(t), NEW req \in Requests,
         UNCHANGED <<size, pool>>, live' = With(live, c, req),
         size[c] >= Request2size(req.bytes), c % req.al = 0,
         Held(t)' = Held(t) \ {c}, OthersHold(t)
  PROVE  Caches!Next
<1>1. Holding[t] = Held(t) BY DEF Holding
<1>2. Holding' = [Holding EXCEPT ![t] = Held(t) \ {c}] BY HeldMap
<1>3. Holding' = [Holding EXCEPT ![t] = @ \ {c}] BY <1>1, <1>2
<1>4. Caches!Asks(c) BY DEF Caches!Asks, With
<1>5. Caches!Hit(t, c) BY <1>3, <1>4 DEF Caches!Hit
<1>6. c \in Holding[t] BY <1>1
<1> QED BY <1>5, <1>6 DEF Caches!Next

(* Lemma: the program frees c into the cache of t (ChunkCache!Keep).       *)
LEMMA AbstractKeep ==
  ASSUME mp' = mp, NEW t \in Threads, NEW c \in DOMAIN live,
         UNCHANGED <<size, pool>>, live' = Without(live, c),
         Cardinality({d \in Held(t) : size[d] = size[c]}) < mp.tcache_count,
         Held(t)' = Held(t) \cup {c}, OthersHold(t)
  PROVE  Caches!Next
<1>1. Holding[t] = Held(t) BY DEF Holding
<1>2. Holding' = [Holding EXCEPT ![t] = Held(t) \cup {c}] BY HeldMap
<1>3. Holding' = [Holding EXCEPT ![t] = @ \cup {c}] BY <1>1, <1>2
<1>4. Caches!Forgets(c) BY DEF Caches!Forgets, Without
<1>5. Caches!RoomFor(t, size[c])
  BY <1>1, RoomIs DEF OfSize
<1>6. Caches!Keep(t, c) BY <1>3, <1>4, <1>5 DEF Caches!Keep
<1> QED BY <1>6 DEF Caches!Next

(* Lemma: the arena puts c into the cache of t (ChunkCache!Stash).         *)
LEMMA AbstractStash ==
  ASSUME mp' = mp, NEW t \in Threads, NEW c \in pool, c \in Chunks, NEW x \in Sizes,
         size \in [Chunks -> Nat],
         size' = [size EXCEPT ![c] = x], pool' = pool \ {c}, live' = live,
         Cardinality({d \in Held(t) : size[d] = x}) < mp.tcache_count,
         Held(t)' = Held(t) \cup {c}, OthersHold(t)
  PROVE  Caches!Next
<1>1. Holding[t] = Held(t) BY DEF Holding
<1>2. Holding' = [Holding EXCEPT ![t] = Held(t) \cup {c}] BY HeldMap
<1>3. Holding' = [Holding EXCEPT ![t] = @ \cup {c}] BY <1>1, <1>2
<1>4. Caches!Cut(c) BY DEF Caches!Cut
<1>5. size'[c] = x OBVIOUS
<1>6. Caches!RoomFor(t, x)
  BY <1>1, RoomIs DEF OfSize
<1>7. Caches!RoomFor(t, size'[c]) BY <1>5, <1>6
<1>8. Caches!Stash(t, c) BY <1>3, <1>4, <1>7 DEF Caches!Stash
<1> QED BY <1>8 DEF Caches!Next

(* Lemma: the arena gives c to the program (ChunkCache!Give).              *)
LEMMA AbstractGive ==
  ASSUME mp' = mp, NEW c \in pool, c \in Chunks, NEW x \in Sizes, NEW req \in Requests,
         size \in [Chunks -> Nat],
         size' = [size EXCEPT ![c] = x], pool' = pool \ {c}, live' = With(live, c, req),
         x >= Request2size(req.bytes), c % req.al = 0,
         \A u \in Threads : Held(u)' = Held(u)
  PROVE  Caches!Next
<1>1. Holding' = Holding BY DEF Holding
<1>2. Caches!Cut(c) BY DEF Caches!Cut
<1>3. size'[c] = x OBVIOUS
<1>4. Caches!Asks(c) BY <1>3 DEF Caches!Asks, With
<1>5. Caches!Give(c) BY <1>1, <1>2, <1>4 DEF Caches!Give
<1> QED BY <1>5 DEF Caches!Next

(* Lemma: the arena gets c back from the program (ChunkCache!Release).     *)
LEMMA AbstractRelease ==
  ASSUME mp' = mp, NEW c \in DOMAIN live,
         size' = [size EXCEPT ![c] = 0], pool' = pool \cup {c}, live' = Without(live, c),
         \A u \in Threads : Held(u)' = Held(u)
  PROVE  Caches!Next
<1>1. Holding' = Holding BY DEF Holding
<1>2. Caches!Forgets(c) BY DEF Caches!Forgets, Without
<1>3. Caches!Release(c) BY <1>1, <1>2 DEF Caches!Release
<1> QED BY <1>3 DEF Caches!Next

(* Lemma: the arena gets c back from a cache (ChunkCache!Drop).            *)
LEMMA AbstractDrop ==
  ASSUME mp' = mp, NEW t \in Threads, NEW c \in Held(t),
         size' = [size EXCEPT ![c] = 0], pool' = pool \cup {c}, live' = live,
         Held(t)' = Held(t) \ {c}, OthersHold(t)
  PROVE  Caches!Next
<1>1. Holding[t] = Held(t) BY DEF Holding
<1>2. Holding' = [Holding EXCEPT ![t] = Held(t) \ {c}] BY HeldMap
<1>3. Holding' = [Holding EXCEPT ![t] = @ \ {c}] BY <1>1, <1>2
<1>4. Caches!Drop(t, c) BY <1>3 DEF Caches!Drop
<1>5. c \in Holding[t] BY <1>1
<1> QED BY <1>4, <1>5 DEF Caches!Next

-----------------------------------------------------------------------------
(* What every action keeps.                                                *)

Kept ==
  /\ TypeOK' /\ mp' = mp /\ Lists' /\ Tagged' /\ Sized' /\ Slotted' /\ Closed'
  /\ Calls' /\ Aborts'
  /\ [Caches!Next]_(Caches!vars)

(* Lemma: a step that changes only where threads stand.                    *)
LEMMA QuietKeeps ==
  ASSUME IInv, UNCHANGED <<mp, entries, links, key, size>>
  PROVE  /\ Lists' /\ Tagged'
         /\ \A t \in Threads, i \in Bins : InBin(t, i)' = InBin(t, i)
         /\ \A t \in Threads : Cached(t)' = Cached(t)
<1>1. Lists' /\ Tagged' /\ \A t \in Threads, i \in Bins : InBin(t, i)' = InBin(t, i)
  BY BinsKept
<1> QED BY <1>1, CachedKept

(* Lemma: a cache whose bins and slots stay accounts for them.             *)
LEMMA SlotsKept ==
  ASSUME IInv, UNCHANGED <<mp, num_slots>>,
         \A t \in Threads, i \in Bins : InBin(t, i)' = InBin(t, i),
         \A t \in Threads : tcache'[t] => tcache[t]
  PROVE  Slotted'
<1>1. ASSUME NEW t \in Threads, tcache'[t], NEW i \in Bins
      PROVE  Cardinality(InBin(t, i)') + num_slots'[t][i] = mp'.tcache_count
  <2>1. Cardinality(InBin(t, i)) + num_slots[t][i] = mp.tcache_count
    BY <1>1 DEF IInv, Slotted
  <2> QED BY <2>1
<1> QED BY <1>1 DEF Slotted

(* Lemma: an idle thread's call.                                           *)
LEMMA IdleCall ==
  /\ Idle \in CallRecords /\ Idle.pc = "idle" /\ Idle.p = None /\ ~Idle.closing /\ ~Idle.filled
  /\ \A t \in Threads : op[t] = Idle => CallOK(t)
<1>1. Idle \in CallRecords /\ Idle.pc = "idle" /\ Idle.p = None /\ ~Idle.closing /\ ~Idle.filled
  BY DEF Idle, CallRecords
<1>2. ASSUME NEW t \in Threads, op[t] = Idle PROVE CallOK(t)
  BY <1>1, <1>2 DEF CallOK
<1> QED BY <1>1, <1>2
(* Lemma: IdleCall after a step.                                         *)
LEMMA IdleCallNext == (\A t \in Threads : op[t] = Idle => CallOK(t))'
<1>1. \A t \in Threads : op[t] = Idle => CallOK(t) BY IdleCall
<1> QED BY <1>1, PTL

(* Lemma: what is known of a thread by where it stands.                    *)
LEMMA Stands ==
  ASSUME IInv, NEW t \in Threads
  PROVE  /\ op[t] \in CallRecords
         /\ op[t].pc = "idle" => op[t] = Idle
         /\ op[t].pc \in {"init", "arena", "cut"} =>
              /\ op[t].req \in Requests /\ op[t].nb = NbFor(op[t].req) /\ op[t].p = None
              /\ op[t].nb \in ChunkSizes
         /\ op[t].closing <=> op[t].pc \in {"shutdown", "shutdown_free"}
         /\ ~op[t].closing => Held(t) = Cached(t)
         /\ op[t].closing => op[t].p \notin Cached(t)
<1>1. op[t] \in CallRecords /\ CallOK(t) /\ (op[t].closing => op[t].p \notin Cached(t))
  BY DEF IInv, TypeOK, Calls
<1>2. PICK call : call = op[t] OBVIOUS
<1>3. call.pc = "idle" => call = Idle BY <1>1, <1>2, Zenon DEF CallOK
<1>4. call.pc \in {"init", "arena", "cut"} =>
        call.req \in Requests /\ call.nb = NbFor(call.req) /\ call.p = None
  BY <1>1, <1>2, Zenon DEF CallOK
<1>5. call.closing <=> call.pc \in {"shutdown", "shutdown_free"}
  BY <1>1, <1>2, Zenon DEF CallOK
<1>6. ~call.closing => Held(t) = Cached(t) BY <1>2 DEF Held
<1>7. call.pc \in {"init", "arena", "cut"} => call.nb \in ChunkSizes BY <1>4, NbForSize
<1> QED BY <1>1, <1>2, <1>3, <1>4, <1>5, <1>6, <1>7

-----------------------------------------------------------------------------
(* The cache is asked first.                                               *)

(* The search for req in a chain stops at its k-th place.                  *)
StopsAt(req, n, s, k) ==
  LET nb == Request2size(req.bytes)
  IN  IF req.al > MALLOC_ALIGNMENT
        THEN /\ k \in 1 .. n => size[s[k]] > nb \/ Wants(s[k], req)
             /\ \A j \in 1 .. n : j < k => ~Wants(s[j], req)
      ELSE IF Small(nb) THEN k = 1
      ELSE /\ k \in 1 .. n => size[s[k]] >= nb
           /\ \A j \in 1 .. n : j < k => ~(size[s[j]] >= nb)

(* Lemma: a request is searched for in a bin, from its first place on.     *)
LEMMA PlaceForIs ==
  ASSUME IInv, NEW t \in Threads, NEW req \in Requests, Cacheable(Request2size(req.bytes)),
         NEW i, i = Tidx(Request2size(req.bytes)), NEW n, NEW s, Bin(t, i, n, s)
  PROVE  \E k \in 1 .. (n + 1) :
           /\ PlaceFor(t, req) = PlaceOf(t, i, s, k) /\ Read(PlaceFor(t, req)) = Met(n, s, k)
           /\ StopsAt(req, n, s, k)
<1>1. PICK nb \in ChunkSizes : nb = Request2size(req.bytes) BY NbForSize
<1>2. i = Tidx(nb) BY <1>1
<1>4. Chain(entries[t][i], links, n, s) BY DEF Bin
<1>5. n \in Nat /\ \A k \in 1 .. n : s[k] \in Chunks BY <1>4 DEF Chain
<1>6. \A k \in 1 .. (n + 1) : Read(PlaceOf(t, i, s, k)) = Met(n, s, k) BY <1>4, ChainRead
<1>7. CASE req.al > MALLOC_ALIGNMENT
  <2> DEFINE stops == {c \in Chunks : size[c] > nb \/ Wants(c, req)}
  <2>1. PlaceFor(t, req) = Location(t, i, stops) BY <1>1, <1>2, <1>7 DEF PlaceFor
  <2> HIDE DEF stops
  <2>2. PICK k \in 1 .. (n + 1) :
          /\ Location(t, i, stops) = PlaceOf(t, i, s, k)
          /\ k \in 1 .. n => s[k] \in stops
          /\ \A j \in 1 .. n : j < k => s[j] \notin stops
    BY <1>4, ChainSearch
  <2>3. k \in 1 .. n => size[s[k]] > nb \/ Wants(s[k], req) BY <2>2 DEF stops
  <2>4. \A j \in 1 .. n : j < k => ~Wants(s[j], req) BY <1>5, <2>2 DEF stops
  <2>5. StopsAt(req, n, s, k) BY <1>1, <1>7, <2>3, <2>4 DEF StopsAt
  <2> QED BY <1>6, <2>1, <2>2, <2>5
<1>8. CASE ~(req.al > MALLOC_ALIGNMENT) /\ Small(nb)
  <2>1. PlaceFor(t, req) = FirstPlace(t, i) BY <1>1, <1>2, <1>8 DEF PlaceFor
  <2>2. 1 \in 1 .. (n + 1) /\ PlaceOf(t, i, s, 1) = FirstPlace(t, i) BY <1>5 DEF PlaceOf
  <2>3. StopsAt(req, n, s, 1) BY <1>1, <1>8 DEF StopsAt
  <2> QED BY <1>6, <2>1, <2>2, <2>3
<1>9. CASE ~(req.al > MALLOC_ALIGNMENT) /\ ~Small(nb)
  <2> DEFINE stops == {c \in Chunks : size[c] >= nb}
  <2>1. PlaceFor(t, req) = Location(t, i, stops)
    BY <1>1, <1>2, <1>9 DEF PlaceFor, LocationLarge
  <2> HIDE DEF stops
  <2>2. PICK k \in 1 .. (n + 1) :
          /\ Location(t, i, stops) = PlaceOf(t, i, s, k)
          /\ k \in 1 .. n => s[k] \in stops
          /\ \A j \in 1 .. n : j < k => s[j] \notin stops
    BY <1>4, ChainSearch
  <2>3. k \in 1 .. n => size[s[k]] >= nb BY <2>2 DEF stops
  <2>4. \A j \in 1 .. n : j < k => ~(size[s[j]] >= nb) BY <1>5, <2>2 DEF stops
  <2>5. StopsAt(req, n, s, k) BY <1>1, <1>9, <2>3, <2>4 DEF StopsAt
  <2> QED BY <1>6, <2>1, <2>2, <2>5
<1> QED BY <1>7, <1>8, <1>9

(* Lemma: a chunk that a request wants is large and aligned enough.        *)
LEMMA WantsFits ==
  ASSUME IInv, NEW c \in Chunks, NEW req \in Requests, Wants(c, req)
  PROVE  size[c] >= Request2size(req.bytes) /\ c % req.al = 0
<1>1. PICK nb \in Nat : nb = Request2size(req.bytes) BY NbForSize DEF ChunkSizes
<1>2. size[c] \in Nat BY DEF IInv, TypeOK
<1>3. c % MALLOC_ALIGNMENT = 0 BY TcacheAssumption
<1> QED BY <1>1, <1>2, <1>3 DEF Wants

(* Lemma: a bin of a cache.                                                *)
LEMMA BinIs ==
  ASSUME IInv, NEW t \in Threads, NEW i \in Bins
  PROVE  \E n, s : Bin(t, i, n, s) /\ n \in Nat /\ s \in [1 .. n -> Chunks]
                   /\ InBin(t, i) = Elems(n, s)
<1>1. PICK n, s : Bin(t, i, n, s) BY DEF IInv, Lists
<1>2. Chain(entries[t][i], links, n, s) BY <1>1 DEF Bin
<1> QED BY <1>1, <1>2, ChainBin, SMTT(40) DEF Chain

(* Lemma: a hit takes one chunk of a bin (Hit).                            *)
LEMMA HitTakes ==
  ASSUME IInv, NEW t \in Threads, NEW req \in Requests, Cacheable(Request2size(req.bytes)),
         Hits(t, req)
  PROVE  \E i \in Bins : \E n, s : Bin(t, i, n, s) /\
           \E k \in 1 .. n : PlaceFor(t, req) = PlaceOf(t, i, s, k) /\ Read(PlaceFor(t, req)) = s[k]
                             /\ s[k] \in Chunks /\ Wants(s[k], req)
<1>1. PICK i : i = Tidx(Request2size(req.bytes)) OBVIOUS
<1>2. Request2size(req.bytes) \in ChunkSizes /\ MpOK BY NbForSize DEF IInv
<1>3. i \in Bins BY <1>1, <1>2, CacheableBin
<1>4. PICK n, s : Bin(t, i, n, s) /\ n \in Nat /\ s \in [1 .. n -> Chunks] BY <1>3, BinIs
<1>6. PICK k \in 1 .. (n + 1) : PlaceFor(t, req) = PlaceOf(t, i, s, k)
                                /\ Read(PlaceFor(t, req)) = Met(n, s, k)
  BY <1>1, <1>4, PlaceForIs
<1>7. PICK e : e = Read(PlaceFor(t, req)) OBVIOUS
<1>8. e \in Chunks /\ Wants(e, req) BY <1>7 DEF Hits
<1>9. k \in 1 .. n /\ e = s[k] BY <1>6, <1>7, <1>8, TcacheAssumption DEF Met
<1> QED BY <1>3, <1>4, <1>6, <1>7, <1>8, <1>9

(* Lemma: the cache serves a request (Hit).                              *)
LEMMA HitKept ==
  ASSUME IInv, NEW t \in Threads, NEW req \in Requests, Hit(t, req)
  PROVE  Kept
<1>1. /\ ~aborted /\ op[t].pc = "idle" /\ Cacheable(Request2size(req.bytes)) /\ tcache[t]
      /\ Hits(t, req)
      /\ GetN(PlaceFor(t, req), Read(PlaceFor(t, req)))
      /\ live' = With(live, Read(PlaceFor(t, req)), req)
      /\ UNCHANGED <<mp, tcache, shutting_down, size, pool, op, aborted>>
  BY DEF Hit, At
<1>16. PICK i \in Bins : \E n, s : Bin(t, i, n, s) /\
        \E k \in 1 .. n : PlaceFor(t, req) = PlaceOf(t, i, s, k) /\ Read(PlaceFor(t, req)) = s[k]
                          /\ s[k] \in Chunks /\ Wants(s[k], req)
  BY <1>1, HitTakes
<1>2. PICK n, s : Bin(t, i, n, s) /\
        \E k \in 1 .. n : PlaceFor(t, req) = PlaceOf(t, i, s, k) /\ Read(PlaceFor(t, req)) = s[k]
                          /\ s[k] \in Chunks /\ Wants(s[k], req)
  BY <1>16
<1>3. PICK k \in 1 .. n :
        PlaceFor(t, req) = PlaceOf(t, i, s, k) /\ Read(PlaceFor(t, req)) = s[k]
        /\ s[k] \in Chunks /\ Wants(s[k], req)
  BY <1>2
<1>4. PICK c \in Chunks : c = s[k] BY <1>3
<1>5. GetN(PlaceOf(t, i, s, k), s[k]) /\ live' = With(live, c, req) /\ Wants(c, req)
  BY <1>1, <1>3, <1>4
<1>6. /\ entries' \in [Threads -> [Bins -> Words]] /\ links' \in [Chunks -> Words]
      /\ key' \in [Chunks -> BOOLEAN]
      /\ num_slots' \in [Threads -> [Bins -> 0 .. MAX_TCACHE_COUNT]]
      /\ Lists' /\ Tagged' /\ Slotted'
      /\ InBin(t, i)' = InBin(t, i) \ {c} /\ c \in InBin(t, i)
      /\ \A u \in Threads, j \in Bins : u # t \/ j # i => InBin(u, j)' = InBin(u, j)
  <2>1. size' = size /\ size \in [Chunks -> Nat] BY <1>1 DEF IInv, TypeOK
  <2> QED BY <1>1, <1>2, <1>4, <1>5, <2>1, GetKeeps
<1>7. /\ c \in Cached(t) /\ Cached(t)' = Cached(t) \ {c}
      /\ \A u \in Threads \ {t} : Cached(u)' = Cached(u)
  BY <1>6, CachedTake
<1>8. op[t] = Idle /\ ~op[t].closing BY <1>1, Stands, IdleCall
<1>9. Held(t) = Cached(t) /\ Held(t)' = Cached(t)' /\ \A u \in Threads \ {t} : Held(u)' = Held(u)
  BY <1>1, <1>7, <1>8 DEF Held
<1>10. Caches!Next
  <2>1. size[c] >= Request2size(req.bytes) /\ c % req.al = 0 BY <1>5, WantsFits
  <2>2. c \in Held(t) /\ Held(t)' = Held(t) \ {c} /\ OthersHold(t) BY <1>7, <1>9 DEF OthersHold
  <2> QED BY <1>1, <1>5, <2>1, <2>2, AbstractHit
<1>11. TypeOK'
  <2>1. live' \in [DOMAIN live' -> Requests] /\ DOMAIN live' \subseteq Chunks
    BY <1>5 DEF With, IInv, TypeOK
  <2> QED BY <1>1, <1>6, <2>1 DEF IInv, TypeOK
<1>12. Calls'
  <2>1. op' = [op EXCEPT ![t] = Idle] BY <1>1, <1>8 DEF IInv, TypeOK
  <2>2. op'[t] = Idle BY <1>1, <1>8
  <2>3. CallOK(t)' BY <2>2, IdleCallNext
  <2>4. DOMAIN live \subseteq DOMAIN live' BY <1>5 DEF With
  <2> QED BY <1>1, <1>6, <1>7, <2>1, <2>3, <2>4, IdleCall, CallsKept
<1>13. Closed' BY <1>1, <1>7 DEF IInv, Closed
<1>14. Sized' BY <1>1 DEF IInv, Sized
<1>15. Aborts' BY <1>1 DEF Aborts
<1> QED BY <1>1, <1>6, <1>10, <1>11, <1>12, <1>13, <1>14, <1>15 DEF Kept

(* Lemma: a request goes on to the arena (Miss).                         *)
LEMMA MissKept ==
  ASSUME IInv, NEW t \in Threads, NEW req \in Requests, Miss(t, req)
  PROVE  Kept
<1> DEFINE nb == Request2size(req.bytes)
           call == [Idle EXCEPT !.pc = IF Cacheable(nb) /\ ~tcache[t] THEN "init" ELSE "arena",
                                !.req = req,
                                !.nb = IF req.al > MALLOC_ALIGNMENT
                                       THEN Request2size(nb + req.al + MINSIZE) ELSE nb]
<1>1. /\ ~aborted /\ op[t].pc = "idle" /\ op' = [op EXCEPT ![t] = call]
      /\ UNCHANGED <<mp, tcache, shutting_down, num_slots, entries, links, key>>
      /\ UNCHANGED <<size, pool, live, aborted>>
  BY DEF Miss, At, Goto, cacheVars
<1>2. /\ Lists' /\ Tagged'
      /\ \A u \in Threads, i \in Bins : InBin(u, i)' = InBin(u, i)
      /\ \A u \in Threads : Cached(u)' = Cached(u)
  BY <1>1, QuietKeeps
<1>3. Slotted' BY <1>1, <1>2, SlotsKept
<1>4. /\ call.pc \in {"init", "arena"}
      /\ call.pc = "init" => ~tcache[t]
      /\ call.req = req /\ call.nb = NbFor(req) /\ ~call.filled /\ call.p = None /\ ~call.closing
      /\ call \in CallRecords
  <2>1. PICK pc \in {"init", "arena"} : pc = IF Cacheable(nb) /\ ~tcache[t] THEN "init" ELSE "arena"
    OBVIOUS
  <2>2. PICK x \in Nat : x = NbFor(req) BY NbForSize
  <2>3. call = [Idle EXCEPT !.pc = pc, !.req = req, !.nb = x] BY <2>1, <2>2, Zenon DEF NbFor
  <2>4. pc = "init" => ~tcache[t] BY <2>1
  <2> HIDE DEF call
  <2> QED BY <2>2, <2>3, <2>4 DEF Idle, CallRecords
<1> HIDE DEF call
<1>5. op[t] = Idle /\ op \in [Threads -> CallRecords] BY <1>1, Stands DEF IInv, TypeOK
<1>6. op'[t] = call /\ \A u \in Threads \ {t} : op'[u] = op[u] BY <1>1, <1>5
<1>7. CallOK(t)' BY <1>1, <1>4, <1>6 DEF CallOK
<1>8. Calls' /\ op' \in [Threads -> CallRecords] BY <1>1, <1>2, <1>4, <1>7, CallsKept
<1>9. \A u \in Threads : Held(u)' = Held(u) BY <1>2, <1>4, <1>5, <1>6, IdleCall DEF Held
<1>10. UNCHANGED Caches!vars BY <1>1, <1>9, AbstractStays
<1>11. TypeOK' BY <1>1, <1>8 DEF IInv, TypeOK
<1>12. Closed' BY <1>1, <1>2, <1>4, <1>5, <1>6, IdleCall DEF IInv, Closed
<1>13. Sized' /\ Aborts' BY <1>1 DEF IInv, Sized, Aborts
<1> QED BY <1>1, <1>2, <1>3, <1>8, <1>10, <1>11, <1>12, <1>13 DEF Kept

(* Lemma: tcache_init opens a cache that has no chunks (TcacheInit).       *)
LEMMA TcacheInitKept ==
  ASSUME IInv, NEW t \in Threads, TcacheInit(t)
  PROVE  Kept
<1>1. /\ ~aborted /\ op[t].pc = "init" /\ op' = [op EXCEPT ![t] = [op[t] EXCEPT !.pc = "arena"]]
      /\ UNCHANGED <<mp, shutting_down, entries, links, key, size, pool, live, aborted>>
      /\ \/ /\ ~shutting_down[t]
            /\ tcache' = [tcache EXCEPT ![t] = TRUE]
            /\ num_slots' = [num_slots EXCEPT ![t] = [i \in Bins |-> mp.tcache_count]]
         \/ UNCHANGED <<tcache, num_slots>>
  BY DEF TcacheInit, MayInit, At, Goto
<1>2. /\ Lists' /\ Tagged'
      /\ \A u \in Threads, i \in Bins : InBin(u, i)' = InBin(u, i)
      /\ \A u \in Threads : Cached(u)' = Cached(u)
  BY <1>1, QuietKeeps
<1>3. PICK call : call = [op[t] EXCEPT !.pc = "arena"] OBVIOUS
<1>4. /\ op[t] \in CallRecords /\ op[t].req \in Requests /\ op[t].nb = NbFor(op[t].req)
      /\ op[t].p = None /\ ~op[t].closing /\ ~op[t].filled /\ ~tcache[t]
  <2>1. CallOK(t) BY DEF IInv, Calls
  <2>2. ~tcache[t] /\ ~op[t].filled BY <1>1, <2>1 DEF CallOK
  <2> QED BY <1>1, <2>2, Stands
<1>5. /\ call \in CallRecords /\ call.pc = "arena" /\ call.req \in Requests
      /\ call.nb = NbFor(call.req) /\ call.p = None /\ ~call.closing /\ ~call.filled
  <2>1. /\ call.pc = "arena" /\ call.req = op[t].req /\ call.nb = op[t].nb /\ call.p = op[t].p
        /\ call.closing = op[t].closing /\ call.filled = op[t].filled /\ call \in CallRecords
    BY <1>3, <1>4 DEF CallRecords
  <2> QED BY <1>4, <2>1
<1>6. op' = [op EXCEPT ![t] = call] /\ op \in [Threads -> CallRecords]
  BY <1>1, <1>3 DEF IInv, TypeOK
<1>7. op'[t] = call /\ \A u \in Threads \ {t} : op'[u] = op[u] BY <1>6
<1>8. /\ tcache' \in [Threads -> BOOLEAN]
      /\ num_slots' \in [Threads -> [Bins -> 0 .. MAX_TCACHE_COUNT]]
      /\ \A u \in Threads \ {t} : tcache'[u] = tcache[u] /\ num_slots'[u] = num_slots[u]
      /\ tcache'[t] => /\ ~shutting_down[t]
                       /\ \A i \in Bins : num_slots'[t][i] = mp.tcache_count
  <2>1. /\ tcache \in [Threads -> BOOLEAN]
        /\ num_slots \in [Threads -> [Bins -> 0 .. MAX_TCACHE_COUNT]]
        /\ mp.tcache_count \in 0 .. MAX_TCACHE_COUNT
    BY Tunables DEF IInv, TypeOK
  <2>2. [i \in Bins |-> mp.tcache_count] \in [Bins -> 0 .. MAX_TCACHE_COUNT] BY <2>1
  <2>3. PICK a : a = [i \in Bins |-> mp.tcache_count] OBVIOUS
  <2>4. a \in [Bins -> 0 .. MAX_TCACHE_COUNT] /\ \A i \in Bins : a[i] = mp.tcache_count
    BY <2>2, <2>3
  <2>5. CASE UNCHANGED <<tcache, num_slots>> BY <1>4, <2>1, <2>5
  <2>6. CASE ~shutting_down[t] /\ tcache' = [tcache EXCEPT ![t] = TRUE]
             /\ num_slots' = [num_slots EXCEPT ![t] = a]
    BY ONLY <2>1, <2>4, <2>6, t \in Threads
  <2> QED BY <1>1, <2>3, <2>5, <2>6
<1>9. CallOK(t)' BY <1>5, <1>7 DEF CallOK
<1>10. Calls' /\ op' \in [Threads -> CallRecords] BY <1>1, <1>2, <1>5, <1>6, <1>8, <1>9, CallsKept
<1>11. \A u \in Threads : Held(u)' = Held(u) BY <1>2, <1>4, <1>5, <1>7 DEF Held
<1>12. UNCHANGED Caches!vars BY <1>1, <1>11, AbstractStays
<1>13. TypeOK' BY <1>1, <1>8, <1>10 DEF IInv, TypeOK
<1>14. Closed' BY <1>1, <1>2, <1>4, <1>5, <1>7, <1>8 DEF IInv, Closed
<1>15. Slotted'
  <2>1. ASSUME NEW u \in Threads, tcache'[u], NEW i \in Bins
        PROVE  Cardinality(InBin(u, i)') + num_slots'[u][i] = mp.tcache_count
    <3>1. CASE u = t
      <4>1. Cached(t) = {} BY <1>4 DEF IInv, Closed
      <4>2. InBin(t, i) = {} BY <4>1, BinsApart
      <4>3. Cardinality(InBin(u, i)') = 0 BY <1>2, <3>1, <4>2, FS_EmptySet
      <4>4. num_slots'[u][i] = mp.tcache_count /\ mp.tcache_count \in Nat
        BY <1>8, <2>1, <3>1, Tunables DEF IInv
      <4> QED BY <4>3, <4>4
    <3>2. CASE u # t
      <4>1. Cardinality(InBin(u, i)) + num_slots[u][i] = mp.tcache_count
        BY <1>8, <2>1, <3>2 DEF IInv, Slotted
      <4> QED BY <1>2, <1>8, <3>2, <4>1
    <3> QED BY <3>1, <3>2
  <2> QED BY <1>1, <2>1 DEF Slotted
<1>16. Sized' /\ Aborts' BY <1>1 DEF IInv, Sized, Aborts
<1> QED BY <1>1, <1>2, <1>10, <1>12, <1>13, <1>14, <1>15, <1>16 DEF Kept

(* Lemma: _int_malloc has nothing to give (Fails).                         *)
LEMMA FailsKept ==
  ASSUME IInv, NEW t \in Threads, Fails(t)
  PROVE  Kept
<1>1. /\ ~aborted /\ op[t].pc = "arena" /\ op' = [op EXCEPT ![t] = Idle]
      /\ UNCHANGED <<mp, tcache, shutting_down, num_slots, entries, links, key>>
      /\ UNCHANGED <<size, pool, live, aborted>>
  BY DEF Fails, At, Goto, cacheVars
<1>2. /\ Lists' /\ Tagged'
      /\ \A u \in Threads, i \in Bins : InBin(u, i)' = InBin(u, i)
      /\ \A u \in Threads : Cached(u)' = Cached(u)
  BY <1>1, QuietKeeps
<1>3. Slotted' BY <1>1, <1>2, SlotsKept
<1>4. ~op[t].closing /\ op \in [Threads -> CallRecords] BY <1>1, Stands DEF IInv, TypeOK
<1>5. op'[t] = Idle /\ \A u \in Threads \ {t} : op'[u] = op[u] BY <1>1, <1>4
<1>6. CallOK(t)' BY <1>5, IdleCallNext
<1>7. Calls' /\ op' \in [Threads -> CallRecords] BY <1>1, <1>2, <1>6, IdleCall, CallsKept
<1>8. \A u \in Threads : Held(u)' = Held(u) BY <1>2, <1>4, <1>5, IdleCall DEF Held
<1>9. UNCHANGED Caches!vars BY <1>1, <1>8, AbstractStays
<1>10. TypeOK' BY <1>1, <1>7 DEF IInv, TypeOK
<1>11. Closed' BY <1>1, <1>2, <1>4, <1>5, IdleCall DEF IInv, Closed
<1>12. Sized' /\ Aborts' BY <1>1 DEF IInv, Sized, Aborts
<1> QED BY <1>1, <1>2, <1>3, <1>7, <1>9, <1>10, <1>11, <1>12 DEF Kept

(* Lemma: _int_malloc gives a chunk of the arena (Given).                  *)
LEMMA GivenKept ==
  ASSUME IInv, NEW t \in Threads, NEW c \in Chunks, Given(t, c)
  PROVE  Kept
<1>1. PICK req : req = op[t].req OBVIOUS
<1>2. PICK x : x = Request2size(req.bytes) + IF c \in Loose THEN MALLOC_ALIGNMENT ELSE 0 OBVIOUS
<1>3. /\ ~aborted /\ op[t].pc \in {"arena", "cut"} /\ c \in pool /\ c % req.al = 0
      /\ size' = [size EXCEPT ![c] = x]
      /\ pool' = pool \ {c} /\ live' = With(live, c, req)
      /\ op' = [op EXCEPT ![t] = Idle]
      /\ UNCHANGED <<mp, tcache, shutting_down, num_slots, entries, links, key>>
      /\ UNCHANGED aborted
  BY <1>1, <1>2 DEF Given, At, Goto, cacheVars
<1>4. ~op[t].closing /\ op \in [Threads -> CallRecords] /\ req \in Requests
  BY <1>1, <1>3, Stands DEF IInv, TypeOK
<1>5. x \in Sizes /\ x \in ChunkSizes /\ x \in Nat /\ x >= Request2size(req.bytes)
  <2>1. PICK nb \in ChunkSizes : nb = Request2size(req.bytes) BY <1>4, NbForSize
  <2>2. x = nb \/ x = nb + MALLOC_ALIGNMENT BY <1>2, <2>1 DEF ChunkSizes
  <2>3. x \in ChunkSizes /\ x \in Nat /\ x >= nb
    BY <2>2 DEF ChunkSizes, MALLOC_ALIGNMENT, MINSIZE
  <2>4. x \in Sizes BY <1>4, <2>1, <2>2 DEF Sizes
  <2> QED BY <2>1, <2>3, <2>4
<1>6. size \in [Chunks -> Nat] /\ size' \in [Chunks -> Nat] /\ size'[c] = x
      /\ \A d \in Chunks : d # c => size'[d] = size[d]
  BY <1>3, <1>5 DEF IInv, TypeOK
<1>7. \A u \in Threads, i \in Bins : c \notin InBin(u, i) BY <1>3, BinsApart
<1>8. /\ Lists' /\ Tagged'
      /\ \A u \in Threads, i \in Bins : InBin(u, i)' = InBin(u, i)
  BY <1>3, <1>6, <1>7, BinsKept
<1>9. \A u \in Threads : Cached(u)' = Cached(u) BY <1>8, CachedKept
<1>10. Slotted' BY <1>3, <1>8, SlotsKept
<1>11. op'[t] = Idle /\ \A u \in Threads \ {t} : op'[u] = op[u] BY <1>3, <1>4
<1>12. CallOK(t)' BY <1>11, IdleCallNext
<1>13. DOMAIN live' = DOMAIN live \cup {c} BY <1>3 DEF With
<1>14. Calls' /\ op' \in [Threads -> CallRecords]
  <2>1. \A u \in Threads : op[u].pc = "verify" => op[u].p \in Chunks /\ op[u].p # c
    BY <1>3, CallChunks
  <2>2. \A u \in Threads : op[u].pc = "verify" =>
          size'[op[u].p] = size[op[u].p] /\ (op[u].p \in DOMAIN live => op[u].p \in DOMAIN live')
    BY <1>6, <1>13, <2>1
  <2> QED BY <1>3, <1>8, <1>9, <1>12, <2>2, IdleCall, CallsKept
<1>15. \A u \in Threads : Held(u)' = Held(u) BY <1>4, <1>9, <1>11, IdleCall DEF Held
<1>16. Caches!Next BY <1>3, <1>4, <1>5, <1>6, <1>15, AbstractGive
<1>17. TypeOK'
  <2>1. live' \in [DOMAIN live' -> Requests] /\ DOMAIN live' \subseteq Chunks
    BY <1>3, <1>4, <1>13 DEF With, IInv, TypeOK
  <2> QED BY <1>3, <1>6, <1>14, <2>1 DEF IInv, TypeOK
<1>18. Closed' BY <1>3, <1>4, <1>9, <1>11, IdleCall DEF IInv, Closed
<1>19. Sized' BY <1>3, <1>5, <1>6 DEF IInv, Sized
<1>20. Aborts' BY <1>3 DEF Aborts
<1> QED BY <1>3, <1>8, <1>10, <1>14, <1>16, <1>17, <1>18, <1>19, <1>20 DEF Kept

(* Lemma: a cache with a free slot has room for one more of a size.        *)
LEMMA RoomInBin ==
  ASSUME IInv, NEW t \in Threads, NEW x, Tidx(x) \in Bins, tcache[t],
         num_slots[t][Tidx(x)] # 0, Held(t) = Cached(t)
  PROVE  Cardinality({d \in Held(t) : size[d] = x}) < mp.tcache_count
<1> DEFINE S == {d \in Held(t) : size[d] = x}
<1>1. PICK i \in Bins : i = Tidx(x) OBVIOUS
<1>2. S \subseteq InBin(t, i)
  <2>1. ASSUME NEW d \in Cached(t), size[d] = x PROVE d \in InBin(t, i)
    <3>1. PICK j \in Bins : d \in InBin(t, j) BY DEF Cached
    <3>2. Tidx(size[d]) = j BY <3>1 DEF IInv, Tagged
    <3> QED BY <1>1, <2>1, <3>1, <3>2
  <2> QED BY <2>1
<1> HIDE DEF S
<1>3. IsFiniteSet(InBin(t, i)) /\ Cardinality(InBin(t, i)) \in Nat BY BinsFinite
<1>4. Cardinality(S) <= Cardinality(InBin(t, i)) /\ Cardinality(S) \in Nat
  BY <1>2, <1>3, FS_Subset, FS_CardinalityType
<1>5. Cardinality(InBin(t, i)) + num_slots[t][i] = mp.tcache_count
  BY DEF IInv, Slotted
<1>6. num_slots[t][i] \in 0 .. MAX_TCACHE_COUNT /\ num_slots[t][i] # 0
  BY <1>1 DEF IInv, TypeOK
<1>7. PICK a \in Nat : a = num_slots[t][i] /\ a # 0 BY <1>6, SizesAssumption
<1>8. Cardinality(S) < mp.tcache_count BY <1>3, <1>4, <1>5, <1>7
<1> QED BY <1>8 DEF S

(* Lemma: the chunks of a small bin have the one size that it is for.      *)
LEMMA SmallBinSize ==
  ASSUME IInv, NEW t \in Threads, NEW x \in ChunkSizes, Small(x), Tidx(x) \in Bins,
         NEW c \in InBin(t, Tidx(x))
  PROVE  size[c] = x
<1>1. c \in Chunks \ pool BY BinsApart
<1>2. PICK y \in ChunkSizes : y = size[c] BY <1>1 DEF IInv, Sized
<1>3. Tidx(y) = Tidx(x) /\ Cacheable(y) BY <1>2 DEF IInv, Tagged
<1> QED BY <1>2, <1>3, SmallBinOneSize DEF IInv

(* Lemma: _int_malloc puts a chunk into the cache (Stash).                 *)
LEMMA StashKept ==
  ASSUME IInv, NEW t \in Threads, NEW c \in Chunks, Stash(t, c)
  PROVE  Kept
<1>1. PICK x : x = op[t].nb OBVIOUS
<1>2. PICK call : call = [op[t] EXCEPT !.filled = TRUE] OBVIOUS
<1>3. /\ ~aborted /\ op[t].pc = "arena" /\ c \in pool /\ tcache[t]
      /\ Csize2tidx(x) < mp.tcache_small_bins /\ num_slots[t][Tidx(x)] # 0
      /\ PutN(FirstPlace(t, Tidx(x)), c)
      /\ size' = [size EXCEPT ![c] = x]
      /\ pool' = pool \ {c} /\ op' = [op EXCEPT ![t] = call]
      /\ UNCHANGED <<mp, tcache, shutting_down, live, aborted>>
  BY <1>1, <1>2 DEF Stash, At, Goto, HasSlot
<1>4. /\ op[t] \in CallRecords /\ op[t].req \in Requests /\ x = NbFor(op[t].req)
      /\ x \in ChunkSizes /\ ~op[t].closing /\ op[t].p = None
      /\ Held(t) = Cached(t) /\ op \in [Threads -> CallRecords]
  BY <1>1, <1>3, Stands DEF IInv, TypeOK
<1>5. Small(x) /\ Cacheable(x) /\ Tidx(x) \in Bins /\ x \in Nat
  <2>1. MpOK BY DEF IInv
  <2>2. Small(x) /\ Cacheable(x) BY <1>3, <1>4, <2>1, StashedBin
  <2> QED BY <1>4, <2>1, <2>2, CacheableBin DEF ChunkSizes
<1>6. PICK i \in Bins : i = Tidx(x) BY <1>5
<1>7. PICK n, s : Bin(t, i, n, s) /\ n \in Nat /\ s \in [1 .. n -> Chunks]
                 /\ InBin(t, i) = Elems(n, s)
  BY BinIs
<1>8. \A u \in Threads, j \in Bins : c \notin InBin(u, j) BY <1>3, BinsApart
<1>9. size \in [Chunks -> Nat] /\ size' \in [Chunks -> Nat] /\ size'[c] = x
      /\ \A d \in Chunks : d # c => size'[d] = size[d]
  BY <1>3, <1>5 DEF IInv, TypeOK
<1>10. \A j \in 1 .. n : size[s[j]] = x
  <2>1. \A j \in 1 .. n : s[j] \in InBin(t, Tidx(x)) BY <1>6, <1>7 DEF Elems
  <2> QED BY <1>4, <1>5, <2>1, SmallBinSize
<1>11. PICK k \in 1 .. (n + 1) : k = 1 BY <1>7
<1>12. PutN(PlaceOf(t, i, s, k), c) BY <1>3, <1>6, <1>11 DEF PlaceOf
<1>13. \A j \in 1 .. n : IF j < k THEN size[s[j]] <= size'[c] ELSE size'[c] <= size[s[j]]
  <2>1. \A j \in 1 .. n : ~(j < k) BY <1>7, <1>11
  <2> QED BY <1>5, <1>9, <1>10, <2>1
<1>14. num_slots[t][i] # 0 /\ Tidx(size'[c]) = i /\ Cacheable(size'[c])
  BY <1>3, <1>5, <1>6, <1>9
<1>15. /\ entries' \in [Threads -> [Bins -> Words]] /\ links' \in [Chunks -> Words]
       /\ key' \in [Chunks -> BOOLEAN]
       /\ num_slots' \in [Threads -> [Bins -> 0 .. MAX_TCACHE_COUNT]]
       /\ Lists' /\ Tagged' /\ Slotted'
       /\ InBin(t, i)' = InBin(t, i) \cup {c}
       /\ \A u \in Threads, j \in Bins : u # t \/ j # i => InBin(u, j)' = InBin(u, j)
  BY <1>3, <1>7, <1>8, <1>9, <1>12, <1>13, <1>14, PutKeeps
<1>16. /\ Cached(t)' = Cached(t) \cup {c}
       /\ \A u \in Threads \ {t} : Cached(u)' = Cached(u)
  BY <1>15, CachedPut
<1>17. /\ call \in CallRecords /\ call.pc = "arena" /\ call.req = op[t].req /\ call.nb = x
       /\ call.p = None /\ ~call.closing /\ call.filled
  BY <1>1, <1>2, <1>3, <1>4 DEF CallRecords
<1>18. op'[t] = call /\ \A u \in Threads \ {t} : op'[u] = op[u] BY <1>3, <1>4
<1>19. CallOK(t)'
  <2>1. InBin(t, i)' # {} BY <1>15
  <2>2. tcache'[t] /\ Small(x) /\ x < mp'.tcache_max_bytes BY <1>3, <1>5 DEF Cacheable
  <2> QED BY <1>4, <1>6, <1>17, <1>18, <2>1, <2>2 DEF CallOK, Cacheable
<1>20. Calls' /\ op' \in [Threads -> CallRecords]
  <2>1. \A u \in Threads : op[u].pc = "verify" => op[u].p \in Chunks /\ op[u].p # c
    BY <1>3, CallChunks
  <2>2. \A u \in Threads : op[u].pc = "verify" =>
          size'[op[u].p] = size[op[u].p] /\ (op[u].p \in DOMAIN live => op[u].p \in DOMAIN live')
    BY <1>3, <1>9, <2>1
  <2> QED BY <1>3, <1>15, <1>16, <1>17, <1>19, <2>2, CallsKept
<1>21. Held(t)' = Held(t) \cup {c} /\ OthersHold(t)
  BY <1>4, <1>16, <1>17, <1>18 DEF Held, OthersHold
<1>22. Caches!Next
  <2>1. x \in Sizes
    <3>1. PICK req \in Requests : x = NbFor(req) BY <1>4
    <3> QED BY <3>1 DEF NbFor, Sizes
  <2>2. Cardinality({d \in Held(t) : size[d] = x}) < mp.tcache_count
    BY <1>3, <1>4, <1>5, RoomInBin
  <2> QED BY <1>3, <1>9, <1>21, <2>1, <2>2, AbstractStash
<1>23. TypeOK' BY <1>3, <1>9, <1>15, <1>20 DEF IInv, TypeOK
<1>24. Closed'
  <2>1. ASSUME NEW u \in Threads
        PROVE  /\ shutting_down'[u] => ~tcache'[u]
               /\ op'[u].closing => shutting_down'[u]
               /\ ~tcache'[u] /\ ~op'[u].closing => Cached(u)' = {}
    <3>1. CASE u = t BY <1>3, <1>17, <1>18, <3>1 DEF IInv, Closed
    <3>2. CASE u # t BY <1>3, <1>16, <1>18, <3>2 DEF IInv, Closed
    <3> QED BY <3>1, <3>2
  <2> QED BY <2>1 DEF Closed
<1>25. Sized' BY <1>3, <1>4, <1>9 DEF IInv, Sized
<1>26. Aborts' BY <1>3 DEF Aborts
<1> QED BY <1>3, <1>15, <1>20, <1>22, <1>23, <1>24, <1>25, <1>26 DEF Kept

(* Lemma: what _int_malloc takes is a chunk that it has cached.            *)
LEMMA HeadTaken ==
  ASSUME IInv, NEW t \in Threads, op[t].pc = "arena", op[t].filled,
         NEW i, i = Tidx(op[t].nb),
         GetN(FirstPlace(t, i), Read(FirstPlace(t, i))), mp' = mp, tcache' = tcache,
         size' \in [Chunks -> Nat],
         \A d \in Chunks : d # Read(FirstPlace(t, i)) => size'[d] = size[d]
  PROVE  \E c \in Chunks :
           /\ c = Read(FirstPlace(t, i)) /\ size[c] = op[t].nb /\ tcache[t]
           /\ entries' \in [Threads -> [Bins -> Words]] /\ links' \in [Chunks -> Words]
           /\ key' \in [Chunks -> BOOLEAN]
           /\ num_slots' \in [Threads -> [Bins -> 0 .. MAX_TCACHE_COUNT]]
           /\ Lists' /\ Tagged' /\ Slotted'
           /\ \A u \in Threads \ {t}, j \in Bins : InBin(u, j)' = InBin(u, j)
           /\ c \in Cached(t) /\ Cached(t)' = Cached(t) \ {c}
           /\ \A u \in Threads \ {t} : Cached(u)' = Cached(u)
<1>1. PICK x : x = op[t].nb OBVIOUS
<1>2. x \in ChunkSizes BY <1>1, Stands
<1>3. tcache[t] /\ Small(x) /\ Cacheable(x) /\ InBin(t, i) # {}
  <2>1. CallOK(t) BY DEF IInv, Calls
  <2> QED BY <1>1, <2>1 DEF CallOK
<1>4. i \in Bins /\ i = Tidx(x) BY <1>1, <1>2, <1>3, CacheableBin DEF IInv
<1>5. PICK n, s : Bin(t, i, n, s) /\ n \in Nat /\ s \in [1 .. n -> Chunks]
                 /\ InBin(t, i) = Elems(n, s)
  BY <1>4, BinIs
<1>6. PICK k \in 1 .. n : k = 1
  <2>1. n # 0 BY <1>3, <1>5 DEF Elems
  <2> QED BY <1>5, <2>1
<1>7. Read(FirstPlace(t, i)) = s[k] /\ FirstPlace(t, i) = PlaceOf(t, i, s, k)
  <2>1. k \in 1 .. (n + 1) BY <1>5
  <2>2. Chain(entries[t][i], links, n, s) BY <1>5 DEF Bin
  <2>3. Read(PlaceOf(t, i, s, k)) = Met(n, s, k) BY <2>1, <2>2, ChainRead
  <2> QED BY <1>6, <2>3 DEF PlaceOf, Met
<1>8. PICK c \in Chunks : c = s[k] BY <1>5
<1>9. GetN(PlaceOf(t, i, s, k), s[k]) BY <1>7
<1>10. /\ entries' \in [Threads -> [Bins -> Words]] /\ links' \in [Chunks -> Words]
       /\ key' \in [Chunks -> BOOLEAN]
       /\ num_slots' \in [Threads -> [Bins -> 0 .. MAX_TCACHE_COUNT]]
       /\ Lists' /\ Tagged' /\ Slotted'
       /\ InBin(t, i)' = InBin(t, i) \ {c} /\ c \in InBin(t, i)
       /\ \A u \in Threads, j \in Bins : u # t \/ j # i => InBin(u, j)' = InBin(u, j)
  BY <1>3, <1>4, <1>5, <1>7, <1>8, <1>9, GetKeeps
<1>11. /\ c \in Cached(t) /\ Cached(t)' = Cached(t) \ {c}
       /\ \A u \in Threads \ {t} : Cached(u)' = Cached(u)
  BY <1>4, <1>10, CachedTake
<1>12. size[c] = x BY <1>2, <1>3, <1>4, <1>10, SmallBinSize
<1> QED BY <1>1, <1>3, <1>7, <1>8, <1>10, <1>11, <1>12

(* Lemma: _int_malloc takes one of them back (ReturnCached).               *)
LEMMA ReturnCachedKept ==
  ASSUME IInv, NEW t \in Threads, ReturnCached(t)
  PROVE  Kept
<1>1. PICK req : req = op[t].req OBVIOUS
<1>2. PICK x : x = op[t].nb OBVIOUS
<1>3. /\ ~aborted /\ op[t].pc = "arena" /\ op[t].filled /\ req.al = MALLOC_ALIGNMENT
      /\ GetN(FirstPlace(t, Tidx(x)), Read(FirstPlace(t, Tidx(x))))
      /\ live' = With(live, Read(FirstPlace(t, Tidx(x))), req)
      /\ op' = [op EXCEPT ![t] = Idle]
      /\ UNCHANGED <<mp, tcache, shutting_down, size, pool, aborted>>
  BY <1>1, <1>2 DEF ReturnCached, At, Goto
<1>4. /\ req \in Requests /\ x = NbFor(req) /\ x \in ChunkSizes /\ ~op[t].closing
      /\ Held(t) = Cached(t) /\ op \in [Threads -> CallRecords] /\ size \in [Chunks -> Nat]
  BY <1>1, <1>2, <1>3, Stands DEF IInv, TypeOK
<1>5. x = Request2size(req.bytes) BY <1>3, <1>4 DEF NbFor, MALLOC_ALIGNMENT
<1>6. PICK c \in Chunks :
        /\ c = Read(FirstPlace(t, Tidx(x))) /\ size[c] = x /\ tcache[t]
        /\ entries' \in [Threads -> [Bins -> Words]] /\ links' \in [Chunks -> Words]
        /\ key' \in [Chunks -> BOOLEAN]
        /\ num_slots' \in [Threads -> [Bins -> 0 .. MAX_TCACHE_COUNT]]
        /\ Lists' /\ Tagged' /\ Slotted'
        /\ \A u \in Threads \ {t}, j \in Bins : InBin(u, j)' = InBin(u, j)
        /\ c \in Cached(t) /\ Cached(t)' = Cached(t) \ {c}
        /\ \A u \in Threads \ {t} : Cached(u)' = Cached(u)
  BY <1>1, <1>2, <1>3, <1>4, HeadTaken
<1>7. live' = With(live, c, req) BY <1>3, <1>6
<1>8. op'[t] = Idle /\ \A u \in Threads \ {t} : op'[u] = op[u] BY <1>3, <1>4
<1>9. Held(t)' = Cached(t)' /\ \A u \in Threads \ {t} : Held(u)' = Held(u)
  BY <1>6, <1>8, IdleCall DEF Held
<1>10. c % req.al = 0
  <2>1. c % MALLOC_ALIGNMENT = 0 BY TcacheAssumption
  <2> QED BY <1>3, <2>1
<1>11. Caches!Next
  <2>1. size[c] >= Request2size(req.bytes) BY <1>4, <1>5, <1>6 DEF ChunkSizes
  <2>2. c \in Held(t) /\ Held(t)' = Held(t) \ {c} /\ OthersHold(t)
    BY <1>4, <1>6, <1>9 DEF OthersHold
  <2> QED BY <1>3, <1>4, <1>7, <1>10, <2>1, <2>2, AbstractHit
<1>12. CallOK(t)' BY <1>8, IdleCallNext
<1>13. DOMAIN live' = DOMAIN live \cup {c} BY <1>7 DEF With
<1>14. Calls' /\ op' \in [Threads -> CallRecords]
  BY <1>3, <1>6, <1>12, <1>13, IdleCall, CallsKept
<1>15. TypeOK'
  <2>1. live' \in [DOMAIN live' -> Requests] /\ DOMAIN live' \subseteq Chunks
    BY <1>4, <1>7, <1>13 DEF With, IInv, TypeOK
  <2> QED BY <1>3, <1>6, <1>14, <2>1 DEF IInv, TypeOK
<1>16. Closed' BY <1>3, <1>4, <1>6, <1>8, IdleCall DEF IInv, Closed
<1>17. Sized' BY <1>3 DEF IInv, Sized
<1>18. Aborts' BY <1>3 DEF Aborts
<1> QED BY <1>3, <1>6, <1>11, <1>14, <1>15, <1>16, <1>17, <1>18 DEF Kept

(* Lemma: memalign takes one of them to cut it (TakeBack).                 *)
LEMMA TakeBackKept ==
  ASSUME IInv, NEW t \in Threads, TakeBack(t)
  PROVE  Kept
<1>1. PICK x : x = op[t].nb OBVIOUS
<1>2. PICK c : c = Read(FirstPlace(t, Tidx(x))) OBVIOUS
<1>3. PICK call : call = [op[t] EXCEPT !.pc = "cut", !.filled = FALSE] OBVIOUS
<1>4. /\ ~aborted /\ op[t].pc = "arena" /\ op[t].filled
      /\ GetN(FirstPlace(t, Tidx(x)), c)
      /\ pool' = pool \cup {c} /\ size' = [size EXCEPT ![c] = 0]
      /\ op' = [op EXCEPT ![t] = call]
      /\ UNCHANGED <<mp, tcache, shutting_down, live, aborted>>
  BY <1>1, <1>2, <1>3 DEF TakeBack, At, Goto
<1>5. /\ op[t] \in CallRecords /\ op[t].req \in Requests /\ x = NbFor(op[t].req)
      /\ x \in ChunkSizes /\ ~op[t].closing /\ op[t].p = None
      /\ Held(t) = Cached(t) /\ op \in [Threads -> CallRecords]
  BY <1>1, <1>4, Stands DEF IInv, TypeOK
<1>6. /\ size' \in [Chunks -> Nat] /\ \A d \in Chunks : d # c => size'[d] = size[d]
      /\ c \in Chunks => size'[c] = 0
  BY <1>4 DEF IInv, TypeOK
<1>7. /\ c \in Chunks /\ tcache[t]
      /\ entries' \in [Threads -> [Bins -> Words]] /\ links' \in [Chunks -> Words]
      /\ key' \in [Chunks -> BOOLEAN]
      /\ num_slots' \in [Threads -> [Bins -> 0 .. MAX_TCACHE_COUNT]]
      /\ Lists' /\ Tagged' /\ Slotted'
      /\ \A u \in Threads \ {t}, j \in Bins : InBin(u, j)' = InBin(u, j)
      /\ c \in Cached(t) /\ Cached(t)' = Cached(t) \ {c}
      /\ \A u \in Threads \ {t} : Cached(u)' = Cached(u)
  BY <1>1, <1>2, <1>4, <1>6, HeadTaken
<1>8. /\ call \in CallRecords /\ call.pc = "cut" /\ call.req = op[t].req /\ call.nb = x
      /\ call.p = None /\ ~call.closing /\ ~call.filled
  BY <1>1, <1>3, <1>4, <1>5 DEF CallRecords
<1>9. op'[t] = call /\ \A u \in Threads \ {t} : op'[u] = op[u] BY <1>4, <1>5
<1>10. Held(t)' = Cached(t)' /\ \A u \in Threads \ {t} : Held(u)' = Held(u)
  BY <1>7, <1>8, <1>9 DEF Held
<1>11. Caches!Next
  <2>1. c \in Held(t) /\ Held(t)' = Held(t) \ {c} /\ OthersHold(t)
    BY <1>5, <1>7, <1>10 DEF OthersHold
  <2> QED BY <1>4, <2>1, AbstractDrop
<1>12. CallOK(t)' BY <1>5, <1>8, <1>9 DEF CallOK
<1>13. Calls' /\ op' \in [Threads -> CallRecords]
  <2>1. c \in Held(t) BY <1>5, <1>7
  <2>2. \A u \in Threads \ {t} : op[u].pc = "verify" => op[u].p \in Chunks /\ op[u].p # c
    BY <2>1, CallChunks
  <2>3. \A u \in Threads \ {t} : op[u].pc = "verify" =>
          size'[op[u].p] = size[op[u].p] /\ (op[u].p \in DOMAIN live => op[u].p \in DOMAIN live')
    BY <1>4, <1>6, <2>2
  <2> QED BY <1>4, <1>7, <1>8, <1>12, <2>3, CallsKept
<1>14. TypeOK' BY <1>4, <1>6, <1>7, <1>13 DEF IInv, TypeOK
<1>15. Closed'
  <2>1. ASSUME NEW u \in Threads
        PROVE  /\ shutting_down'[u] => ~tcache'[u]
               /\ op'[u].closing => shutting_down'[u]
               /\ ~tcache'[u] /\ ~op'[u].closing => Cached(u)' = {}
    <3>1. CASE u = t BY <1>4, <1>7, <1>8, <1>9, <3>1 DEF IInv, Closed
    <3>2. CASE u # t BY <1>4, <1>7, <1>9, <3>2 DEF IInv, Closed
    <3> QED BY <3>1, <3>2
  <2> QED BY <2>1 DEF Closed
<1>16. Sized'
  <2>1. ASSUME NEW d \in Chunks \ pool' PROVE size'[d] \in ChunkSizes
    BY <1>4, <1>6, <2>1 DEF IInv, Sized
  <2> QED BY <2>1 DEF Sized
<1>17. Aborts' BY <1>4 DEF Aborts
<1> QED BY <1>4, <1>7, <1>11, <1>13, <1>14, <1>15, <1>16, <1>17 DEF Kept

-----------------------------------------------------------------------------
(* What free does (LibcFree).                                              *)

(* Lemma: no other thread is about to free a chunk that one thread holds.  *)
LEMMA HeldAlone ==
  ASSUME IInv, NEW t \in Threads, NEW c \in Held(t)
  PROVE  \A u \in Threads \ {t} : op[u].p # c
<1>1. ASSUME NEW u \in Threads \ {t}, op[u].p = c PROVE FALSE
  <2>1. c \in Chunks /\ c # None /\ c \notin Held(u) /\ c \notin DOMAIN live
    BY CallChunks, TcacheAssumption
  <2>2. op[u] \in CallRecords /\ CallOK(u) BY DEF IInv, TypeOK, Calls
  <2>3. op[u].pc \in {"idle", "init", "arena", "cut", "verify", "shutdown", "shutdown_free"}
    BY <2>2 DEF CallRecords
  <2>4. op[u].pc = "idle" => op[u].p = None BY Stands, IdleCall
  <2>5. op[u].pc \in {"init", "arena", "cut"} => op[u].p = None BY Stands
  <2>6. op[u].pc = "shutdown" => op[u].p = None BY <2>2 DEF CallOK
  <2>7. op[u].pc = "verify" => op[u].p \in Held(u) \cup DOMAIN live BY CallChunks
  <2>8. op[u].pc = "shutdown_free" => op[u].p \in Held(u)
    BY <1>1, <2>1, Stands DEF Held
  <2> QED BY <1>1, <2>1, <2>3, <2>4, <2>5, <2>6, <2>7, <2>8
<1> QED BY <1>1

(* Lemma: c seems to be cached already, and that is to be checked.         *)
LEMMA VerifyKept ==
  ASSUME IInv, NEW t \in Threads, NEW c \in Chunks,
         ~aborted, op[t] = Idle, tcache[t], Cacheable(size[c]),
         c \in Cached(t) \cup DOMAIN live, \A u \in Threads \ {t} : op[u].p # c,
         op' = [op EXCEPT ![t] = [Idle EXCEPT !.pc = "verify", !.p = c]],
         key' = [key EXCEPT ![c] = TRUE],
         UNCHANGED <<mp, tcache, shutting_down, num_slots, entries, links>>,
         UNCHANGED <<size, pool, live, aborted>>
  PROVE  Kept
<1>1. PICK call : call = [Idle EXCEPT !.pc = "verify", !.p = c] OBVIOUS
<1>2. /\ call \in CallRecords /\ call.pc = "verify" /\ call.p = c /\ ~call.closing /\ ~call.filled
  BY <1>1 DEF Idle, CallRecords
<1>3. key' \in [Chunks -> BOOLEAN] /\ \A d \in Chunks : key[d] => key'[d]
  BY DEF IInv, TypeOK
<1>4. /\ Lists' /\ Tagged'
      /\ \A u \in Threads, i \in Bins : InBin(u, i)' = InBin(u, i)
  BY <1>3, BinsKept
<1>5. \A u \in Threads : Cached(u)' = Cached(u) BY <1>4, CachedKept
<1>6. Slotted' BY <1>4, SlotsKept
<1>7. op' = [op EXCEPT ![t] = call] /\ op \in [Threads -> CallRecords]
  BY <1>1 DEF IInv, TypeOK
<1>8. op'[t] = call /\ \A u \in Threads \ {t} : op'[u] = op[u] BY <1>7
<1>9. CallOK(t)'
  <2>1. tcache'[t] /\ size'[c] < mp'.tcache_max_bytes /\ c \in Cached(t)' \cup DOMAIN live'
    BY <1>5 DEF Cacheable
  <2> QED BY <1>2, <1>8, <2>1 DEF CallOK, Cacheable
<1>10. Calls' /\ op' \in [Threads -> CallRecords] BY <1>2, <1>4, <1>5, <1>7, <1>9, CallsKept, ZenonT(40)
<1>11. \A u \in Threads : Held(u)' = Held(u) BY <1>2, <1>5, <1>8, IdleCall DEF Held
<1>12. UNCHANGED Caches!vars BY <1>11, AbstractStays
<1>13. TypeOK' BY <1>3, <1>10 DEF IInv, TypeOK
<1>14. Closed' BY <1>2, <1>5, <1>8, IdleCall DEF IInv, Closed
<1>15. Sized' /\ Aborts' BY DEF IInv, Sized, Aborts
<1> QED BY <1>4, <1>6, <1>10, <1>12, <1>13, <1>14, <1>15 DEF Kept

(* Lemma: free puts the program's c into the cache.                        *)
LEMMA PutKept ==
  ASSUME IInv, NEW t \in Threads, NEW c \in DOMAIN live,
         ~aborted, ~op[t].closing, tcache[t], Cacheable(size[c]), HasSlot(t, size[c]),
         \A u \in Threads \ {t} : op[u].p # c,
         PutN(IF Small(size[c]) THEN FirstPlace(t, Tidx(size[c]))
              ELSE LocationLarge(t, Tidx(size[c]), size[c]), c),
         live' = Without(live, c), op' = [op EXCEPT ![t] = Idle],
         UNCHANGED <<mp, tcache, shutting_down, size, pool, aborted>>
  PROVE  Kept
<1>1. PICK x : x = size[c] OBVIOUS
<1>2. c \in Chunks /\ c \notin pool /\ \A u \in Threads, j \in Bins : c \notin InBin(u, j)
  BY BinsApart, CallChunks DEF IInv, TypeOK
<1>3. x \in ChunkSizes /\ Cacheable(x) BY <1>1, <1>2 DEF IInv, Sized
<1>4. Tidx(x) \in Bins BY <1>3, CacheableBin DEF IInv
<1>5. PICK i \in Bins : i = Tidx(x) BY <1>4
<1>6. PICK n, s : Bin(t, i, n, s) /\ n \in Nat /\ s \in [1 .. n -> Chunks]
                 /\ InBin(t, i) = Elems(n, s)
  BY BinIs
<1>7. size \in [Chunks -> Nat] /\ \A j \in 1 .. n : s[j] \in Chunks /\ size[s[j]] \in Nat
  BY <1>6 DEF IInv, TypeOK
<1>8. PICK at : at = IF Small(x) THEN FirstPlace(t, i) ELSE LocationLarge(t, i, x) OBVIOUS
<1>9. PutN(at, c) BY <1>1, <1>5, <1>8
<1>10. \E k \in 1 .. (n + 1) :
         /\ at = PlaceOf(t, i, s, k)
         /\ \A j \in 1 .. n : IF j < k THEN size[s[j]] <= x ELSE x <= size[s[j]]
  <2>1. CASE Small(x)
    <3>1. 1 \in 1 .. (n + 1) /\ at = PlaceOf(t, i, s, 1) BY <1>6, <1>8, <2>1 DEF PlaceOf
    <3>2. \A j \in 1 .. n : size[s[j]] = x /\ ~(j < 1)
      <4>1. \A j \in 1 .. n : s[j] \in InBin(t, Tidx(x)) BY <1>5, <1>6 DEF Elems
      <4>2. \A j \in 1 .. n : ~(j < 1) BY <1>6
      <4> QED BY <1>3, <1>4, <2>1, <4>1, <4>2, SmallBinSize
    <3>3. x \in Nat BY <1>3 DEF ChunkSizes
    <3> QED BY <3>1, <3>2, <3>3
  <2>2. CASE ~Small(x)
    <3> DEFINE stops == {d \in Chunks : size[d] >= x}
    <3>1. at = Location(t, i, stops) BY <1>8, <2>2 DEF LocationLarge
    <3> HIDE DEF stops
    <3>2. Chain(entries[t][i], links, n, s) /\ Ascending(size, n, s) BY <1>6 DEF Bin
    <3>3. PICK k \in 1 .. (n + 1) :
            /\ Location(t, i, stops) = PlaceOf(t, i, s, k)
            /\ k \in 1 .. n => s[k] \in stops
            /\ \A j \in 1 .. n : j < k => s[j] \notin stops
      BY <3>2, ChainSearch
    <3>4. x \in Nat /\ \A d \in Chunks : d \in stops <=> size[d] >= x
      BY <1>3 DEF stops, ChunkSizes
    <3>5. ASSUME NEW j \in 1 .. n PROVE IF j < k THEN size[s[j]] <= x ELSE x <= size[s[j]]
      <4>1. CASE j < k
        <5>1. ~(size[s[j]] >= x) BY <1>7, <3>3, <3>4, <4>1
        <5> QED BY <1>7, <3>4, <4>1, <5>1
      <4>2. CASE ~(j < k)
        <5>1. k \in 1 .. n BY <1>6, <4>2
        <5>2. size[s[k]] >= x /\ size[s[k]] \in Nat BY <1>7, <3>3, <3>4, <5>1
        <5>3. size[s[k]] <= size[s[j]]
          <6>1. j = k \/ k < j BY <4>2, <5>1
          <6> QED BY <3>2, <5>1, <5>2, <6>1 DEF Ascending
        <5> QED BY <1>7, <3>4, <4>2, <5>2, <5>3
      <4> QED BY <4>1, <4>2
    <3> QED BY <3>1, <3>3, <3>5
  <2> QED BY <2>1, <2>2
<1>11. PICK k \in 1 .. (n + 1) :
         /\ at = PlaceOf(t, i, s, k)
         /\ \A j \in 1 .. n : IF j < k THEN size[s[j]] <= x ELSE x <= size[s[j]]
  BY <1>10
<1>12. PutN(PlaceOf(t, i, s, k), c) BY <1>9, <1>11
<1>13. /\ size' \in [Chunks -> Nat] /\ \A d \in Chunks : d # c => size'[d] = size[d]
       /\ Tidx(size'[c]) = i /\ Cacheable(size'[c]) /\ num_slots[t][i] # 0
       /\ \A j \in 1 .. n : IF j < k THEN size[s[j]] <= size'[c] ELSE size'[c] <= size[s[j]]
  BY <1>1, <1>3, <1>5, <1>7, <1>11 DEF HasSlot
<1>14. /\ entries' \in [Threads -> [Bins -> Words]] /\ links' \in [Chunks -> Words]
       /\ key' \in [Chunks -> BOOLEAN]
       /\ num_slots' \in [Threads -> [Bins -> 0 .. MAX_TCACHE_COUNT]]
       /\ Lists' /\ Tagged' /\ Slotted'
       /\ InBin(t, i)' = InBin(t, i) \cup {c}
       /\ \A u \in Threads, j \in Bins : u # t \/ j # i => InBin(u, j)' = InBin(u, j)
  BY <1>2, <1>6, <1>12, <1>13, PutKeeps
<1>15. /\ Cached(t)' = Cached(t) \cup {c}
       /\ \A u \in Threads \ {t} : Cached(u)' = Cached(u)
  BY <1>14, CachedPut
<1>16. op \in [Threads -> CallRecords] /\ Held(t) = Cached(t) BY Stands DEF IInv, TypeOK
<1>17. op'[t] = Idle /\ \A u \in Threads \ {t} : op'[u] = op[u] BY <1>16
<1>18. Held(t)' = Held(t) \cup {c} /\ OthersHold(t)
  BY <1>15, <1>16, <1>17, IdleCall DEF Held, OthersHold
<1>19. Caches!Next
  <2>1. Cardinality({d \in Held(t) : size[d] = size[c]}) < mp.tcache_count
    BY <1>1, <1>4, <1>5, <1>13, <1>16, RoomInBin
  <2> QED BY <1>18, <2>1, AbstractKeep
<1>20. DOMAIN live' = DOMAIN live \ {c} BY DEF Without
<1>21. CallOK(t)' BY <1>17, IdleCallNext
<1>22. Calls' /\ op' \in [Threads -> CallRecords]
  BY <1>14, <1>15, <1>20, <1>21, IdleCall, CallsKept
<1>23. TypeOK'
  <2>1. live' \in [DOMAIN live' -> Requests] /\ DOMAIN live' \subseteq Chunks
    BY <1>20 DEF Without, IInv, TypeOK
  <2> QED BY <1>14, <1>22, <2>1 DEF IInv, TypeOK
<1>24. Closed'
  <2>1. ASSUME NEW u \in Threads
        PROVE  /\ shutting_down'[u] => ~tcache'[u]
               /\ op'[u].closing => shutting_down'[u]
               /\ ~tcache'[u] /\ ~op'[u].closing => Cached(u)' = {}
    <3>1. CASE u = t BY <1>17, <3>1, IdleCall DEF IInv, Closed
    <3>2. CASE u # t BY <1>15, <1>17, <3>2 DEF IInv, Closed
    <3> QED BY <3>1, <3>2
  <2> QED BY <2>1 DEF Closed
<1>25. Sized' /\ Aborts' BY DEF IInv, Sized, Aborts
<1> QED BY <1>14, <1>19, <1>22, <1>23, <1>24, <1>25 DEF Kept

(* Lemma: free gives the program's c back to the arena.                    *)
LEMMA ReleaseKept ==
  ASSUME IInv, NEW t \in Threads, NEW c \in DOMAIN live,
         ~aborted, ~op[t].closing, \A u \in Threads \ {t} : op[u].p # c,
         pool' = pool \cup {c}, size' = [size EXCEPT ![c] = 0],
         key' = [key EXCEPT ![c] = FALSE], live' = Without(live, c),
         op' = [op EXCEPT ![t] = Idle],
         UNCHANGED <<mp, tcache, shutting_down, num_slots, entries, links, aborted>>
  PROVE  Kept
<1>1. c \in Chunks /\ \A u \in Threads, i \in Bins : c \notin InBin(u, i)
  BY BinsApart DEF IInv, TypeOK
<1>2. /\ size' \in [Chunks -> Nat] /\ key' \in [Chunks -> BOOLEAN] /\ size'[c] = 0
      /\ \A d \in Chunks : d # c => size'[d] = size[d] /\ key'[d] = key[d]
  BY <1>1 DEF IInv, TypeOK
<1>3. /\ Lists' /\ Tagged'
      /\ \A u \in Threads, i \in Bins : InBin(u, i)' = InBin(u, i)
  BY <1>1, <1>2, BinsKept
<1>4. \A u \in Threads : Cached(u)' = Cached(u) BY <1>3, CachedKept
<1>5. Slotted' BY <1>3, SlotsKept
<1>6. op \in [Threads -> CallRecords] BY DEF IInv, TypeOK
<1>7. op'[t] = Idle /\ \A u \in Threads \ {t} : op'[u] = op[u] BY <1>6
<1>8. CallOK(t)' BY <1>7, IdleCallNext
<1>9. DOMAIN live' = DOMAIN live \ {c} BY DEF Without
<1>10. Calls' /\ op' \in [Threads -> CallRecords]
  <2>1. \A u \in Threads : op[u].pc = "verify" => op[u].p \in Chunks BY CallChunks
  <2>2. \A u \in Threads \ {t} : op[u].pc = "verify" =>
          size'[op[u].p] = size[op[u].p] /\ (op[u].p \in DOMAIN live => op[u].p \in DOMAIN live')
    BY <1>2, <1>9, <2>1
  <2> QED BY <1>3, <1>4, <1>8, <2>2, IdleCall, CallsKept
<1>11. \A u \in Threads : Held(u)' = Held(u) BY <1>4, <1>7, IdleCall DEF Held
<1>12. Caches!Next BY <1>11, AbstractRelease
<1>13. TypeOK'
  <2>1. live' \in [DOMAIN live' -> Requests] /\ DOMAIN live' \subseteq Chunks
    BY <1>9 DEF Without, IInv, TypeOK
  <2> QED BY <1>1, <1>2, <1>10, <2>1 DEF IInv, TypeOK
<1>14. Closed' BY <1>4, <1>7, IdleCall DEF IInv, Closed
<1>15. Sized' BY <1>2 DEF IInv, Sized
<1>16. Aborts' BY DEF Aborts
<1> QED BY <1>3, <1>5, <1>10, <1>12, <1>13, <1>14, <1>15, <1>16 DEF Kept

(* Lemma: what the three ways of __libc_free are.                          *)
LEMMA LibcFreeIs ==
  ASSUME NEW t, NEW c, NEW looks \in BOOLEAN, NEW call, LibcFree(t, c, looks, call)
  PROVE  \/ /\ Cacheable(size[c]) /\ tcache[t] /\ looks
            /\ op' = [op EXCEPT ![t] = [op[t] EXCEPT !.pc = "verify", !.p = c]]
            /\ key' = [key EXCEPT ![c] = TRUE]
            /\ UNCHANGED <<num_slots, entries, links, size, pool, live>>
         \/ /\ Cacheable(size[c]) /\ tcache[t] /\ ~looks /\ HasSlot(t, size[c])
            /\ PutN(IF Small(size[c]) THEN FirstPlace(t, Tidx(size[c]))
                    ELSE LocationLarge(t, Tidx(size[c]), size[c]), c)
            /\ live' = Without(live, c)
            /\ op' = [op EXCEPT ![t] = call]
            /\ UNCHANGED <<size, pool>>
         \/ /\ Cacheable(size[c]) /\ tcache[t] => ~looks
            /\ pool' = pool \cup {c} /\ size' = [size EXCEPT ![c] = 0]
            /\ key' = [key EXCEPT ![c] = FALSE]
            /\ live' = Without(live, c)
            /\ op' = [op EXCEPT ![t] = call]
            /\ UNCHANGED <<num_slots, entries, links>>
BY Zenon DEF LibcFree, Goto

(* Lemma: the program frees a chunk of its own (Free).                     *)
LEMMA FreeKept ==
  ASSUME IInv, NEW t \in Threads, NEW c \in Chunks, Free(t, c)
  PROVE  Kept
<1>1. /\ ~aborted /\ op[t].pc = "idle" /\ c \in DOMAIN live /\ \A u \in Threads : op[u].p # c
      /\ UNCHANGED <<mp, tcache, shutting_down, aborted>>
  BY DEF Free, At
<1>2. PICK looks \in BOOLEAN : LibcFree(t, c, looks, Idle) BY DEF Free
<1>3. op[t] = Idle /\ ~op[t].closing BY <1>1, Stands, IdleCall
<1>4. CASE /\ Cacheable(size[c]) /\ tcache[t]
           /\ op' = [op EXCEPT ![t] = [op[t] EXCEPT !.pc = "verify", !.p = c]]
           /\ key' = [key EXCEPT ![c] = TRUE]
           /\ UNCHANGED <<num_slots, entries, links, size, pool, live>>
  BY <1>1, <1>3, <1>4, VerifyKept
<1>5. CASE /\ Cacheable(size[c]) /\ tcache[t] /\ HasSlot(t, size[c])
           /\ PutN(IF Small(size[c]) THEN FirstPlace(t, Tidx(size[c]))
                   ELSE LocationLarge(t, Tidx(size[c]), size[c]), c)
           /\ live' = Without(live, c)
           /\ op' = [op EXCEPT ![t] = Idle]
           /\ UNCHANGED <<size, pool>>
  BY <1>1, <1>3, <1>5, PutKept
<1>6. CASE /\ pool' = pool \cup {c} /\ size' = [size EXCEPT ![c] = 0]
           /\ key' = [key EXCEPT ![c] = FALSE]
           /\ live' = Without(live, c)
           /\ op' = [op EXCEPT ![t] = Idle]
           /\ UNCHANGED <<num_slots, entries, links>>
  BY <1>1, <1>3, <1>6, ReleaseKept
<1>7. \/ /\ Cacheable(size[c]) /\ tcache[t]
         /\ op' = [op EXCEPT ![t] = [op[t] EXCEPT !.pc = "verify", !.p = c]]
         /\ key' = [key EXCEPT ![c] = TRUE]
         /\ UNCHANGED <<num_slots, entries, links, size, pool, live>>
      \/ /\ Cacheable(size[c]) /\ tcache[t] /\ HasSlot(t, size[c])
         /\ PutN(IF Small(size[c]) THEN FirstPlace(t, Tidx(size[c]))
                 ELSE LocationLarge(t, Tidx(size[c]), size[c]), c)
         /\ live' = Without(live, c)
         /\ op' = [op EXCEPT ![t] = Idle]
         /\ UNCHANGED <<size, pool>>
      \/ /\ pool' = pool \cup {c} /\ size' = [size EXCEPT ![c] = 0]
         /\ key' = [key EXCEPT ![c] = FALSE]
         /\ live' = Without(live, c)
         /\ op' = [op EXCEPT ![t] = Idle]
         /\ UNCHANGED <<num_slots, entries, links>>
  BY <1>2, Zenon DEF LibcFree, Goto
<1> QED BY <1>4, <1>5, <1>6, <1>7, Zenon

(* Lemma: what a thread that has a cache knows of the chunks in it.        *)
LEMMA CachedIs ==
  ASSUME IInv, NEW t \in Threads, NEW c \in Cached(t)
  PROVE  /\ c \in Chunks /\ c \in Held(t) /\ key[c] /\ Cacheable(size[c])
         /\ ~op[t].closing => tcache[t]
<1>1. PICK i \in Bins : c \in InBin(t, i) BY DEF Cached
<1>2. key[c] /\ Cacheable(size[c]) BY <1>1 DEF IInv, Tagged
<1>3. c \in Chunks /\ c \in Held(t) BY CallChunks
<1>4. ~op[t].closing => tcache[t] BY DEF IInv, Closed, TypeOK
<1> QED BY <1>2, <1>3, <1>4

(* Lemma: the program frees a chunk that is cached (FreeAgain).            *)
LEMMA FreeAgainKept ==
  ASSUME IInv, NEW t \in Threads, NEW c \in Chunks, FreeAgain(t, c)
  PROVE  Kept
<1>1. /\ ~aborted /\ op[t].pc = "idle" /\ c \in Cached(t)
      /\ LibcFree(t, c, key[c], Idle)
      /\ UNCHANGED <<mp, tcache, shutting_down, aborted>>
  BY DEF FreeAgain, At
<1>2. op[t] = Idle /\ ~op[t].closing BY <1>1, Stands, IdleCall
<1>3. key[c] /\ key[c] \in BOOLEAN /\ Cacheable(size[c]) /\ tcache[t] /\ c \in Held(t)
  BY <1>1, <1>2, CachedIs DEF IInv, TypeOK
<1>4. /\ op' = [op EXCEPT ![t] = [op[t] EXCEPT !.pc = "verify", !.p = c]]
      /\ key' = [key EXCEPT ![c] = TRUE]
      /\ UNCHANGED <<num_slots, entries, links, size, pool, live>>
  <2>1. PICK looks \in BOOLEAN : looks = key[c] /\ looks BY <1>3
  <2>2. LibcFree(t, c, looks, Idle) BY <1>1, <2>1
  <2> QED BY <1>3, <2>1, <2>2, LibcFreeIs
<1>5. \A u \in Threads \ {t} : op[u].p # c BY <1>3, HeldAlone
<1> QED BY <1>1, <1>2, <1>3, <1>4, <1>5, VerifyKept

(* Lemma: what the check for a double free finds is one (TooMany).         *)
LEMMA CaughtCached ==
  ASSUME IInv, NEW t \in Threads, op[t].pc = "verify"
  PROVE  /\ (\E i \in Bins : op[t].p \in InBin(t, i) \/ TooMany(t, i)) <=> op[t].p \in Cached(t)
         /\ tcache[t] /\ op[t].p \in Chunks
<1>1. tcache[t] /\ op[t].p \in Chunks BY DEF IInv, Calls, CallOK
<1>2. ASSUME NEW i \in Bins PROVE ~TooMany(t, i)
  <2>1. Cardinality(InBin(t, i)) + num_slots[t][i] = mp.tcache_count
    BY <1>1 DEF IInv, Slotted
  <2>2. Cardinality(InBin(t, i)) \in Nat BY BinsFinite
  <2>3. num_slots[t][i] \in 0 .. MAX_TCACHE_COUNT BY DEF IInv, TypeOK
  <2>4. PICK a \in Nat : a = num_slots[t][i] BY <2>3, SizesAssumption
  <2>5. ~(Cardinality(InBin(t, i)) > mp.tcache_count) BY <2>1, <2>2, <2>4
  <2> QED BY <2>5 DEF TooMany
<1> QED BY <1>1, <1>2 DEF Cached

(* Lemma: the check ends the process or frees c (DoubleFreeVerify).        *)
LEMMA DoubleFreeVerifyKept ==
  ASSUME IInv, NEW t \in Threads, DoubleFreeVerify(t)
  PROVE  Kept
<1>1. PICK c : c = op[t].p OBVIOUS
<1>2. /\ ~aborted /\ op[t].pc = "verify"
      /\ UNCHANGED <<mp, tcache, shutting_down>>
      /\ \/ /\ \E i \in Bins : c \in InBin(t, i) \/ TooMany(t, i)
            /\ aborted' = TRUE
            /\ UNCHANGED <<num_slots, entries, links, key, size, pool, live, op>>
         \/ /\ ~\E i \in Bins : c \in InBin(t, i) \/ TooMany(t, i)
            /\ LibcFree(t, c, FALSE, Return(t))
            /\ UNCHANGED aborted
  BY <1>1, Zenon DEF DoubleFreeVerify, At
<1>3. /\ (\E i \in Bins : c \in InBin(t, i) \/ TooMany(t, i)) <=> c \in Cached(t)
      /\ tcache[t] /\ c \in Chunks
  BY <1>1, <1>2, CaughtCached
<1>4. ~op[t].closing /\ Held(t) = Cached(t) /\ op \in [Threads -> CallRecords]
  BY <1>2, Stands DEF IInv, TypeOK
<1>5. CASE /\ c \in Cached(t) /\ aborted' = TRUE
           /\ UNCHANGED <<num_slots, entries, links, key, size, pool, live, op>>
  <2>1. /\ Lists' /\ Tagged'
        /\ \A u \in Threads, i \in Bins : InBin(u, i)' = InBin(u, i)
        /\ \A u \in Threads : Cached(u)' = Cached(u)
    BY <1>2, <1>5, QuietKeeps
  <2>2. Slotted' BY <1>2, <1>5, <2>1, SlotsKept
  <2>3. PICK call \in CallRecords : call = op[t] BY <1>4
  <2>4. op' = [op EXCEPT ![t] = call] /\ op'[t] = call BY <1>4, <1>5, <2>3
  <2>5. /\ call.pc = "verify" /\ ~call.filled /\ ~call.closing /\ call.p = c
        /\ tcache'[t] /\ size'[c] < mp'.tcache_max_bytes /\ c \in Cached(t)' \cup DOMAIN live'
    <3>1. CallOK(t) BY DEF IInv, Calls
    <3>2. ~op[t].filled /\ Cacheable(size[op[t].p]) BY <1>2, <3>1 DEF CallOK
    <3> QED BY <1>1, <1>2, <1>3, <1>4, <1>5, <2>1, <2>3, <3>2 DEF Cacheable
  <2>6. CallOK(t)' BY <1>3, <2>4, <2>5 DEF CallOK, Cacheable
  <2>7. \A u \in Threads \ {t} : op[u].p # c BY <1>4, <1>5, HeldAlone
  <2>8. Calls' BY <1>2, <1>5, <2>1, <2>4, <2>5, <2>6, <2>7, CallsKept
  <2>9. \A u \in Threads : Held(u)' = Held(u) BY <1>5, <2>1 DEF Held
  <2>10. UNCHANGED Caches!vars BY <1>2, <1>5, <2>9, AbstractStays
  <2>11. TypeOK' BY <1>2, <1>5 DEF IInv, TypeOK
  <2>12. Closed' BY <1>2, <1>5, <2>1 DEF IInv, Closed
  <2>13. Sized' BY <1>5 DEF IInv, Sized
  <2>14. Aborts' BY <1>1, <1>2, <1>5, <2>1 DEF Aborts
  <2> QED BY <1>2, <2>1, <2>2, <2>8, <2>10, <2>11, <2>12, <2>13, <2>14 DEF Kept
<1>6. CASE c \notin Cached(t) /\ LibcFree(t, c, FALSE, Return(t)) /\ UNCHANGED aborted
  <2>1. c \in DOMAIN live BY <1>1, <1>2, <1>6, CallChunks
  <2>2. Return(t) = Idle BY <1>4 DEF Return
  <2>3. LibcFree(t, c, FALSE, Idle) BY <1>6, <2>2
  <2>4. \A u \in Threads \ {t} : op[u].p # c
    <3>1. c # None BY <1>3, TcacheAssumption
    <3> QED BY <1>1, <3>1 DEF IInv, Calls
  <2>5. CASE /\ Cacheable(size[c]) /\ tcache[t] /\ HasSlot(t, size[c])
             /\ PutN(IF Small(size[c]) THEN FirstPlace(t, Tidx(size[c]))
                     ELSE LocationLarge(t, Tidx(size[c]), size[c]), c)
             /\ live' = Without(live, c)
             /\ op' = [op EXCEPT ![t] = Idle]
             /\ UNCHANGED <<size, pool>>
    BY <1>2, <1>4, <1>6, <2>1, <2>4, <2>5, PutKept
  <2>6. CASE /\ pool' = pool \cup {c} /\ size' = [size EXCEPT ![c] = 0]
             /\ key' = [key EXCEPT ![c] = FALSE]
             /\ live' = Without(live, c)
             /\ op' = [op EXCEPT ![t] = Idle]
             /\ UNCHANGED <<num_slots, entries, links>>
    BY <1>2, <1>4, <1>6, <2>1, <2>4, <2>6, ReleaseKept
  <2>7. \/ /\ Cacheable(size[c]) /\ tcache[t] /\ HasSlot(t, size[c])
           /\ PutN(IF Small(size[c]) THEN FirstPlace(t, Tidx(size[c]))
                   ELSE LocationLarge(t, Tidx(size[c]), size[c]), c)
           /\ live' = Without(live, c)
           /\ op' = [op EXCEPT ![t] = Idle]
           /\ UNCHANGED <<size, pool>>
        \/ /\ pool' = pool \cup {c} /\ size' = [size EXCEPT ![c] = 0]
           /\ key' = [key EXCEPT ![c] = FALSE]
           /\ live' = Without(live, c)
           /\ op' = [op EXCEPT ![t] = Idle]
           /\ UNCHANGED <<num_slots, entries, links>>
    BY <2>3, LibcFreeIs, ZenonT(40)
  <2> QED BY <2>5, <2>6, <2>7, Zenon
<1> QED BY <1>2, <1>3, <1>5, <1>6

-----------------------------------------------------------------------------
(* A thread that ends.                                                     *)

(* Lemma: the cache is closed (Shutdown).                                  *)
LEMMA ShutdownKept ==
  ASSUME IInv, NEW t \in Threads, Shutdown(t)
  PROVE  Kept
<1>1. PICK call : call = IF tcache[t] THEN [Idle EXCEPT !.pc = "shutdown", !.closing = TRUE]
                         ELSE Idle
  OBVIOUS
<1>2. /\ ~aborted /\ op[t].pc = "idle" /\ ~shutting_down[t]
      /\ shutting_down' = [shutting_down EXCEPT ![t] = TRUE]
      /\ tcache' = [tcache EXCEPT ![t] = FALSE]
      /\ IF tcache[t]
           THEN op' = [op EXCEPT ![t] = [Idle EXCEPT !.pc = "shutdown", !.closing = TRUE]]
         ELSE UNCHANGED op
      /\ UNCHANGED <<mp, num_slots, entries, links, key, size, pool, live, aborted>>
  BY Zenon DEF Shutdown, At, Goto
<1>3. op[t] = Idle /\ op \in [Threads -> CallRecords] BY <1>2, Stands DEF IInv, TypeOK
<1>4. /\ call \in CallRecords /\ call.p = None /\ ~call.filled
      /\ call.closing => call.pc = "shutdown"
      /\ ~call.closing => call = Idle /\ call.pc = "idle" /\ ~tcache[t]
  BY <1>1 DEF Idle, CallRecords
<1>5. op' = [op EXCEPT ![t] = call] BY <1>1, <1>2, <1>3
<1>6. op'[t] = call /\ \A u \in Threads \ {t} : op'[u] = op[u] BY <1>3, <1>5
<1>7. /\ tcache' \in [Threads -> BOOLEAN] /\ shutting_down' \in [Threads -> BOOLEAN]
      /\ ~tcache'[t] /\ shutting_down'[t]
      /\ \A u \in Threads \ {t} : tcache'[u] = tcache[u] /\ shutting_down'[u] = shutting_down[u]
  BY <1>2 DEF IInv, TypeOK
<1>8. /\ Lists' /\ Tagged'
      /\ \A u \in Threads, i \in Bins : InBin(u, i)' = InBin(u, i)
      /\ \A u \in Threads : Cached(u)' = Cached(u)
  BY <1>2, QuietKeeps
<1>9. Slotted' BY <1>2, <1>7, <1>8, SlotsKept
<1>10. CallOK(t)' BY <1>4, <1>6 DEF CallOK
<1>11. Calls' /\ op' \in [Threads -> CallRecords]
  <2>1. call.closing => call.p \notin Cached(t)' BY <1>4, <1>8, CallChunks, TcacheAssumption
  <2> QED BY <1>2, <1>4, <1>5, <1>7, <1>8, <1>10, <2>1, CallsKept, ZenonT(40)
<1>12. \A u \in Threads : Held(u)' = Held(u) BY <1>3, <1>4, <1>6, <1>8, IdleCall DEF Held
<1>13. UNCHANGED Caches!vars BY <1>2, <1>12, AbstractStays
<1>14. TypeOK' BY <1>2, <1>7, <1>11 DEF IInv, TypeOK
<1>15. Closed' BY <1>3, <1>4, <1>6, <1>7, <1>8, IdleCall DEF IInv, Closed
<1>16. Sized' /\ Aborts' BY <1>2 DEF IInv, Sized, Aborts
<1> QED BY <1>2, <1>8, <1>9, <1>11, <1>13, <1>14, <1>15, <1>16 DEF Kept

(* Lemma: the head of a bin tells whether it has a chunk.                  *)
LEMMA HeadIs ==
  ASSUME IInv, NEW t \in Threads, NEW i \in Bins, NEW n, NEW s, Bin(t, i, n, s)
  PROVE  /\ Read(FirstPlace(t, i)) = None => n = 0 /\ InBin(t, i) = {}
         /\ Read(FirstPlace(t, i)) # None =>
              1 \in 1 .. n /\ Read(FirstPlace(t, i)) = s[1] /\ s[1] \in Chunks
              /\ s[1] \in InBin(t, i)
<1>1. Chain(entries[t][i], links, n, s) BY DEF Bin
<1>2. n \in Nat /\ s \in [1 .. n -> Chunks] BY <1>1 DEF Chain
<1>3. InBin(t, i) = Elems(n, s) BY <1>1, ChainBin
<1>4. Read(FirstPlace(t, i)) = Met(n, s, 1)
  <2>1. 1 \in 1 .. (n + 1) BY <1>2
  <2>2. Read(PlaceOf(t, i, s, 1)) = Met(n, s, 1) BY <1>1, <2>1, ChainRead
  <2> QED BY <2>2 DEF PlaceOf
<1>5. CASE n = 0
  <2>1. 1 \notin 1 .. n /\ Elems(n, s) = {} BY <1>5 DEF Elems
  <2> QED BY <1>3, <1>4, <1>5, <2>1 DEF Met
<1>6. CASE n # 0
  <2>1. 1 \in 1 .. n BY <1>2, <1>6
  <2>2. s[1] \in Chunks /\ s[1] \in Elems(n, s) BY <1>2, <2>1 DEF Elems
  <2> QED BY <1>3, <1>4, <2>1, <2>2, TcacheAssumption DEF Met
<1> QED BY <1>5, <1>6

(* Lemma: what a step of the shutdown does.                                *)
LEMMA ShutdownStepIs ==
  ASSUME IInv, NEW t \in Threads, ShutdownStep(t)
  PROVE  /\ ~aborted /\ op[t].pc = "shutdown"
         /\ UNCHANGED <<mp, tcache, shutting_down, key, size, pool, live, aborted>>
         /\ \/ /\ Cached(t) = {} /\ op' = [op EXCEPT ![t] = Idle]
               /\ num_slots' = [num_slots EXCEPT ![t] = [b \in Bins |-> 0]]
               /\ UNCHANGED <<entries, links>>
            \/ \E i \in Bins : \E n, s : /\ Bin(t, i, n, s) /\ 1 \in 1 .. n
                 /\ s[1] \in Chunks /\ s[1] \in InBin(t, i)
                 /\ Store(FirstPlace(t, i), Reveal(s[1]), s[1], Plain(None))
                 /\ op' = [op EXCEPT ![t] = [op[t] EXCEPT !.pc = "shutdown_free", !.p = s[1]]]
                 /\ UNCHANGED num_slots
<1> DEFINE left == {j \in Bins : Read(FirstPlace(t, j)) # None}
<1>1. PICK i : i = Min(left) OBVIOUS
<1>2. PICK e : e = Read(FirstPlace(t, i)) OBVIOUS
<1>3. /\ ~aborted /\ op[t].pc = "shutdown"
      /\ UNCHANGED <<mp, tcache, shutting_down, key, size, pool, live, aborted>>
  BY DEF ShutdownStep, At
<1>4. IF left = {}
      THEN /\ op' = [op EXCEPT ![t] = Idle]
           /\ num_slots' = [num_slots EXCEPT ![t] = [b \in Bins |-> 0]]
           /\ UNCHANGED <<entries, links>>
      ELSE /\ Store(FirstPlace(t, i), Reveal(e), e, Plain(None))
           /\ op' = [op EXCEPT ![t] = [op[t] EXCEPT !.pc = "shutdown_free", !.p = e]]
           /\ UNCHANGED num_slots
  BY <1>1, <1>2, Zenon DEF ShutdownStep, Goto
<1>5. CASE left = {}
  <2>1. ASSUME NEW j \in Bins PROVE InBin(t, j) = {}
    <3>1. Read(FirstPlace(t, j)) = None BY <1>5
    <3>2. PICK n, s : Bin(t, j, n, s) BY BinIs
    <3> QED BY <3>1, <3>2, HeadIs
  <2>2. Cached(t) = {} BY <2>1 DEF Cached
  <2> QED BY <1>3, <1>4, <1>5, <2>2
<1>6. CASE left # {}
  <2>1. left \subseteq Nat
    <3>1. Bins \subseteq Nat BY SizesAssumption DEF Bins, TCACHE_MAX_BINS
    <3> QED BY <3>1
  <2>2. \E m \in left : \A k \in left : m <= k BY ONLY <1>6, <2>1, LeastNumber
  <2>3. Min(left) \in left BY <2>2 DEF Min
  <2>4. i \in Bins /\ e # None BY <1>1, <1>2, <2>3
  <2>5. PICK n, s : Bin(t, i, n, s) BY <2>4, BinIs
  <2>6. 1 \in 1 .. n /\ e = s[1] /\ s[1] \in Chunks /\ s[1] \in InBin(t, i)
    BY <1>2, <2>4, <2>5, HeadIs
  <2>7. /\ Store(FirstPlace(t, i), Reveal(s[1]), s[1], Plain(None))
        /\ op' = [op EXCEPT ![t] = [op[t] EXCEPT !.pc = "shutdown_free", !.p = s[1]]]
        /\ UNCHANGED num_slots
    BY <1>4, <1>6, <2>6
  <2>8. \E j \in Bins : \E m, r : /\ Bin(t, j, m, r) /\ 1 \in 1 .. m
          /\ r[1] \in Chunks /\ r[1] \in InBin(t, j)
          /\ Store(FirstPlace(t, j), Reveal(r[1]), r[1], Plain(None))
          /\ op' = [op EXCEPT ![t] = [op[t] EXCEPT !.pc = "shutdown_free", !.p = r[1]]]
          /\ UNCHANGED num_slots
    BY <2>4, <2>5, <2>6, <2>7, Zenon
  <2> QED BY <1>3, <2>8, Zenon
<1> QED BY <1>5, <1>6

(* Lemma: the structure is freed when all of its chunks are.               *)
LEMMA ShutdownEndKept ==
  ASSUME IInv, NEW t \in Threads, ~aborted, op[t].pc = "shutdown",
         Cached(t) = {}, op' = [op EXCEPT ![t] = Idle],
         num_slots' = [num_slots EXCEPT ![t] = [b \in Bins |-> 0]],
         UNCHANGED <<mp, tcache, shutting_down, entries, links, key, size, pool, live, aborted>>
  PROVE  Kept
<1>1. /\ Lists' /\ Tagged'
      /\ \A u \in Threads, i \in Bins : InBin(u, i)' = InBin(u, i)
      /\ \A u \in Threads : Cached(u)' = Cached(u)
  BY QuietKeeps
<1>2. op[t].closing /\ op[t].p = None /\ ~tcache[t] /\ op \in [Threads -> CallRecords]
  <2>1. op[t].closing /\ CallOK(t) /\ op \in [Threads -> CallRecords]
    BY Stands DEF IInv, Calls, TypeOK
  <2> QED BY <2>1 DEF CallOK, IInv, Closed
<1>3. op'[t] = Idle /\ \A u \in Threads \ {t} : op'[u] = op[u] BY <1>2
<1>4. /\ num_slots' \in [Threads -> [Bins -> 0 .. MAX_TCACHE_COUNT]]
      /\ \A u \in Threads \ {t} : num_slots'[u] = num_slots[u]
  <2>1. [b \in Bins |-> 0] \in [Bins -> 0 .. MAX_TCACHE_COUNT] BY SizesAssumption
  <2>2. PICK z \in [Bins -> 0 .. MAX_TCACHE_COUNT] : z = [b \in Bins |-> 0] BY <2>1
  <2>3. num_slots \in [Threads -> [Bins -> 0 .. MAX_TCACHE_COUNT]] BY DEF IInv, TypeOK
  <2>4. num_slots' = [num_slots EXCEPT ![t] = z] BY <2>2
  <2> QED BY <2>3, <2>4
<1>5. Slotted'
  <2>1. ASSUME NEW u \in Threads, tcache'[u], NEW i \in Bins
        PROVE  Cardinality(InBin(u, i)') + num_slots'[u][i] = mp'.tcache_count
    <3>1. u # t /\ tcache[u] BY <1>2, <2>1
    <3>2. Cardinality(InBin(u, i)) + num_slots[u][i] = mp.tcache_count
      BY <3>1 DEF IInv, Slotted
    <3> QED BY <1>1, <1>4, <3>1, <3>2
  <2> QED BY <2>1 DEF Slotted
<1>6. CallOK(t)' BY <1>3, IdleCallNext
<1>7. Calls' /\ op' \in [Threads -> CallRecords] BY <1>1, <1>6, IdleCall, CallsKept
<1>8. \A u \in Threads : Held(u)' = Held(u) BY <1>1, <1>2, <1>3, IdleCall DEF Held
<1>9. UNCHANGED Caches!vars BY <1>8, AbstractStays
<1>10. TypeOK' BY <1>4, <1>7 DEF IInv, TypeOK
<1>11. Closed' BY <1>1, <1>2, <1>3, IdleCall DEF IInv, Closed
<1>12. Sized' /\ Aborts' BY DEF IInv, Sized, Aborts
<1> QED BY <1>1, <1>5, <1>7, <1>9, <1>10, <1>11, <1>12 DEF Kept

(* Lemma: the first chunk of a bin is taken, to be freed.                  *)
LEMMA ShutdownTakeKept ==
  ASSUME IInv, NEW t \in Threads, ~aborted, op[t].pc = "shutdown",
         NEW i \in Bins, NEW n, NEW s, Bin(t, i, n, s), 1 \in 1 .. n,
         s[1] \in Chunks, s[1] \in InBin(t, i),
         Store(FirstPlace(t, i), Reveal(s[1]), s[1], Plain(None)),
         op' = [op EXCEPT ![t] = [op[t] EXCEPT !.pc = "shutdown_free", !.p = s[1]]],
         UNCHANGED <<mp, tcache, shutting_down, num_slots, key, size, pool, live, aborted>>
  PROVE  Kept
<1>1. PICK k \in 1 .. n : k = 1 OBVIOUS
<1>2. PICK c \in Chunks : c = s[k] BY <1>1
<1>3. Store(PlaceOf(t, i, s, k), Reveal(s[k]), s[k], Plain(None)) /\ c \in InBin(t, i)
  BY <1>1, <1>2 DEF PlaceOf
<1>4. PICK call : call = [op[t] EXCEPT !.pc = "shutdown_free", !.p = c] OBVIOUS
<1>5. /\ op[t].closing /\ op[t].p = None /\ ~tcache[t] /\ shutting_down[t] /\ ~op[t].filled
      /\ op[t] \in CallRecords /\ op \in [Threads -> CallRecords]
  <2>1. op[t].closing /\ CallOK(t) /\ op \in [Threads -> CallRecords]
    BY Stands DEF IInv, Calls, TypeOK
  <2> QED BY <2>1 DEF CallOK, IInv, Closed
<1>6. /\ call \in CallRecords /\ call.pc = "shutdown_free" /\ call.p = c /\ call.closing
      /\ ~call.filled
  BY <1>4, <1>5 DEF CallRecords
<1>7. op' = [op EXCEPT ![t] = call] BY <1>1, <1>2, <1>4
<1>8. op'[t] = call /\ \A u \in Threads \ {t} : op'[u] = op[u] BY <1>5, <1>7
<1>9. /\ entries' \in [Threads -> [Bins -> Words]] /\ links' \in [Chunks -> Words]
      /\ Lists'
      /\ InBin(t, i)' = InBin(t, i) \ {c}
      /\ \A u \in Threads, j \in Bins : u # t \/ j # i => InBin(u, j)' = InBin(u, j)
  <2>1. size' \in [Chunks -> Nat] /\ \A d \in Chunks : d # s[k] => size'[d] = size[d]
    BY DEF IInv, TypeOK
  <2> QED BY <1>2, <1>3, <2>1, TakeBin
<1>10. /\ c \in Cached(t) /\ Cached(t)' = Cached(t) \ {c}
       /\ \A u \in Threads \ {t} : Cached(u)' = Cached(u)
  BY <1>3, <1>9, CachedTake
<1>11. Tagged'
  <2>1. ASSUME NEW u \in Threads, NEW j \in Bins, NEW d \in InBin(u, j)'
        PROVE  Tidx(size'[d]) = j /\ size'[d] < mp'.tcache_max_bytes /\ key'[d]
    <3>1. d \in InBin(u, j) BY <1>9
    <3>2. Tidx(size[d]) = j /\ Cacheable(size[d]) /\ key[d] BY <3>1 DEF IInv, Tagged
    <3> QED BY <3>2 DEF Cacheable
  <2> QED BY <2>1 DEF Tagged, Cacheable
<1>12. Slotted'
  <2>1. ASSUME NEW u \in Threads, tcache'[u], NEW j \in Bins
        PROVE  Cardinality(InBin(u, j)') + num_slots'[u][j] = mp'.tcache_count
    <3>1. u # t /\ tcache[u] BY <1>5, <2>1
    <3>2. Cardinality(InBin(u, j)) + num_slots[u][j] = mp.tcache_count
      BY <3>1 DEF IInv, Slotted
    <3> QED BY <1>9, <3>1, <3>2
  <2> QED BY <2>1 DEF Slotted
<1>13. CallOK(t)' BY <1>6, <1>8 DEF CallOK
<1>14. Calls' /\ op' \in [Threads -> CallRecords]
  <2>1. c \in Held(t) BY <1>10, CallChunks
  <2>2. \A u \in Threads \ {t} : op[u].p # c BY <2>1, HeldAlone
  <2> QED BY <1>6, <1>7, <1>9, <1>10, <1>13, <2>2, CallsKept, ZenonT(40)
<1>15. \A u \in Threads : Held(u)' = Held(u)
  <2>1. Held(t) = Cached(t) BY <1>5 DEF Held
  <2>2. c # None BY TcacheAssumption
  <2>3. Held(t)' = Cached(t)' \cup {c} BY <1>6, <1>8, <2>2 DEF Held
  <2>4. Held(t)' = Held(t) BY <1>10, <2>1, <2>3
  <2>5. \A u \in Threads \ {t} : Held(u)' = Held(u) BY <1>8, <1>10 DEF Held
  <2> QED BY <2>4, <2>5
<1>16. UNCHANGED Caches!vars BY <1>15, AbstractStays
<1>17. TypeOK' BY <1>9, <1>14 DEF IInv, TypeOK
<1>18. Closed'
  <2>1. ASSUME NEW u \in Threads
        PROVE  /\ shutting_down'[u] => ~tcache'[u]
               /\ op'[u].closing => shutting_down'[u]
               /\ ~tcache'[u] /\ ~op'[u].closing => Cached(u)' = {}
    <3>1. CASE u = t BY <1>5, <1>6, <1>8, <3>1
    <3>2. CASE u # t BY <1>8, <1>10, <3>2 DEF IInv, Closed
    <3> QED BY <3>1, <3>2
  <2> QED BY <2>1 DEF Closed
<1>19. Sized' /\ Aborts' BY DEF IInv, Sized, Aborts
<1> QED BY <1>9, <1>11, <1>12, <1>14, <1>16, <1>17, <1>18, <1>19 DEF Kept

(* Lemma: the shutdown takes a chunk or ends (ShutdownStep).             *)
LEMMA ShutdownStepKept ==
  ASSUME IInv, NEW t \in Threads, ShutdownStep(t)
  PROVE  Kept
<1>1. /\ ~aborted /\ op[t].pc = "shutdown"
      /\ UNCHANGED <<mp, tcache, shutting_down, key, size, pool, live, aborted>>
      /\ \/ /\ Cached(t) = {} /\ op' = [op EXCEPT ![t] = Idle]
            /\ num_slots' = [num_slots EXCEPT ![t] = [b \in Bins |-> 0]]
            /\ UNCHANGED <<entries, links>>
         \/ \E i \in Bins : \E n, s : /\ Bin(t, i, n, s) /\ 1 \in 1 .. n
              /\ s[1] \in Chunks /\ s[1] \in InBin(t, i)
              /\ Store(FirstPlace(t, i), Reveal(s[1]), s[1], Plain(None))
              /\ op' = [op EXCEPT ![t] = [op[t] EXCEPT !.pc = "shutdown_free", !.p = s[1]]]
              /\ UNCHANGED num_slots
  BY ShutdownStepIs
<1>2. CASE /\ Cached(t) = {} /\ op' = [op EXCEPT ![t] = Idle]
           /\ num_slots' = [num_slots EXCEPT ![t] = [b \in Bins |-> 0]]
           /\ UNCHANGED <<entries, links>>
  BY <1>1, <1>2, ShutdownEndKept
<1>3. ASSUME NEW i \in Bins, NEW n, NEW s, Bin(t, i, n, s), 1 \in 1 .. n,
             s[1] \in Chunks, s[1] \in InBin(t, i),
             Store(FirstPlace(t, i), Reveal(s[1]), s[1], Plain(None)),
             op' = [op EXCEPT ![t] = [op[t] EXCEPT !.pc = "shutdown_free", !.p = s[1]]],
             UNCHANGED num_slots
      PROVE  Kept
  BY <1>1, <1>3, ShutdownTakeKept
<1> QED BY <1>1, <1>2, <1>3, Zenon

(* Lemma: and it is freed, to the arena (ShutdownFree).                    *)
LEMMA ShutdownFreeKept ==
  ASSUME IInv, NEW t \in Threads, ShutdownFree(t)
  PROVE  Kept
<1>1. PICK c : c = op[t].p OBVIOUS
<1>2. PICK call : call = [op[t] EXCEPT !.pc = "shutdown", !.p = None] OBVIOUS
<1>3. /\ ~aborted /\ op[t].pc = "shutdown_free"
      /\ LibcFree(t, c, key[c], Return(t))
      /\ UNCHANGED <<mp, tcache, shutting_down, aborted>>
  BY <1>1 DEF ShutdownFree, At
<1>4. /\ op[t].closing /\ c \in Chunks /\ ~tcache[t] /\ shutting_down[t] /\ ~op[t].filled
      /\ op[t] \in CallRecords /\ op \in [Threads -> CallRecords] /\ c \notin Cached(t)
  <2>1. op[t].closing /\ CallOK(t) /\ op \in [Threads -> CallRecords] /\ c \notin Cached(t)
    BY <1>1, <1>3, Stands DEF IInv, Calls, TypeOK
  <2> QED BY <1>1, <1>3, <2>1 DEF CallOK, IInv, Closed
<1>5. /\ pool' = pool \cup {c} /\ size' = [size EXCEPT ![c] = 0]
      /\ key' = [key EXCEPT ![c] = FALSE] /\ live' = Without(live, c)
      /\ op' = [op EXCEPT ![t] = call]
      /\ UNCHANGED <<num_slots, entries, links>>
  BY <1>2, <1>3, <1>4, Zenon DEF LibcFree, Return, Goto
<1>6. /\ call \in CallRecords /\ call.pc = "shutdown" /\ call.p = None /\ call.closing
      /\ ~call.filled
  BY <1>2, <1>4 DEF CallRecords
<1>7. op'[t] = call /\ \A u \in Threads \ {t} : op'[u] = op[u] BY <1>4, <1>5
<1>8. c # None /\ c \in Held(t) /\ Held(t) = Cached(t) \cup {c}
  BY <1>1, <1>4, TcacheAssumption DEF Held
<1>9. c \notin DOMAIN live /\ \A u \in Threads, i \in Bins : c \notin InBin(u, i)
  <2>1. c \notin DOMAIN live /\ \A u \in Threads : u # t => c \notin Held(u)
    BY <1>8, CallChunks
  <2>2. \A u \in Threads : c \notin Cached(u) BY <1>4, <2>1, CallChunks
  <2> QED BY <2>1, <2>2, BinsApart
<1>10. live' = live /\ live' \in [DOMAIN live -> Requests]
  <2>1. live \in [DOMAIN live -> Requests] BY DEF IInv, TypeOK
  <2>2. DOMAIN live \ {c} = DOMAIN live BY <1>9
  <2> QED BY <1>5, <2>1, <2>2 DEF Without
<1>11. /\ size' \in [Chunks -> Nat] /\ key' \in [Chunks -> BOOLEAN] /\ size'[c] = 0
       /\ \A d \in Chunks : d # c => size'[d] = size[d] /\ key'[d] = key[d]
  BY <1>4, <1>5 DEF IInv, TypeOK
<1>12. /\ Lists' /\ Tagged'
       /\ \A u \in Threads, i \in Bins : InBin(u, i)' = InBin(u, i)
  BY <1>3, <1>5, <1>9, <1>11, BinsKept
<1>13. \A u \in Threads : Cached(u)' = Cached(u) BY <1>12, CachedKept
<1>14. Slotted' BY <1>3, <1>5, <1>12, SlotsKept
<1>15. CallOK(t)' BY <1>6, <1>7 DEF CallOK
<1>16. Calls' /\ op' \in [Threads -> CallRecords]
  <2>1. \A u \in Threads \ {t} : op[u].p # c BY <1>8, HeldAlone
  <2>2. \A u \in Threads \ {t} : op[u].pc = "verify" => size'[op[u].p] = size[op[u].p]
    BY <1>11, <2>1, CallChunks
  <2>3. call.p \notin Cached(t)' BY <1>6, <1>13, CallChunks, TcacheAssumption
  <2> QED BY <1>3, <1>5, <1>6, <1>10, <1>12, <1>13, <1>15, <2>2, <2>3, CallsKept
<1>17. Held(t)' = Held(t) \ {c} /\ OthersHold(t)
  <2>1. Held(t)' = Cached(t)' BY <1>6, <1>7 DEF Held
  <2>2. Held(t)' = Held(t) \ {c} BY <1>4, <1>8, <1>13, <2>1
  <2>3. OthersHold(t) BY <1>7, <1>13 DEF Held, OthersHold
  <2> QED BY <2>2, <2>3
<1>18. Caches!Next BY <1>3, <1>5, <1>8, <1>10, <1>17, AbstractDrop
<1>19. TypeOK' BY <1>3, <1>4, <1>5, <1>10, <1>11, <1>16 DEF IInv, TypeOK
<1>20. Closed'
  <2>1. ASSUME NEW u \in Threads
        PROVE  /\ shutting_down'[u] => ~tcache'[u]
               /\ op'[u].closing => shutting_down'[u]
               /\ ~tcache'[u] /\ ~op'[u].closing => Cached(u)' = {}
    <3>1. CASE u = t BY <1>3, <1>4, <1>6, <1>7, <3>1
    <3>2. CASE u # t BY <1>3, <1>7, <1>13, <3>2 DEF IInv, Closed
    <3> QED BY <3>1, <3>2
  <2> QED BY <2>1 DEF Closed
<1>21. Sized' BY <1>5, <1>11 DEF IInv, Sized
<1>22. Aborts' BY <1>3 DEF Aborts
<1> QED BY <1>3, <1>12, <1>14, <1>16, <1>18, <1>19, <1>20, <1>21, <1>22 DEF Kept

-----------------------------------------------------------------------------
(* The inductive invariant holds, and each step is one of ChunkCache.      *)

(* Lemma: at the start every bin is an empty chain and nothing is cached.  *)
LEMMA InitIInv ==
  ASSUME Init, Below4GiB
  PROVE  IInv
<1>1. /\ mp \in {Tuned(m, n) : m \in MaxSettings, n \in CountSettings}
      /\ tcache = [t \in Threads |-> FALSE] /\ shutting_down = [t \in Threads |-> FALSE]
      /\ num_slots = [t \in Threads |-> [i \in Bins |-> 0]]
      /\ entries = [t \in Threads |-> [i \in Bins |-> Plain(None)]]
      /\ links = [c \in Chunks |-> Plain(None)]
      /\ key = [c \in Chunks |-> FALSE] /\ size = [c \in Chunks |-> 0]
      /\ pool = Chunks /\ live = [c \in {} |-> None]
      /\ op = [t \in Threads |-> Idle] /\ aborted = FALSE
  BY DEF Init
<1>2. Plain(None) \in Words /\ Plain(None) = Plain(Met(0, <<>>, 1)) BY DEF Plain, Words, Met
<1>3. \A t \in Threads, i \in Bins : Bin(t, i, 0, <<>>)
  <2> TAKE t \in Threads, i \in Bins
  <2>1. entries[t][i] = Plain(Met(0, <<>>, 1)) BY <1>1, <1>2
  <2>2. 1 .. 0 = {} /\ <<>> \in [1 .. 0 -> Chunks] OBVIOUS
  <2>3. Chain(entries[t][i], links, 0, <<>>) BY <2>1, <2>2 DEF Chain
  <2>4. Ascending(size, 0, <<>>) BY <2>2 DEF Ascending
  <2> QED BY <2>3, <2>4 DEF Bin
<1>4. \A t \in Threads, i \in Bins : InBin(t, i) = {}
  <2> TAKE t \in Threads, i \in Bins
  <2>1. Chain(entries[t][i], links, 0, <<>>) BY <1>3 DEF Bin
  <2>2. Elems(0, <<>>) = {} BY DEF Elems
  <2> QED BY <2>1, <2>2, ChainBin
<1>5. \A t \in Threads : Cached(t) = {} BY <1>4 DEF Cached
<1>6. \A t \in Threads : op[t] = Idle /\ Held(t) = {} BY <1>1, <1>5, IdleCall DEF Held
<1>7. MpOK BY <1>1 DEF MpOK, MpTuned
<1>8. CachesInv
  <2>1. Holding = [t \in Threads |-> {}] BY <1>6 DEF Holding
  <2>2. mp.tcache_count \in Nat BY <1>7, Tunables, SizesAssumption
  <2>3. live = [d \in {} |-> 0] BY <1>1
  <2>4. Caches!Init BY <1>1, <2>1, <2>2, <2>3 DEF Caches!Init
  <2>5. IsFiniteSet(Chunks) BY TcacheAssumption
  <2> QED BY <2>4, <2>5, CachesInit
<1>9. TypeOK
  <2>1. num_slots \in [Threads -> [Bins -> 0 .. MAX_TCACHE_COUNT]]
    <3>1. [i \in Bins |-> 0] \in [Bins -> 0 .. MAX_TCACHE_COUNT] BY SizesAssumption
    <3> QED BY <1>1, <3>1
  <2>2. entries \in [Threads -> [Bins -> Words]] /\ links \in [Chunks -> Words]
    <3>1. [i \in Bins |-> Plain(None)] \in [Bins -> Words] BY <1>2
    <3> QED BY <1>1, <1>2, <3>1
  <2>3. op \in [Threads -> CallRecords] BY <1>1, IdleCall
  <2> QED BY <1>1, <2>1, <2>2, <2>3 DEF TypeOK
<1>10. Lists BY <1>3 DEF Lists
<1>11. Tagged BY <1>4 DEF Tagged
<1>12. Sized BY <1>1 DEF Sized
<1>13. Slotted BY <1>1 DEF Slotted
<1>14. Closed BY <1>1, <1>5, <1>6, IdleCall DEF Closed
<1>15. Calls BY <1>5, <1>6, IdleCall DEF Calls
<1>16. Aborts BY <1>1 DEF Aborts
<1> QED BY <1>7, <1>8, <1>9, <1>10, <1>11, <1>12, <1>13, <1>14, <1>15, <1>16 DEF IInv

(* Lemma: every action keeps it.                                           *)
LEMMA NextKept ==
  ASSUME IInv, Next
  PROVE  Kept
<1>1. PICK t \in Threads : Call(t) \/ Step(t) BY DEF Next
<1>2. ASSUME NEW req \in Requests, Hit(t, req) \/ Miss(t, req) PROVE Kept
  BY <1>2, HitKept, MissKept
<1>3. ASSUME NEW c \in Chunks, Free(t, c) \/ FreeAgain(t, c) PROVE Kept
  BY <1>3, FreeKept, FreeAgainKept
<1>4. ASSUME NEW c \in Chunks, Stash(t, c) \/ Given(t, c) PROVE Kept
  BY <1>4, StashKept, GivenKept
<1>5. CASE Call(t) BY <1>2, <1>3, <1>5, ShutdownKept DEF Call
<1>6. CASE Step(t)
  BY <1>4, <1>6, TcacheInitKept, ReturnCachedKept, TakeBackKept, FailsKept,
     DoubleFreeVerifyKept, ShutdownStepKept, ShutdownFreeKept DEF Step
<1> QED BY <1>1, <1>5, <1>6

(* Lemma: and so does a step that changes nothing.                         *)
LEMMA StutterKept ==
  ASSUME IInv, UNCHANGED vars
  PROVE  Kept
<1>1. /\ UNCHANGED <<mp, tcache, shutting_down, num_slots, entries, links, key>>
      /\ UNCHANGED <<size, pool, live, op, aborted>>
  BY DEF vars, cacheVars
<1>2. /\ Lists' /\ Tagged'
      /\ \A u \in Threads, i \in Bins : InBin(u, i)' = InBin(u, i)
      /\ \A u \in Threads : Cached(u)' = Cached(u)
  BY <1>1, QuietKeeps
<1>3. Slotted' BY <1>1, <1>2, SlotsKept
<1>4. \A u \in Threads : CallOK(u)' BY <1>1, <1>2, CallStays
<1>5. Calls' BY <1>1, <1>2, <1>4 DEF IInv, Calls
<1>6. \A u \in Threads : Held(u)' = Held(u) BY <1>1, <1>2 DEF Held
<1>7. UNCHANGED Caches!vars BY <1>1, <1>6, AbstractStays
<1>8. TypeOK' BY <1>1 DEF IInv, TypeOK
<1>9. Closed' BY <1>1, <1>2 DEF IInv, Closed
<1>10. Sized' BY <1>1 DEF IInv, Sized
<1>11. Aborts' BY <1>1, <1>2 DEF IInv, Aborts
<1> QED BY <1>1, <1>2, <1>3, <1>5, <1>7, <1>8, <1>9, <1>10, <1>11 DEF Kept

(* Lemma: every step keeps the parts and is one of the caches.           *)
LEMMA StepKept ==
  ASSUME IInv, [Next]_vars
  PROVE  Kept
BY NextKept, StutterKept

(* Lemma: the invariant is inductive.                                    *)
LEMMA StepIInv == IInv /\ [Next]_vars => IInv'
<1> SUFFICES ASSUME IInv, [Next]_vars PROVE IInv'
    OBVIOUS
<1>1. Kept BY StepKept
<1>2. MpOK' BY <1>1 DEF IInv, MpOK, MpTuned, Below4GiB, Kept
<1>3. CachesInv' BY <1>1, CachesStep DEF IInv, Kept
<1> QED BY <1>1, <1>2, <1>3 DEF Kept, IInv

(* The invariant that the others follow from: every bin is a chain of      *)
(* different chunks in ascending order, its chunks and free slots make up  *)
(* tcache_count, every chunk is in one place, and every call stands where  *)
(* what it has read is still so.  This and what follows from it is about a *)
(* tcache_max in force below 4 GiB, Below4GiB, that the calls never change.*)
THEOREM TcacheInvariant == Spec /\ Below4GiB => []IInv
<1>1. Init /\ Below4GiB => IInv BY InitIInv
<1> QED BY <1>1, StepIInv, PTL DEF Spec

(* In every cache chunks and free slots make up tcache_count, and the      *)
(* lists end and have chunks of their sizes only (tcache_put_n,            *)
(* tcache_get_n, the stashing of _int_malloc).                             *)
THEOREM TcacheSlots == Spec /\ Below4GiB => []SlotsAccount
<1>1. IInv => SlotsAccount
  <2> SUFFICES ASSUME IInv, NEW t \in Threads, tcache[t], NEW i \in Bins
               PROVE  /\ Cardinality(InBin(t, i)) + num_slots[t][i] = mp.tcache_count
                      /\ Last(Walk(t, i)) = None
                      /\ \A c \in InBin(t, i) : Tidx(size[c]) = i /\ Cacheable(size[c]) /\ key[c]
      BY DEF SlotsAccount
  <2>1. PICK n, s : Chain(entries[t][i], links, n, s) BY DEF IInv, Lists, Bin
  <2>2. Last(Walk(t, i)) = None BY <2>1, ChainBin
  <2> QED BY <2>2 DEF IInv, Slotted, Tagged
<1> QED BY <1>1, TcacheInvariant, PTL

(* Lemma: the tunables stay as they were set.                              *)
LEMMA TunablesStay == [Next]_vars => mp' = mp
<1> SUFFICES ASSUME Next PROVE mp' = mp BY DEF vars
<1>1. PICK t \in Threads : Call(t) \/ Step(t) BY DEF Next
<1>2. CASE Call(t) BY <1>2 DEF Call, Hit, Miss, Free, FreeAgain, Shutdown
<1>3. CASE Step(t)
  BY <1>3 DEF Step, TcacheInit, ReturnCached, TakeBack, Fails, Stash, Given, DoubleFreeVerify,
     ShutdownStep, ShutdownFree
<1> QED BY <1>1, <1>2, <1>3

(* Whatever the tunables are set to: every size that goes to the cache has *)
(* a bin there just if the tcache_max in force is below 4 GiB              *)
(* (do_set_tcache_max, large_csize2tidx).                                  *)
THEOREM TcacheSizesHaveBins == Spec => []SizesHaveBins
<1>1. Init => MpTuned BY DEF Init, MpTuned
<1>2. MpTuned /\ [Next]_vars => MpTuned' BY TunablesStay DEF MpTuned
<1>3. MpTuned /\ Below4GiB => IndexValid
  <2> SUFFICES ASSUME MpTuned, Below4GiB,
                      NEW n \in 2 .. (mp.tcache_max_bytes \div MALLOC_ALIGNMENT),
                      Cacheable(MALLOC_ALIGNMENT * n)
               PROVE  Tidx(MALLOC_ALIGNMENT * n) \in Bins
      BY DEF IndexValid
  <2>1. MpOK /\ mp.tcache_max_bytes \in Nat BY Tunables DEF MpOK
  <2>2. n \in Nat /\ n >= 2 BY <2>1 DEF MALLOC_ALIGNMENT
  <2>3. PICK x : x = MALLOC_ALIGNMENT * n OBVIOUS
  <2>4. x \in ChunkSizes BY <2>2, <2>3 DEF ChunkSizes, MALLOC_ALIGNMENT, MINSIZE
  <2> QED BY <2>1, <2>3, <2>4, CacheableBin
<1>4. MpTuned /\ IndexValid => Below4GiB
  <2> SUFFICES ASSUME MpTuned, ~Below4GiB PROVE ~IndexValid OBVIOUS
  <2>1. PICK n \in 2 .. (2 ^ IntBits \div MALLOC_ALIGNMENT) - 1 :
              Tidx(MALLOC_ALIGNMENT * n) \notin Bins
    BY BinsAssumption
  <2>2. PICK p : p = 2 ^ IntBits OBVIOUS
  <2>3. PICK m : m = mp.tcache_max_bytes OBVIOUS
  <2>4. p \in Nat /\ m \in Nat /\ m > p
    BY <2>2, <2>3, TunedMax, PowersOfTwo, SizesAssumption DEF Below4GiB
  <2>5. n \in 2 .. (m \div MALLOC_ALIGNMENT) /\ MALLOC_ALIGNMENT * n < m
    BY <2>1, <2>2, <2>4 DEF MALLOC_ALIGNMENT
  <2> QED BY <2>1, <2>3, <2>5 DEF IndexValid, Cacheable
<1>5. MpTuned => SizesHaveBins BY <1>3, <1>4 DEF SizesHaveBins
<1> QED BY <1>1, <1>2, <1>5, PTL DEF Spec

(* The check for double frees ends the process for none but a chunk that   *)
(* the thread's cache has (tcache_double_free_verify).                     *)
THEOREM TcacheAborts == Spec /\ Below4GiB => []AbortsOnDoubleFreeOnly
<1>1. IInv => AbortsOnDoubleFreeOnly BY DEF IInv, Aborts, AbortsOnDoubleFreeOnly
<1> QED BY <1>1, TcacheInvariant, PTL

(* A thread that has ended caches nothing, and no cache is made for it     *)
(* again (tcache_thread_shutdown, tcache_init).                            *)
THEOREM TcacheShutdown == Spec /\ Below4GiB => []ShutdownReleases
<1>1. IInv => ShutdownReleases BY DEF IInv, Closed, ShutdownReleases
<1> QED BY <1>1, TcacheInvariant, PTL

(* Lemma: the caches that the invariant and the refinement speak of are    *)
(* the same.                                                               *)
LEMMA SameCaches ==
  /\ Cache!Init <=> Caches!Init
  /\ Cache!vars = Caches!vars
  /\ Cache!Next <=> Caches!Next
<1>1. Cache!Init <=> Caches!Init BY Zenon DEF Cache!Init, Caches!Init, Held, Holding
<1>2. Cache!vars = Caches!vars BY Zenon DEF Cache!vars, Caches!vars, Held, Holding
<1>3. Cache!Next <=> Caches!Next
  BY Zenon DEF Cache!Next, Caches!Next, Cache!Give, Caches!Give, Cache!Stash, Caches!Stash,
     Cache!Hit, Caches!Hit, Cache!Keep, Caches!Keep, Cache!Release, Caches!Release,
     Cache!Drop, Caches!Drop, Cache!Asks, Caches!Asks, Cache!Forgets, Caches!Forgets,
     Cache!Cut, Caches!Cut, Cache!RoomFor, Caches!RoomFor, Held, Holding,
     Caches!Cardinality, Cache!Cardinality, Cardinality
<1> QED BY <1>1, <1>2, <1>3

(* The lists, links, slots and flags implement ChunkCache: each step gives,*)
(* stashes, keeps, serves, releases or drops one chunk, or none.           *)
THEOREM TcacheImplementsCache == Spec /\ Below4GiB => ImplementsCache
<1>1. Init /\ Below4GiB => Cache!Init
  <2> SUFFICES ASSUME Init, Below4GiB PROVE Cache!Init OBVIOUS
  <2>1. IInv BY InitIInv
  <2>2. \A t \in Threads : Held(t) = {}
    <3>1. pool = Chunks BY DEF Init
    <3> QED BY <2>1, <3>1, CallChunks
  <2>3. Holding = [t \in Threads |-> {}] BY <2>2 DEF Holding
  <2>4. mp.tcache_count \in Nat BY <2>1, Tunables, SizesAssumption DEF IInv
  <2>5. live = [d \in {} |-> 0] BY DEF Init
  <2>6. Caches!Init BY <2>3, <2>4, <2>5 DEF Init, Caches!Init
  <2> QED BY <2>6, SameCaches
<1>2. IInv /\ [Next]_vars => [Cache!Next]_(Cache!vars)
  <2> SUFFICES ASSUME IInv, [Next]_vars PROVE Cache!Next \/ UNCHANGED Cache!vars OBVIOUS
  <2>1. Caches!Next \/ UNCHANGED Caches!vars BY StepKept DEF Kept
  <2>2. UNCHANGED Caches!vars => UNCHANGED Cache!vars
    BY Zenon DEF Cache!vars, Caches!vars, Held, Holding
  <2> QED BY <2>1, <2>2, SameCaches
<1> QED BY <1>1, <1>2, TcacheInvariant, PTL DEF Spec, ImplementsCache, Cache!Spec

-----------------------------------------------------------------------------
(* The cache is asked first.                                               *)

(* Lemma: a step of a thread moves no other.                               *)
LEMMA OpSteps ==
  ASSUME NEW u \in Threads, Call(u) \/ Step(u)
  PROVE  op' = op \/ \E call : op' = [op EXCEPT ![u] = call]
<1>1. ASSUME NEW c, NEW looks, NEW call, LibcFree(u, c, looks, call)
      PROVE  \E x : op' = [op EXCEPT ![u] = x]
  BY <1>1 DEF LibcFree, Goto
<1>2. ASSUME NEW req \in Requests, Hit(u, req) \/ Miss(u, req)
      PROVE  op' = op \/ \E call : op' = [op EXCEPT ![u] = call]
  BY <1>2 DEF Hit, Miss, Goto
<1>3. ASSUME NEW c \in Chunks, Free(u, c) \/ FreeAgain(u, c)
      PROVE  \E call : op' = [op EXCEPT ![u] = call]
  BY <1>1, <1>3 DEF Free, FreeAgain
<1>4. ASSUME NEW c \in Chunks, Stash(u, c) \/ Given(u, c)
      PROVE  \E call : op' = [op EXCEPT ![u] = call]
  BY <1>4 DEF Stash, Given, Goto
<1>5. ASSUME Shutdown(u) PROVE op' = op \/ \E call : op' = [op EXCEPT ![u] = call]
  BY <1>5 DEF Shutdown, Goto
<1>6. ASSUME TcacheInit(u) \/ ReturnCached(u) \/ TakeBack(u) \/ Fails(u)
      PROVE  \E call : op' = [op EXCEPT ![u] = call]
  BY <1>6 DEF TcacheInit, ReturnCached, TakeBack, Fails, Goto
<1>7. ASSUME DoubleFreeVerify(u) PROVE op' = op \/ \E call : op' = [op EXCEPT ![u] = call]
  BY <1>1, <1>7 DEF DoubleFreeVerify
<1>8. ASSUME ShutdownStep(u) \/ ShutdownFree(u)
      PROVE  \E call : op' = [op EXCEPT ![u] = call]
  <2>1. CASE ShutdownStep(u) BY <2>1 DEF ShutdownStep, Goto
  <2>2. CASE ShutdownFree(u) BY <1>1, <2>2 DEF ShutdownFree
  <2> QED BY <1>8, <2>1, <2>2
<1> QED BY <1>2, <1>3, <1>4, <1>5, <1>6, <1>7, <1>8 DEF Call, Step

(* Lemma: a thread goes on to the arena at once only when it misses.       *)
LEMMA OnlyMiss ==
  ASSUME IInv, NEW t \in Threads, op[t].pc = "idle", Next, op'[t].pc = "arena"
  PROVE  \E req \in Requests : Miss(t, req)
<1>1. PICK u \in Threads : Call(u) \/ Step(u) BY DEF Next
<1>2. op \in [Threads -> CallRecords] /\ op[t] = Idle BY Stands DEF IInv, TypeOK
<1>3. u = t
  <2>1. ASSUME u # t PROVE op'[t] = op[t] BY <1>1, <1>2, <2>1, OpSteps
  <2> QED BY <2>1
<1>4. ASSUME NEW req \in Requests, Hit(t, req) PROVE FALSE
  <2>1. op' = op BY <1>4 DEF Hit
  <2> QED BY <2>1
<1>5. ASSUME NEW c, NEW looks, LibcFree(t, c, looks, Idle) PROVE FALSE
  <2>1. \/ op' = [op EXCEPT ![t] = Idle]
        \/ op' = [op EXCEPT ![t] = [op[t] EXCEPT !.pc = "verify", !.p = c]]
    BY <1>5, Zenon DEF LibcFree, Goto
  <2>2. op'[t] = Idle \/ op'[t] = [Idle EXCEPT !.pc = "verify", !.p = c] BY <1>2, <2>1
  <2>3. Idle.pc # "arena" /\ [Idle EXCEPT !.pc = "verify", !.p = c].pc # "arena" BY DEF Idle
  <2> QED BY <2>2, <2>3
<1>6. ASSUME NEW c \in Chunks, Free(t, c) \/ FreeAgain(t, c) PROVE FALSE
  BY <1>5, <1>6 DEF Free, FreeAgain
<1>7. ASSUME Shutdown(t) PROVE FALSE
  <2>1. \/ op' = op
        \/ op' = [op EXCEPT ![t] = [Idle EXCEPT !.pc = "shutdown", !.closing = TRUE]]
    BY <1>7, Zenon DEF Shutdown, Goto
  <2>2. op'[t] = Idle \/ op'[t] = [Idle EXCEPT !.pc = "shutdown", !.closing = TRUE]
    BY <1>2, <2>1
  <2>3. Idle.pc # "arena" /\ [Idle EXCEPT !.pc = "shutdown", !.closing = TRUE].pc # "arena"
    BY DEF Idle
  <2> QED BY <2>2, <2>3
<1>8. ~Step(t)
  BY <1>2, IdleCall DEF Step, TcacheInit, ReturnCached, TakeBack, Fails, Stash, Given,
     DoubleFreeVerify, ShutdownStep, ShutdownFree, At
<1> QED BY <1>1, <1>3, <1>4, <1>6, <1>7, <1>8 DEF Call

(* Lemma: a miss means that no chunk of the bin would do.                  *)
LEMMA MissMeans ==
  ASSUME IInv, NEW t \in Threads, NEW req \in Requests, Miss(t, req), op'[t].pc = "arena",
         Cacheable(Request2size(req.bytes)),
         NEW d \in InBin(t, Tidx(Request2size(req.bytes)))
  PROVE  ~Wants(d, req)
<1>1. PICK nb \in ChunkSizes : nb = Request2size(req.bytes) BY NbForSize
<1>2. MpOK /\ Cacheable(nb) BY <1>1 DEF IInv
<1>3. PICK i \in Bins : i = Tidx(nb) BY <1>2, CacheableBin
<1>4. PICK n, s : Bin(t, i, n, s) /\ n \in Nat /\ s \in [1 .. n -> Chunks]
                 /\ InBin(t, i) = Elems(n, s)
  BY BinIs
<1>5. PICK k \in 1 .. (n + 1) :
        Read(PlaceFor(t, req)) = Met(n, s, k) /\ StopsAt(req, n, s, k)
  BY <1>1, <1>2, <1>3, <1>4, PlaceForIs
<1>6. PICK j \in 1 .. n : d = s[j] BY <1>1, <1>3, <1>4 DEF Elems
<1>7. tcache[t]
  <2>1. ASSUME ~tcache[t] PROVE FALSE
    <3>1. PICK nn : nn = IF req.al > MALLOC_ALIGNMENT
                         THEN Request2size(nb + req.al + MINSIZE) ELSE nb
      OBVIOUS
    <3>2. op' = [op EXCEPT ![t] = [Idle EXCEPT !.pc = "init", !.req = req, !.nb = nn]]
      BY <1>1, <1>2, <2>1, <3>1 DEF Miss, Goto
    <3>3. op'[t] = [Idle EXCEPT !.pc = "init", !.req = req, !.nb = nn]
      BY <3>2 DEF IInv, TypeOK
    <3> QED BY <3>3 DEF Idle
  <2> QED BY <2>1
<1>8. k \in 1 .. n => ~Wants(s[k], req)
  <2>1. ~Hits(t, req) BY <1>2, <1>7 DEF Miss
  <2>2. k \in 1 .. n => s[k] \in Chunks /\ Read(PlaceFor(t, req)) = s[k] BY <1>4, <1>5 DEF Met
  <2> QED BY <2>1, <2>2 DEF Hits
<1>9. /\ \A a \in 1 .. n : size[s[a]] \in Nat
      /\ \A a, b \in 1 .. n : a < b => size[s[a]] <= size[s[b]]
      /\ nb \in Nat
  BY <1>4 DEF Bin, Ascending, IInv, TypeOK, ChunkSizes
<1>10. /\ req.al = MALLOC_ALIGNMENT => \A a \in 1 .. n : Wants(s[a], req) <=> size[s[a]] >= nb
       /\ req.al # MALLOC_ALIGNMENT => \A a \in 1 .. n : Wants(s[a], req) => size[s[a]] = nb
  BY <1>1 DEF Wants
<1>11. CASE req.al > MALLOC_ALIGNMENT
  <2>1. /\ k \in 1 .. n => size[s[k]] > nb \/ Wants(s[k], req)
        /\ \A a \in 1 .. n : a < k => ~Wants(s[a], req)
    BY <1>1, <1>5, <1>11 DEF StopsAt
  <2>2. req.al # MALLOC_ALIGNMENT BY <1>11, TcacheAssumption DEF MALLOC_ALIGNMENT
  <2>3. CASE j < k BY <1>6, <2>1, <2>3
  <2>4. CASE ~(j < k)
    <3>1. k \in 1 .. n BY <1>4, <2>4
    <3>2. size[s[k]] > nb BY <1>8, <2>1, <3>1
    <3>3. size[s[k]] <= size[s[j]]
      <4>1. j = k \/ k < j BY <2>4, <3>1
      <4> QED BY <1>9, <3>1, <4>1
    <3>4. size[s[j]] # nb BY <1>9, <3>1, <3>2, <3>3
    <3> QED BY <1>6, <1>10, <2>2, <3>4
  <2> QED BY <2>3, <2>4
<1>12. CASE ~(req.al > MALLOC_ALIGNMENT)
  <2>1. req.al = MALLOC_ALIGNMENT
    <3>1. req.al \in Nat /\ req.al >= MALLOC_ALIGNMENT BY TcacheAssumption
    <3> QED BY <1>12, <3>1 DEF MALLOC_ALIGNMENT
  <2>2. CASE Small(nb)
    <3>1. k = 1 BY <1>1, <1>5, <1>12, <2>2 DEF StopsAt
    <3>2. k \in 1 .. n BY <1>4, <3>1
    <3>3. s[k] \in InBin(t, Tidx(nb)) BY <1>3, <1>4, <3>2 DEF Elems
    <3>4. size[s[k]] = nb BY <1>3, <2>2, <3>3, SmallBinSize
    <3>5. Wants(s[k], req) BY <1>9, <1>10, <2>1, <3>2, <3>4
    <3> QED BY <1>8, <3>2, <3>5
  <2>3. CASE ~Small(nb)
    <3>1. /\ k \in 1 .. n => size[s[k]] >= nb
          /\ \A a \in 1 .. n : a < k => ~(size[s[a]] >= nb)
      BY <1>1, <1>5, <1>12, <2>3 DEF StopsAt
    <3>2. k \notin 1 .. n BY <1>8, <1>10, <2>1, <3>1
    <3>3. j < k BY <1>4, <3>2
    <3> QED BY <1>6, <1>10, <2>1, <3>1, <3>3
  <2> QED BY <2>2, <2>3
<1> QED BY <1>11, <1>12

(* Lemma: a hit takes the smallest chunk of the bin that would do.         *)
LEMMA HitMeans ==
  ASSUME IInv, NEW t \in Threads, NEW req \in Requests, Hit(t, req)
  PROVE  \E c \in Cached(t) :
           /\ live' = With(live, c, req)
           /\ \A d \in InBin(t, Tidx(size[c])) : Wants(d, req) => size[c] <= size[d]
<1>1. /\ Cacheable(Request2size(req.bytes)) /\ Hits(t, req)
      /\ live' = With(live, Read(PlaceFor(t, req)), req)
  BY DEF Hit
<1>2. PICK nb \in ChunkSizes : nb = Request2size(req.bytes) BY NbForSize
<1>3. PICK i \in Bins : i = Tidx(nb) BY <1>1, <1>2, CacheableBin DEF IInv
<1>4. PICK n, s : Bin(t, i, n, s) /\ n \in Nat /\ s \in [1 .. n -> Chunks]
                 /\ InBin(t, i) = Elems(n, s)
  BY BinIs
<1>5. PICK k \in 1 .. (n + 1) :
        Read(PlaceFor(t, req)) = Met(n, s, k) /\ StopsAt(req, n, s, k)
  BY <1>1, <1>2, <1>3, <1>4, PlaceForIs
<1>6. PICK c : c = Read(PlaceFor(t, req)) OBVIOUS
<1>7. c \in Chunks /\ Wants(c, req) BY <1>1, <1>6 DEF Hits
<1>8. k \in 1 .. n /\ c = s[k] BY <1>5, <1>6, <1>7, TcacheAssumption DEF Met
<1>9. c \in InBin(t, i) /\ Tidx(size[c]) = i /\ c \in Cached(t)
  <2>1. c \in InBin(t, i) BY <1>4, <1>8 DEF Elems
  <2> QED BY <2>1 DEF IInv, Tagged, Cached
<1>10. /\ \A a \in 1 .. n : size[s[a]] \in Nat
       /\ \A a, b \in 1 .. n : a < b => size[s[a]] <= size[s[b]]
       /\ nb \in Nat
  BY <1>4 DEF Bin, Ascending, IInv, TypeOK, ChunkSizes
<1>11. ASSUME NEW j \in 1 .. n, Wants(s[j], req) PROVE size[c] <= size[s[j]]
  <2>1. CASE req.al > MALLOC_ALIGNMENT
    <3>1. req.al # MALLOC_ALIGNMENT BY <2>1, TcacheAssumption DEF MALLOC_ALIGNMENT
    <3>2. size[c] = nb /\ size[s[j]] = nb BY <1>2, <1>7, <1>11, <3>1 DEF Wants
    <3> QED BY <1>10, <3>2
  <2>2. CASE ~(req.al > MALLOC_ALIGNMENT) /\ Small(nb)
    <3>1. s[j] \in InBin(t, Tidx(nb)) /\ c \in InBin(t, Tidx(nb))
      BY <1>3, <1>4, <1>9 DEF Elems
    <3>2. size[c] = nb /\ size[s[j]] = nb BY <1>3, <2>2, <3>1, SmallBinSize
    <3> QED BY <1>10, <3>2
  <2>3. CASE ~(req.al > MALLOC_ALIGNMENT) /\ ~Small(nb)
    <3>1. \A a \in 1 .. n : a < k => ~(size[s[a]] >= nb)
      BY <1>2, <1>5, <2>3 DEF StopsAt
    <3>2. req.al = MALLOC_ALIGNMENT
      <4>1. req.al \in Nat /\ req.al >= MALLOC_ALIGNMENT BY TcacheAssumption
      <4> QED BY <2>3, <4>1 DEF MALLOC_ALIGNMENT
    <3>3. size[s[j]] >= nb BY <1>2, <1>11, <3>2 DEF Wants
    <3>4. ~(j < k) BY <3>1, <3>3
    <3>5. j = k \/ k < j BY <1>8, <3>4
    <3> QED BY <1>8, <1>10, <3>5
  <2> QED BY <2>1, <2>2, <2>3
<1>12. \A d \in InBin(t, Tidx(size[c])) : Wants(d, req) => size[c] <= size[d]
  BY <1>4, <1>9, <1>11 DEF Elems
<1> QED BY <1>1, <1>6, <1>9, <1>12

(* Lemma: who gets a chunk that is cached.                                 *)
LEMMA LiveSteps ==
  ASSUME IInv, NEW u \in Threads, Call(u) \/ Step(u)
  PROVE  \/ DOMAIN live' \subseteq DOMAIN live
         \/ \E c \in pool : \E req : live' = With(live, c, req)
         \/ op[u].pc # "idle" /\ \E c \in Cached(u) : \E req : live' = With(live, c, req)
         \/ \E req \in Requests : Hit(u, req)
<1>1. ASSUME NEW c, NEW looks, NEW call, LibcFree(u, c, looks, call)
      PROVE  DOMAIN live' \subseteq DOMAIN live
  BY <1>1 DEF LibcFree, Without
<1>2. ASSUME NEW req \in Requests, Miss(u, req) PROVE live' = live BY <1>2 DEF Miss
<1>3. ASSUME NEW c \in Chunks, Free(u, c) \/ FreeAgain(u, c)
      PROVE  DOMAIN live' \subseteq DOMAIN live
  BY <1>1, <1>3 DEF Free, FreeAgain
<1>4. ASSUME NEW c \in Chunks, Stash(u, c) PROVE live' = live BY <1>4 DEF Stash
<1>5. ASSUME NEW c \in Chunks, Given(u, c)
      PROVE  \E d \in pool : \E req : live' = With(live, d, req)
  BY <1>5 DEF Given
<1>6. ASSUME Shutdown(u) \/ TcacheInit(u) \/ TakeBack(u) \/ Fails(u) \/ ShutdownStep(u)
      PROVE  live' = live
  BY <1>6 DEF Shutdown, TcacheInit, TakeBack, Fails, ShutdownStep
<1>7. ASSUME DoubleFreeVerify(u) \/ ShutdownFree(u) PROVE DOMAIN live' \subseteq DOMAIN live
  BY <1>1, <1>7 DEF DoubleFreeVerify, ShutdownFree
<1>8. ASSUME ReturnCached(u)
      PROVE  op[u].pc # "idle" /\ \E c \in Cached(u) : \E req : live' = With(live, c, req)
  <2>1. PICK x : x = op[u].nb OBVIOUS
  <2>2. PICK req : req = op[u].req OBVIOUS
  <2>3. /\ op[u].pc = "arena" /\ op[u].filled /\ req.al = MALLOC_ALIGNMENT
        /\ live' = With(live, Read(FirstPlace(u, Tidx(x))), req)
    BY <1>8, <2>1, <2>2 DEF ReturnCached, At
  <2>4. InBin(u, Tidx(x)) # {} /\ Cacheable(x)
    <3>1. CallOK(u) BY DEF IInv, Calls
    <3> QED BY <2>1, <2>3, <3>1 DEF CallOK
  <2>5. x \in ChunkSizes BY <2>1, <2>3, Stands
  <2>6. PICK i \in Bins : i = Tidx(x) BY <2>4, <2>5, CacheableBin DEF IInv
  <2>7. PICK n, s : Bin(u, i, n, s) BY BinIs
  <2>8. Read(FirstPlace(u, i)) \in InBin(u, i) BY <2>4, <2>6, <2>7, HeadIs
  <2>9. Read(FirstPlace(u, i)) \in Cached(u) BY <2>8 DEF Cached
  <2> QED BY <2>3, <2>6, <2>9
<1> QED BY <1>2, <1>3, <1>4, <1>5, <1>6, <1>7, <1>8 DEF Call, Step

(* A request that a cached chunk of its bin satisfies is served from the   *)
(* cache, with the smallest such chunk (tcache_get, tcache_get_large,      *)
(* tcache_get_align).                                                      *)
THEOREM TcacheFirst == Spec /\ Below4GiB => CacheFirst
<1> DEFINE Body ==
      \A t \in Threads : op[t].pc = "idle" =>
        /\ \A c \in DOMAIN live' \cap Cached(t) :
             \A d \in InBin(t, Tidx(size[c])) :
               Wants(d, live'[c]) => size[c] <= size[d]
        /\ op'[t].pc = "arena" =>
             LET req == op'[t].req
             IN  Cacheable(Request2size(req.bytes)) =>
                   \A d \in InBin(t, Tidx(Request2size(req.bytes))) : ~Wants(d, req)
<1>1. IInv /\ [Next]_vars => [Body]_vars
  <2> SUFFICES ASSUME IInv, Next PROVE Body OBVIOUS
  <2>1. ASSUME NEW t \in Threads, op[t].pc = "idle", op'[t].pc = "arena",
               Cacheable(Request2size(op'[t].req.bytes)),
               NEW d \in InBin(t, Tidx(Request2size(op'[t].req.bytes)))
        PROVE  ~Wants(d, op'[t].req)
    <3>1. PICK req \in Requests : Miss(t, req) BY <2>1, OnlyMiss
    <3>2. op'[t].req = req
      <4>1. PICK pc, nn : op' = [op EXCEPT ![t] = [Idle EXCEPT !.pc = pc, !.req = req, !.nb = nn]]
        BY <3>1 DEF Miss, Goto
      <4>2. op'[t] = [Idle EXCEPT !.pc = pc, !.req = req, !.nb = nn]
        BY <4>1 DEF IInv, TypeOK
      <4> QED BY <4>2 DEF Idle
    <3> QED BY <2>1, <3>1, <3>2, MissMeans
  <2>2. ASSUME NEW t \in Threads, op[t].pc = "idle", NEW c \in DOMAIN live' \cap Cached(t),
               NEW d \in InBin(t, Tidx(size[c])), Wants(d, live'[c])
        PROVE  size[c] <= size[d]
    <3>1. PICK u \in Threads : Call(u) \/ Step(u) BY DEF Next
    <3>2. c \notin DOMAIN live /\ c \notin pool /\ \A v \in Threads : v # t => c \notin Cached(v)
      BY CallChunks
    <3>3. ASSUME NEW e, NEW req, live' = With(live, e, req) PROVE c = e /\ live'[c] = req
      BY <3>2, <3>3 DEF With
    <3>4. PICK req \in Requests : Hit(u, req)
      <4>1. ~(DOMAIN live' \subseteq DOMAIN live) BY <3>2
      <4>2. ~\E e \in pool : \E req : live' = With(live, e, req) BY <3>2, <3>3
      <4>3. ~(op[u].pc # "idle" /\ \E e \in Cached(u) : \E req : live' = With(live, e, req))
        BY <2>2, <3>2, <3>3
      <4> QED BY <3>1, <4>1, <4>2, <4>3, LiveSteps
    <3>5. PICK e \in Cached(u) :
            /\ live' = With(live, e, req)
            /\ \A b \in InBin(u, Tidx(size[e])) : Wants(b, req) => size[e] <= size[b]
      BY <3>4, HitMeans
    <3>6. c = e /\ live'[c] = req BY <3>3, <3>5
    <3>7. u = t BY <3>2, <3>5, <3>6
    <3> QED BY <2>2, <3>5, <3>6, <3>7
  <2> QED BY <2>1, <2>2
<1> HIDE DEF Body
<1>2. Spec /\ Below4GiB => [][Body]_vars BY <1>1, TcacheInvariant, PTL DEF Spec
<1> QED BY <1>2 DEF CacheFirst, Body

(* No chunk is in two places, and none is lost; and no cache has more      *)
(* chunks of one size than tcache_count: what ChunkCache promises, of the  *)
(* caches as the code keeps them.                                          *)
THEOREM TcacheOnePlace == Spec /\ Below4GiB => [](Caches!OnePlace /\ Caches!Bounded)
<1>1. IInv => Caches!OnePlace /\ Caches!Bounded BY BoundedIs DEF IInv, CachesInv
<1> QED BY <1>1, TcacheInvariant, PTL
=============================================================================
