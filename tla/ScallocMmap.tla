---------------------------- MODULE ScallocMmap ----------------------------
(***************************************************************************)
(* The mmapped chunks of scalloc.c: sysmalloc_mmap, munmap_chunk,          *)
(* mremap_chunk, the counters in mp_ that they keep without a lock, the    *)
(* thresholds that free moves and mallopt fixes, and realloc of such a     *)
(* chunk.                                                                  *)
(*                                                                         *)
(* Sizes are in units of 16 bytes (CHUNK_HDR_SZ and MALLOC_ALIGNMENT); the *)
(* program asks for words of 8 bytes.  Every atomic operation and every    *)
(* plain access to mp_ that races is a step, and those of one expression   *)
(* are made in the order it is written.  Threads use arenas of their       *)
(* own, so that no mutex orders them; what an arena gives is not looked    *)
(* at.  An operator X_Slip is X with a plausible slip.                     *)
(***************************************************************************)
EXTENDS Integers, FiniteSets, FiniteSetsExt

CONSTANTS
  Threads,
  Blocks,       \* bound: names for the mapped chunks
  None,         \* no chunk, no value
  PageSize,     \* GLRO(dl_pagesize)
  Threshold,    \* DEFAULT_MMAP_THRESHOLD
  ThresholdMax, \* DEFAULT_MMAP_THRESHOLD_MAX
  MmapsMax,     \* the limits on n_mmaps that are ever set
  Requests,     \* bound: words asked of malloc and realloc
  Alignments,   \* bound: alignments asked of memalign
  Settings,     \* bound: thresholds that mallopt sets
  MaxRemaps,    \* bound: successful calls of mremap
  MaxFallbacks  \* bound: mappings made because an arena could not grow

ASSUME MmapAssumption ==
  /\ IsFiniteSet(Threads) /\ Threads # {} /\ IsFiniteSet(Blocks) /\ None \notin Blocks \cup Int
  /\ {PageSize, Threshold, ThresholdMax, MaxRemaps, MaxFallbacks} \subseteq Nat /\ PageSize > 0
  /\ Requests \cup Settings \cup MmapsMax \subseteq Nat /\ Alignments \subseteq Nat \ {0}
  /\ IsFiniteSet(MmapsMax) /\ MmapsMax # {}

VARIABLES
  maps,      \* block -> units the system has mapped for it
  hdr,       \* block -> [off, sz]: its prev_size and its size
  mine,      \* block of the program -> words it asked for
  mp,        \* the fields of mp_ used here
  th,        \* thread -> where it stands in a call, and its locals
  remaps,    \* mremaps that moved or resized a block
  fallbacks, \* mappings that ignored the limit
  manual,    \* mmap_threshold when a mallopt took effect, None if unknown
  lost       \* a realloc lost words that the program had in the block

ghosts == <<remaps, fallbacks, manual, lost>>
vars == <<maps, hdr, mine, mp, th, ghosts>>

HDR == 1
MINSIZE == 2

AlignUp(n, a) == ((n + a - 1) \div a) * a
Larger(m, n) == IF m < n THEN n ELSE m

(* checked_request2size: the words, the size word, rounded to units.       *)
Request2size(words) == Larger(MINSIZE, (words + 2) \div 2)

(* mmap_size and musable (in words).                                       *)
MmapSize(b) == hdr[b].off + hdr[b].sz + HDR
Usable(b) == 2 * hdr[b].sz - 1

With(f, b, v) == [x \in DOMAIN f \cup {b} |-> IF x = b THEN v ELSE f[x]]
Without(f, b) == [x \in DOMAIN f \ {b} |-> f[x]]

(* b is the block worked on and r what was asked; nb what sysmalloc maps   *)
(* and al memalign's alignment; old is the block that a realloc copies     *)
(* from and keep what the program asked it with; new is what the thread    *)
(* has read, or the result of an atomic addition.                          *)
Idle == [pc |-> "idle", b |-> None, r |-> 0, nb |-> 0, al |-> 1, old |-> None, keep |-> 0,
         new |-> 0]

At(t, pc) == th[t].pc = pc
Goto(t, call) == th' = [th EXCEPT ![t] = call]

Init ==
  /\ maps = [b \in {} |-> 0] /\ hdr = [b \in {} |-> 0] /\ mine = [b \in {} |-> 0]
  /\ mp \in [n_mmaps : {0}, n_mmaps_max : MmapsMax, max_n_mmaps : {0},
             mmapped_mem : {0}, max_mmapped_mem : {0}, no_dyn : {FALSE},
             mmap_threshold : {Threshold}, trim_threshold : {2 * Threshold}]
  /\ th = [t \in Threads |-> Idle]
  /\ remaps = 0 /\ fallbacks = 0 /\ manual = None /\ lost = FALSE

-----------------------------------------------------------------------------
(* sysmalloc.  A request maps if it is large enough and there are few      *)
(* enough mappings, three fields read one after the other; an arena that   *)
(* cannot grow maps in any case.  What an arena does give is not a step of *)
(* malloc here, and is ReallocArena of realloc.                            *)

Fallback(t, call) ==
  /\ fallbacks < MaxFallbacks
  /\ fallbacks' = fallbacks + 1
  /\ Goto(t, [call EXCEPT !.pc = "map"])

Sysmalloc(t, call) ==
  \/ /\ call.nb >= mp.mmap_threshold
     /\ Goto(t, [call EXCEPT !.pc = "limit"])
     /\ UNCHANGED fallbacks
  \/ call.nb < mp.mmap_threshold /\ Fallback(t, call)

(* malloc failed: a realloc leaves the block as it was.                    *)
Fail(t) ==
  /\ Goto(t, Idle)
  /\ mine' = IF th[t].old # None THEN With(mine, th[t].old, th[t].keep) ELSE mine

(* The words a realloc copies from block b: its size without a header.     *)
Copied(b) == 2 * (hdr[b].sz - HDR)

(* realloc has a new chunk for b, of which the program had keep words.     *)
CopyAndUnmap(t, b, keep) ==
  /\ Goto(t, [Idle EXCEPT !.pc = "unmap_count", !.b = b])
  /\ lost' = (lost \/ Copied(b) < keep)

Limit(t) ==
  /\ At(t, "limit")
  /\ Goto(t, [th[t] EXCEPT !.pc = "limit_max", !.new = mp.n_mmaps])
  /\ UNCHANGED <<maps, hdr, mine, mp, ghosts>>

BelowLimit_OffByOne(n) == n <= mp.n_mmaps_max
BelowLimit(n) == n < mp.n_mmaps_max

LimitMax(t) ==
  /\ At(t, "limit_max")
  /\ \/ /\ BelowLimit(th[t].new)
        /\ Goto(t, [th[t] EXCEPT !.pc = "map"])
        /\ UNCHANGED <<mine, fallbacks, lost>>
     \/ /\ ~BelowLimit(th[t].new)
        /\ \/ Fallback(t, th[t]) /\ UNCHANGED <<mine, lost>>
           \/ /\ th[t].old # None /\ CopyAndUnmap(t, th[t].old, th[t].keep)
              /\ UNCHANGED <<mine, fallbacks>>
           \/ Fail(t) /\ UNCHANGED <<fallbacks, lost>>
  /\ UNCHANGED <<maps, hdr, mp, remaps, manual>>

Malloc(t, r) ==
  /\ At(t, "idle")
  /\ Sysmalloc(t, [Idle EXCEPT !.r = r, !.nb = Request2size(r)])
  /\ UNCHANGED <<maps, hdr, mine, mp, remaps, manual, lost>>

(* _int_memalign asks for room for the alignment and MINSIZE before it,    *)
(* and _int_malloc pads that again.                                        *)
Memalign(t, al, r) ==
  /\ At(t, "idle")
  /\ Sysmalloc(t, [Idle EXCEPT !.r = r, !.al = al,
                               !.nb = Request2size(r) + al + MINSIZE + 1])
  /\ UNCHANGED <<maps, hdr, mine, mp, remaps, manual, lost>>

(* The mapping is made or not; then its header, and one counter after the  *)
(* other.                                                                  *)
Map(t) ==
  LET size == AlignUp(th[t].nb + HDR, PageSize)
  IN  /\ At(t, "map")
      /\ \/ \E b \in Blocks \ DOMAIN maps :
              /\ maps' = With(maps, b, size)
              /\ hdr' = With(hdr, b, [off |-> 0, sz |-> size - HDR])
              /\ Goto(t, [th[t] EXCEPT !.pc = "count", !.b = b])
              /\ UNCHANGED mine
         \/ Fail(t) /\ UNCHANGED <<maps, hdr>>
      /\ UNCHANGED <<mp, ghosts>>

Count(t) ==
  /\ At(t, "count")
  /\ mp' = [mp EXCEPT !.n_mmaps = @ + 1]
  /\ Goto(t, [th[t] EXCEPT !.pc = "count_max", !.new = mp.n_mmaps + 1])
  /\ UNCHANGED <<maps, hdr, mine, ghosts>>

AtomicMax_Blind(field, n) == mp' = [mp EXCEPT ![field] = n]
AtomicMax(field, n) == mp' = [mp EXCEPT ![field] = Larger(@, n)]

CountMax(t) ==
  /\ At(t, "count_max")
  /\ AtomicMax("max_n_mmaps", th[t].new)
  /\ Goto(t, [th[t] EXCEPT !.pc = "mem"])
  /\ UNCHANGED <<maps, hdr, mine, ghosts>>

Mem(t) ==
  /\ At(t, "mem")
  /\ mp' = [mp EXCEPT !.mmapped_mem = @ + MmapSize(th[t].b)]
  /\ Goto(t, [th[t] EXCEPT !.pc = "mem_max", !.new = mp.mmapped_mem + MmapSize(th[t].b)])
  /\ UNCHANGED <<maps, hdr, mine, ghosts>>

(* What memalign leaves before the aligned place becomes the block's       *)
(* offset; the memory of a block at v starts at v + HDR.                   *)
Lead(v, al) ==
  LET lead == AlignUp(v + HDR, al) - HDR - v
  IN  IF lead > 0 /\ lead < MINSIZE THEN lead + al ELSE lead

Aligned(h, al) == [off |-> h.off + Lead(0, al), sz |-> h.sz - Lead(0, al)]

(* The block is ready, for the program or for a realloc to copy to.        *)
MemMax(t) ==
  LET b == th[t].b  old == th[t].old
  IN  /\ At(t, "mem_max")
      /\ AtomicMax("max_mmapped_mem", th[t].new)
      /\ hdr' = [hdr EXCEPT ![b] = Aligned(@, th[t].al)]
      /\ mine' = With(mine, b, th[t].r)
      /\ \/ old = None /\ Goto(t, Idle) /\ UNCHANGED lost
         \/ old # None /\ CopyAndUnmap(t, old, th[t].keep)
      /\ UNCHANGED <<maps, remaps, fallbacks, manual>>

-----------------------------------------------------------------------------
(* free: first the thresholds, if no_dyn_threshold says that they are      *)
(* dynamic, and if the block (whose size word has the IS_MMAPPED bit) is   *)
(* then in their range.                                                    *)

Dynamic_Always == TRUE
Dynamic == ~mp.no_dyn

Free(t, b) ==
  /\ At(t, "idle") /\ b \in DOMAIN mine
  /\ mine' = Without(mine, b)
  /\ Goto(t, [Idle EXCEPT !.pc = IF Dynamic THEN "threshold" ELSE "unmap_count", !.b = b])
  /\ UNCHANGED <<maps, hdr, mp, ghosts>>

InRange(b) == hdr[b].sz >= mp.mmap_threshold /\ hdr[b].sz < ThresholdMax

ReadThreshold(t) ==
  /\ At(t, "threshold")
  /\ Goto(t, [th[t] EXCEPT !.pc = IF InRange(th[t].b) THEN "set_threshold" ELSE "unmap_count"])
  /\ UNCHANGED <<maps, hdr, mine, mp, ghosts>>

SetThreshold(t) ==
  /\ At(t, "set_threshold")
  /\ mp' = [mp EXCEPT !.mmap_threshold = hdr[th[t].b].sz]
  /\ Goto(t, [th[t] EXCEPT !.pc = "set_trim"])
  /\ UNCHANGED <<maps, hdr, mine, ghosts>>

(* The build may read mmap_threshold again or use what it has just stored. *)
SetTrim(t) ==
  /\ At(t, "set_trim")
  /\ \E m \in {mp.mmap_threshold, hdr[th[t].b].sz} : mp' = [mp EXCEPT !.trim_threshold = 2 * m]
  /\ Goto(t, [th[t] EXCEPT !.pc = "unmap_count"])
  /\ UNCHANGED <<maps, hdr, mine, ghosts>>

(* munmap_chunk.                                                           *)
UnmapCount(t) ==
  /\ At(t, "unmap_count")
  /\ mp' = [mp EXCEPT !.n_mmaps = @ - 1]
  /\ Goto(t, [th[t] EXCEPT !.pc = "unmap_mem"])
  /\ UNCHANGED <<maps, hdr, mine, ghosts>>

UnmapMem_NoOffset(t) ==
  /\ At(t, "unmap_mem")
  /\ mp' = [mp EXCEPT !.mmapped_mem = @ - (hdr[th[t].b].sz + HDR)]
  /\ Goto(t, [th[t] EXCEPT !.pc = "unmap"])
  /\ UNCHANGED <<maps, hdr, mine, ghosts>>
UnmapMem(t) ==
  /\ At(t, "unmap_mem")
  /\ mp' = [mp EXCEPT !.mmapped_mem = @ - MmapSize(th[t].b)]
  /\ Goto(t, [th[t] EXCEPT !.pc = "unmap"])
  /\ UNCHANGED <<maps, hdr, mine, ghosts>>

(* munmap of the pages that the header names.                              *)
Unmap(t) ==
  LET b == th[t].b
  IN  /\ At(t, "unmap")
      /\ maps' = IF maps[b] = MmapSize(b) THEN Without(maps, b)
                 ELSE [maps EXCEPT ![b] = @ - MmapSize(b)]
      /\ hdr' = Without(hdr, b)
      /\ Goto(t, Idle)
      /\ UNCHANGED <<mine, mp, ghosts>>

-----------------------------------------------------------------------------
(* realloc of a mapped block to r words.                                   *)

Remapped_NoOffset(b, size) == [off |-> hdr[b].off, sz |-> size - HDR]
Remapped(b, size) == [off |-> hdr[b].off, sz |-> size - hdr[b].off - HDR]

(* The block as it is, because the request fills it or needs the same      *)
(* pages, or because mremap could not shrink it.                           *)
ReallocSame(t, b, r) ==
  /\ At(t, "idle") /\ b \in DOMAIN mine /\ r <= Usable(b)
  /\ mine' = [mine EXCEPT ![b] = r]
  /\ UNCHANGED <<maps, hdr, mp, th, ghosts>>

NewSize(b, r) == AlignUp(Request2size(r) + hdr[b].off + HDR, PageSize)
NeedsRemap(b, r) == ~(r <= Usable(b) /\ Usable(b) - r < 2) /\ NewSize(b, r) # MmapSize(b)

ReallocRemap(t, b, r) ==
  LET size == NewSize(b, r)
  IN  /\ At(t, "idle") /\ b \in DOMAIN mine /\ NeedsRemap(b, r) /\ remaps < MaxRemaps
      /\ maps' = [maps EXCEPT ![b] = size]
      /\ hdr' = [hdr EXCEPT ![b] = Remapped(b, size)]
      /\ mine' = Without(mine, b)
      /\ remaps' = remaps + 1
      /\ Goto(t, [Idle EXCEPT !.pc = "remap_mem", !.b = b, !.r = r,
                              !.new = size - hdr[b].sz - hdr[b].off])
      /\ UNCHANGED <<mp, fallbacks, manual, lost>>

RemapMem(t) ==
  LET sum == mp.mmapped_mem + th[t].new
  IN  /\ At(t, "remap_mem")
      /\ mp' = [mp EXCEPT !.mmapped_mem = sum]
      /\ Goto(t, [th[t] EXCEPT !.pc = "remap_max", !.new = sum])
      /\ UNCHANGED <<maps, hdr, mine, ghosts>>

RemapMax(t) ==
  /\ At(t, "remap_max")
  /\ AtomicMax("max_mmapped_mem", th[t].new)
  /\ mine' = With(mine, th[t].b, th[t].r)
  /\ Goto(t, Idle)
  /\ UNCHANGED <<maps, hdr, ghosts>>

(* mremap failed and the block is too small: malloc, copy, unmap; malloc   *)
(* maps, gives a chunk of an arena, or fails (and then nothing changed).   *)
ReallocMap(t, b, r) ==
  /\ At(t, "idle") /\ b \in DOMAIN mine /\ NeedsRemap(b, r) /\ r > Usable(b)
  /\ mine' = Without(mine, b)
  /\ Sysmalloc(t, [Idle EXCEPT !.r = r, !.nb = Request2size(r), !.old = b, !.keep = mine[b]])
  /\ UNCHANGED <<maps, hdr, mp, remaps, manual, lost>>

ReallocArena(t, b, r) ==
  /\ At(t, "idle") /\ b \in DOMAIN mine /\ NeedsRemap(b, r) /\ r > Usable(b)
  /\ mine' = Without(mine, b)
  /\ CopyAndUnmap(t, b, mine[b])
  /\ UNCHANGED <<maps, hdr, mp, remaps, fallbacks, manual>>

-----------------------------------------------------------------------------
(* mallopt, one call at a time (the main arena's mutex): it stores the     *)
(* value and then no_dyn_threshold.                                        *)

Mallopt(t, field, value) ==
  /\ At(t, "idle") /\ \A u \in Threads : ~At(u, "mallopt")
  /\ mp' = [mp EXCEPT ![field] = value]
  /\ manual' = IF manual # None /\ field = "mmap_threshold" THEN value ELSE manual
  /\ Goto(t, [Idle EXCEPT !.pc = "mallopt"])
  /\ UNCHANGED <<maps, hdr, mine, remaps, fallbacks, lost>>

NoDyn(t) ==
  /\ At(t, "mallopt")
  /\ mp' = [mp EXCEPT !.no_dyn = TRUE]
  /\ manual' = IF \E u \in Threads : At(u, "threshold") \/ At(u, "set_threshold") THEN None
               ELSE mp.mmap_threshold
  /\ Goto(t, Idle)
  /\ UNCHANGED <<maps, hdr, mine, remaps, fallbacks, lost>>

Step(t) ==
  \/ Limit(t) \/ LimitMax(t) \/ Map(t) \/ Count(t) \/ CountMax(t) \/ Mem(t) \/ MemMax(t)
  \/ ReadThreshold(t) \/ SetThreshold(t) \/ SetTrim(t) \/ UnmapCount(t) \/ UnmapMem(t) \/ Unmap(t)
  \/ RemapMem(t) \/ RemapMax(t) \/ NoDyn(t)

Next ==
  \E t \in Threads :
    \/ Step(t)
    \/ \E r \in Requests :
         \/ Malloc(t, r)
         \/ \E al \in Alignments : Memalign(t, al, r)
         \/ \E b \in DOMAIN mine : \/ ReallocSame(t, b, r) \/ ReallocRemap(t, b, r)
                                   \/ ReallocMap(t, b, r) \/ ReallocArena(t, b, r)
    \/ \E b \in DOMAIN mine : Free(t, b)
    \/ \E v \in Settings : Mallopt(t, "mmap_threshold", v) \/ Mallopt(t, "trim_threshold", v)
    \/ \E n \in MmapsMax : Mallopt(t, "n_mmaps_max", n)

Spec == Init /\ [][Next]_vars

-----------------------------------------------------------------------------
(* Properties.                                                             *)

Quiet == \A t \in Threads : th[t].pc = "idle"
Mapped == Cardinality(UNION {{b} \X (1 .. maps[b]) : b \in DOMAIN maps})

(* The counters, kept by separate atomic steps of racing threads, come out *)
(* as each thread alone would leave them: when nobody is in a call,        *)
(* n_mmaps is the number of mappings, and mmapped_mem what they take, but  *)
(* for one header more for every mremap (see HblkhdTrue).                  *)
CountsExact ==
  Quiet => /\ mp.n_mmaps = Cardinality(DOMAIN maps)
           /\ mp.mmapped_mem = Mapped + HDR * remaps

(* mallinfo's hblkhd: "total bytes held in mmapped regions".  mremap_chunk *)
(* subtracts the old size without the header that was added with it.       *)
HblkhdTrue == Quiet => mp.mmapped_mem = Mapped

(* The peaks that malloc_stats prints are never below what they are the    *)
(* peaks of, although a thread can hold an old sum for long before it      *)
(* stores it.                                                              *)
PeaksCovered ==
  Quiet => mp.max_n_mmaps >= mp.n_mmaps /\ mp.max_mmapped_mem >= mp.mmapped_mem

(* M_MMAP_MAX is tested before the mmap and counted after it: the limit is *)
(* exceeded by at most one mapping for each other thread, and by those     *)
(* that an arena makes because it cannot grow.                             *)
LimitOvershoot ==
  mp.n_mmaps <= Max(MmapsMax) + (Cardinality(Threads) - 1) + fallbacks

(* A block holds what the program asked for, and its header names exactly  *)
(* the pages that the system mapped, after any memalign, mremap and failed *)
(* realloc: so munmap returns all of them and no others.                   *)
BlocksWhole ==
  /\ \A b \in DOMAIN mine : b \in DOMAIN hdr /\ mine[b] <= Usable(b)
  /\ DOMAIN hdr = DOMAIN maps
  /\ \A b \in DOMAIN hdr : maps[b] = MmapSize(b)

(* Once a mallopt has ended, and no free was then between its test of      *)
(* no_dyn_threshold and its store of mmap_threshold, the threshold is what *)
(* it was then until the next mallopt.                                     *)
ManualThresholdKept == manual # None => mp.mmap_threshold = manual

(* realloc: "Returns a pointer to a chunk of size n that contains the same *)
(* data as does chunk p up to the minimum of (n, p's size) bytes".         *)
ReallocKeepsData == ~lost
=============================================================================
