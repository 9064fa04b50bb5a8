# Verification of SecureC

TLA+ models of [SecureC](../src), with TLC configurations that check them on
small instances and TLAPS proofs of what holds for every size. SecureC is a
collection of replacements for C library functions; nearly all of its logic is
`scalloc`, a memory allocator derived from glibc's malloc, and the small
lock-free stack `ephemeral-hash-cas` below `sgoto`. The project models these two,
and the fill loops of `smemset`.

## The system

| component | state | operations | what makes it correct |
|---|---|---|---|
| chunks (`scalloc.c` 1136-1500) | headers in the heap: size, PREV_INUSE, prev_size; `top`, `system_mem` | split, merge, unlink, grow, trim | chunks tile the heap; tags agree with who is free; no free chunk borders another |
| bins (1548-1730) | unsorted list, 62 small and 63 large bins, binmap, `last_remainder` | sort, best fit, scan, split | every chunk in one list, of its size; large bins descend; no filled bin unmarked |
| fastbins (1736-1770, 3931-3998, 4525-4590, 4808-4911) | one singly linked list per size, `have_fastchunks` | push with compare-and-swap and no lock; pop and detach under the mutex | a stack, whatever pushes come in between |
| tcache (3052-3365) | per thread: lists of one size or sorted, with mangled links, and free slots per bin; the key | get, put, search by size and alignment, double-free check, initialise, shut down | slots and lists agree; a chunk in one cache only; the smallest fit; aborts for double frees only |
| arena (1833-1983) | the above and its mutex | `_int_malloc`, `_int_free_chunk`, `_int_realloc`, `_int_memalign`, `malloc_consolidate`, `mtrim` | the mutex covers what needs it and is given back; what is handed out fits and is nobody else's |
| system memory (2414-3046) | break, mmapped chunks, their counters and thresholds | sysmalloc, systrim, munmap, mremap | counters agree with the mappings; trimming shrinks |
| public functions (3369-3867) | - | malloc, free, realloc, memalign, calloc, malloc_trim | a failure loses nothing; alignment |
| parameters, statistics (5148-5988) | `mp_` | mallopt, mallinfo, malloc_info | limits stay consistent with the bins |
| ephemeral-hash-cas (`core.h`) | head (pointer and hash), generator | push, pop | a stack, as long as no head comes back under a pop (ABA) |
| smemset (`smemset.c`) | - | validate, fill by bytes, words and blocks of words | exactly the caller's bytes, aligned words |
| sgoto, srecv, snprintf | little or none | check and jump; receive with retries; scan for `%` | each a page of straight code |

How they interact: a public function first asks its thread's tcache, without any
lock. Otherwise it takes the arena's mutex and calls `_int_*`, which moves chunks
between fastbins, the unsorted list, the bins and the caller's hands, splitting
and merging them through the boundary tags, and turns to the system when nothing
fits. `free` of a fast size never takes the mutex: it sets `have_fastchunks` and
pushes. This is the one place where threads meet without a lock, and the flag
and the push are two steps. `arena.c`, `hooks.c` and `morecore.c`, which
`scalloc.c` includes, are not in the repository; `arena_get` is taking the main
arena's mutex, and `MORECORE` a contiguous break that may fail.

Hard to test: the interleavings of lock-free frees with the holder of the mutex;
boundary tags and list orders that one call breaks and another trips over much
later; the retry of a failed realloc; arithmetic at MINSIZE and page boundaries;
the loops that must end although other threads keep setting a flag; ABA in both
lock-free lists. PROJECT.json lists them at their lines under `hazards`.

## Modules

| module | models | extends / uses |
|---|---|---|
| `ScallocChunks` | operators on the headers: cut, split, absorb, merge, set the bit | - |
| `ScallocHeap` | what the heap promises under any policy: abstract specification of the arena | `ScallocChunks` |
| `ScallocCalloc` | calloc over any policy: what is fresh memory and what is cleared | `ScallocHeap` |
| `ScallocArena` | lists, tcache, threads, mutex and the public functions | `ScallocChunks`; INSTANCE `ScallocHeap` |
| `LockFreeStack` | a stack with atomic push, pop and take-all: abstract specification | - |
| `ScallocFastbin` | one fastbin, access by access | INSTANCE `LockFreeStack` |
| `ScallocSizes` | request padding, bin, fastbin and tcache indices, what the tunables accept, in bytes | - |
| `ChunkCache` | what per-thread caches promise: abstract specification | - |
| `ScallocTcache` | the caches with their links, slots, search, key, initialisation and shutdown | `ScallocSizes`; INSTANCE `ChunkCache` |
| `ScallocMmap` | mapped chunks, their counters, the limit and the thresholds | - |
| `EHashStack` | `core.h`, access by access | INSTANCE `LockFreeStack` |
| `Smemset` | the checks and loops of smemset | - |
| `MC*` | symmetry and sets for TLC | |
| `ScallocHeapProofs`, `ScallocArenaProofs`, `ScallocArenaHeapProofs`, `ScallocMmapProofs`, `ScallocFastbinProofs`, `EHashStackProofs`, `ScallocTcacheProofs`, `SmemsetProofs` | theorems | `TLAPS` |

### How the arena corresponds to the code

Addresses and sizes count units of 16 bytes (MALLOC_ALIGNMENT), so MINSIZE is 2
and a request is its chunk size (`checked_request2size` is applied by the caller
of the model). `hdr` maps exactly the addresses where a chunk starts to its
header: reading a header elsewhere is an error that TLC reports. The
doubly linked lists are sequences, `fd` end first; the fastbins and tcache bins
are sequences, head first. Each of `lock`, `top`, `system_mem`, `fastbins`,
`have_fastchunks`, `unsorted`, `bins`, `binmap`, `last_remainder` is the field of
`malloc_state` of that name.

A thread's call is a record in `op`: a program counter and the locals that matter.
A step that holds the mutex is as large as possible without hiding anything from
other threads: what the mutex protects cannot be seen by them, and each access to
a fastbin or to `have_fastchunks`, which they do see, falls in a step of its own.
So `_int_malloc` is `TakeFast`/`StashFast`, `TakeSmall`/`StashSmall`,
`StartSearch`, one step per pass of the unsorted loop (`SplitRemainder`,
`ExactFit`, `SortVictim`), `ReturnCached`, `BestFit`, `ScanBins`, `UseTop`,
`SearchAgain` and `SysMalloc`; `malloc_consolidate` is `ConsolidateBegin`,
`ConsolidateDetach`, `ConsolidateChunk`, `ConsolidateEnd`; the lock-free half of
`_int_free_chunk` is `FreeFlag` and `FreePush`, its other half `FreeMerge`.
`FreeLocked`, `FreeMerged` and `MaybeConsolidate` are what `_int_realloc` and
`_int_memalign` share with free.

A fastbin is one step per push and pop here; that the loops deserve this is what
`ScallocFastbin` shows. There a chunk's `fd` becomes `Junk` as soon as somebody
holds the chunk, and each load, store and compare-and-swap is a step.

The large bins are scaled: one width of sizes per bin and two or three bins,
where the code has five widths and 63 bins. The order inside a bin, the last bin
without an upper bound and the scan of the binmap are kept. A large bin's skip
list over the sizes (`fd_nextsize`) is determined by the bin's order and is not
state of the model.

A cache bin of this module holds chunks of one size, as the code's 64 small bins do.
`TcacheMax` may be any size: the code's default caches sizes up to 1040, of which
1024 and 1040 are large (MIN_LARGE_SIZE is 1024), and the instances cache large
sizes too. The large cache bins of several sizes that the
tunable `glibc.malloc.tcache_max` adds, which hand out chunks larger than asked, are
in `ScallocTcache` only.

### The caches

`ScallocTcache` opens the caches that `ScallocArena` treats as sequences:
a bin's head is a plain pointer and each chunk's link is
mangled with the chunk's own address (`PROTECT_PTR`), so a value records what it
was mangled with, and decoding it in the wrong way gives `Junk`. `tcache_put_n`,
`tcache_get_n` and the walks of `tcache_location_large`, `tcache_get_align` and
`tcache_double_free_verify` are operators over *places*, the `tcache_entry **` of
the code with its `mangled` flag. The list work of a thread is one step, as
nobody else sees it; the steps in between are those of the calls: `Miss`,
`TcacheInit` and what `_int_malloc` does with the cache before it gives a chunk
(`Stash`, `ReturnCached`, `TakeBack`, `Given`, `Fails`), `DoubleFreeVerify`, and one
`ShutdownStep` and `ShutdownFree` per chunk. A `free` of the program's chunk
finds anything in its second word, the key included; a second free of a cached
chunk is the program's error that the key is for. The arena is a pool: sizes and
alignment of what it gives follow `_int_malloc`'s split rule. A memalign asks it for
more than the aligned chunk needs; if `_int_malloc` has cached chunks of that padded
size, it takes one of them back for `_int_memalign` to cut (`TakeBack`).

### Mapped chunks

In `ScallocMmap` every access to `mp_` that races is a step, in the order the
expressions are written, since the callers hold no common lock (threads have arenas
of their own). For `sysmalloc` these are the loads of `mmap_threshold`, `n_mmaps` and
`n_mmaps_max` (`Sysmalloc`, `Limit`, `LimitMax`), the mapping, and each of the four
counter updates; for `free` the loads of `no_dyn_threshold` and `mmap_threshold` and
the stores of both thresholds (`Free`, `ReadThreshold`, `SetThreshold`, `SetTrim`);
for a mallopt its two stores. `maps` is what the system has mapped, `hdr` what the
chunk's header
says, and the two are compared. Words of 8 bytes measure what the program asked,
units of 16 bytes the chunks. `remaps`, `fallbacks`, `manual` and `lost` are
history.

### calloc

`ScallocCalloc` adds to the heap which words may be non-zero, as the contract of
MORECORE_CLEARS = 1 (517-533) allows: fresh memory is clear, memory given back and
taken again is not. A calloc reads top, its size and `max_system_mem`, then
`_int_malloc` consolidates and takes a chunk from anywhere, then it clears.

## What the runs check

| run | instance | states | shows |
|---|---|---|---|
| `heap_calloc` | 12 units | 436 K | `TypeOK`, `Tiling`, `BoundaryTags`, `Coalesced` whatever is split, merged, grown and trimmed; `CallocClears` |
| `arena_bins` | 1 thread, 16 units, malloc and memalign of small and large sizes, no fastbins, a cache of one chunk | 1.7 M | `BinsOrdered`, `BinmapCovers`, `BestFitChosen` with several free chunks in one bin; `CacheBounded`, `LiveFits`, `AlignedResult` |
| `arena_threads` | 2 threads, 8 units, fast and large sizes, realloc down, up and out, memalign, malloc_trim; a cache of one chunk | 221 K | `LockHeld`, `TypeOK`, `OneOwner`, `LiveFits`, `ImplementsHeap` under the interleavings of lock-free frees; `LockReleased` |
| `fastbin_loops` | 3 threads, 3 chunks | 47 K | `ImplementsStack`, `NoJunkFollowed`, `PopEnds` |
| `tcache` | 2 threads, 3 chunks, 7 small bins and a large one, 3 settings of `tcache_max`, memaligns that fill a bin and cut what they take back; symmetry | 431 K | `SlotsAccount`, `CacheFirst`, `AbortsOnDoubleFreeOnly`, `ShutdownReleases`, `SizesHaveBins`, `ImplementsCache` |
| `mmap` | 2 threads, 3 blocks, limits 0 and 1, a mremap or an arena that cannot grow; symmetry, view | 3.5 M | `CountsExact`, `PeaksCovered`, `LimitOvershoot`, `BlocksWhole`, `ManualThresholdKept` |
| `ehash` | 2 threads, 3 nodes, 6 hashes, up to the first recurrence; symmetry | 14 K | `StackUntilRecurrence`, `RecursOnlyAfterReuse`, whatever is drawn |
| `smemset` | memory of 200 bytes, every alignment, lengths to 155 | 40 K | `ExactFill`, `WordsAligned` |
| `arena_trim`, `ehash_seed_zero`, `mmap_realloc`, `mmap_total` | | | disagreements, see below |

`ImplementsHeap` is a refinement: `ScallocArena` with `free` read off its bins and
unsorted list takes only steps of `ScallocHeap`, so `Tiling`, `BoundaryTags` and
`Coalesced` need not be checked again in the large runs. `ImplementsStack` is
another, of the fastbin, and `StackUntilRecurrence` the part of it that holds for
`core.h`; `ImplementsCache` says that mangled lists, slots and flags are
caches in which every chunk is in one place and keeps its size.

Bounds. Twelve units hold six chunks, enough for a chunk with two neighbours
of either kind, top, and a rest on each side. Eight units, where two threads meet,
hold top and two chunks with a rest between them, or a chunk that realloc cannot
grow in place and the one it moves to; sizes of 2 and 4, fast and large, split into
and merge to each other and to sizes nobody asked for. Sixteen units are the least in
which two free chunks of different sizes share a large bin, beside one that is cached.
Two threads suffice for one
lock holder and one lock-free free; a second lock-free free meets the first only
in the fastbin, where `fastbin_loops` has three threads. One slot per cache makes
it fill and overflow. MAX_ITERS is 2 so that the unsorted loop is cut short;
thresholds of consolidation and trim lie within the heap so that both happen.
Three nodes are the least for ABA (two popped, one pushed back).
The 64 small and 12 large bins of a cache are scaled to seven and one, so that the
padded request of a memalign has a small bin and three chunks share the large one in
different orders of size and alignment; the widths of the bins and the index
arithmetic are the code's, with an int of 12 bits for `__builtin_clz`. The setting
4200 of `tcache_max` stands for one beyond 4 GiB, accepted by its low bits;
`SizesHaveBins` is checked of the state it gives, and the run goes no further
(`CONSTRAINT Below4GiB`), as what lies behind the bins is not modelled. Mapped
blocks come in two sizes besides those that alignment and mremap make, one below
and one above the threshold that is set; one mremap or one fallback suffices to
meet the counters of the other thread (`OneDeparture`). The view `Trimless` leaves out
`trim_threshold`, which is stored and not read here. Six hashes
are the one of the empty stack, one that the head has, and two that each of two
threads has read or drawn: a draw can always be new. The run `ehash` is cut at the
first recurrence, behind which its properties say nothing. One block of eight words, one word and
both rests fit in 155 bytes at any of 17 alignments, and the limits lie between.
`UnsortedLimit` is 0, as the code's default: the branch that returns a cached
chunk early is modelled and not reached by these runs. The run `tcache` does not
check for deadlock, since a process that aborted has stopped.

Fairness. Each thread is weakly fair in the steps of a call it is in, nothing
else: no thread has to make calls and no mutex has to be fair, since `LockReleased`
and `PopEnds` are about a thread that has the mutex. The operating system
schedules a runnable thread. `LockReleased` holds because one consolidation
clears the flag for all, and each push that sets it again uses up a chunk that
the other thread must first have got, with the mutex, from the arena.

## What is proved

By TLAPS, from the assumptions on the constants alone (`HeapAssumption`,
`NoneAssumption`, `ArenaAssumption`, `MmapAssumption`, `FastbinAssumption`,
`EHashAssumption`, `SmemsetAssumption`, `SizesAssumption`, `PowersOfTwo`,
`TcacheAssumption`, `BinsAssumption`; TLC evaluates them in every run), for any
number of threads, chunks, nodes, blocks, sizes and settings. Each inductive
invariant was checked by TLC on the instance of its component before it was proved.

Heap and calloc (`ScallocHeapProofs`)

- `TypeOK`, `Tiling`, `BoundaryTags` and `Coalesced` are
  invariants of `ScallocHeap` for every heap limit. None is inductive alone: a
  merge needs the tags to find its neighbours, the tags need the tiling to know
  which header is behind a chunk, and completeness of merging needs that no two
  free chunks touch. `IInv` joins them: `Laid` (the tiling, with every chunk but
  the first having a predecessor), `Tagged`, `Apart` and the least sizes, or the
  still empty heap. The lemmas follow the operators: `CutGood`, `JoinGood`,
  `MergeLaid` and the coalescing lemmas say what each does to the parts, for any
  headers; the steps of the actions put them together.
- `CallocReturnsClear`: calloc returns clear memory, whatever it skips because
  top was fresh. `CallocHeap` first says that a behaviour of calloc is one of the
  heap, so that its invariants hold. `CallocInv` adds that memory which
  may not be clear lies below `max_system_mem`, and that the top and its size which
  a call has read reach that far: what it takes beyond them was never used.

Arena (`ScallocArenaProofs`, then `ScallocArenaHeapProofs`)

- `ArenaLockHeld`: the mutex, for any number of threads and
  any sizes. The strengthening says, of each call, where `malloc_consolidate` and
  the trim return to, since both run inside calls that hold the lock for
  different reasons; each action then moves the lock as its next step needs.
- `ArenaBinmapCovers`: no filled bin is unmarked, for any
  bins, sizes and threads.
- `ArenaCacheBounded`: no thread's cache outgrows its slots, whoever filled it. Two
  of the places that take a chunk out, both in `_int_malloc`, do not look whether
  there is one; they trust the flag `return_cached`. The invariant adds to the bound
  what makes that right: from the caching of a chunk until the search ends, through
  a consolidation too, the size asked for stays the same and its list is not empty.
- `ArenaInvariant` is the invariant that the other theorems need. A chunk is at one
  *place*: top, the program, the unsorted list, a bin, a fastbin, a cache, or one of
  the three a call has, `p`, `v` and the chain it has detached (`Owned`, with
  `ListsOnce`: no list has a chunk twice). `SizesInv` says of which sizes the chunks
  of a place are and `Ordered` how a bin is sorted; `CallsInv` says of every call
  what its next step relies on, such as that the chunk a search has found fits what
  the call wants, through a consolidation and a trim up to the end, or that realloc's
  old chunk is as the program had it. `HP!IInv`, the heap's own invariant, gives
  the neighbours of a chunk. None of these stands alone: a merge takes the chunks
  beside the freed one off whatever list has them, which is right only because the
  tags say that they are free, and they are in a bin or unsorted only because no
  other place has them.
- Every action is taken apart in two: a list changes by an element or two (`Fewer`,
  `More`, which keep the order), chunks go from place to place (`Rehomes`, and
  `Placing` for the places of a call), and the headers change as one action of
  the heap allows, by the lemmas on cuts and merges of `ScallocHeapProofs` (instance
  `HP`). `ScallocArenaProofs` has the steps that hand a chunk on as it is,
  `ScallocArenaHeapProofs` those that cut and merge; `OwnNext` puts them together.
- From it follow `ArenaTypeOK`, `ArenaOneOwner`, `ArenaLiveFits`, `ArenaBinsOrdered`
  and `ArenaAlignedResult`, with several threads and frees that take no mutex.
- `ArenaImplementsHeap`: every step of malloc, free, realloc, memalign, malloc_trim
  and consolidation is a step of `ScallocHeap` or a stutter. So `ArenaHeapSound`:
  the tiling, the boundary tags and the coalescing hold in every arena.
- `ArenaBestFit`, about pairs of states: when a bin holds a chunk that is large
  enough, the search takes the smallest such chunk, and neither splits top nor grows
  the heap. The scan starts above the bin of the request. For a large one that bin
  has been searched; for a small one it was empty when the search began, and
  `PassedBy` says that it still is: the loop sorts chunks of other sizes only, a
  consolidation puts none into bins, and nobody else may touch them.

Lock-free lists (`ScallocFastbinProofs`, `EHashStackProofs`)

- `FastbinNoJunkFollowed` and `FastbinImplementsStack`: the loops never follow user
  data, and each of their steps is a stutter or one step of `LockFreeStack`. The
  invariant is a *shape*: there are sequences `L` and, for each thread, `W[t]` such
  that `fd` links the chunks of `L` from `*fb` on and those of `W[t]` from where t
  is in the list it detached, without repetition, apart from each other and from
  what anybody holds; and a thread's locals fit them. A push may succeed after the
  head came back (ABA), which is harmless: its chunk still links to the head. A
  pop may not, and does not, because everybody who takes chunks needs the mutex.
- `EHashStackUntilRecurrence` and `EHashRecursOnlyAfterReuse`, of `core.h`, where pops
  have no mutex, with no assumption on what is drawn. A generator whose values have 16
  bits repeats them from every seed, so that the stack cannot be proved to be one
  without more (`ehash_seed_zero`). The first theorem says what alone spoils it: a
  head word that is stored while a pop holds the same word and the next field it
  read. Until then the stack is a *shape* as above, a pop that succeeds has read the
  next field of a node that was on the stack all the time, and a push may succeed
  after its head came back. The second says what it takes: a hash that the head or a
  thread still remembered when it was drawn. `Fresh` is its invariant: a hash that
  was new when drawn and is not stored yet is in no thread's copy of the head,
  however long that lasts.
- The refinements read the stack off the words with `ListFrom`, a recursive
  function. That it finds the list which the words make is `ListFromLinks`: the
  prefixes of the list satisfy its recursion, and a least argument at which another
  solution differed from them cannot exist (`LeastNumber`, from the
  well-foundedness of finite sets). This replaces an induction theorem.

Mapped chunks (`ScallocMmapProofs`)

- `MmapCountsExact`, `MmapPeaksCovered`, `MmapLimitOvershoot`, `MmapBlocksWhole` and
  `MmapManualThresholdKept`, from `MmapInvariant`. When a thread is in a call, no
  counter is what the property says of a quiet state; the invariant says by how
  much it is off. `NumberInv`: `n_mmaps` is the mappings less those that a
  thread has made and not counted, or uncounted and not unmapped. `MemoryInv`:
  `mmapped_mem` is the sum, over the mapped blocks, of what has been added for each
  so far, and a header per mremap. The sum is the cardinality of a set of pairs,
  so that one block's change is a union or a difference. `PeaksInv`: a peak below
  its counter is about to be raised by a thread that holds a larger sum. `LimitInv`: the threads between
  the test of the limit and their own count bound the overshoot. `ManualInv`: if a
  mallopt has ended while no free was between its load of `no_dyn_threshold` and its
  store, no free gets there any more. (If one was, it may overwrite the threshold.) `BlocksInv`: header
  and mapping agree, and no two threads work on one block.

Caches and sizes (`ScallocTcacheProofs`)

- The sizes: a padded request fits its chunk (`RequestFits`), every
  chunk size has a bin (`BinIndexInRange`) and a larger one never an earlier bin
  (`BinIndexMonotone`: the scan over larger bins relies on it, across the borders
  of the six widths), and every size below the limit that M_MXFAST sets has a
  fastbin (`FastbinIndexInRange`). `TcacheSizesHaveBins` says of the caches' tunables and
  their bins of doubling width that each size below the `tcache_max` in force has
  a bin exactly when what the code's own test has accepted is below 4 GiB
  (`Below4GiB`), for every setting. That a size below the range of an int has no bin,
  which the second direction needs, is `BinsAssumption`. The provers know nothing
  of powers, so `PowersOfTwo` states that each is twice the one before; TLC computes
  that.
- `TcacheInvariant` carries the others. They have the hypothesis `Below4GiB`, since what a
  put behind the bins overwrites is not modelled. Its core is `Lists`: from the head of every
  bin, links mangled with the addresses they are stored at make a *chain* of
  different chunks in ascending order. A search stops at one place of the chain
  (`ChainSearch`), and what `tcache_put_n` and `tcache_get_n` write at a place of a chain
  makes a chain with one chunk more or less (`ChainInsert`, `ChainRemove`). Around it
  stand: the chunks of a bin are of its sizes and carry the key; with the
  free slots they make up `tcache_count`; a closed cache is empty; `CachesInv`, the
  invariant of the abstract caches, which says that chunks of different bins,
  threads and owners are different, without which a write to one list might
  be seen in another; and what each call that is under way relies on: the size it
  asks the arena for, that the list it has stashed to is not empty, that the chunk it
  verifies or releases is still where it was.
- From it follow `TcacheSlots`, `TcacheAborts` (a false alarm would need a key or a
  full bin to be mistaken for the chunk itself), `TcacheShutdown`, and
  `TcacheFirst`, about pairs of states: a request leaves for the arena only when no
  chunk of its bin would do, and otherwise gets the smallest. That the walk
  stops at the *first* fitting place gives the smallest only because of the order,
  in bins that searches by alignment walk further than others.
- `TcacheImplementsCache`: each step of the code's lists is one of `ChunkCache` or a
  stutter, and `TcacheOnePlace` says what the abstract caches promise: a chunk is with
  the arena, the program or one thread's cache, and no cache outgrows `tcache_count`.

smemset (`SmemsetProofs`)

- `ExactFill` and `WordsAligned` for every memory, destination,
  length and limit, with words of 4 or 8 bytes. The strengthening relates the two
  counters to what is left: in the block loop `xlen` is `len` divided by eight words less
  what the loop has stored, and so on, so that the remainders of the three
  divisions add up to the length; and that all bytes of `cccc` hold c.

Only model-checked are the liveness properties, `LockReleased` and `PopEnds`, since
TLAPS does not reach fairness. Every other property that a passing run checks is
stated by a theorem.

## Where code and documentation disagree

- `arena_trim`: with top of exactly MINSIZE, `systrim` (2923-2931) computes a
  negative release, compares it unsigned and calls `MORECORE` with a positive
  size: `malloc_trim` grows the heap and reports that it released memory.
  `max_system_mem` does not follow, and a calloc after that may take memory the
  heap once gave back for fresh; `CallocClears` is stated for heaps that no trim
  has overgrown.
- `mmap_realloc`: when a mapped chunk cannot be remapped, `realloc` copies
  `oldsize - CHUNK_HDR_SZ` bytes (3575), 8 less than such a chunk holds
  (`memsize`): a block filled to the end of its pages loses its last word.
- `ehash_seed_zero`: the hashes of `core.h` are not "one-time" (README.md:4 of the
  library): line 42 keeps 16 bits, which come again from every seed, and from seed 0
  each of them is 0. A head that went away and came back is then taken for the old one.
- `mmap_total`: `hblkhd`, the "total bytes held in mmapped regions" (681, 5307), is
  one header too much for every mremap: 3043 subtracts the old size without the header
  that 2445 had added. `CountsExact` says that the racing updates add no other error.

Three more are what a property that holds has to leave room for; they have no run of
their own.

- M_MMAP_MAX is called "the maximum number of requests to simultaneously service
  using mmap" (1060), but threads that compare (2529) before either counts (2440) pass
  together. `LimitOvershoot` says by how much the limit is exceeded.
- The user's setting should "disable any dynamic behavior" of `mmap_threshold`
  (1898-1900), but a free that has read `no_dyn_threshold` (4628) before the mallopt
  stores its own threshold (4630) after it. `ManualThresholdKept` has as its condition
  that no free was on that way when the mallopt ended.
- "Caller must ensure that we know tc_idx is valid" (3120), but
  `do_set_tcache_max` (5472-5495) accepts a maximum of 4 GiB and more by the low 32 bits
  (3117), and sizes from 8 MiB on then index past the bins. `SizesHaveBins` says that
  it goes wrong then and only then.

## Not modelled

In the arena: the branches for SINGLE_THREAD_P (the one-thread runs take
the general ones), memory tagging and perturbation, huge pages, other arenas and
their heaps, sysmalloc's fencepost and foreign-sbrk paths and
`sysmalloc_mmap_fallback`, and the aborts on corrupted data, whose conditions the
invariants exclude (the double-free check is modelled). In the caches: memory
for the structure itself, which is not one of the chunks, where memalign cuts a chunk,
which `ScallocArena` has, and what lies behind the bins of a `tcache_max` of 4 GiB or more. For mapped chunks: what arenas give. Memory order weaker
than release and acquire. Sizes that wrap near SIZE_MAX.

Statistics and dumps read the state and print it. `sgoto` is inline assembly
that compares addresses and jumps, and keeps no state. `snprintf` scans a string
in assembly. `srecv` checks its arguments and calls `recv` at most three times, on
local variables; a test reaches all of it. `malloc_constants` are getters of
constants, and its anti-debug check measures time.
