---------------------------- MODULE ScallocArena ----------------------------
(***************************************************************************)
(* The main arena of scalloc.c: the chunks of the heap with their boundary *)
(* tags, the lists that hold free chunks (fastbins, unsorted list, small   *)
(* and large bins with their binmap, the tcache bins of one size each),    *)
(* and malloc, free, realloc, memalign and malloc_trim over them, with     *)
(* several threads.                                                        *)
(*                                                                         *)
(* The arena's mutex is `lock`.  Frees to a fastbin and all tcache work    *)
(* happen outside it, between any two steps of the thread that holds it.   *)
(*                                                                         *)
(* An operator X_Slip, like Enter_NoLock, is X with a plausible slip; the  *)
(* specification never uses it.  It stands before X so that X can be       *)
(* replaced by it to see that a property notices.                          *)
(***************************************************************************)
EXTENDS ScallocChunks, Sequences, SequencesExt

CONSTANTS
  Threads,        \* the threads of the program
  MinLarge,       \* MIN_LARGE_SIZE
  LargeWidth,     \* sizes sharing one large bin (largebin_index, one width)
  LargeBins,      \* number of large bins; the last takes every larger size
  MaxFast,        \* get_max_fast()
  TcacheMax,      \* mp_.tcache_max_bytes: cached sizes are below it, one to a bin
  TcacheCount,    \* mp_.tcache_count: slots of each tcache bin
  UnsortedLimit,  \* mp_.tcache_unsorted_limit, 0 when there is none
  MaxIters,       \* MAX_ITERS of the unsorted loop
  ConsolidationThreshold, \* FASTBIN_CONSOLIDATION_THRESHOLD
  TrimThreshold,  \* mp_.trim_threshold
  TopPad,         \* mp_.top_pad
  PageSize,       \* GLRO(dl_pagesize)
  HeapLimit,      \* bound: MORECORE fails beyond this many units
  MallocSizes,    \* bound: chunk sizes asked of malloc
  ReallocSizes,   \* bound: chunk sizes asked of realloc
  AlignRequests,  \* bound: <<alignment, chunk size>> pairs asked of memalign
  TrimPads        \* bound: arguments of malloc_trim

ASSUME ArenaAssumption ==
  /\ None \notin Threads
  /\ {MinLarge, LargeWidth, LargeBins, MaxFast, TcacheMax, TcacheCount, UnsortedLimit,
      MaxIters, ConsolidationThreshold, TrimThreshold, TopPad, PageSize, HeapLimit} \subseteq Nat
  /\ MinLarge > MINSIZE /\ LargeWidth > 0 /\ LargeBins > 0 /\ PageSize > 0
  /\ MaxFast < MinLarge
  /\ MallocSizes \cup ReallocSizes \subseteq {n \in Nat : n >= MINSIZE}
  /\ TrimPads \subseteq Nat
  /\ \A r \in AlignRequests : r[1] \in Nat \ {0} /\ r[2] \in Nat /\ r[2] >= MINSIZE

VARIABLES
  lock,            \* owner of av->mutex, or None
  hdr,             \* chunk address -> [sz, pinuse, psz]
  top,             \* av->top
  system_mem,      \* av->system_mem
  fastbins,        \* fast size -> addresses, head first
  have_fastchunks, \* av->have_fastchunks
  unsorted,        \* the unsorted list, fd end first
  bins,            \* bin index -> addresses, fd end first
  binmap,          \* the marked bin indices
  last_remainder,  \* av->last_remainder
  tcache,          \* thread -> cached size -> addresses, head first
  live,            \* chunks the program owns -> the size it asked for
  op               \* thread -> the call it is in

heapVars == <<hdr, top, system_mem>>
binVars == <<unsorted, bins, binmap, last_remainder>>
fastVars == <<fastbins, have_fastchunks>>
vars == <<lock, heapVars, fastVars, binVars, tcache, live, op>>

-----------------------------------------------------------------------------
(* Sizes and bins.                                                         *)

InSmallbinRange(sz) == sz < MinLarge
FastSizes == MINSIZE .. MaxFast

(* The sizes below tcache_max_bytes are cached, of which the largest are   *)
(* not InSmallbinRange with the default.  They have a tcache bin each: so  *)
(* they do up to the default; the bins of many sizes that a larger         *)
(* tcache_max adds are in ScallocTcache.                                   *)
TcacheSizes == MINSIZE .. (TcacheMax - 1)

(* One index space: a small bin's index is its size, as smallbin_index.    *)
BinIndex(sz) ==
  IF InSmallbinRange(sz) THEN sz
  ELSE LET i == (sz - MinLarge) \div LargeWidth
       IN  MinLarge + (IF i < LargeBins THEN i ELSE LargeBins - 1)
BinIndices == MINSIZE .. (MinLarge + LargeBins - 1)

AlignUp(n, a) == ((n + a - 1) \div a) * a

(***************************************************************************)
(* A call in progress.  fn is the public function and pc its next step;    *)
(* want, al and pad are its arguments and nb what _int_malloc is asked     *)
(* for; v is the chunk it holds or will return; p is the program's chunk   *)
(* it works on and old what p was asked with.  iters and sorted count the  *)
(* passes of the unsorted loop, cached is return_cached; fb and chain are  *)
(* where malloc_consolidate stands, after is where it returns to, and k    *)
(* where _int_free_maybe_consolidate does.                                 *)
(***************************************************************************)
Idle ==
  [fn |-> "none", pc |-> "idle", want |-> 0, nb |-> 0, al |-> 1, pad |-> 0, p |-> None,
   old |-> 0, v |-> None, iters |-> 0, sorted |-> 0, cached |-> FALSE, fb |-> 0,
   chain |-> <<>>, after |-> "idle", k |-> "idle"]

(* The steps taken with the arena's mutex held.                            *)
LockedPCs ==
  {"int_malloc", "stash_fast", "stash_small", "unsorted", "fit", "consolidate", "systrim",
   "got", "aligned", "done"}
(* malloc's retry after a failed realloc, and the two halves of a free     *)
(* that takes the fastbin path, run without it.                            *)
UnlockedPCs == {"idle", "retry", "free_chunk", "push"}

Holds(t, pc) == op[t].pc = pc /\ lock = t

-----------------------------------------------------------------------------
(* Lists.                                                                  *)

(* unlink_chunk: c leaves the list that has it (None is in no list).       *)
Unlink_Forgotten(s, c) == s
Unlink(s, c) == RemoveFirst(s, c)

(* A list without the two neighbours that m merges.                        *)
Merged_KeepsNext(s, m) == Unlink(s, m.prev)
Merged(s, m) == Unlink(Unlink(s, m.prev), m.next)

(* _int_free_merge_chunk and _int_free_create_chunk with headers h, chunk  *)
(* out unlinked before: a small result goes straight to the front of its   *)
(* bin, a large one to the unsorted list.                                  *)
FreeMerged(h, m, out) ==
  LET b     == [i \in BinIndices |-> Merged(Unlink(bins[i], out), m)]
      u     == Merged(Unlink(unsorted, out), m)
      small == ~m.atTop /\ InSmallbinRange(m.sz)
      large == ~m.atTop /\ ~InSmallbinRange(m.sz)
  IN  /\ hdr' = MergedHdr(h, m)
      /\ top' = IF m.atTop THEN m.q ELSE top
      /\ bins' = IF small THEN [b EXCEPT ![BinIndex(m.sz)] = <<m.q>> \o @] ELSE b
      /\ binmap' = IF small THEN binmap \cup {BinIndex(m.sz)} ELSE binmap
      /\ unsorted' = IF large THEN <<m.q>> \o u ELSE u
      /\ UNCHANGED <<system_mem, last_remainder>>

(* _int_free_maybe_consolidate: what follows the merge of sz units, k      *)
(* afterwards.                                                             *)
MaybeConsolidate(call, sz, k) ==
  IF sz < ConsolidationThreshold THEN [call EXCEPT !.pc = k]
  ELSE IF have_fastchunks
       THEN [call EXCEPT !.pc = "consolidate", !.fb = 0, !.chain = <<>>,
                         !.after = "systrim", !.k = k]
       ELSE [call EXCEPT !.pc = "systrim", !.k = k]

(* _int_free_chunk by a thread that has the lock, which then goes on as    *)
(* call says: a fast size is pushed, any other is merged.                  *)
FreeLocked(t, h, p, out, call) ==
  IF h[p].sz <= MaxFast
  THEN /\ have_fastchunks' = TRUE
       /\ fastbins' = [fastbins EXCEPT ![h[p].sz] = <<p>> \o @]
       /\ op' = [op EXCEPT ![t] = call]
       /\ hdr' = h
       /\ bins' = [i \in BinIndices |-> Unlink(bins[i], out)]
       /\ unsorted' = Unlink(unsorted, out)
       /\ UNCHANGED <<top, system_mem, binmap, last_remainder>>
  ELSE LET m == Merge(h, top, p, TRUE)
       IN  /\ FreeMerged(h, m, out)
           /\ op' = [op EXCEPT ![t] = MaybeConsolidate(call, m.sz, call.pc)]
           /\ UNCHANGED fastVars

-----------------------------------------------------------------------------
(* _int_malloc.                                                            *)

Slots(t, sz) == TcacheCount - Len(tcache[t][sz])
CacheWanted_NoLimit(t, nb) == nb \in TcacheSizes
CacheWanted(t, nb) == nb \in TcacheSizes /\ Slots(t, nb) > 0

(* A call takes the mutex and starts _int_malloc for nb units.             *)
Enter_NoLock(t, call, nb) ==
  /\ lock' = t
  /\ op' = [op EXCEPT ![t] = [call EXCEPT !.pc = "int_malloc", !.nb = nb]]
Enter(t, call, nb) ==
  /\ lock = None
  /\ lock' = t
  /\ op' = [op EXCEPT ![t] = [call EXCEPT !.pc = "int_malloc", !.nb = nb]]

Got(t, v) == op' = [op EXCEPT ![t].pc = "got", ![t].v = v]

(* The search proper: iters and sorted start at 0, nothing cached.         *)
Search(call) == [call EXCEPT !.pc = "unsorted", !.iters = 0, !.sorted = 0, !.cached = FALSE]

HasFast(nb) == nb <= MaxFast /\ fastbins[nb] # <<>>
HasSmall(nb) == InSmallbinRange(nb) /\ bins[nb] # <<>>

(* REMOVE_FB: ScallocFastbin shows that the compare-and-swap loop pops     *)
(* the head in one step while other threads push.                          *)
TakeFast(t) ==
  LET nb == op[t].nb
  IN  /\ Holds(t, "int_malloc") /\ HasFast(nb)
      /\ fastbins' = [fastbins EXCEPT ![nb] = Tail(@)]
      /\ op' = [op EXCEPT ![t].pc = "stash_fast", ![t].v = Head(fastbins[nb])]
      /\ UNCHANGED <<lock, heapVars, have_fastchunks, binVars, tcache, live>>

StashFast(t) ==
  LET nb == op[t].nb
  IN  /\ Holds(t, "stash_fast")
      /\ IF CacheWanted(t, nb) /\ fastbins[nb] # <<>>
         THEN /\ tcache' = [tcache EXCEPT ![t][nb] = <<Head(fastbins[nb])>> \o @]
              /\ fastbins' = [fastbins EXCEPT ![nb] = Tail(@)]
              /\ UNCHANGED op
         ELSE Got(t, op[t].v) /\ UNCHANGED <<tcache, fastbins>>
      /\ UNCHANGED <<lock, heapVars, have_fastchunks, binVars, live>>

TakeSmall(t) ==
  LET nb == op[t].nb
  IN  /\ Holds(t, "int_malloc") /\ ~HasFast(nb) /\ HasSmall(nb)
      /\ hdr' = SetInuse(hdr, Last(bins[nb]))
      /\ bins' = [bins EXCEPT ![nb] = Front(@)]
      /\ op' = [op EXCEPT ![t].pc = "stash_small", ![t].v = Last(bins[nb])]
      /\ UNCHANGED <<lock, top, system_mem, fastVars, unsorted, binmap, last_remainder,
                     tcache, live>>

StashSmall(t) ==
  LET nb == op[t].nb
  IN  /\ Holds(t, "stash_small")
      /\ IF CacheWanted(t, nb) /\ bins[nb] # <<>>
         THEN /\ hdr' = SetInuse(hdr, Last(bins[nb]))
              /\ tcache' = [tcache EXCEPT ![t][nb] = <<Last(bins[nb])>> \o @]
              /\ bins' = [bins EXCEPT ![nb] = Front(@)]
              /\ UNCHANGED op
         ELSE Got(t, op[t].v) /\ UNCHANGED <<hdr, tcache, bins>>
      /\ UNCHANGED <<lock, top, system_mem, fastVars, unsorted, binmap, last_remainder, live>>

(* Neither list has a chunk of the size: a large request first             *)
(* consolidates the fastbins if the flag says that there are any.          *)
StartSearch(t) ==
  LET nb == op[t].nb
  IN  /\ Holds(t, "int_malloc") /\ ~HasFast(nb) /\ ~HasSmall(nb)
      /\ op' = [op EXCEPT ![t] =
                  IF ~InSmallbinRange(nb) /\ have_fastchunks
                  THEN [Search(op[t]) EXCEPT !.pc = "consolidate", !.after = "unsorted"]
                  ELSE Search(op[t])]
      /\ UNCHANGED <<lock, heapVars, fastVars, binVars, tcache, live>>

(* The place of chunk c in its bin: the front of a small bin; a large bin  *)
(* descends by size, and a chunk goes second among those of its own size.  *)
Placed_AtEnd(b, c) == IF InSmallbinRange(hdr[c].sz) THEN <<c>> \o b ELSE Append(b, c)
Placed(b, c) ==
  LET sz    == hdr[c].sz
      notGt == {i \in DOMAIN b : hdr[b[i]].sz <= sz}
      i     == CHOOSE n \in notGt : \A j \in notGt : n <= j
  IN  IF InSmallbinRange(sz) THEN <<c>> \o b
      ELSE IF notGt = {} THEN Append(b, c)
      ELSE InsertAt(b, IF hdr[b[i]].sz = sz THEN i + 1 ELSE i, c)

(* The only unsorted chunk is the last remainder and it is large enough:   *)
(* it is split before any other policy applies.                            *)
SplitsRemainder(nb, c) ==
  /\ InSmallbinRange(nb) /\ unsorted = <<c>>
  /\ c = last_remainder /\ hdr[c].sz > nb + MINSIZE

Unsorted(t) == Holds(t, "unsorted") /\ unsorted # <<>>

SplitRemainder(t) ==
  LET nb == op[t].nb  c == Last(unsorted)
  IN  /\ Unsorted(t) /\ SplitsRemainder(nb, c)
      /\ hdr' = SplitFree(hdr, c, nb)
      /\ unsorted' = <<c + nb>>
      /\ last_remainder' = c + nb
      /\ Got(t, c)
      /\ UNCHANGED <<lock, top, system_mem, fastVars, bins, binmap, tcache, live>>

(* A chunk of exactly the size asked for is cached while there is a slot,  *)
(* and the loop goes on; otherwise it is the result.                       *)
ExactFit(t) ==
  LET nb == op[t].nb  c == Last(unsorted)
  IN  /\ Unsorted(t) /\ ~SplitsRemainder(nb, c) /\ hdr[c].sz = nb
      /\ unsorted' = Front(unsorted)
      /\ hdr' = SetInuse(hdr, c)
      /\ IF CacheWanted(t, nb)
         THEN /\ tcache' = [tcache EXCEPT ![t][nb] = <<c>> \o @]
              /\ op' = [op EXCEPT ![t].cached = TRUE]
         ELSE Got(t, c) /\ UNCHANGED tcache
      /\ UNCHANGED <<lock, top, system_mem, fastVars, bins, binmap, last_remainder, live>>

(* Any other chunk is sorted into its bin; then the limit on unsorted      *)
(* passes may return a cached chunk, and MAX_ITERS may end the loop.       *)
SortVictim(t) ==
  LET nb == op[t].nb  c == Last(unsorted)  i == BinIndex(hdr[c].sz)
      call == [op[t] EXCEPT !.iters = @ + 1, !.sorted = @ + 1]
      limited == call.cached /\ UnsortedLimit > 0 /\ call.sorted > UnsortedLimit
  IN  /\ Unsorted(t) /\ ~SplitsRemainder(nb, c) /\ hdr[c].sz # nb
      /\ unsorted' = Front(unsorted)
      /\ bins' = [bins EXCEPT ![i] = Placed(@, c)]
      /\ binmap' = binmap \cup {i}
      /\ IF limited
         THEN /\ Got(t, Head(tcache[t][nb]))
              /\ tcache' = [tcache EXCEPT ![t][nb] = Tail(@)]
         ELSE /\ op' = [op EXCEPT ![t] =
                          [call EXCEPT !.pc = IF call.iters >= MaxIters THEN "fit" ELSE @]]
              /\ UNCHANGED tcache
      /\ UNCHANGED <<lock, heapVars, fastVars, last_remainder, live>>

UnsortedDone(t) ==
  /\ Holds(t, "unsorted") /\ unsorted = <<>>
  /\ op' = [op EXCEPT ![t].pc = "fit"]
  /\ UNCHANGED <<lock, heapVars, fastVars, binVars, tcache, live>>

(* The loop cached chunks of the right size: one of them is the result.    *)
ReturnCached(t) ==
  LET nb == op[t].nb
  IN  /\ Holds(t, "fit") /\ op[t].cached
      /\ Got(t, Head(tcache[t][nb]))
      /\ tcache' = [tcache EXCEPT ![t][nb] = Tail(@)]
      /\ UNCHANGED <<lock, heapVars, fastVars, binVars, live>>

(* Taking nb units of a chunk c from bin i: less than MINSIZE over, the    *)
(* whole chunk; otherwise the rest goes to the front of the unsorted list. *)
TakeFromBin(t, i, c, remember) ==
  LET nb == op[t].nb  over == hdr[c].sz - nb
  IN  /\ bins' = [bins EXCEPT ![i] = Unlink(@, c)]
      /\ IF TooSmall(over)
         THEN hdr' = SetInuse(hdr, c) /\ UNCHANGED <<unsorted, last_remainder>>
         ELSE /\ hdr' = SplitFree(hdr, c, nb)
              /\ unsorted' = <<c + nb>> \o unsorted
              /\ last_remainder' = IF remember THEN c + nb ELSE last_remainder
      /\ Got(t, c)
      /\ UNCHANGED <<lock, top, system_mem, fastVars, tcache, live>>

(* Best fit within the bin of a large request: the smallest size that      *)
(* fits, and of that size the second chunk when there is one.              *)
OwnBinFits(nb) ==
  /\ ~InSmallbinRange(nb)
  /\ bins[BinIndex(nb)] # <<>> /\ hdr[Head(bins[BinIndex(nb)])].sz >= nb

BestFit(t) ==
  LET nb   == op[t].nb
      i    == BinIndex(nb)
      b    == bins[i]
      fits == {n \in DOMAIN b : hdr[b[n]].sz >= nb}
      size == hdr[b[CHOOSE n \in fits : \A m \in fits : m <= n]].sz
      head == CHOOSE n \in fits : hdr[b[n]].sz = size
                                    /\ \A m \in fits : hdr[b[m]].sz = size => n <= m
      n    == IF head < Len(b) /\ hdr[b[head + 1]].sz = size THEN head + 1 ELSE head
  IN  /\ Holds(t, "fit") /\ ~op[t].cached /\ OwnBinFits(nb)
      /\ TakeFromBin(t, i, b[n], FALSE)
      /\ UNCHANGED binmap

(* The scan of the binmap above the request's own bin: the first marked    *)
(* bin with a chunk, clearing the marks of the empty ones it passes.       *)
Larger_SkipsOne(nb) == {i \in binmap : i > BinIndex(nb) + 1 /\ bins[i] # <<>>}
Larger(nb) == {i \in binmap : i > BinIndex(nb) /\ bins[i] # <<>>}
Scanned_ClearsFound(nb) ==
  binmap \ {i \in binmap : i > BinIndex(nb) /\ \A j \in Larger(nb) : i <= j}
Scanned(nb) ==
  binmap \ {i \in binmap : /\ i > BinIndex(nb) /\ bins[i] = <<>>
                           /\ \A j \in Larger(nb) : i < j}

ScanBins(t) ==
  LET nb == op[t].nb
      i  == CHOOSE n \in Larger(nb) : \A m \in Larger(nb) : n <= m
  IN  /\ Holds(t, "fit") /\ ~op[t].cached /\ ~OwnBinFits(nb) /\ Larger(nb) # {}
      /\ TakeFromBin(t, i, Last(bins[i]), InSmallbinRange(nb))
      /\ binmap' = Scanned(nb)

NoBinFits(t) ==
  Holds(t, "fit") /\ ~op[t].cached /\ ~OwnBinFits(op[t].nb) /\ Larger(op[t].nb) = {}
TopFits(nb) == hdr[top].sz >= nb + MINSIZE

UseTop(t) ==
  LET nb == op[t].nb
  IN  /\ NoBinFits(t) /\ TopFits(nb)
      /\ hdr' = CutAt(hdr, top, nb)
      /\ top' = top + nb
      /\ binmap' = Scanned(nb)
      /\ Got(t, top)
      /\ UNCHANGED <<lock, system_mem, fastVars, unsorted, bins, last_remainder, tcache, live>>

(* Nothing fits but the flag says there are fast chunks: consolidate them  *)
(* and search again.                                                       *)
SearchAgain(t) ==
  LET nb == op[t].nb
  IN  /\ NoBinFits(t) /\ ~TopFits(nb) /\ have_fastchunks
      /\ binmap' = Scanned(nb)
      /\ op' = [op EXCEPT ![t].pc = "consolidate", ![t].after = "unsorted", ![t].iters = 0]
      /\ UNCHANGED <<lock, heapVars, fastVars, unsorted, bins, last_remainder, tcache, live>>

(* sysmalloc of the main arena while nobody else moves the break: MORECORE *)
(* extends top and the request is cut from it, or it fails and so does the *)
(* call.                                                                   *)
Growth(nb) == AlignUp(nb + TopPad + MINSIZE - hdr[top].sz, PageSize)

SysMalloc(t) ==
  LET nb == op[t].nb
      grown == [hdr EXCEPT ![top].sz = @ + Growth(nb)]
  IN  /\ NoBinFits(t) /\ ~TopFits(nb) /\ ~have_fastchunks
      /\ binmap' = Scanned(nb)
      /\ \/ /\ system_mem + Growth(nb) <= HeapLimit
            /\ system_mem' = system_mem + Growth(nb)
            /\ hdr' = CutAt(grown, top, nb)
            /\ top' = top + nb
            /\ Got(t, top)
         \/ Got(t, None) /\ UNCHANGED heapVars
      /\ UNCHANGED <<lock, fastVars, unsorted, bins, last_remainder, tcache, live>>

-----------------------------------------------------------------------------
(* malloc_consolidate.  fb = 0: about to clear the flag; then one fastbin  *)
(* after the other is detached whole (atomic_exchange) and its chunks are  *)
(* merged one by one into the unsorted list or into top.                   *)

ConsolidateBegin_KeepsFlag(t) ==
  /\ Holds(t, "consolidate") /\ op[t].fb = 0
  /\ op' = [op EXCEPT ![t].fb = MINSIZE]
  /\ UNCHANGED <<lock, heapVars, fastVars, binVars, tcache, live>>
ConsolidateBegin(t) ==
  /\ Holds(t, "consolidate") /\ op[t].fb = 0
  /\ have_fastchunks' = FALSE
  /\ op' = [op EXCEPT ![t].fb = MINSIZE]
  /\ UNCHANGED <<lock, heapVars, fastbins, binVars, tcache, live>>

ConsolidateDetach_Copies(t) ==
  LET fb == op[t].fb
  IN  /\ Holds(t, "consolidate") /\ fb \in FastSizes /\ op[t].chain = <<>>
      /\ op' = [op EXCEPT ![t].chain = fastbins[fb], ![t].fb = fb + 1]
      /\ UNCHANGED <<lock, heapVars, fastVars, binVars, tcache, live>>
ConsolidateDetach(t) ==
  LET fb == op[t].fb
  IN  /\ Holds(t, "consolidate") /\ fb \in FastSizes /\ op[t].chain = <<>>
      /\ fastbins' = [fastbins EXCEPT ![fb] = <<>>]
      /\ op' = [op EXCEPT ![t].chain = fastbins[fb], ![t].fb = fb + 1]
      /\ UNCHANGED <<lock, heapVars, have_fastchunks, binVars, tcache, live>>

ConsolidateChunk(t) ==
  LET m == Merge(hdr, top, Head(op[t].chain), TRUE)
      u == Merged(unsorted, m)
  IN  /\ Holds(t, "consolidate") /\ op[t].chain # <<>>
      /\ hdr' = MergedHdr(hdr, m)
      /\ top' = IF m.atTop THEN m.q ELSE top
      /\ bins' = [i \in BinIndices |-> Merged(bins[i], m)]
      /\ unsorted' = IF m.atTop THEN u ELSE <<m.q>> \o u
      /\ op' = [op EXCEPT ![t].chain = Tail(@)]
      /\ UNCHANGED <<lock, system_mem, fastVars, binmap, last_remainder, tcache, live>>

ConsolidateEnd(t) ==
  /\ Holds(t, "consolidate") /\ op[t].chain = <<>> /\ op[t].fb > MaxFast /\ op[t].fb # 0
  /\ op' = [op EXCEPT ![t].pc = op[t].after, ![t].fb = 0, ![t].after = "idle"]
  /\ UNCHANGED <<lock, heapVars, fastVars, binVars, tcache, live>>

(***************************************************************************)
(* systrim: gives whole pages at the end of top back, keeping pad units    *)
(* and MINSIZE.  In bytes top_area is 16 * (sz - MINSIZE) - 1, which makes *)
(* `extra` the pages below (sz - MINSIZE - pad) - 1 units; with sz =       *)
(* MINSIZE top_area is -1, does not compare as <= pad (an unsigned         *)
(* comparison), and extra is negative: MORECORE(-extra) then grows the     *)
(* heap.  free calls it with top_pad and only above the trim threshold.    *)
(***************************************************************************)
Extra(pad) == ((hdr[top].sz - MINSIZE - pad - 1) \div PageSize) * PageSize

SysTrimReleases(pad) ==
  /\ hdr[top].sz = MINSIZE \/ hdr[top].sz - MINSIZE > pad
  /\ Extra(pad) # 0
  /\ system_mem - Extra(pad) <= HeapLimit

SysTrim(t) ==
  LET wanted == op[t].fn = "trim" \/ hdr[top].sz >= TrimThreshold
      pad    == IF op[t].fn = "trim" THEN op[t].pad ELSE TopPad
  IN  /\ Holds(t, "systrim")
      /\ IF wanted /\ SysTrimReleases(pad)
         THEN /\ system_mem' = system_mem - Extra(pad)
              /\ hdr' = [hdr EXCEPT ![top].sz = @ - Extra(pad)]
         ELSE UNCHANGED <<system_mem, hdr>>
      /\ op' = [op EXCEPT ![t].pc = op[t].k, ![t].k = "idle"]
      /\ UNCHANGED <<lock, top, fastVars, binVars, tcache, live>>

-----------------------------------------------------------------------------
(* The public functions.                                                   *)

Gives(v, nb) == live' = [c \in DOMAIN live \cup {v} |-> IF c = v THEN nb ELSE live[c]]
TakesBack(p) == live' = [c \in DOMAIN live \ {p} |-> live[c]]
CacheHit(t, nb) == nb \in TcacheSizes /\ tcache[t][nb] # <<>>

(* __libc_malloc: the thread's cache first, else the arena.                *)
Malloc(t, nb) ==
  /\ op[t].pc = "idle"
  /\ IF CacheHit(t, nb)
     THEN /\ tcache' = [tcache EXCEPT ![t][nb] = Tail(@)]
          /\ Gives(Head(tcache[t][nb]), nb)
          /\ UNCHANGED <<lock, op>>
     ELSE Enter(t, [Idle EXCEPT !.fn = "malloc", !.want = nb], nb) /\ UNCHANGED <<tcache, live>>
  /\ UNCHANGED <<heapVars, fastVars, binVars>>

(* __libc_free: the thread's cache while the size has a slot, else         *)
(* _int_free_chunk.                                                        *)
Free(t, p) ==
  LET sz == hdr[p].sz
  IN  /\ op[t].pc = "idle" /\ p \in DOMAIN live
      /\ TakesBack(p)
      /\ IF sz \in TcacheSizes /\ Slots(t, sz) > 0
         THEN /\ tcache' = [tcache EXCEPT ![t][sz] = <<p>> \o @]
              /\ UNCHANGED op
         ELSE /\ op' = [op EXCEPT ![t] = [Idle EXCEPT !.fn = "free", !.pc = "free_chunk", !.p = p]]
              /\ UNCHANGED tcache
      /\ UNCHANGED <<lock, heapVars, fastVars, binVars>>

(* _int_free_chunk without the lock, a fast size: the flag is set before   *)
(* the chunk is pushed, so a consolidation can run between the two.        *)
FreeFlag(t) ==
  /\ op[t].pc = "free_chunk" /\ hdr[op[t].p].sz <= MaxFast
  /\ have_fastchunks' = TRUE
  /\ op' = [op EXCEPT ![t].pc = "push"]
  /\ UNCHANGED <<lock, heapVars, fastbins, binVars, tcache, live>>

(* A free that serves a realloc ends with the new chunk in hand.           *)
Finish_GivesNull(t) == op' = [op EXCEPT ![t] = Idle] /\ Gives(op[t].v, op[t].want)
Finish(t) == op' = [op EXCEPT ![t] = Idle] /\ IF op[t].v = None THEN UNCHANGED live
                                              ELSE Gives(op[t].v, op[t].want)

FreePush(t) ==
  LET p == op[t].p
  IN  /\ op[t].pc = "push"
      /\ fastbins' = [fastbins EXCEPT ![hdr[p].sz] = <<p>> \o @]
      /\ Finish(t)
      /\ UNCHANGED <<lock, heapVars, have_fastchunks, binVars, tcache>>

FreeMerge(t) ==
  LET m == Merge(hdr, top, op[t].p, TRUE)
  IN  /\ op[t].pc = "free_chunk" /\ hdr[op[t].p].sz > MaxFast
      /\ lock = None /\ lock' = t
      /\ FreeMerged(hdr, m, None)
      /\ op' = [op EXCEPT ![t] = [MaybeConsolidate(op[t], m.sz, "done") EXCEPT !.p = None]]
      /\ UNCHANGED <<fastVars, tcache, live>>

Done(t) ==
  /\ Holds(t, "done")
  /\ lock' = None
  /\ Finish(t)
  /\ UNCHANGED <<heapVars, fastVars, binVars, tcache>>

MallocGot(t) ==
  /\ Holds(t, "got") /\ op[t].fn = "malloc"
  /\ op' = [op EXCEPT ![t].pc = "done"]
  /\ UNCHANGED <<lock, heapVars, fastVars, binVars, tcache, live>>

(***************************************************************************)
(* realloc.  p leaves the program's hands for the time of the call.  A     *)
(* chunk whose size is already the one asked for is returned at once.      *)
(***************************************************************************)

(* The end of _int_realloc: p holds size units in headers h (out unlinked  *)
(* already) and keeps nb; MINSIZE or more left over is freed.              *)
ReallocRest(t, h, p, size, nb, out) ==
  LET call == [op[t] EXCEPT !.fn = "realloc", !.pc = "done", !.want = nb, !.p = None,
                            !.old = 0, !.v = p, !.nb = 0]
      whole == SetInuse([h EXCEPT ![p].sz = size], p)
  IN  IF TooSmall(size - nb)
      THEN /\ hdr' = whole
           /\ bins' = [i \in BinIndices |-> Unlink(bins[i], out)]
           /\ unsorted' = Unlink(unsorted, out)
           /\ op' = [op EXCEPT ![t] = call]
           /\ UNCHANGED <<top, system_mem, fastVars, binmap, last_remainder>>
      ELSE FreeLocked(t, CutAt(whole, p, nb), p + nb, out, call)

Realloc(t, p, nb) ==
  LET sz    == hdr[p].sz
      next  == Next_(hdr, p)
      sum   == sz + hdr[next].sz
      atTop == next = top /\ sum >= nb + MINSIZE
      nfree == next # top /\ ~InUseAfter(hdr, next) /\ sum >= nb
  IN  /\ op[t].pc = "idle" /\ p \in DOMAIN live
      /\ \/ /\ sz = nb
            /\ live' = [live EXCEPT ![p] = nb]
            /\ UNCHANGED <<lock, heapVars, fastVars, binVars, op>>
         \/ /\ sz # nb
            /\ lock = None /\ lock' = t
            /\ TakesBack(p)
            /\ \/ sz > nb /\ ReallocRest(t, hdr, p, sz, nb, None)
               \/ /\ sz < nb /\ atTop
                  /\ hdr' = CutAt(Absorb(hdr, p), p, nb)
                  /\ top' = p + nb
                  /\ op' = [op EXCEPT ![t] = [Idle EXCEPT !.fn = "realloc", !.pc = "done",
                                                         !.want = nb, !.v = p]]
                  /\ UNCHANGED <<system_mem, fastVars, binVars>>
               \/ sz < nb /\ nfree /\ ReallocRest(t, Absorb(hdr, p), p, sum, nb, next)
               \/ /\ sz < nb /\ ~atTop /\ ~nfree
                  /\ op' = [op EXCEPT ![t] = [Idle EXCEPT !.fn = "realloc", !.pc = "int_malloc",
                                               !.want = nb, !.nb = nb, !.p = p, !.old = live[p]]]
                  /\ UNCHANGED <<heapVars, fastVars, binVars>>
      /\ UNCHANGED tcache

(* _int_malloc gave realloc the chunk after p, another chunk, or nothing.  *)
ReallocGot(t) ==
  LET p == op[t].p  v == op[t].v
      moved == [op[t] EXCEPT !.pc = "done", !.p = None, !.old = 0, !.nb = 0]
  IN  /\ Holds(t, "got") /\ op[t].fn = "realloc"
      /\ \/ /\ v # None /\ v = Next_(hdr, p)
            /\ ReallocRest(t, Absorb(hdr, p), p, hdr[p].sz + hdr[v].sz, op[t].want, None)
            /\ UNCHANGED lock
         \/ /\ v # None /\ v # Next_(hdr, p)
            /\ FreeLocked(t, hdr, p, None, moved)
            /\ UNCHANGED lock
         \/ /\ v = None
            /\ lock' = None
            /\ op' = [op EXCEPT ![t].pc = "retry"]
            /\ UNCHANGED <<heapVars, fastVars, binVars>>
      /\ UNCHANGED <<tcache, live>>

(* realloc's second chance: __libc_malloc, and on success the old chunk is *)
(* freed without the lock; on failure the program keeps it.                *)
ReallocRetry(t) ==
  LET nb == op[t].want
  IN  /\ op[t].pc = "retry"
      /\ IF CacheHit(t, nb)
         THEN /\ tcache' = [tcache EXCEPT ![t][nb] = Tail(@)]
              /\ op' = [op EXCEPT ![t].pc = "free_chunk", ![t].v = Head(tcache[t][nb])]
              /\ UNCHANGED lock
         ELSE Enter(t, [op[t] EXCEPT !.fn = "retry"], nb) /\ UNCHANGED tcache
      /\ UNCHANGED <<heapVars, fastVars, binVars, live>>

RetryGot(t) ==
  /\ Holds(t, "got") /\ op[t].fn = "retry"
  /\ \/ /\ op[t].v = None
        /\ op' = [op EXCEPT ![t].pc = "done", ![t].v = op[t].p, ![t].want = op[t].old,
                            ![t].p = None]
        /\ UNCHANGED lock
     \/ /\ op[t].v # None
        /\ op' = [op EXCEPT ![t].pc = "free_chunk"]
        /\ lock' = None
  /\ UNCHANGED <<heapVars, fastVars, binVars, tcache, live>>

(***************************************************************************)
(* memalign.  The program's address is one unit after the chunk's.         *)
(***************************************************************************)
Aligned(c, al) == (c + 1) % al = 0
AlignedIn(t, nb, al) == {i \in DOMAIN tcache[t][nb] : Aligned(tcache[t][nb][i], al)}

(* request2size(nb + alignment + MINSIZE): room for a chunk before it.     *)
Padded_TooShort(nb, al) == nb + al
Padded(nb, al) == nb + al + MINSIZE + 1

Memalign(t, al, nb) ==
  LET hits == IF nb \in TcacheSizes THEN AlignedIn(t, nb, al) ELSE {}
      i    == CHOOSE n \in hits : \A m \in hits : n <= m
  IN  /\ op[t].pc = "idle"
      /\ IF hits # {}
         THEN /\ tcache' = [tcache EXCEPT ![t][nb] = RemoveAt(@, i)]
              /\ Gives(tcache[t][nb][i], nb)
              /\ UNCHANGED <<lock, op>>
         ELSE /\ Enter(t, [Idle EXCEPT !.fn = "memalign", !.want = nb, !.al = al],
                       Padded(nb, al))
              /\ UNCHANGED <<tcache, live>>
      /\ UNCHANGED <<heapVars, fastVars, binVars>>

(* The first place at or after v, MINSIZE or more away from it if it is    *)
(* not v itself, whose memory is aligned.                                  *)
AlignedPlace_NoHeader(v, al) ==
  LET a == AlignUp(v, al) IN IF a - v < MINSIZE THEN a + al ELSE a
AlignedPlace(v, al) ==
  LET a == AlignUp(v + 1, al) - 1 IN IF a - v < MINSIZE THEN a + al ELSE a

(* _int_memalign frees the part before the aligned place ...               *)
MemalignGot(t) ==
  LET v   == op[t].v
      new == AlignedPlace(v, op[t].al)
      h   == CutAt(hdr, v, new - v)
      m   == Merge(h, top, v, TRUE)
  IN  /\ Holds(t, "got") /\ op[t].fn = "memalign"
      /\ IF v = None THEN /\ op' = [op EXCEPT ![t].pc = "done"]
                          /\ UNCHANGED <<heapVars, binVars>>
         ELSE IF Aligned(v, op[t].al) THEN /\ op' = [op EXCEPT ![t].pc = "aligned"]
                                           /\ UNCHANGED <<heapVars, binVars>>
         ELSE /\ FreeMerged(h, m, None)
              /\ op' = [op EXCEPT ![t] = MaybeConsolidate([@ EXCEPT !.v = new], m.sz, "aligned")]
      /\ UNCHANGED <<lock, fastVars, tcache, live>>

(* ... and the part after the nb units asked for, when it can be a chunk   *)
(* or can join a free one or top.                                          *)
MemalignTail(t) ==
  LET v    == op[t].v
      over == hdr[v].sz - op[t].want
      next == Next_(hdr, v)
      h    == CutAt(hdr, v, op[t].want)
      m    == Merge(h, top, v + op[t].want, FALSE)
  IN  /\ Holds(t, "aligned")
      /\ IF over > 0 /\ (~TooSmall(over) \/ next = top \/ ~InUseAfter(hdr, next))
         THEN /\ FreeMerged(h, m, None)
              /\ op' = [op EXCEPT ![t] = MaybeConsolidate(@, m.sz, "done")]
         ELSE /\ op' = [op EXCEPT ![t].pc = "done"]
              /\ UNCHANGED <<heapVars, binVars>>
      /\ UNCHANGED <<lock, fastVars, tcache, live>>

(* malloc_trim: mtrim consolidates and calls systrim.                      *)
MallocTrim(t, pad) ==
  /\ op[t].pc = "idle" /\ lock = None
  /\ lock' = t
  /\ op' = [op EXCEPT ![t] = [Idle EXCEPT !.fn = "trim", !.pc = "consolidate", !.pad = pad,
                                         !.after = "systrim", !.k = "done"]]
  /\ UNCHANGED <<heapVars, fastVars, binVars, tcache, live>>

-----------------------------------------------------------------------------
(* malloc_init_state: every list empty, top an empty chunk at the base.    *)
Init ==
  /\ lock = None
  /\ hdr = [a \in {0} |-> [sz |-> 0, pinuse |-> TRUE, psz |-> 0]]
  /\ top = 0 /\ system_mem = 0
  /\ fastbins = [s \in FastSizes |-> <<>>] /\ have_fastchunks = FALSE
  /\ unsorted = <<>> /\ bins = [i \in BinIndices |-> <<>>] /\ binmap = {}
  /\ last_remainder = None
  /\ tcache = [t \in Threads |-> [s \in TcacheSizes |-> <<>>]]
  /\ live = [c \in {} |-> 0]
  /\ op = [t \in Threads |-> Idle]

(* What the thread does on its own once it is in a call.                   *)
Step(t) ==
  \/ TakeFast(t) \/ StashFast(t) \/ TakeSmall(t) \/ StashSmall(t) \/ StartSearch(t)
  \/ SplitRemainder(t) \/ ExactFit(t) \/ SortVictim(t) \/ UnsortedDone(t) \/ ReturnCached(t)
  \/ BestFit(t) \/ ScanBins(t) \/ UseTop(t) \/ SearchAgain(t) \/ SysMalloc(t)
  \/ ConsolidateBegin(t) \/ ConsolidateDetach(t) \/ ConsolidateChunk(t) \/ ConsolidateEnd(t)
  \/ SysTrim(t) \/ FreeFlag(t) \/ FreePush(t) \/ FreeMerge(t) \/ Done(t)
  \/ MallocGot(t) \/ ReallocGot(t) \/ ReallocRetry(t) \/ RetryGot(t)
  \/ MemalignGot(t) \/ MemalignTail(t)

(* What the program asks for.                                              *)
Call(t) ==
  \/ \E nb \in MallocSizes : Malloc(t, nb)
  \/ \E p \in DOMAIN live : Free(t, p)
  \/ \E p \in DOMAIN live, nb \in ReallocSizes : Realloc(t, p, nb)
  \/ \E r \in AlignRequests : Memalign(t, r[1], r[2])
  \/ \E pad \in TrimPads : MallocTrim(t, pad)

Next == \E t \in Threads : Step(t) \/ Call(t)

Spec == Init /\ [][Next]_vars

(* A thread inside a call is scheduled; nobody has to make another call.   *)
FairSpec == Spec /\ \A t \in Threads : WF_vars(Step(t))

-----------------------------------------------------------------------------
(* Properties.                                                             *)

ListsOf(f) == UNION {ToSet(f[x]) : x \in DOMAIN f}
Binned == ListsOf(bins) \cup ToSet(unsorted)

(* The places a chunk can be at: top, the program's hands, the lists, and  *)
(* for each thread the two chunks and the chain that its call works on.    *)
Place(at, t, n) == [at |-> at, t |-> t, n |-> n]
Places ==
  {Place(at, None, 0) : at \in {"top", "live", "unsorted"}}
  \cup {Place("bin", None, i) : i \in BinIndices}
  \cup {Place("fast", None, s) : s \in FastSizes}
  \cup {Place("cache", t, s) : t \in Threads, s \in TcacheSizes}
  \cup {Place(at, t, 0) : at \in {"p", "v", "chain"}, t \in Threads}

ListAt(pl) ==
  CASE pl.at = "unsorted" -> unsorted       [] pl.at = "bin"   -> bins[pl.n]
    [] pl.at = "fast"     -> fastbins[pl.n] [] pl.at = "cache" -> tcache[pl.t][pl.n]
    [] pl.at = "chain"    -> op[pl.t].chain [] OTHER           -> <<>>
ChunksAt(pl) ==
  CASE pl.at = "top" -> {top}                  [] pl.at = "live" -> DOMAIN live
    [] pl.at = "p"   -> {op[pl.t].p} \ {None} [] pl.at = "v"    -> {op[pl.t].v} \ {None}
    [] OTHER         -> ToSet(ListAt(pl))

(* Every variable has the shape the code gives it.                         *)
Chunks == Int
Call_ ==
  [fn : {"none", "malloc", "free", "realloc", "retry", "memalign", "trim"},
   pc : LockedPCs \cup UnlockedPCs, want : Int, nb : Int, al : Int, pad : Int,
   p : Chunks \cup {None}, old : Int, v : Chunks \cup {None}, iters : Int, sorted : Int,
   cached : BOOLEAN, fb : Int, chain : Seq(Chunks),
   after : {"idle", "unsorted", "systrim"}, k : {"idle", "aligned", "done"}]

TypeOK ==
  /\ lock \in Threads \cup {None}
  /\ DOMAIN hdr \subseteq Chunks
  /\ hdr \in [DOMAIN hdr -> [sz : Int, pinuse : BOOLEAN, psz : Int]]
  /\ top \in Chunks /\ system_mem \in Int
  /\ fastbins \in [FastSizes -> Seq(Chunks)] /\ have_fastchunks \in BOOLEAN
  /\ unsorted \in Seq(Chunks) /\ bins \in [BinIndices -> Seq(Chunks)]
  /\ binmap \subseteq BinIndices /\ last_remainder \in Chunks \cup {None}
  /\ tcache \in [Threads -> [TcacheSizes -> Seq(Chunks)]]
  /\ DOMAIN live \subseteq Chunks /\ live \in [DOMAIN live -> Int]
  /\ op \in [Threads -> Call_]

(* The mutex: whoever stands at a step that needs the arena's lock has it, *)
(* and it is held by nobody else (the critical sections of _int_malloc,    *)
(* free, realloc, memalign and malloc_trim never overlap).                 *)
LockHeld == \A t \in Threads : op[t].pc \in LockedPCs <=> lock = t

(* The arena implements ScallocHeap: whatever lists, sizes and threads     *)
(* decide, each step does one of its actions to the headers (or none), on  *)
(* chunks of the right kind, so that what is proved there of the tiling,   *)
(* the boundary tags and the coalescing holds here.                        *)
Heap == INSTANCE ScallocHeap WITH free <- Binned
ImplementsHeap == Heap!Spec

(* No chunk is lost and none is in two places: each is top, the program's, *)
(* in one thread's hands, or once in one list; so no malloc hands out      *)
(* memory that is still in use or still on a list.                         *)
OneOwner ==
  /\ \A c \in DOMAIN hdr :
       \E pl \in Places : \A pr \in Places : c \in ChunksAt(pr) <=> pr = pl
  /\ \A pl \in Places : ChunksAt(pl) \subseteq DOMAIN hdr /\ IsInjective(ListAt(pl))

(* Every list holds only chunks of its size class, and a large bin         *)
(* descends by size, whatever order chunks were sorted in: what the        *)
(* best-fit search and the tcache's and fastbins' exact hits rely on.      *)
BinsOrdered ==
  /\ \A i \in BinIndices : \A n \in DOMAIN bins[i] :
       /\ BinIndex(hdr[bins[i][n]].sz) = i
       /\ n > 1 => hdr[bins[i][n - 1]].sz >= hdr[bins[i][n]].sz
  /\ \A s \in FastSizes : \A c \in ToSet(fastbins[s]) : hdr[c].sz = s
  /\ \A t \in Threads, s \in TcacheSizes : \A c \in ToSet(tcache[t][s]) : hdr[c].sz = s

(* An unmarked bin is empty, so the binmap scan skips no chunk; marks of   *)
(* empty bins are allowed (do_check_malloc_state).                         *)
BinmapCovers == \A i \in BinIndices : bins[i] # <<>> => i \in binmap

(* A cache never holds more than its slots, however chunks came in: freed, *)
(* stashed from a fastbin or a small bin, or cached from the unsorted loop.*)
CacheBounded == \A t \in Threads, s \in TcacheSizes : Len(tcache[t][s]) <= TcacheCount

(* The program has what it asked for and less than MINSIZE more, by every  *)
(* path: a split, an exact fit in a bin, fastbin or one-size tcache bin,   *)
(* realloc's merge, memalign's cuts (do_check_remalloced_chunk).           *)
LiveFits == \A p \in DOMAIN live : live[p] <= hdr[p].sz /\ hdr[p].sz < live[p] + MINSIZE

(* The search is best fit: if a bin holds a chunk that is large enough,    *)
(* the result is the smallest such chunk, and neither top is split nor the *)
(* heap grown ("the smallest chunk that fits is selected").                *)
BestFitChosen ==
  [][\A t \in Threads :
       LET fits == {c \in ListsOf(bins) : hdr[c].sz >= op[t].nb}
       IN  op[t].pc = "fit" /\ op'[t].pc = "got" /\ ~op[t].cached /\ fits # {}
             => /\ op'[t].v \in fits
                /\ \A c \in fits : hdr[op'[t].v].sz <= hdr[c].sz]_vars

(* Memory returned to the program by memalign is aligned.                  *)
AlignedResult ==
  \A t \in Threads : op[t].fn = "memalign" /\ op[t].pc = "done" /\ op[t].v # None
                       => Aligned(op[t].v, op[t].al)

(* The mutex is always given back: the unsorted loop, the consolidation    *)
(* and the search that starts again after it end, although other threads   *)
(* keep freeing into the fastbins and raising have_fastchunks meanwhile.   *)
LockReleased == \A t \in Threads : lock = t ~> lock # t

(* "If possible, gives memory back to the system": trimming never grows    *)
(* the heap.                                                               *)
TrimNeverGrows ==
  [][(\E t \in Threads : op[t].pc = "systrim" /\ op'[t].pc # "systrim")
        => system_mem' <= system_mem]_vars
=============================================================================
