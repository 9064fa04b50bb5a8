--------------------------- MODULE ScallocTcache ---------------------------
(***************************************************************************)
(* The per-thread cache of scalloc.c: its lists with their mangled links,  *)
(* their free slots, the search of the large bins, the check for double    *)
(* frees, its creation, and what a thread that ends does with it.          *)
(*                                                                         *)
(* Sizes are bytes.  The arena is a pool of chunks (ScallocArena models    *)
(* it): _int_malloc gives one that is large and aligned enough, may put    *)
(* others of the size into the thread's cache on the way, or fails.  A     *)
(* thread's cache and the chunks in it are its own, so that every pass     *)
(* through a list is one step.  An operator X_Slip is X with a plausible   *)
(* slip.                                                                   *)
(***************************************************************************)
EXTENDS ScallocSizes, FiniteSets, SequencesExt

CONSTANTS
  Threads,
  Chunks,        \* bound: addresses that malloc may return
  Loose,         \* bound: those whose rest is always too small to cut off
  None,          \* the null pointer, no plain value
  Junk,          \* what a link is that is read in the wrong way
  FILL_COUNT,    \* TCACHE_FILL_COUNT
  MaxSettings,   \* bound: values for the tunable tcache_max
  CountSettings, \* bound: values for the tunable tcache_count
  Requests       \* bound: what is asked of malloc and memalign, [bytes, al]

ASSUME TcacheAssumption ==
  /\ IsFiniteSet(Threads) /\ IsFiniteSet(Chunks)
  /\ Loose \subseteq Chunks /\ \A c \in Chunks : c \in Nat \ {0} /\ c % MALLOC_ALIGNMENT = 0
  /\ None \notin Chunks
  /\ FILL_COUNT \in Nat \ {0} /\ FILL_COUNT <= MAX_TCACHE_COUNT
  /\ MaxSettings \subseteq Nat /\ CountSettings \subseteq Nat
  /\ \A r \in Requests : r.bytes \in Nat /\ r.al \in Nat /\ r.al >= MALLOC_ALIGNMENT

VARIABLES
  mp,            \* the tunables of mp_
  tcache,        \* thread -> it has a cache: tcache is not null
  shutting_down, \* thread -> tcache_shutting_down
  num_slots,     \* thread -> bin -> free slots
  entries,       \* thread -> bin -> head of its list: [by, to], see below
  links,         \* chunk -> tcache_entry.next
  key,           \* chunk -> its second word is tcache_key
  size,          \* chunk -> chunksize, 0 in the arena
  pool,          \* the chunks that the arena has
  live,          \* chunk of the program -> what it asked for
  op,            \* thread -> where it stands in a call
  aborted        \* malloc_printerr ended the process

cacheVars == <<tcache, shutting_down, num_slots, entries, links, key>>
vars == <<mp, cacheVars, size, pool, live, op, aborted>>

Bins == 0 .. (TCACHE_MAX_BINS - 1)

(* The bins end well before the sizes that __builtin_clz can see: at 8 MiB *)
(* of 4 GiB.                                                               *)
ASSUME BinsAssumption ==
  \E n \in 2 .. (2 ^ IntBits \div MALLOC_ALIGNMENT) - 1 : Tidx(MALLOC_ALIGNMENT * n) \notin Bins

-----------------------------------------------------------------------------
(* Safe-linking: a link is mangled with the address it is stored at, the   *)
(* head of a list is not.                                                  *)

(* A place in bin i of t is the link of the chunk ep, or with ep = None    *)
(* the head, and tells whether the code takes it for a mangled one.        *)
Plain(p) == [by |-> None, to |-> p]
Protect(c, p) == [by |-> c, to |-> p]
Value(at) == IF at.ep = None THEN entries[at.t][at.i] ELSE links[at.ep]
Read(at) ==
  LET v == Value(at)
  IN  IF (at.mangled /\ v.by = at.ep) \/ (~at.mangled /\ v.by = None) THEN v.to ELSE Junk
Encoded(at, p) == IF at.mangled THEN Protect(at.ep, p) ELSE Plain(p)
Reveal(c) == IF links[c].by = c THEN links[c].to ELSE Junk

FirstPlace(t, i) == [t |-> t, i |-> i, ep |-> None, mangled |-> FALSE]
PlaceAfter(t, i, c) == [t |-> t, i |-> i, ep |-> c, mangled |-> TRUE]

(* The pointers met when bin i of t is walked; its null goes on for ever.  *)
Following == [p \in Chunks \cup {None, Junk} |-> IF p \in Chunks THEN Reveal(p) ELSE p]
Walk(t, i) ==
  LET met[n \in 1 .. (Cardinality(Chunks) + 1)] ==
        IF n = 1 THEN Read(FirstPlace(t, i)) ELSE Following[met[n - 1]]
  IN  [n \in 1 .. (Cardinality(Chunks) + 1) |-> met[n]]
InBin(t, i) == IF entries[t][i].to = None THEN {} ELSE ToSet(Walk(t, i)) \cap Chunks
Cached(t) == UNION {InBin(t, i) : i \in Bins}

(* The first place in the bin where the walk stops: at its end or at one   *)
(* of the chunks in stops.                                                 *)
Location(t, i, stops) ==
  LET w == Walk(t, i)
      n == SelectInSeq(w, LAMBDA p : p \notin Chunks \/ p \in stops)
  IN  IF n = 1 THEN FirstPlace(t, i) ELSE PlaceAfter(t, i, w[n - 1])

(* tcache_location_large: bins of several sizes ascend.                    *)
LocationLarge_Skips(t, i, nb) == Location(t, i, {c \in Chunks : size[c] > nb})
LocationLarge(t, i, nb) == Location(t, i, {c \in Chunks : size[c] >= nb})

(* tcache_put_n and tcache_get_n.  The link that a chunk keeps afterwards  *)
(* is never read: it is blanked here.                                      *)
Store(at, p, c, l) ==
  IF at.ep = None
  THEN /\ entries' = [entries EXCEPT ![at.t][at.i] = Encoded(at, p)]
       /\ links' = [links EXCEPT ![c] = l]
  ELSE /\ links' = [links EXCEPT ![at.ep] = Encoded(at, p), ![c] = l]
       /\ UNCHANGED entries

Slots(at, n) ==
  num_slots' = [num_slots EXCEPT ![at.t][at.i] = (@ + n) % (MAX_TCACHE_COUNT + 1)]

PutN(at, c) ==
  /\ Store(at, c, c, Protect(c, Read(at)))
  /\ key' = [key EXCEPT ![c] = TRUE]
  /\ Slots(at, -1)

GetN(at, e) ==
  /\ Store(at, Reveal(e), e, Plain(None))
  /\ key' = [key EXCEPT ![e] = FALSE]
  /\ Slots(at, 1)

-----------------------------------------------------------------------------
(* The tunables are read before the first call.  A tcache_max of 4 GiB or  *)
(* more is accepted or not by its low bits alone; where it is accepted,    *)
(* sizes below it index past the bins, and what the calls then do to the   *)
(* memory behind num_slots and entries is not said here.                   *)
Tuned(max, count) ==
  LET nb == Request2size(max)
  IN  [tcache_max_bytes |-> (IF AcceptsMax(max) THEN nb ELSE MAX_TCACHE_SMALL_SIZE) + 1,
       tcache_small_bins |->
         IF AcceptsMax(max) /\ Small(nb) THEN Csize2tidx(nb) + 1 ELSE TCACHE_SMALL_BINS,
       tcache_count |-> IF AcceptsCount(count) THEN count ELSE FILL_COUNT]

(* req is what the call was asked for and nb what _int_malloc is; filled   *)
(* tells that it put a chunk of that size into the cache (return_cached).  *)
(* p is the chunk that is being freed, and closing tells that it comes     *)
(* from a cache that is given up (tcache_tmp).                             *)
Idle == [pc |-> "idle", req |-> None, nb |-> 0, filled |-> FALSE, p |-> None,
         closing |-> FALSE]
At(t, pc) == ~aborted /\ op[t].pc = pc
Goto(t, call) == op' = [op EXCEPT ![t] = call]

Init ==
  /\ mp \in {Tuned(m, n) : m \in MaxSettings, n \in CountSettings}
  /\ tcache = [t \in Threads |-> FALSE] /\ shutting_down = [t \in Threads |-> FALSE]
  /\ num_slots = [t \in Threads |-> [i \in Bins |-> 0]]
  /\ entries = [t \in Threads |-> [i \in Bins |-> Plain(None)]]
  /\ links = [c \in Chunks |-> Plain(None)]
  /\ key = [c \in Chunks |-> FALSE] /\ size = [c \in Chunks |-> 0]
  /\ pool = Chunks /\ live = [c \in {} |-> None]
  /\ op = [t \in Threads |-> Idle] /\ aborted = FALSE

With(f, c, v) == [x \in DOMAIN f \cup {c} |-> IF x = c THEN v ELSE f[x]]
Without(f, c) == [x \in DOMAIN f \ {c} |-> f[x]]

-----------------------------------------------------------------------------
(* malloc and memalign ask the cache first.                                *)

Wants_AnyAlignment(d, req) ==
  LET nb == Request2size(req.bytes)
  IN  IF req.al = MALLOC_ALIGNMENT THEN size[d] >= nb ELSE size[d] = nb
Wants(d, req) ==
  LET nb == Request2size(req.bytes)
  IN  IF req.al = MALLOC_ALIGNMENT THEN size[d] >= nb ELSE size[d] = nb /\ d % req.al = 0

(* Where the chunk for req would be (tcache_get, tcache_get_large and      *)
(* tcache_get_align, which takes only chunks of exactly the size).         *)
PlaceFor(t, req) ==
  LET nb == Request2size(req.bytes)
      i  == Tidx(nb)
  IN  IF req.al > MALLOC_ALIGNMENT
        THEN Location(t, i, {c \in Chunks : size[c] > nb \/ Wants(c, req)})
      ELSE IF Small(nb) THEN FirstPlace(t, i)
      ELSE LocationLarge(t, i, nb)

Cacheable(nb) == nb < mp.tcache_max_bytes
Hits(t, req) == LET e == Read(PlaceFor(t, req)) IN e \in Chunks /\ Wants(e, req)

Hit(t, req) ==
  LET e == Read(PlaceFor(t, req))
  IN  /\ At(t, "idle") /\ Cacheable(Request2size(req.bytes)) /\ tcache[t] /\ Hits(t, req)
      /\ GetN(PlaceFor(t, req), e)
      /\ live' = With(live, e, req)
      /\ UNCHANGED <<mp, tcache, shutting_down, size, pool, op, aborted>>

(* _int_memalign asks for room for the alignment.                          *)
Miss(t, req) ==
  LET nb == Request2size(req.bytes)
  IN  /\ At(t, "idle")
      /\ Cacheable(nb) /\ tcache[t] => ~Hits(t, req)
      /\ Goto(t, [Idle EXCEPT !.pc = IF Cacheable(nb) /\ ~tcache[t] THEN "init" ELSE "arena",
                              !.req = req,
                              !.nb = IF req.al > MALLOC_ALIGNMENT
                                     THEN Request2size(nb + req.al + MINSIZE) ELSE nb])
      /\ UNCHANGED <<mp, cacheVars, size, pool, live, aborted>>

(* tcache_init gets memory for the structure, which is not one of Chunks,  *)
(* or none, and then the next call tries again; it does nothing once the   *)
(* thread ends.                                                            *)
MayInit_AfterShutdown(t) == TRUE
MayInit(t) == ~shutting_down[t]

TcacheInit(t) ==
  /\ At(t, "init")
  /\ Goto(t, [op[t] EXCEPT !.pc = "arena"])
  /\ \/ /\ MayInit(t)
        /\ tcache' = [tcache EXCEPT ![t] = TRUE]
        /\ num_slots' = [num_slots EXCEPT ![t] = [i \in Bins |-> mp.tcache_count]]
     \/ UNCHANGED <<tcache, num_slots>>
  /\ UNCHANGED <<mp, shutting_down, entries, links, key, size, pool, live, aborted>>

(* In _int_malloc.  It puts chunks of the size that it meets into the      *)
(* cache while there are slots ...                                         *)
HasSlot_Unchecked(t, nb) == TRUE
HasSlot(t, nb) == num_slots[t][Tidx(nb)] # 0

Stash(t, c) ==
  LET nb == op[t].nb
  IN  /\ At(t, "arena") /\ c \in pool
      /\ tcache[t] /\ Csize2tidx(nb) < mp.tcache_small_bins /\ HasSlot(t, nb)
      /\ PutN(FirstPlace(t, Tidx(nb)), c)
      /\ pool' = pool \ {c} /\ size' = [size EXCEPT ![c] = nb]
      /\ Goto(t, [op[t] EXCEPT !.filled = TRUE])
      /\ UNCHANGED <<mp, tcache, shutting_down, live, aborted>>

(* ... may take one of them back for the program ...                       *)
ReturnCached(t) ==
  LET at == FirstPlace(t, Tidx(op[t].nb))
  IN  /\ At(t, "arena") /\ op[t].filled /\ op[t].req.al = MALLOC_ALIGNMENT
      /\ GetN(at, Read(at))
      /\ live' = With(live, Read(at), op[t].req)
      /\ Goto(t, Idle)
      /\ UNCHANGED <<mp, tcache, shutting_down, size, pool, aborted>>

(* ... or, for memalign, to cut it: the arena has it again, and out of the *)
(* arena comes the aligned part ...                                        *)
TakeBack(t) ==
  LET at == FirstPlace(t, Tidx(op[t].nb))
  IN  /\ At(t, "arena") /\ op[t].filled /\ op[t].req.al > MALLOC_ALIGNMENT
      /\ GetN(at, Read(at))
      /\ pool' = pool \cup {Read(at)} /\ size' = [size EXCEPT ![Read(at)] = 0]
      /\ Goto(t, [op[t] EXCEPT !.pc = "cut", !.filled = FALSE])
      /\ UNCHANGED <<mp, tcache, shutting_down, live, aborted>>

(* ... or gives one of its own, uncut if the rest would be below MINSIZE,  *)
(* or none, but not when it has cached one.                                *)
Given(t, c) ==
  LET req == op[t].req
      nb  == Request2size(req.bytes)
  IN  /\ At(t, "arena") \/ At(t, "cut")
      /\ c \in pool /\ c % req.al = 0
      /\ size' = [size EXCEPT ![c] = nb + IF c \in Loose THEN MALLOC_ALIGNMENT ELSE 0]
      /\ pool' = pool \ {c} /\ live' = With(live, c, req)
      /\ Goto(t, Idle)
      /\ UNCHANGED <<mp, cacheVars, aborted>>

Fails(t) ==
  /\ At(t, "arena") /\ ~op[t].filled
  /\ Goto(t, Idle)
  /\ UNCHANGED <<mp, cacheVars, size, pool, live, aborted>>

-----------------------------------------------------------------------------
Return(t) == IF op[t].closing THEN [op[t] EXCEPT !.pc = "shutdown", !.p = None] ELSE Idle

(* __libc_free of c, which has the key in its second word or not; call is  *)
(* where its caller goes on.                                               *)
LibcFree(t, c, looksCached, call) ==
  LET sz == size[c]
      mine == Cacheable(sz) /\ tcache[t]
  IN  \/ /\ mine /\ looksCached
         /\ Goto(t, [op[t] EXCEPT !.pc = "verify", !.p = c])
         /\ key' = [key EXCEPT ![c] = TRUE]
         /\ UNCHANGED <<num_slots, entries, links, size, pool, live>>
      \/ /\ mine /\ ~looksCached /\ HasSlot(t, sz)
         /\ PutN(IF Small(sz) THEN FirstPlace(t, Tidx(sz)) ELSE LocationLarge(t, Tidx(sz), sz), c)
         /\ live' = Without(live, c)
         /\ Goto(t, call)
         /\ UNCHANGED <<size, pool>>
      \/ /\ mine => ~looksCached /\ ~HasSlot(t, sz)
         /\ pool' = pool \cup {c} /\ size' = [size EXCEPT ![c] = 0]
         /\ key' = [key EXCEPT ![c] = FALSE]
         /\ live' = Without(live, c)
         /\ Goto(t, call)
         /\ UNCHANGED <<num_slots, entries, links>>

(* The program has left anything in the second word, the key as well.      *)
Free(t, c) ==
  /\ At(t, "idle") /\ c \in DOMAIN live /\ \A s \in Threads : op[s].p # c
  /\ \E k \in BOOLEAN : LibcFree(t, c, k, Idle)
  /\ UNCHANGED <<mp, tcache, shutting_down, aborted>>

(* An error of the program: a chunk that its thread caches is freed again. *)
FreeAgain(t, c) ==
  /\ At(t, "idle") /\ c \in Cached(t)
  /\ LibcFree(t, c, key[c], Idle)
  /\ UNCHANGED <<mp, tcache, shutting_down, aborted>>

(* tcache_double_free_verify.  A chunk that is in no bin only looks like   *)
(* one that is: its key is cleared and it is freed once more.              *)
TooMany_Early(t, i) == Cardinality(InBin(t, i)) >= mp.tcache_count
TooMany(t, i) == Cardinality(InBin(t, i)) > mp.tcache_count

DoubleFreeVerify(t) ==
  LET c == op[t].p
      caught == \E i \in Bins : c \in InBin(t, i) \/ TooMany(t, i)
  IN  /\ At(t, "verify")
      /\ \/ /\ caught /\ aborted' = TRUE
            /\ UNCHANGED <<num_slots, entries, links, key, size, pool, live, op>>
         \/ /\ ~caught /\ LibcFree(t, c, FALSE, Return(t))
            /\ UNCHANGED aborted
      /\ UNCHANGED <<mp, tcache, shutting_down>>

-----------------------------------------------------------------------------
(* tcache_thread_shutdown: the cache is closed first, then its chunks are  *)
(* freed one after the other, and at last the structure.                   *)
Shutdown(t) ==
  /\ At(t, "idle") /\ ~shutting_down[t]
  /\ shutting_down' = [shutting_down EXCEPT ![t] = TRUE]
  /\ tcache' = [tcache EXCEPT ![t] = FALSE]
  /\ IF tcache[t] THEN Goto(t, [Idle EXCEPT !.pc = "shutdown", !.closing = TRUE])
     ELSE UNCHANGED op
  /\ UNCHANGED <<mp, num_slots, entries, links, key, size, pool, live, aborted>>

ShutdownStep(t) ==
  LET left == {i \in Bins : Read(FirstPlace(t, i)) # None}
      i    == Min(left)
      e    == Read(FirstPlace(t, i))
  IN  /\ At(t, "shutdown")
      /\ IF left = {}
         THEN /\ Goto(t, Idle)
              /\ num_slots' = [num_slots EXCEPT ![t] = [b \in Bins |-> 0]]
              /\ UNCHANGED <<entries, links>>
         ELSE /\ Store(FirstPlace(t, i), Reveal(e), e, Plain(None))
              /\ Goto(t, [op[t] EXCEPT !.pc = "shutdown_free", !.p = e])
              /\ UNCHANGED num_slots
      /\ UNCHANGED <<mp, tcache, shutting_down, key, size, pool, live, aborted>>

ShutdownFree(t) ==
  /\ At(t, "shutdown_free")
  /\ LibcFree(t, op[t].p, key[op[t].p], Return(t))
  /\ UNCHANGED <<mp, tcache, shutting_down, aborted>>

-----------------------------------------------------------------------------
Call(t) ==
  \/ \E req \in Requests : Hit(t, req) \/ Miss(t, req)
  \/ \E c \in Chunks : Free(t, c) \/ FreeAgain(t, c)
  \/ Shutdown(t)
Step(t) ==
  \/ TcacheInit(t) \/ ReturnCached(t) \/ TakeBack(t) \/ Fails(t)
  \/ \E c \in Chunks : Stash(t, c) \/ Given(t, c)
  \/ DoubleFreeVerify(t) \/ ShutdownStep(t) \/ ShutdownFree(t)
Next == \E t \in Threads : Call(t) \/ Step(t)

Spec == Init /\ [][Next]_vars

-----------------------------------------------------------------------------
(* Properties.                                                             *)

(* num_slots and the lists tell the same story: in every bin of a cache,   *)
(* chunks and free slots make up tcache_count, each list ends, and its     *)
(* chunks have sizes of that bin and carry the key.  The lists change in   *)
(* put, get and the stashing of _int_malloc, through links mangled with    *)
(* their addresses (scalloc.c 3124, 3146, 3966, 4166).                     *)
SlotsAccount ==
  \A t \in {s \in Threads : tcache[s]}, i \in Bins :
    /\ Cardinality(InBin(t, i)) + num_slots[t][i] = mp.tcache_count
    /\ Last(Walk(t, i)) = None
    /\ \A c \in InBin(t, i) : Tidx(size[c]) = i /\ Cacheable(size[c]) /\ key[c]

(* Each size that goes to the cache has one of its bins: "Caller must      *)
(* ensure that we know tc_idx is valid" (scalloc.c 3120).                  *)
IndexValid ==
  \A n \in 2 .. (mp.tcache_max_bytes \div MALLOC_ALIGNMENT) :
    Cacheable(MALLOC_ALIGNMENT * n) => Tidx(MALLOC_ALIGNMENT * n) \in Bins

(* Whatever the tunables were set to, that is so just if the tcache_max in *)
(* force is below 4 GiB.  Then __builtin_clz sees all of it, and the test  *)
(* of do_set_tcache_max, which looks at one size, answers for all smaller  *)
(* ones.  A larger value is accepted if its low bits are those of a small  *)
(* one (large_csize2tidx), and sizes without a bin go to the cache.        *)
Below4GiB == mp.tcache_max_bytes <= 2 ^ IntBits
SizesHaveBins == IndexValid <=> Below4GiB

(* A request that a chunk in its bin satisfies never goes to the arena,    *)
(* and it gets the smallest such chunk: what keeping the large bins sorted *)
(* is for (tcache_location_large, tcache_get_align).                       *)
CacheFirst ==
  [][\A t \in Threads : op[t].pc = "idle" =>
       /\ \A c \in DOMAIN live' \cap Cached(t) :
            \A d \in InBin(t, Tidx(size[c])) :
              Wants(d, live'[c]) => size[c] <= size[d]
       /\ op'[t].pc = "arena" =>
            LET req == op'[t].req
            IN  Cacheable(Request2size(req.bytes)) =>
                  \A d \in InBin(t, Tidx(Request2size(req.bytes))) : ~Wants(d, req)]_vars

(* The check in free ends the process only for a chunk that the thread's   *)
(* cache has: not for data that looks like the key, nor because a bin is   *)
(* full (tcache_double_free_verify).                                       *)
AbortsOnDoubleFreeOnly ==
  aborted => \E t \in Threads : op[t].pc = "verify" /\ op[t].p \in Cached(t)

(* A thread that ends has given back all it cached when the shutdown is    *)
(* over, and has no cache ever after, though it may still call malloc and  *)
(* free (tcache_thread_shutdown, tcache_init).                             *)
ShutdownReleases ==
  \A t \in Threads : shutting_down[t] => ~tcache[t] /\ (op[t].closing \/ Cached(t) = {})

(* The lists, links and flags implement caches as ChunkCache promises them:*)
(* every chunk is in one place, and none is lost.                          *)
Sizes ==
  {Request2size(r.bytes) : r \in Requests}
  \cup {Request2size(r.bytes) + MALLOC_ALIGNMENT : r \in Requests}
  \cup {Request2size(Request2size(r.bytes) + r.al + MINSIZE) : r \in Requests}
Cache ==
  INSTANCE ChunkCache WITH
    Needs <- Request2size, asked <- live, limit <- mp.tcache_count,
    cache <- [t \in Threads |-> Cached(t) \cup IF op[t].closing /\ op[t].p # None
                                               THEN {op[t].p} ELSE {}]
ImplementsCache == Cache!Spec
=============================================================================
