------------------------- MODULE ScallocMmapProofs -------------------------
(***************************************************************************)
(* The counters, peaks, limits, headers and thresholds of the mmapped      *)
(* chunks, for any number of threads and blocks and any requests.          *)
(***************************************************************************)
EXTENDS ScallocMmap, FiniteSetTheorems, TLAPS

(* Lemma: rounding up covers what is rounded.                              *)
LEMMA AlignUpCovers ==
  ASSUME NEW n \in Nat, NEW a \in Nat \ {0}
  PROVE  AlignUp(n, a) \in Nat /\ AlignUp(n, a) >= n
<1> DEFINE q == (n + a - 1) \div a
<1>1. q \in Int /\ a * q <= n + a - 1 /\ n + a - 1 < a * (q + 1) OBVIOUS
<1>2. a * (q + 1) = q * a + a BY <1>1
<1>3. q * a >= n BY <1>1, <1>2
<1> QED BY <1>1, <1>3 DEF AlignUp

(* Lemma: the room that memalign asks for covers what it leaves unused.    *)
LEMMA LeadBounds ==
  ASSUME NEW al \in Nat \ {0}
  PROVE  Lead(0, al) \in Nat /\ Lead(0, 1) = 0 /\ Lead(0, al) <= al + MINSIZE
<1>1. AlignUp(1, al) = al
  <2>1. (1 + al - 1) \div al = 1 OBVIOUS
  <2> QED BY <2>1 DEF AlignUp
<1>2. AlignUp(1, 1) = 1 BY DEF AlignUp
<1> QED BY <1>1, <1>2 DEF Lead, HDR, MINSIZE

(* Lemma: a chunk of the padded size has room for the words asked for.     *)
LEMMA PaddedFits ==
  ASSUME NEW w \in Nat
  PROVE  Request2size(w) \in Nat /\ w <= 2 * Request2size(w) - 1
BY DEF Request2size, Larger, MINSIZE

-----------------------------------------------------------------------------
(* The inductive invariant.                                                *)

Making == {"count", "count_max", "mem", "mem_max"}
Leaving == {"threshold", "set_threshold", "set_trim", "unmap_count", "unmap_mem", "unmap"}
Asking == {"limit", "limit_max", "map"}
PCs == {"idle", "mallopt", "remap_mem", "remap_max"} \cup Asking \cup Making \cup Leaving

Params ==
  [n_mmaps : Int, n_mmaps_max : Int, max_n_mmaps : Int, mmapped_mem : Int,
   max_mmapped_mem : Int, no_dyn : BOOLEAN, mmap_threshold : Int, trim_threshold : Int]
Calls ==
  [pc : PCs, b : Blocks \cup {None}, r : Nat, nb : Nat, al : Nat \ {0},
   old : Blocks \cup {None}, keep : Nat, new : Int]

TypeOK ==
  /\ DOMAIN maps \subseteq Blocks /\ maps \in [DOMAIN maps -> Nat]
  /\ hdr \in [DOMAIN maps -> [off : Nat, sz : Nat]]
  /\ DOMAIN mine \subseteq DOMAIN maps /\ mine \in [DOMAIN mine -> Nat]
  /\ mp \in Params
  /\ th \in [Threads -> Calls]
  /\ remaps \in Nat /\ fallbacks \in Nat

(* A block is the program's or is in the hands of one thread, whose step   *)
(* says what it knows of the header.                                       *)
Hands(t) == {th[t].b, th[t].old} \ {None}

CallOK(t) ==
  /\ Hands(t) \subseteq DOMAIN maps \ DOMAIN mine
  /\ th[t].pc \in {"idle", "mallopt"} \cup Asking <=> th[t].b = None
  /\ th[t].pc \in {"idle", "mallopt"} => th[t].old = None
  /\ th[t].b # None => th[t].b # th[t].old
  /\ th[t].old # None => th[t].keep <= Usable(th[t].old)
  /\ th[t].pc \in Asking \cup Making => th[t].nb >= Request2size(th[t].r) + Lead(0, th[t].al)
  /\ th[t].pc \in Making => hdr[th[t].b].off = 0 /\ hdr[th[t].b].sz >= th[t].nb
  /\ th[t].pc \in {"remap_mem", "remap_max"} => th[t].r <= Usable(th[t].b)
  /\ th[t].pc = "remap_mem" => th[t].new <= maps[th[t].b]

BlocksInv ==
  /\ \A t \in Threads : CallOK(t)
  /\ \A s, t \in Threads : s # t => Hands(s) \cap Hands(t) = {}
  /\ \A b \in DOMAIN maps : maps[b] = MmapSize(b)
  /\ \A b \in DOMAIN mine : mine[b] <= Usable(b)

(* n_mmaps lacks the mappings that a thread has made and not counted, or   *)
(* has uncounted and not unmapped.                                         *)
Uncounted == {t \in Threads : th[t].pc \in {"count", "unmap_mem", "unmap"}}
NumberInv == mp.n_mmaps = Cardinality(DOMAIN maps) - Cardinality(Uncounted)

(* mmapped_mem lacks the units of blocks that a thread has mapped and not  *)
(* added, or has subtracted and not unmapped, and what a thread that has   *)
(* remapped a block has still to add.                                      *)
Units(f, S) == Cardinality(UNION {{b} \X (1 .. f[b]) : b \in S})
Owes(t) == IF th[t].pc \in {"count", "count_max", "mem", "unmap"} THEN maps[th[t].b]
           ELSE IF th[t].pc = "remap_mem" THEN th[t].new ELSE 0
Added == [b \in DOMAIN maps |->
            IF \E t \in Threads : th[t].b = b
            THEN maps[b] - Owes(CHOOSE t \in Threads : th[t].b = b)
            ELSE maps[b]]
MemoryInv == mp.mmapped_mem = Units(Added, DOMAIN maps) + HDR * remaps

(* A peak that is too low is about to be raised by the thread that made    *)
(* the sum.                                                                *)
PeaksInv ==
  /\ \/ mp.n_mmaps <= mp.max_n_mmaps
     \/ \E t \in Threads : th[t].pc = "count_max" /\ mp.n_mmaps <= th[t].new
  /\ \/ mp.mmapped_mem <= mp.max_mmapped_mem
     \/ \E t \in Threads : th[t].pc \in {"mem_max", "remap_max"} /\ mp.mmapped_mem <= th[t].new

(* Threads between their read of n_mmaps and its increment each may exceed *)
(* the limit by one, and the first of them does not.                       *)
Admitted == {t \in Threads : \/ th[t].pc \in {"map", "count"}
                             \/ th[t].pc = "limit_max" /\ th[t].new < Max(MmapsMax)}
LimitInv ==
  /\ mp.n_mmaps_max \in MmapsMax
  /\ mp.n_mmaps + Cardinality(Admitted) <= Max(MmapsMax) + (Cardinality(Threads) - 1) + fallbacks

(* Once a mallopt has ended nobody is about to move the threshold.         *)
ManualInv ==
  manual # None => /\ mp.no_dyn /\ mp.mmap_threshold = manual
                   /\ \A t \in Threads : th[t].pc \notin {"threshold", "set_threshold"}

IInv == TypeOK /\ BlocksInv /\ NumberInv /\ MemoryInv /\ PeaksInv /\ LimitInv /\ ManualInv

-----------------------------------------------------------------------------
(* The types and the blocks.                                               *)

(* Lemma: what the types say of one thread.                                *)
LEMMA TypeFacts ==
  ASSUME TypeOK, NEW t \in Threads
  PROVE  th[t] \in Calls /\ None \notin Blocks
BY MmapAssumption DEF TypeOK

(* Lemma: a step of t keeps the other threads' hands if it leaves their    *)
(* blocks alone and takes none of them.                                    *)
LEMMA OthersKeep ==
  ASSUME TypeOK, BlocksInv, NEW t \in Threads,
         \A u \in Threads \ {t} : th'[u] = th[u],
         \A u \in Threads \ {t} : \A x \in Hands(u) :
           /\ x \in DOMAIN maps' \ DOMAIN mine'
           /\ maps'[x] = maps[x] /\ hdr'[x] = hdr[x]
           /\ x \notin Hands(t)',
         CallOK(t)'
  PROVE  /\ \A u \in Threads : CallOK(u)'
         /\ \A s, u \in Threads : s # u => (Hands(s) \cap Hands(u) = {})'
<1>1. ASSUME NEW u \in Threads, u # t PROVE CallOK(u)'
  <2>1. CallOK(u) /\ th'[u] = th[u] BY <1>1 DEF BlocksInv
  <2>2. Hands(u)' = Hands(u) BY <2>1 DEF Hands
  <2>3. th[u].pc \in PCs BY TypeFacts DEF Calls
  <2>4. th[u].b # None => hdr'[th[u].b] = hdr[th[u].b] /\ maps'[th[u].b] = maps[th[u].b]
        BY <1>1 DEF Hands
  <2>5. th[u].old # None => hdr'[th[u].old] = hdr[th[u].old]
        BY <1>1 DEF Hands
  <2>6. th[u].pc \in Making \cup {"remap_mem", "remap_max"} => th[u].b # None
        BY <2>1 DEF CallOK, Asking, Making
  <2> QED BY <1>1, <2>1, <2>2, <2>4, <2>5, <2>6 DEF CallOK, Asking, Usable, Lead
<1>2. ASSUME NEW u \in Threads, NEW s \in Threads, s # u PROVE (Hands(s) \cap Hands(u) = {})'
  <2>1. \A v \in Threads \ {t} : Hands(v)' = Hands(v) BY DEF Hands
  <2>2. \A v \in Threads \ {t} : Hands(v)' \cap Hands(t)' = {} BY <2>1
  <2> QED BY <1>2, <2>1, <2>2 DEF BlocksInv
<1> QED BY <1>1, <1>2

(* Lemma: a step that moves only t and the counters.                       *)
LEMMA CallMoves ==
  ASSUME TypeOK, BlocksInv, NEW t \in Threads,
         th' = [th EXCEPT ![t] = th'[t]], UNCHANGED <<maps, hdr, mine>>,
         Hands(t)' \subseteq Hands(t), CallOK(t)'
  PROVE  BlocksInv'
<1>1. \A u \in Threads \ {t} : th'[u] = th[u] BY DEF TypeOK
<1>2. \A u \in Threads \ {t} : \A x \in Hands(u) :
        /\ x \in DOMAIN maps' \ DOMAIN mine'
        /\ maps'[x] = maps[x] /\ hdr'[x] = hdr[x] /\ x \notin Hands(t)'
      BY DEF BlocksInv, CallOK, Asking
<1>3. /\ \A u \in Threads : CallOK(u)'
      /\ \A s, u \in Threads : s # u => (Hands(s) \cap Hands(u) = {})'
      BY <1>1, <1>2, OthersKeep
<1> QED BY <1>3 DEF BlocksInv, MmapSize, Usable

(* Lemma: the actions that move one thread and the counters.               *)
LEMMA CounterSteps ==
  ASSUME TypeOK, BlocksInv, NEW t \in Threads,
         \/ Limit(t) \/ Count(t) \/ CountMax(t) \/ Mem(t) \/ ReadThreshold(t) \/ SetThreshold(t)
         \/ SetTrim(t) \/ UnmapCount(t) \/ UnmapMem(t) \/ RemapMem(t) \/ NoDyn(t)
         \/ \E f \in {"mmap_threshold", "trim_threshold", "n_mmaps_max"}, v \in Nat : Mallopt(t, f, v)
  PROVE  TypeOK' /\ BlocksInv'
<1> USE TypeFacts DEF Asking, Making, Leaving, PCs
<1>0. CallOK(t) /\ (th[t].b # None => hdr[th[t].b] \in [off : Nat, sz : Nat] /\ maps[th[t].b] \in Nat)
  BY DEF BlocksInv, CallOK, Asking, Hands, TypeOK
<1>00. /\ mp.n_mmaps \in Int /\ mp.mmapped_mem \in Int /\ mp.max_n_mmaps \in Int
       /\ mp.max_mmapped_mem \in Int /\ mp.mmap_threshold \in Int /\ th[t] \in Calls
  BY DEF TypeOK, Params
<1>1. CASE Count(t)
  <2>1. mp' \in Params BY <1>1 DEF Count, At, TypeOK, Params, Calls
  <2>2. th'[t] \in Calls /\ th' = [th EXCEPT ![t] = th'[t]]
    <3>1. (mp.n_mmaps + 1) \in Int BY <1>00
    <3>2. th[t] \in Calls BY <1>00
    <3> QED BY <3>1, <3>2, <1>1 DEF Count, At, Goto, TypeOK, Calls
  <2>3. TypeOK' BY <1>1, <2>1, <2>2 DEF Count, TypeOK, ghosts
  <2>4. CallOK(t)' BY <1>0, <1>1 DEF Count, At, Goto, TypeOK, CallOK, Asking, Hands, Usable, Lead, Calls
  <2>5. Hands(t)' \subseteq Hands(t)
        BY <1>1 DEF Count, At, Goto, TypeOK, Calls, Hands
  <2> QED BY <1>1, <2>2, <2>3, <2>4, <2>5, CallMoves DEF Count
<1>2. CASE CountMax(t)
  <2>1. mp' \in Params BY <1>2 DEF CountMax, AtomicMax, Larger, At, TypeOK, Params, Calls
  <2>2. th'[t] \in Calls /\ th' = [th EXCEPT ![t] = th'[t]]
        BY <1>00, <1>2 DEF CountMax, AtomicMax, Larger, At, Goto, TypeOK, Calls
  <2>3. TypeOK' BY <1>2, <2>1, <2>2 DEF CountMax, TypeOK, ghosts
  <2>4. CallOK(t)' BY <1>0, <1>2 DEF CountMax, AtomicMax, Larger, At, Goto, TypeOK, CallOK, Asking, Hands, Usable, Lead, Calls
  <2>5. Hands(t)' \subseteq Hands(t)
        BY <1>2 DEF CountMax, At, Goto, TypeOK, Calls, Hands
  <2> QED BY <1>2, <2>2, <2>3, <2>4, <2>5, CallMoves DEF CountMax
<1>3. CASE Mem(t)
  <2>0. MmapSize(th[t].b) \in Int BY <1>0, <1>3 DEF CallOK, Asking, Mem, At, MmapSize, HDR
  <2>1. mp' \in Params BY <1>3, <2>0 DEF Mem, At, TypeOK, Params, Calls
  <2>2. th'[t] \in Calls /\ th' = [th EXCEPT ![t] = th'[t]]
    <3>1. (mp.mmapped_mem + MmapSize(th[t].b)) \in Int BY <1>00, <2>0
    <3>2. th[t] \in Calls BY <1>00
    <3> QED BY <3>1, <3>2, <1>3 DEF Mem, At, Goto, TypeOK, Calls
  <2>3. TypeOK' BY <1>3, <2>1, <2>2 DEF Mem, TypeOK, ghosts
  <2>4. CallOK(t)' BY <1>0, <1>3 DEF Mem, At, Goto, TypeOK, CallOK, Asking, Hands, Usable, Lead, Calls
  <2>5. Hands(t)' \subseteq Hands(t)
        BY <1>3 DEF Mem, At, Goto, TypeOK, Calls, Hands
  <2> QED BY <1>3, <2>2, <2>3, <2>4, <2>5, CallMoves DEF Mem
<1>4. CASE SetThreshold(t)
  <2>0. hdr[th[t].b].sz \in Int BY <1>0, <1>4 DEF CallOK, Asking, SetThreshold, At
  <2>1. mp' \in Params BY <1>4, <2>0 DEF SetThreshold, At, TypeOK, Params, Calls
  <2>2. th'[t] \in Calls /\ th' = [th EXCEPT ![t] = th'[t]]
        BY <1>00, <1>4, <2>0 DEF SetThreshold, At, Goto, TypeOK, Calls
  <2>3. TypeOK' BY <1>4, <2>1, <2>2 DEF SetThreshold, TypeOK, ghosts
  <2>4. CallOK(t)' BY <1>0, <1>4 DEF SetThreshold, At, Goto, TypeOK, CallOK, Asking, Hands, Usable, Lead, Calls
  <2>5. Hands(t)' \subseteq Hands(t)
        BY <1>4 DEF SetThreshold, At, Goto, TypeOK, Calls, Hands
  <2> QED BY <1>4, <2>2, <2>3, <2>4, <2>5, CallMoves DEF SetThreshold
<1>5. CASE SetTrim(t)
  <2>0. hdr[th[t].b].sz \in Int BY <1>0, <1>5 DEF CallOK, Asking, SetTrim, At
  <2>1. mp' \in Params BY <1>5, <2>0 DEF SetTrim, At, TypeOK, Params, Calls
  <2>2. th'[t] \in Calls /\ th' = [th EXCEPT ![t] = th'[t]]
        BY <1>00, <1>5, <2>0 DEF SetTrim, At, Goto, TypeOK, Calls
  <2>3. TypeOK' BY <1>5, <2>1, <2>2 DEF SetTrim, TypeOK, ghosts
  <2>4. CallOK(t)' BY <1>0, <1>5 DEF SetTrim, At, Goto, TypeOK, CallOK, Asking, Hands, Usable, Lead, Calls
  <2>5. Hands(t)' \subseteq Hands(t)
        BY <1>5 DEF SetTrim, At, Goto, TypeOK, Calls, Hands
  <2> QED BY <1>5, <2>2, <2>3, <2>4, <2>5, CallMoves DEF SetTrim
<1>6. CASE UnmapCount(t)
  <2>1. mp' \in Params BY <1>6 DEF UnmapCount, At, TypeOK, Params, Calls
  <2>2. th'[t] \in Calls /\ th' = [th EXCEPT ![t] = th'[t]]
        BY <1>00, <1>6 DEF UnmapCount, At, Goto, TypeOK, Calls
  <2>3. TypeOK' BY <1>6, <2>1, <2>2 DEF UnmapCount, TypeOK, ghosts
  <2>4. CallOK(t)' BY <1>0, <1>6 DEF UnmapCount, At, Goto, TypeOK, CallOK, Asking, Hands, Usable, Lead, Calls
  <2>5. Hands(t)' \subseteq Hands(t)
        BY <1>6 DEF UnmapCount, At, Goto, TypeOK, Calls, Hands
  <2> QED BY <1>6, <2>2, <2>3, <2>4, <2>5, CallMoves DEF UnmapCount
<1>7. CASE UnmapMem(t)
  <2>0. MmapSize(th[t].b) \in Int BY <1>0, <1>7 DEF CallOK, Asking, UnmapMem, At, MmapSize, HDR
  <2>1. mp' \in Params BY <1>7, <2>0 DEF UnmapMem, At, TypeOK, Params, Calls
  <2>2. th'[t] \in Calls /\ th' = [th EXCEPT ![t] = th'[t]]
        BY <1>00, <1>7, <2>0 DEF UnmapMem, At, Goto, TypeOK, Calls
  <2>3. TypeOK' BY <1>7, <2>1, <2>2 DEF UnmapMem, TypeOK, ghosts
  <2>4. CallOK(t)' BY <1>0, <1>7 DEF UnmapMem, At, Goto, TypeOK, CallOK, Asking, Hands, Usable, Lead, Calls
  <2>5. Hands(t)' \subseteq Hands(t)
        BY <1>7 DEF UnmapMem, At, Goto, TypeOK, Calls, Hands
  <2> QED BY <1>7, <2>2, <2>3, <2>4, <2>5, CallMoves DEF UnmapMem
<1>8. CASE RemapMem(t)
  <2>1. mp' \in Params BY <1>8 DEF RemapMem, At, TypeOK, Params, Calls
  <2>2. th'[t] \in Calls /\ th' = [th EXCEPT ![t] = th'[t]]
    <3>1. (mp.mmapped_mem + th[t].new) \in Int BY <1>00 DEF Calls
    <3>2. th[t] \in Calls BY <1>00
    <3> QED BY <3>1, <3>2, <1>8 DEF RemapMem, At, Goto, TypeOK, Calls
  <2>3. TypeOK' BY <1>8, <2>1, <2>2 DEF RemapMem, TypeOK, ghosts
  <2>4. CallOK(t)' BY <1>0, <1>8 DEF RemapMem, At, Goto, TypeOK, CallOK, Asking, Hands, Usable, Lead, Calls
  <2>5. Hands(t)' \subseteq Hands(t)
        BY <1>8 DEF RemapMem, At, Goto, TypeOK, Calls, Hands
  <2> QED BY <1>8, <2>2, <2>3, <2>4, <2>5, CallMoves DEF RemapMem
<1>9. CASE NoDyn(t)
  <2>1. mp' \in Params BY <1>9 DEF NoDyn, Idle, At, TypeOK, Params, Calls
  <2>2. th'[t] \in Calls /\ th' = [th EXCEPT ![t] = th'[t]]
        BY <1>00, <1>9 DEF NoDyn, Idle, At, Goto, TypeOK, Calls
  <2>3. TypeOK' BY <1>9, <2>1, <2>2 DEF NoDyn, TypeOK, ghosts
  <2>4. CallOK(t)' BY <1>0, <1>9 DEF NoDyn, Idle, At, Goto, TypeOK, CallOK, Asking, Hands, Usable, Lead, Calls
  <2>5. Hands(t)' \subseteq Hands(t)
        BY <1>9 DEF NoDyn, Idle, At, Goto, TypeOK, Calls, Hands
  <2> QED BY <1>9, <2>2, <2>3, <2>4, <2>5, CallMoves DEF NoDyn
<1>10. ASSUME NEW f \in {"mmap_threshold", "trim_threshold", "n_mmaps_max"}, NEW v \in Nat,
              Mallopt(t, f, v)
       PROVE  TypeOK' /\ BlocksInv'
  <2>1. mp' \in Params BY <1>10 DEF Mallopt, Idle, At, TypeOK, Params, Calls
  <2>2. th'[t] \in Calls /\ th' = [th EXCEPT ![t] = th'[t]]
        BY <1>00, <1>10 DEF Mallopt, Idle, At, Goto, TypeOK, Calls
  <2>3. TypeOK' BY <1>10, <2>1, <2>2 DEF Mallopt, TypeOK, ghosts
  <2>4. CallOK(t)' BY <1>0, <1>10 DEF Mallopt, Idle, At, Goto, TypeOK, CallOK, Asking, Hands, Usable, Lead, Calls
  <2>5. Hands(t)' \subseteq Hands(t)
        BY <1>10 DEF Mallopt, Idle, At, Goto, TypeOK, Calls, Hands
  <2> QED BY <1>10, <2>2, <2>3, <2>4, <2>5, CallMoves DEF Mallopt
<1>11. CASE Limit(t)
  <2>1. th'[t] \in Calls /\ th' = [th EXCEPT ![t] = th'[t]]
        BY <1>00, <1>11 DEF Limit, At, Goto, TypeOK, Calls
  <2>2. TypeOK' BY <1>11, <2>1 DEF Limit, TypeOK, ghosts
  <2>3. CallOK(t)' BY <1>0, <1>11 DEF Limit, At, Goto, TypeOK, CallOK, Asking, Hands, Usable, Lead, Calls
  <2>4. Hands(t)' \subseteq Hands(t) BY <1>11 DEF Limit, At, Goto, TypeOK, Calls, Hands
  <2> QED BY <1>11, <2>1, <2>2, <2>3, <2>4, CallMoves DEF Limit
<1>12. CASE ReadThreshold(t)
  <2>1. th'[t] \in Calls /\ th' = [th EXCEPT ![t] = th'[t]]
        BY <1>00, <1>12 DEF ReadThreshold, At, Goto, TypeOK, Calls
  <2>2. TypeOK' BY <1>12, <2>1 DEF ReadThreshold, TypeOK, ghosts
  <2>3. CallOK(t)' BY <1>0, <1>12 DEF ReadThreshold, At, Goto, TypeOK, CallOK, Asking, Hands, Usable, Lead, Calls
  <2>4. Hands(t)' \subseteq Hands(t) BY <1>12 DEF ReadThreshold, At, Goto, TypeOK, Calls, Hands
  <2> QED BY <1>12, <2>1, <2>2, <2>3, <2>4, CallMoves DEF ReadThreshold
<1> QED BY <1>1, <1>2, <1>3, <1>4, <1>5, <1>6, <1>7, <1>8, <1>9, <1>10, <1>11, <1>12

(* Lemma: what t starts out with, and that nobody else has it.             *)
LEMMA HandFacts ==
  ASSUME TypeOK, BlocksInv, NEW t \in Threads
  PROVE  /\ CallOK(t) /\ th[t] \in Calls /\ None \notin Blocks
         /\ \A u \in Threads \ {t} : \A x \in Hands(u) :
              x \in DOMAIN maps \ DOMAIN mine /\ x \notin Hands(t)
         /\ \A x \in DOMAIN maps : /\ hdr[x] \in [off : Nat, sz : Nat] /\ maps[x] \in Nat
                                   /\ x \in Blocks
         /\ \A x \in Hands(t) : x \in DOMAIN maps \ DOMAIN mine
BY TypeFacts DEF BlocksInv, CallOK, Asking, TypeOK

(* Lemma: an idle thread's call that has nothing in hand.                  *)
LEMMA IdleCall == Idle \in Calls /\ Idle.pc = "idle" /\ Idle.b = None /\ Idle.old = None
                  /\ Idle.al = 1
BY DEF Idle, Calls, PCs

(* Lemma: sysmalloc sends the thread on to the limit, or to map.           *)
LEMMA SysmallocGoes ==
  ASSUME TypeOK, NEW t \in Threads, NEW call \in Calls, Sysmalloc(t, call)
  PROVE  /\ th' = [th EXCEPT ![t] = th'[t]] /\ th'[t] \in Calls /\ th' \in [Threads -> Calls]
         /\ \E pc \in {"limit", "map"} : th'[t] = [call EXCEPT !.pc = pc]
         /\ th'[t].pc = "limit" => fallbacks' = fallbacks
         /\ th'[t].pc = "map" => fallbacks' = fallbacks + 1
         /\ fallbacks' \in Nat
<1>1. PICK pc \in {"limit", "map"} :
        /\ th' = [th EXCEPT ![t] = [call EXCEPT !.pc = pc]]
        /\ fallbacks' = IF pc = "limit" THEN fallbacks ELSE fallbacks + 1
  BY DEF Sysmalloc, Fallback, Goto
<1>2. [call EXCEPT !.pc = pc] \in Calls /\ [call EXCEPT !.pc = pc].pc = pc
  BY DEF Calls, PCs, Asking
<1>3. fallbacks' \in Nat BY <1>1 DEF TypeOK
<1> QED BY <1>1, <1>2, <1>3 DEF TypeOK

(* Lemma: malloc and memalign reserve room for what was asked.             *)
LEMMA MallocSteps ==
  ASSUME TypeOK, BlocksInv, NEW t \in Threads, NEW r \in Requests,
         Malloc(t, r) \/ \E al \in Alignments : Memalign(t, al, r)
  PROVE  TypeOK' /\ BlocksInv'
<1>1. PICK call \in Calls :
        /\ Sysmalloc(t, call) /\ call.b = None /\ call.old = None
        /\ call.nb >= Request2size(call.r) + Lead(0, call.al)
  <2>1. r \in Nat BY MmapAssumption
  <2>2. CASE Malloc(t, r)
    <3> DEFINE call == [Idle EXCEPT !.r = r, !.nb = Request2size(r)]
    <3>1. Request2size(r) \in Nat /\ Lead(0, 1) = 0 BY <2>1, PaddedFits, LeadBounds
    <3>2. /\ call \in Calls /\ call.b = None /\ call.old = None
          /\ call.r = r /\ call.al = 1 /\ call.nb = Request2size(r)
      BY <2>1, <3>1, IdleCall DEF Calls, Idle
    <3>3. Sysmalloc(t, call) BY <2>2 DEF Malloc
    <3> HIDE DEF call
    <3> QED BY <3>1, <3>2, <3>3
  <2>3. ASSUME NEW al \in Alignments, Memalign(t, al, r)
        PROVE  \E call \in Calls :
                 /\ Sysmalloc(t, call) /\ call.b = None /\ call.old = None
                 /\ call.nb >= Request2size(call.r) + Lead(0, call.al)
    <3> DEFINE nb == Request2size(r) + al + MINSIZE + 1
    <3> DEFINE call == [Idle EXCEPT !.r = r, !.al = al, !.nb = nb]
    <3>0. al \in Nat \ {0} BY MmapAssumption
    <3>1. Request2size(r) \in Nat /\ Lead(0, al) \in Nat /\ Lead(0, al) <= al + MINSIZE
          BY <2>1, <3>0, PaddedFits, LeadBounds
    <3>2. nb \in Nat /\ nb >= Request2size(r) + Lead(0, al) BY <3>0, <3>1 DEF MINSIZE
    <3> HIDE DEF nb
    <3>3. /\ call \in Calls /\ call.b = None /\ call.old = None
          /\ call.r = r /\ call.al = al /\ call.nb = nb
      BY <2>1, <3>0, <3>2, IdleCall DEF Calls, Idle
    <3>4. Sysmalloc(t, call) BY <2>3 DEF Memalign, nb
    <3> HIDE DEF call
    <3> QED BY <3>2, <3>3, <3>4
  <2> QED BY <2>2, <2>3
<1>2. UNCHANGED <<maps, hdr, mine, mp, remaps>> BY DEF Malloc, Memalign
<1>3. TypeOK' BY <1>1, <1>2, SysmallocGoes DEF TypeOK
<1>4. PICK pc \in {"limit", "map"} : th'[t] = [call EXCEPT !.pc = pc] BY <1>1, SysmallocGoes
<1>5. Hands(t)' = {} BY <1>1, <1>4 DEF Hands, Calls
<1>6. CallOK(t)' BY <1>1, <1>2, <1>4, <1>5 DEF CallOK, Calls, Asking, Making, Lead
<1> QED BY <1>1, <1>2, <1>3, <1>5, <1>6, SysmallocGoes, CallMoves

(* Lemma: a malloc that fails gives a realloc's block back.                *)
LEMMA FailStep ==
  ASSUME TypeOK, BlocksInv, NEW t \in Threads, th[t].b = None, Fail(t),
         UNCHANGED <<maps, hdr, mp, remaps, fallbacks>>
  PROVE  TypeOK' /\ BlocksInv'
<1>0. th[t] \in Calls /\ CallOK(t) BY HandFacts
<1>00. mine' = IF th[t].old # None THEN With(mine, th[t].old, th[t].keep) ELSE mine
  BY DEF Fail
<1>1. th' = [th EXCEPT ![t] = th'[t]] /\ th'[t] = Idle /\ th'[t] \in Calls
  BY IdleCall DEF Fail, Goto, TypeOK
<1>2. /\ DOMAIN mine' = DOMAIN mine \cup Hands(t)
      /\ \A x \in DOMAIN mine : mine'[x] = mine[x]
      /\ \A x \in Hands(t) : x = th[t].old /\ mine'[x] = th[t].keep
      /\ mine' \in [DOMAIN mine' -> Nat]
  <2>1. CASE th[t].old = None BY <1>0, <1>00, <2>1 DEF Hands, TypeOK
  <2>2. CASE th[t].old # None
    <3>1. Hands(t) = {th[t].old} /\ th[t].old \notin DOMAIN mine /\ th[t].keep \in Nat
      BY <1>0, <2>2, HandFacts DEF Hands, Calls
    <3>2. mine \in [DOMAIN mine -> Nat] BY DEF TypeOK
    <3>3. With(mine, th[t].old, th[t].keep) \in [DOMAIN mine \cup {th[t].old} -> Nat]
          /\ With(mine, th[t].old, th[t].keep)[th[t].old] = th[t].keep
          /\ \A x \in DOMAIN mine \ {th[t].old} : With(mine, th[t].old, th[t].keep)[x] = mine[x]
      BY <3>1, <3>2 DEF With
    <3> QED BY <1>00, <2>2, <3>1, <3>3
  <2> QED BY <2>1, <2>2
<1>3. TypeOK' BY <1>0, <1>1, <1>2, HandFacts DEF TypeOK, ghosts
<1>4. Hands(t)' = {} BY <1>1, IdleCall DEF Hands
<1>5. CallOK(t)' BY <1>1, <1>4, IdleCall DEF CallOK, Asking, Making
<1>6. \A u \in Threads \ {t} : \A x \in Hands(u) :
         /\ x \in DOMAIN maps' \ DOMAIN mine'
         /\ maps'[x] = maps[x] /\ hdr'[x] = hdr[x] /\ x \notin Hands(t)'
  BY <1>2, <1>4, HandFacts
<1>7. \A u \in Threads \ {t} : th'[u] = th[u] BY <1>1 DEF TypeOK
<1>8. \A x \in DOMAIN mine' : mine'[x] <= Usable(x)'
  <2>1. \A x : Usable(x)' = Usable(x) BY DEF Usable
  <2>2. \A x \in Hands(t) : th[t].keep <= Usable(x) BY <1>0, <1>2 DEF CallOK, Asking, Hands
  <2> QED BY <1>2, <2>1, <2>2 DEF BlocksInv
<1> QED BY <1>3, <1>5, <1>6, <1>7, <1>8, OthersKeep DEF BlocksInv, MmapSize

(* Lemma: a new mapping is its maker's.                                    *)
LEMMA MapStep ==
  ASSUME TypeOK, BlocksInv, NEW t \in Threads, Map(t)
  PROVE  TypeOK' /\ BlocksInv'
<1> DEFINE size == AlignUp(th[t].nb + HDR, PageSize)
<1>1. /\ th[t].pc = "map" /\ th[t].b = None /\ th[t] \in Calls /\ CallOK(t)
      /\ UNCHANGED <<mp, ghosts>>
  BY HandFacts DEF Map, At, CallOK, Asking
<1>2. size \in Nat /\ size >= th[t].nb + HDR
  BY <1>1, AlignUpCovers, MmapAssumption DEF HDR, Calls
<1> HIDE DEF size
<1>3. ASSUME NEW b \in Blocks \ DOMAIN maps,
             maps' = With(maps, b, size),
             hdr' = With(hdr, b, [off |-> 0, sz |-> size - HDR]),
             Goto(t, [th[t] EXCEPT !.pc = "count", !.b = b]),
             UNCHANGED mine
      PROVE  TypeOK' /\ BlocksInv'
  <2>1. DOMAIN maps' = DOMAIN maps \cup {b} /\ maps'[b] = size
        /\ (\A x \in DOMAIN maps : maps'[x] = maps[x]) /\ maps' \in [DOMAIN maps' -> Nat]
    <3>1. maps \in [DOMAIN maps -> Nat] /\ b \notin DOMAIN maps BY <1>3 DEF TypeOK
    <3>2. With(maps, b, size) \in [DOMAIN maps \cup {b} -> Nat] /\ With(maps, b, size)[b] = size
          /\ \A x \in DOMAIN maps \ {b} : With(maps, b, size)[x] = maps[x]
      BY <1>2, <3>1 DEF With
    <3> QED BY <1>3, <3>1, <3>2
  <2>2. [off |-> 0, sz |-> size - HDR] \in [off : Nat, sz : Nat]
    BY <1>1, <1>2 DEF HDR, Calls
  <2>3. DOMAIN hdr' = DOMAIN maps' /\ hdr'[b] = [off |-> 0, sz |-> size - HDR]
        /\ (\A x \in DOMAIN maps : hdr'[x] = hdr[x]) /\ hdr' \in [DOMAIN maps' -> [off : Nat, sz : Nat]]
    <3> DEFINE h == [off |-> 0, sz |-> size - HDR]
    <3>1. hdr \in [DOMAIN maps -> [off : Nat, sz : Nat]] /\ h \in [off : Nat, sz : Nat]
      BY <2>2 DEF TypeOK
    <3> HIDE DEF h
    <3>2. With(hdr, b, h) \in [DOMAIN maps \cup {b} -> [off : Nat, sz : Nat]]
          /\ With(hdr, b, h)[b] = h /\ \A x \in DOMAIN maps \ {b} : With(hdr, b, h)[x] = hdr[x]
      BY <3>1 DEF With
    <3>3. hdr' = With(hdr, b, h) BY <1>3 DEF h
    <3> QED BY <2>1, <3>2, <3>3 DEF h
  <2>4. th' = [th EXCEPT ![t] = th'[t]] /\ th'[t] = [th[t] EXCEPT !.pc = "count", !.b = b]
        /\ th'[t] \in Calls
    BY <1>1, <1>3 DEF Goto, Calls, PCs, Asking, Making, TypeOK
  <2>5. TypeOK' BY <1>1, <1>3, <2>1, <2>3, <2>4 DEF TypeOK, ghosts
  <2>6. Hands(t)' = Hands(t) \cup {b} /\ b \notin DOMAIN mine
    BY <1>1, <1>3, <2>4, HandFacts DEF Hands, Calls, TypeOK
  <2>7. th'[t].old # None => hdr'[th'[t].old] = hdr[th[t].old] /\ th'[t].old # b
    BY <1>1, <2>3, <2>4, HandFacts DEF Hands, Calls
  <2>8. CallOK(t)'
    BY <1>1, <1>2, <1>3, <2>1, <2>3, <2>4, <2>6, <2>7, HandFacts
    DEF CallOK, Usable, Lead, Asking, Making, Calls, HDR
  <2>9. \A u \in Threads \ {t} : \A x \in Hands(u) :
           /\ x \in DOMAIN maps' \ DOMAIN mine'
           /\ maps'[x] = maps[x] /\ hdr'[x] = hdr[x] /\ x \notin Hands(t)'
    BY <1>3, <2>1, <2>3, <2>6, HandFacts
  <2>10. \A u \in Threads \ {t} : th'[u] = th[u] BY <2>4 DEF TypeOK
  <2>11. \A x \in DOMAIN maps' : maps'[x] = MmapSize(x)'
    <3>1. maps'[b] = MmapSize(b)' BY <1>2, <2>1, <2>3 DEF MmapSize, HDR
    <3>2. \A x \in DOMAIN maps : maps'[x] = MmapSize(x)'
      BY <2>1, <2>3 DEF BlocksInv, MmapSize
    <3> QED BY <2>1, <3>1, <3>2
  <2>12. \A x \in DOMAIN mine' : mine'[x] <= Usable(x)'
    BY <1>3, <2>3 DEF BlocksInv, Usable, TypeOK
  <2> QED BY <2>5, <2>8, <2>9, <2>10, <2>11, <2>12, OthersKeep DEF BlocksInv
<1> QED BY <1>1, <1>3, FailStep DEF Map, size, ghosts

(* Lemma: a block in hand is given to the program.                         *)
LEMMA MineGains ==
  ASSUME TypeOK, NEW b \in DOMAIN maps, NEW r \in Nat, mine' = With(mine, b, r)
  PROVE  /\ mine' \in [DOMAIN mine \cup {b} -> Nat] /\ DOMAIN mine' \subseteq DOMAIN maps
         /\ DOMAIN mine' = DOMAIN mine \cup {b} /\ mine'[b] = r
         /\ \A x \in DOMAIN mine \ {b} : mine'[x] = mine[x]
<1>1. mine \in [DOMAIN mine -> Nat] /\ DOMAIN mine \subseteq DOMAIN maps BY DEF TypeOK
<1> QED BY <1>1 DEF With

(* Lemma: a block of the program is taken from it.                         *)
LEMMA MineLoses ==
  ASSUME TypeOK, NEW b \in DOMAIN mine, mine' = Without(mine, b)
  PROVE  /\ mine' \in [DOMAIN mine \ {b} -> Nat] /\ DOMAIN mine' \subseteq DOMAIN maps
         /\ DOMAIN mine' = DOMAIN mine \ {b} /\ b \in DOMAIN maps
         /\ \A x \in DOMAIN mine \ {b} : mine'[x] = mine[x]
<1>1. mine \in [DOMAIN mine -> Nat] /\ DOMAIN mine \subseteq DOMAIN maps BY DEF TypeOK
<1> QED BY <1>1 DEF Without

(* Lemma: the end of malloc, of memalign and of a realloc that copies.     *)
LEMMA MemMaxStep ==
  ASSUME TypeOK, BlocksInv, NEW t \in Threads, MemMax(t)
  PROVE  TypeOK' /\ BlocksInv'
<1> DEFINE b == th[t].b  old == th[t].old  lead == Lead(0, th[t].al)
           h == [off |-> hdr[b].off + lead, sz |-> hdr[b].sz - lead]
<1>0. th[t].pc = "mem_max" /\ th[t] \in Calls /\ CallOK(t)
  BY HandFacts DEF MemMax, At
<1>1. /\ b \in Hands(t) /\ b \in DOMAIN maps /\ b \notin DOMAIN mine /\ b # old
      /\ hdr[b].off = 0 /\ hdr[b].sz >= Request2size(th[t].r) + lead
      /\ hdr[b] \in [off : Nat, sz : Nat]
  <2>1. b # None BY <1>0 DEF CallOK, Asking
  <2>2. b \in Hands(t) /\ b # old BY <1>0, <2>1 DEF Hands, CallOK, Asking
  <2>3. b \in DOMAIN maps /\ b \notin DOMAIN mine /\ hdr[b] \in [off : Nat, sz : Nat]
    BY <2>2, HandFacts
  <2>4. hdr[b].off = 0 /\ hdr[b].sz >= th[t].nb /\ th[t].nb >= Request2size(th[t].r) + lead
    BY <1>0 DEF CallOK, Asking, Making
  <2>5. th[t].nb \in Nat /\ lead \in Nat /\ Request2size(th[t].r) \in Nat
    BY <1>0, LeadBounds, PaddedFits DEF Calls
  <2> QED BY <2>2, <2>3, <2>4, <2>5
<1>2. lead \in Nat /\ Request2size(th[t].r) \in Nat /\ th[t].r <= 2 * Request2size(th[t].r) - 1
  BY <1>0, LeadBounds, PaddedFits DEF Calls
<1>3. th[t].r \in Nat /\ th[t].keep \in Nat /\ th[t].new \in Int BY <1>0 DEF Calls
<1> HIDE DEF lead
<1>4. h \in [off : Nat, sz : Nat] /\ h.sz >= Request2size(th[t].r)
      /\ h.off + h.sz = hdr[b].off + hdr[b].sz
  BY <1>1, <1>2
<1>5. hdr' = [hdr EXCEPT ![b] = h] BY DEF MemMax, Aligned, lead
<1> HIDE DEF h
<1>6. hdr' \in [DOMAIN maps -> [off : Nat, sz : Nat]] /\ hdr'[b] = h
      /\ \A x \in DOMAIN maps \ {b} : hdr'[x] = hdr[x]
  BY <1>1, <1>4, <1>5 DEF TypeOK
<1>7. mine' = With(mine, b, th[t].r) /\ UNCHANGED <<maps, remaps, fallbacks>> BY DEF MemMax
<1>70. /\ mine' \in [DOMAIN mine \cup {b} -> Nat] /\ DOMAIN mine' \subseteq DOMAIN maps
       /\ DOMAIN mine' = DOMAIN mine \cup {b} /\ mine'[b] = th[t].r
       /\ \A x \in DOMAIN mine \ {b} : mine'[x] = mine[x]
  BY <1>1, <1>3, <1>7, MineGains
<1>8. mp' \in Params
  BY <1>3 DEF MemMax, AtomicMax, Larger, TypeOK, Params
<1>9. th' = [th EXCEPT ![t] = th'[t]] /\ th'[t] \in Calls
      /\ th'[t] = IF old = None THEN Idle ELSE [Idle EXCEPT !.pc = "unmap_count", !.b = old]
  <2>1. old \in Blocks \cup {None} BY <1>0 DEF Calls
  <2>2. [Idle EXCEPT !.pc = "unmap_count", !.b = old] \in Calls
    BY <2>1, IdleCall DEF Calls, PCs, Leaving
  <2> QED BY <2>2, IdleCall DEF MemMax, CopyAndUnmap, Goto, TypeOK
<1>10. TypeOK' BY <1>0, <1>1, <1>3, <1>6, <1>7, <1>8, <1>9, <1>70 DEF TypeOK
<1>11. Hands(t)' = Hands(t) \ {b}
  BY <1>0, <1>1, <1>9, IdleCall DEF Hands, Idle
<1>12. CallOK(t)'
  <2>1. Hands(t)' \subseteq DOMAIN maps' \ DOMAIN mine'
    BY <1>1, <1>3, <1>7, <1>11, <1>70, HandFacts
  <2> QED BY <1>9, <2>1, IdleCall DEF CallOK, Asking, Making, Idle
<1>13. \A u \in Threads \ {t} : \A x \in Hands(u) :
         /\ x \in DOMAIN maps' \ DOMAIN mine'
         /\ maps'[x] = maps[x] /\ hdr'[x] = hdr[x] /\ x \notin Hands(t)'
  BY <1>1, <1>3, <1>6, <1>7, <1>11, <1>70, HandFacts
<1>14. \A u \in Threads \ {t} : th'[u] = th[u] BY <1>9 DEF TypeOK
<1>15. \A x \in DOMAIN maps' : maps'[x] = MmapSize(x)'
  BY <1>1, <1>4, <1>6, <1>7 DEF BlocksInv, MmapSize, HDR
<1>16. \A x \in DOMAIN mine' : mine'[x] <= Usable(x)'
  <2>1. \A x : x = b => mine'[x] <= Usable(x)'
    BY <1>2, <1>3, <1>4, <1>6, <1>70 DEF Usable
  <2>2. \A x \in DOMAIN mine \ {b} : mine'[x] <= Usable(x)'
    BY <1>1, <1>3, <1>6, <1>7, <1>70 DEF BlocksInv, Usable, TypeOK
  <2> QED BY <1>1, <1>3, <1>7, <2>1, <2>2, <1>70
<1> QED BY <1>10, <1>12, <1>13, <1>14, <1>15, <1>16, OthersKeep DEF BlocksInv

(* Lemma: the end of a realloc by mremap.                                  *)
LEMMA RemapMaxStep ==
  ASSUME TypeOK, BlocksInv, NEW t \in Threads, RemapMax(t)
  PROVE  TypeOK' /\ BlocksInv'
<1> DEFINE b == th[t].b
<1>1. /\ th[t].pc = "remap_max" /\ th[t] \in Calls /\ CallOK(t)
      /\ b \in Hands(t) /\ b \in DOMAIN maps /\ b \notin DOMAIN mine
      /\ th[t].r <= Usable(b)
  BY HandFacts DEF RemapMax, At, CallOK, Asking, Hands, Calls
<1>2. th[t].r \in Nat /\ th[t].new \in Int BY <1>1 DEF Calls
<1>3. mine' = With(mine, b, th[t].r) /\ UNCHANGED <<maps, hdr, remaps, fallbacks>>
  BY DEF RemapMax, ghosts
<1>30. /\ mine' \in [DOMAIN mine \cup {b} -> Nat] /\ DOMAIN mine' \subseteq DOMAIN maps
       /\ DOMAIN mine' = DOMAIN mine \cup {b} /\ mine'[b] = th[t].r
       /\ \A x \in DOMAIN mine \ {b} : mine'[x] = mine[x]
  BY <1>1, <1>2, <1>3, MineGains
<1>4. mp' \in Params BY <1>2 DEF RemapMax, AtomicMax, Larger, TypeOK, Params
<1>5. th' = [th EXCEPT ![t] = th'[t]] /\ th'[t] = Idle /\ th'[t] \in Calls
  BY IdleCall DEF RemapMax, Goto, TypeOK
<1>6. TypeOK' BY <1>1, <1>2, <1>3, <1>4, <1>5, <1>30 DEF TypeOK
<1>7. Hands(t)' = {} BY <1>5, IdleCall DEF Hands
<1>8. CallOK(t)' BY <1>5, <1>7, IdleCall DEF CallOK, Asking, Making
<1>9. \A u \in Threads \ {t} : \A x \in Hands(u) :
        /\ x \in DOMAIN maps' \ DOMAIN mine'
        /\ maps'[x] = maps[x] /\ hdr'[x] = hdr[x] /\ x \notin Hands(t)'
  BY <1>1, <1>2, <1>3, <1>7, <1>30, HandFacts
<1>10. \A u \in Threads \ {t} : th'[u] = th[u] BY <1>5 DEF TypeOK
<1>11. \A x \in DOMAIN mine' : mine'[x] <= Usable(x)'
  BY <1>1, <1>2, <1>3, <1>30 DEF BlocksInv, Usable
<1> QED BY <1>3, <1>6, <1>8, <1>9, <1>10, <1>11, OthersKeep DEF BlocksInv, MmapSize

(* Lemma: an idle thread takes a block of the program, whose header stays. *)
LEMMA TakeBlock ==
  ASSUME TypeOK, BlocksInv, NEW t \in Threads, NEW b \in DOMAIN mine,
         th[t].pc = "idle", mine' = Without(mine, b), UNCHANGED <<maps, hdr>>,
         th' = [th EXCEPT ![t] = th'[t]], Hands(t)' = {b},
         {b} \subseteq DOMAIN maps' \ DOMAIN mine' => CallOK(t)'
  PROVE  BlocksInv'
<1>1. /\ mine' \in [DOMAIN mine \ {b} -> Nat] /\ DOMAIN mine' \subseteq DOMAIN maps
      /\ DOMAIN mine' = DOMAIN mine \ {b} /\ b \in DOMAIN maps
      /\ \A x \in DOMAIN mine \ {b} : mine'[x] = mine[x]
  BY MineLoses
<1>2. CallOK(t)' BY <1>1
<1>3. \A u \in Threads \ {t} : \A x \in Hands(u) :
        /\ x \in DOMAIN maps' \ DOMAIN mine'
        /\ maps'[x] = maps[x] /\ hdr'[x] = hdr[x] /\ x \notin Hands(t)'
  BY <1>1, HandFacts
<1>4. \A u \in Threads \ {t} : th'[u] = th[u] BY DEF TypeOK
<1>5. \A x \in DOMAIN mine' : mine'[x] <= Usable(x)'
  BY <1>1 DEF BlocksInv, Usable
<1>6. /\ \A u \in Threads : CallOK(u)'
      /\ \A s, u \in Threads : s # u => (Hands(s) \cap Hands(u) = {})'
  BY <1>2, <1>3, <1>4, OthersKeep
<1> QED BY <1>5, <1>6 DEF BlocksInv, MmapSize

(* Lemma: free, and a realloc that an arena serves.                        *)
LEMMA FreeSteps ==
  ASSUME TypeOK, BlocksInv, NEW t \in Threads, NEW b \in DOMAIN mine,
         Free(t, b) \/ \E r \in Requests : ReallocArena(t, b, r)
  PROVE  TypeOK' /\ BlocksInv'
<1>1. th[t].pc = "idle" /\ mine' = Without(mine, b) /\ UNCHANGED <<maps, hdr, mp, remaps, fallbacks>>
  BY DEF Free, ReallocArena, At, ghosts
<1>2. PICK pc \in Leaving : th' = [th EXCEPT ![t] = [Idle EXCEPT !.pc = pc, !.b = b]]
  BY DEF Free, ReallocArena, CopyAndUnmap, Goto, Leaving
<1>3. /\ mine' \in [DOMAIN mine \ {b} -> Nat] /\ DOMAIN mine' \subseteq DOMAIN maps
      /\ DOMAIN mine' = DOMAIN mine \ {b} /\ b \in DOMAIN maps
  BY <1>1, MineLoses
<1>4. b \in Blocks /\ None \notin Blocks BY <1>3, HandFacts
<1>5. th'[t] = [Idle EXCEPT !.pc = pc, !.b = b] /\ th' = [th EXCEPT ![t] = th'[t]]
  BY <1>2 DEF TypeOK
<1>6. th'[t] \in Calls BY <1>4, <1>5, IdleCall DEF Calls, PCs
<1>7. TypeOK' BY <1>1, <1>3, <1>5, <1>6 DEF TypeOK
<1>8. Hands(t)' = {b} BY <1>4, <1>5, IdleCall DEF Hands, Idle
<1>9. {b} \subseteq DOMAIN maps' \ DOMAIN mine' => CallOK(t)'
  BY <1>4, <1>5, <1>8 DEF CallOK, Asking, Making, Leaving, Idle
<1> QED BY <1>1, <1>5, <1>7, <1>8, <1>9, TakeBlock

(* Lemma: the limit lets a thread map, or it goes without.                 *)
LEMMA LimitMaxStep ==
  ASSUME TypeOK, BlocksInv, NEW t \in Threads, LimitMax(t)
  PROVE  TypeOK' /\ BlocksInv'
<1>1. /\ th[t].pc = "limit_max" /\ th[t].b = None /\ th[t] \in Calls /\ CallOK(t)
      /\ UNCHANGED <<maps, hdr, mp, remaps>>
  BY HandFacts DEF LimitMax, At, CallOK, Asking
<1>2. ASSUME Goto(t, [th[t] EXCEPT !.pc = "map"]), UNCHANGED mine,
             fallbacks' \in {fallbacks, fallbacks + 1}
      PROVE  TypeOK' /\ BlocksInv'
  <2>1. /\ th'[t] = [th[t] EXCEPT !.pc = "map"] /\ th' = [th EXCEPT ![t] = th'[t]]
        /\ th'[t] \in Calls
    BY <1>1, <1>2 DEF Goto, TypeOK, Calls, PCs, Asking
  <2>2. TypeOK' BY <1>1, <1>2, <2>1 DEF TypeOK
  <2>3. Hands(t)' \subseteq Hands(t) BY <1>1, <2>1 DEF Hands, Calls
  <2>4. CallOK(t)'
    BY <1>1, <1>2, <2>1, <2>3 DEF CallOK, Hands, Usable, Lead, Calls, Asking, Making
  <2> QED BY <1>1, <1>2, <2>1, <2>2, <2>3, <2>4, CallMoves
<1>3. ASSUME th[t].old # None, CopyAndUnmap(t, th[t].old, th[t].keep), UNCHANGED <<mine, fallbacks>>
      PROVE  TypeOK' /\ BlocksInv'
  <2>1. th' = [th EXCEPT ![t] = th'[t]]
        /\ th'[t] = [Idle EXCEPT !.pc = "unmap_count", !.b = th[t].old]
    BY <1>3 DEF CopyAndUnmap, Goto, TypeOK
  <2>2. th'[t] \in Calls BY <1>1, <1>3, <2>1, IdleCall DEF Calls, PCs, Leaving
  <2>3. TypeOK' BY <1>1, <1>3, <2>1, <2>2 DEF TypeOK
  <2>4. Hands(t)' = {th[t].old} /\ Hands(t) = {th[t].old}
    BY <1>1, <1>3, <2>1 DEF Hands, Idle
  <2>5. CallOK(t)'
    BY <1>1, <1>3, <2>1, <2>4 DEF CallOK, Asking, Making, Leaving, Idle
  <2> QED BY <1>1, <1>3, <2>1, <2>3, <2>4, <2>5, CallMoves
<1> QED BY <1>1, <1>2, <1>3, FailStep DEF LimitMax, Fallback

(* Lemma: realloc by malloc, copy and free.                                *)
LEMMA ReallocMapStep ==
  ASSUME TypeOK, BlocksInv, NEW t \in Threads, NEW b \in DOMAIN mine, NEW r \in Requests,
         ReallocMap(t, b, r)
  PROVE  TypeOK' /\ BlocksInv'
<1> DEFINE call == [Idle EXCEPT !.r = r, !.nb = Request2size(r), !.old = b, !.keep = mine[b]]
<1>1. th[t].pc = "idle" /\ mine' = Without(mine, b) /\ UNCHANGED <<maps, hdr, mp, remaps>>
      /\ Sysmalloc(t, call)
  BY DEF ReallocMap, At
<1>2. /\ mine' \in [DOMAIN mine \ {b} -> Nat] /\ DOMAIN mine' \subseteq DOMAIN maps
      /\ DOMAIN mine' = DOMAIN mine \ {b} /\ b \in DOMAIN maps
  BY <1>1, MineLoses
<1>3. b \in Blocks /\ None \notin Blocks /\ mine[b] \in Nat /\ mine[b] <= Usable(b)
  BY <1>2, HandFacts DEF TypeOK, BlocksInv
<1>4. Request2size(r) \in Nat /\ Lead(0, 1) = 0 BY MmapAssumption, PaddedFits, LeadBounds
<1>5. call \in Calls /\ call.old = b /\ call.b = None /\ call.keep = mine[b] /\ call.r = r
      /\ call.al = 1 /\ call.nb = Request2size(r)
  BY <1>3, <1>4, IdleCall, MmapAssumption DEF Calls, Idle
<1> HIDE DEF call
<1>6. /\ th' = [th EXCEPT ![t] = th'[t]] /\ th'[t] \in Calls /\ th' \in [Threads -> Calls]
      /\ \E pc \in {"limit", "map"} : th'[t] = [call EXCEPT !.pc = pc]
      /\ fallbacks' \in Nat
  BY <1>1, <1>5, SysmallocGoes
<1>7. TypeOK' BY <1>1, <1>2, <1>6 DEF TypeOK
<1>8. th'[t].pc \in {"limit", "map"} /\ th'[t].b = None /\ th'[t].old = b
      /\ th'[t].keep = mine[b] /\ th'[t].nb = Request2size(r) /\ th'[t].al = 1 /\ th'[t].r = r
  BY <1>5, <1>6 DEF Calls
<1>9. Hands(t)' = {b} BY <1>3, <1>8 DEF Hands
<1>10. Usable(b)' = Usable(b) BY <1>1 DEF Usable
<1>11. {b} \subseteq DOMAIN maps' \ DOMAIN mine' => CallOK(t)'
  <2>1. Request2size(r) >= Request2size(r) + Lead(0, 1) BY <1>4
  <2>2. (th[t].nb >= Request2size(th[t].r) + Lead(0, th[t].al))'
    BY <1>8, <2>1 DEF Lead
  <2> QED BY <1>3, <1>8, <1>9, <1>10, <2>2 DEF CallOK, Asking, Making
<1> QED BY <1>1, <1>6, <1>7, <1>9, <1>11, TakeBlock

(* Lemma: realloc that keeps the mapping.                                  *)
LEMMA ReallocSameStep ==
  ASSUME TypeOK, BlocksInv, NEW t \in Threads, NEW b \in DOMAIN mine, NEW r \in Requests,
         ReallocSame(t, b, r)
  PROVE  TypeOK' /\ BlocksInv'
<1>1. mine' = [mine EXCEPT ![b] = r] /\ UNCHANGED <<maps, hdr, mp, th, remaps, fallbacks>>
      /\ r <= Usable(b) /\ r \in Nat
  BY MmapAssumption DEF ReallocSame, ghosts
<1>2. DOMAIN mine' = DOMAIN mine /\ mine' \in [DOMAIN mine -> Nat] /\ mine'[b] = r
      /\ \A x \in DOMAIN mine \ {b} : mine'[x] = mine[x]
  BY <1>1 DEF TypeOK
<1>3. TypeOK' BY <1>1, <1>2 DEF TypeOK
<1>4. \A x \in DOMAIN mine' : mine'[x] <= Usable(x)'
  BY <1>1, <1>2 DEF BlocksInv, Usable
<1>5. \A u \in Threads : CallOK(u)' /\ Hands(u)' = Hands(u)
  BY <1>1, <1>2 DEF BlocksInv, CallOK, Asking, Hands, Usable, Lead
<1> QED BY <1>1, <1>3, <1>4, <1>5 DEF BlocksInv, MmapSize

(* Lemma: realloc by mremap.                                               *)
LEMMA ReallocRemapStep ==
  ASSUME TypeOK, BlocksInv, NEW t \in Threads, NEW b \in DOMAIN mine, NEW r \in Requests,
         ReallocRemap(t, b, r)
  PROVE  TypeOK' /\ BlocksInv'
<1> DEFINE size == NewSize(b, r)  h == Remapped(b, size)
           new == size - hdr[b].sz - hdr[b].off
<1>1. /\ th[t].pc = "idle" /\ mine' = Without(mine, b)
      /\ maps' = [maps EXCEPT ![b] = size] /\ hdr' = [hdr EXCEPT ![b] = h]
      /\ th' = [th EXCEPT ![t] = [Idle EXCEPT !.pc = "remap_mem", !.b = b, !.r = r, !.new = new]]
      /\ remaps' = remaps + 1 /\ UNCHANGED <<mp, fallbacks>>
  BY DEF ReallocRemap, At, Goto
<1>2. /\ mine' \in [DOMAIN mine \ {b} -> Nat] /\ DOMAIN mine' \subseteq DOMAIN maps
      /\ DOMAIN mine' = DOMAIN mine \ {b} /\ b \in DOMAIN maps
      /\ \A x \in DOMAIN mine \ {b} : mine'[x] = mine[x]
  BY <1>1, MineLoses
<1>3. b \in Blocks /\ None \notin Blocks /\ hdr[b] \in [off : Nat, sz : Nat] /\ maps[b] \in Nat
  BY <1>2, HandFacts
<1>4. r \in Nat /\ Request2size(r) \in Nat /\ r <= 2 * Request2size(r) - 1
  BY MmapAssumption, PaddedFits
<1>5. size \in Nat /\ size >= Request2size(r) + hdr[b].off + HDR
  BY <1>3, <1>4, AlignUpCovers, MmapAssumption DEF NewSize, HDR
<1> HIDE DEF size
<1>6. h \in [off : Nat, sz : Nat] /\ h.sz >= Request2size(r) /\ h.off + h.sz + HDR = size
      /\ new \in Int /\ new <= size
  BY <1>3, <1>4, <1>5 DEF Remapped, HDR
<1> HIDE DEF h, new
<1>7. /\ DOMAIN maps' = DOMAIN maps /\ maps' \in [DOMAIN maps -> Nat] /\ maps'[b] = size
      /\ hdr' \in [DOMAIN maps -> [off : Nat, sz : Nat]] /\ hdr'[b] = h
      /\ \A x \in DOMAIN maps \ {b} : maps'[x] = maps[x] /\ hdr'[x] = hdr[x]
  BY <1>1, <1>2, <1>5, <1>6 DEF TypeOK
<1>8. /\ th'[t] = [Idle EXCEPT !.pc = "remap_mem", !.b = b, !.r = r, !.new = new]
      /\ th' = [th EXCEPT ![t] = th'[t]]
  BY <1>1 DEF TypeOK
<1>9. th'[t] \in Calls BY <1>3, <1>4, <1>6, <1>8, IdleCall DEF Calls, PCs
<1>10. TypeOK' BY <1>1, <1>2, <1>7, <1>8, <1>9 DEF TypeOK
<1>11. Hands(t)' = {b} BY <1>3, <1>8 DEF Hands, Idle
<1>12. /\ th'[t].pc = "remap_mem" /\ th'[t].b = b /\ th'[t].old = None /\ th'[t].r = r
       /\ th'[t].new = new
  BY <1>8 DEF Idle
<1>13. CallOK(t)'
  <2>1. r <= Usable(b)' BY <1>4, <1>6, <1>7 DEF Usable
  <2>2. Hands(t)' \subseteq DOMAIN maps' \ DOMAIN mine' BY <1>2, <1>7, <1>11
  <2> QED BY <1>3, <1>6, <1>7, <1>12, <2>1, <2>2 DEF CallOK, Asking, Making, Usable
<1>14. \A u \in Threads \ {t} : \A x \in Hands(u) :
         /\ x \in DOMAIN maps' \ DOMAIN mine'
         /\ maps'[x] = maps[x] /\ hdr'[x] = hdr[x] /\ x \notin Hands(t)'
  <2>1. \A u \in Threads \ {t} : \A x \in Hands(u) : x \in DOMAIN maps \ DOMAIN mine
    BY HandFacts
  <2> QED BY <1>2, <1>7, <1>11, <2>1
<1>15. \A u \in Threads \ {t} : th'[u] = th[u] BY <1>8 DEF TypeOK
<1>16. /\ \A u \in Threads : CallOK(u)'
       /\ \A s, u \in Threads : s # u => (Hands(s) \cap Hands(u) = {})'
  BY <1>13, <1>14, <1>15, OthersKeep
<1>17. \A x \in DOMAIN maps' : maps'[x] = MmapSize(x)'
  <2>1. maps'[b] = MmapSize(b)' BY <1>6, <1>7 DEF MmapSize
  <2>2. \A x \in DOMAIN maps \ {b} : maps'[x] = MmapSize(x)'
    BY <1>7 DEF BlocksInv, MmapSize
  <2> QED BY <1>7, <2>1, <2>2
<1>18. \A x \in DOMAIN mine' : mine'[x] <= Usable(x)'
  BY <1>2, <1>7 DEF BlocksInv, Usable
<1> QED BY <1>10, <1>16, <1>17, <1>18 DEF BlocksInv

(* Lemma: munmap takes the whole mapping.                                  *)
LEMMA UnmapStep ==
  ASSUME TypeOK, BlocksInv, NEW t \in Threads, Unmap(t)
  PROVE  /\ TypeOK' /\ BlocksInv'
         /\ th[t].b \in DOMAIN maps /\ maps' = Without(maps, th[t].b)
<1> DEFINE b == th[t].b
<1>1. /\ th[t].pc = "unmap" /\ CallOK(t) /\ th[t] \in Calls /\ None \notin Blocks
      /\ UNCHANGED <<mine, mp, remaps, fallbacks>> /\ hdr' = Without(hdr, b)
  BY HandFacts DEF Unmap, At, ghosts
<1>2. b # None /\ th[t].old # b BY <1>1 DEF CallOK, Asking
<1>3. b \in Hands(t) BY <1>2 DEF Hands
<1>4. b \in DOMAIN maps /\ b \notin DOMAIN mine BY <1>3, HandFacts
<1>5. maps[b] = MmapSize(b) BY <1>4 DEF BlocksInv
<1>6. maps' = Without(maps, b) BY <1>5 DEF Unmap
<1>7. /\ DOMAIN maps' = DOMAIN maps \ {b} /\ maps' \in [DOMAIN maps' -> Nat]
      /\ hdr' \in [DOMAIN maps' -> [off : Nat, sz : Nat]]
      /\ \A x \in DOMAIN maps \ {b} : maps'[x] = maps[x] /\ hdr'[x] = hdr[x]
  BY <1>1, <1>6 DEF TypeOK, Without
<1>8. th' = [th EXCEPT ![t] = th'[t]] /\ th'[t] = Idle /\ th'[t] \in Calls
  BY IdleCall DEF Unmap, Goto, TypeOK
<1>9. TypeOK' BY <1>1, <1>4, <1>7, <1>8 DEF TypeOK
<1>10. Hands(t)' = {} BY <1>8, IdleCall DEF Hands
<1>11. CallOK(t)' BY <1>8, <1>10, IdleCall DEF CallOK, Asking, Making
<1>12. \A u \in Threads \ {t} : \A x \in Hands(u) :
         /\ x \in DOMAIN maps' \ DOMAIN mine'
         /\ maps'[x] = maps[x] /\ hdr'[x] = hdr[x] /\ x \notin Hands(t)'
  <2>1. \A u \in Threads \ {t} : \A x \in Hands(u) : x \in DOMAIN maps \ DOMAIN mine /\ x # b
    BY <1>3, HandFacts
  <2> QED BY <1>1, <1>7, <1>10, <2>1
<1>13. \A u \in Threads \ {t} : th'[u] = th[u] BY <1>8 DEF TypeOK
<1>14. /\ \A u \in Threads : CallOK(u)'
       /\ \A s, u \in Threads : s # u => (Hands(s) \cap Hands(u) = {})'
  BY <1>11, <1>12, <1>13, OthersKeep
<1>15. \A x \in DOMAIN maps' : maps'[x] = MmapSize(x)'
  BY <1>7 DEF BlocksInv, MmapSize
<1>16. \A x \in DOMAIN mine' : mine'[x] <= Usable(x)'
  <2>1. \A x \in DOMAIN mine : hdr'[x] = hdr[x] BY <1>4, <1>7 DEF TypeOK
  <2> QED BY <1>1, <2>1 DEF BlocksInv, Usable
<1> QED BY <1>4, <1>6, <1>9, <1>14, <1>15, <1>16 DEF BlocksInv
(* What a thread does in a step.                                           *)
Acts(t) ==
  \/ Step(t)
  \/ \E r \in Requests :
       \/ Malloc(t, r)
       \/ \E al \in Alignments : Memalign(t, al, r)
       \/ \E b \in DOMAIN mine : \/ ReallocSame(t, b, r) \/ ReallocRemap(t, b, r)
                                 \/ ReallocMap(t, b, r) \/ ReallocArena(t, b, r)
  \/ \E b \in DOMAIN mine : Free(t, b)
  \/ \E v \in Settings : Mallopt(t, "mmap_threshold", v) \/ Mallopt(t, "trim_threshold", v)
  \/ \E n \in MmapsMax : Mallopt(t, "n_mmaps_max", n)

(* Each of those steps keeps the types and the blocks.                     *)
LEMMA BlocksSteps ==
  ASSUME TypeOK, BlocksInv, NEW t \in Threads, Acts(t)
  PROVE  TypeOK' /\ BlocksInv'
<1>1. CASE Step(t)
  BY <1>1, CounterSteps, LimitMaxStep, MapStep, MemMaxStep, RemapMaxStep, UnmapStep DEF Step
<1>2. ASSUME NEW r \in Requests, Malloc(t, r) \/ \E al \in Alignments : Memalign(t, al, r)
      PROVE  TypeOK' /\ BlocksInv'
  BY <1>2, MallocSteps
<1>3. ASSUME NEW b \in DOMAIN mine, NEW r \in Requests,
             \/ ReallocSame(t, b, r) \/ ReallocRemap(t, b, r)
             \/ ReallocMap(t, b, r) \/ ReallocArena(t, b, r)
      PROVE  TypeOK' /\ BlocksInv'
  BY <1>3, ReallocSameStep, ReallocRemapStep, ReallocMapStep, FreeSteps
<1>4. ASSUME NEW b \in DOMAIN mine, Free(t, b) PROVE TypeOK' /\ BlocksInv'
  BY <1>4, FreeSteps
<1>5. ASSUME NEW f \in {"mmap_threshold", "trim_threshold", "n_mmaps_max"}, NEW v \in Nat,
             Mallopt(t, f, v)
      PROVE  TypeOK' /\ BlocksInv'
  BY <1>5, CounterSteps
<1>6. Settings \subseteq Nat /\ MmapsMax \subseteq Nat BY MmapAssumption
<1> QED BY <1>1, <1>2, <1>3, <1>4, <1>5, <1>6 DEF Acts

(* Lemma: a step of t moves no other thread.                               *)
LEMMA ActsFacts ==
  ASSUME TypeOK, BlocksInv, NEW t \in Threads, Acts(t)
  PROVE  /\ \A u \in Threads \ {t} : th'[u] = th[u]
         /\ TypeOK' /\ BlocksInv'
<1>1. ASSUME NEW call, th' = [th EXCEPT ![t] = call] PROVE \A u \in Threads \ {t} : th'[u] = th[u]
  BY <1>1 DEF TypeOK
<1>2. (\E call : th' = [th EXCEPT ![t] = call]) \/ th' = th
  BY ZenonT(40)
    DEF Acts, Step, Limit, LimitMax, Map, Count, CountMax, Mem, MemMax, ReadThreshold,
         SetThreshold, SetTrim, UnmapCount, UnmapMem, Unmap, RemapMem, RemapMax, NoDyn, Malloc,
         Memalign, Sysmalloc, Fallback, Fail, CopyAndUnmap, ReallocSame, ReallocRemap,
         ReallocMap, ReallocArena, Free, Mallopt, Goto
<1> QED BY <1>1, <1>2, BlocksSteps

-----------------------------------------------------------------------------
(* The counter, the limit and the manual threshold.                        *)

(* Lemma: a malloc has asked for a size.                                   *)
Asks(t) ==
  \E r \in Requests : \/ Malloc(t, r) \/ (\E al \in Alignments : Memalign(t, al, r))
                     \/ \E b \in DOMAIN mine : ReallocMap(t, b, r)

LEMMA AskFacts ==
  ASSUME TypeOK, NEW t \in Threads, Asks(t)
  PROVE  /\ th[t].pc = "idle" /\ th'[t].b = None
         /\ UNCHANGED <<maps, hdr, mp, remaps, manual>>
         /\ \/ th'[t].pc = "limit" /\ fallbacks' = fallbacks
            \/ th'[t].pc = "map" /\ fallbacks' = fallbacks + 1
<1> DEFINE Gone(call) == \E pc \in {"limit", "map"} :
                           /\ th' = [th EXCEPT ![t] = [call EXCEPT !.pc = pc]]
                           /\ fallbacks' = IF pc = "limit" THEN fallbacks ELSE fallbacks + 1
<1>1. \A call : Sysmalloc(t, call) => Gone(call) BY DEF Sysmalloc, Fallback, Goto
<1> DEFINE Sent == /\ th'[t].b = None
                   /\ \/ th'[t].pc = "limit" /\ fallbacks' = fallbacks
                      \/ th'[t].pc = "map" /\ fallbacks' = fallbacks + 1
<1>2. Sent
  <2>1. ASSUME NEW r, Malloc(t, r) PROVE Sent
    <3>1. Gone([Idle EXCEPT !.r = r, !.nb = Request2size(r)]) BY <1>1, <2>1 DEF Malloc
    <3> QED BY <3>1 DEF Idle, TypeOK
  <2>2. ASSUME NEW r, NEW al, Memalign(t, al, r) PROVE Sent
    <3>1. Gone([Idle EXCEPT !.r = r, !.al = al, !.nb = Request2size(r) + al + MINSIZE + 1])
      BY <1>1, <2>2 DEF Memalign
    <3> QED BY <3>1 DEF Idle, TypeOK
  <2>3. ASSUME NEW r, NEW b, ReallocMap(t, b, r) PROVE Sent
    <3>1. Gone([Idle EXCEPT !.r = r, !.nb = Request2size(r), !.old = b, !.keep = mine[b]])
      BY <1>1, <2>3 DEF ReallocMap
    <3> QED BY <3>1 DEF Idle, TypeOK
  <2> QED BY <2>1, <2>2, <2>3 DEF Asks
<1>3. th[t].pc = "idle" /\ UNCHANGED <<maps, hdr, mp, remaps, manual>>
  BY DEF Asks, Malloc, Memalign, ReallocMap, At
<1> QED BY <1>2, <1>3

(* Lemma: where a thread goes when its block is ready.                     *)
LEMMA MemMaxFacts ==
  ASSUME TypeOK, NEW t \in Threads, MemMax(t)
  PROVE  /\ th'[t].pc \in {"idle", "unmap_count"} /\ th[t].pc = "mem_max"
         /\ th'[t].b \in {None, th[t].old}
<1>1. \A call : Goto(t, call) => th'[t] = call BY DEF Goto, TypeOK
<1>2. \/ th'[t] = Idle
      \/ th'[t] = [Idle EXCEPT !.pc = "unmap_count", !.b = th[t].old]
  BY <1>1 DEF MemMax, CopyAndUnmap
<1>3. th[t].pc = "mem_max" BY DEF MemMax, At
<1>4. CASE th'[t] = Idle BY <1>3, <1>4 DEF Idle
<1>5. CASE th'[t] = [Idle EXCEPT !.pc = "unmap_count", !.b = th[t].old] BY <1>3, <1>5 DEF Idle
<1> QED BY <1>2, <1>4, <1>5

(* Lemma: the outcomes of the test of the limit.                           *)
LEMMA LimitMaxFacts ==
  ASSUME TypeOK, NEW t \in Threads, LimitMax(t)
  PROVE  /\ th[t].pc = "limit_max" /\ UNCHANGED <<maps, hdr, mp, remaps, manual>>
         /\ th'[t].b \in {th[t].b, None, th[t].old}
         /\ \/ /\ th'[t].pc = "map" /\ th[t].new < mp.n_mmaps_max /\ fallbacks' = fallbacks
            \/ th'[t].pc = "map" /\ fallbacks' = fallbacks + 1
            \/ th'[t].pc \in {"idle", "unmap_count"} /\ fallbacks' = fallbacks
<1>1. th[t] \in Calls BY DEF TypeOK
<1>2. th[t].pc = "limit_max" /\ UNCHANGED <<maps, hdr, mp, remaps, manual>>
  BY DEF LimitMax, At
<1>3. \/ th' = [th EXCEPT ![t] = [@ EXCEPT !.pc = "map"]] /\ th[t].new < mp.n_mmaps_max
         /\ fallbacks' = fallbacks
      \/ th' = [th EXCEPT ![t] = [@ EXCEPT !.pc = "map"]] /\ fallbacks' = fallbacks + 1
      \/ th' = [th EXCEPT ![t] = [Idle EXCEPT !.pc = "unmap_count", !.b = th[t].old]]
         /\ fallbacks' = fallbacks
      \/ th' = [th EXCEPT ![t] = Idle] /\ fallbacks' = fallbacks
  BY DEF LimitMax, BelowLimit, Fallback, CopyAndUnmap, Fail, Goto, TypeOK
<1>4. \A call : th' = [th EXCEPT ![t] = call] => th'[t] = call BY DEF TypeOK
<1>5. th' = [th EXCEPT ![t] = [@ EXCEPT !.pc = "map"]]
      => th'[t].pc = "map" /\ th'[t].b = th[t].b
  BY <1>1 DEF TypeOK, Calls
<1>6. th' = [th EXCEPT ![t] = [Idle EXCEPT !.pc = "unmap_count", !.b = th[t].old]]
      => th'[t].pc = "unmap_count" /\ th'[t].b = th[t].old
  BY <1>4 DEF Idle
<1>7. th' = [th EXCEPT ![t] = Idle] => th'[t].pc = "idle" /\ th'[t].b = None
  <2>1. Idle.pc = "idle" /\ Idle.b = None BY DEF Idle
  <2> QED BY <1>4, <2>1
<1> QED BY <1>2, <1>3, <1>5, <1>6, <1>7, ZenonT(30)

(* Lemma: how many threads are in a set, when only t enters or leaves it.  *)
LEMMA ThreadMoves ==
  ASSUME NEW S \in SUBSET Threads, NEW T \in SUBSET Threads, NEW t \in Threads,
         \A u \in Threads \ {t} : u \in S <=> u \in T
  PROVE  /\ Cardinality(S) \in Nat /\ Cardinality(T) \in Nat
         /\ Cardinality(T) <= Cardinality(Threads) /\ Cardinality(Threads) \in Nat
         /\ Cardinality(T) = Cardinality(S) + (IF t \in T THEN 1 ELSE 0)
                                            - (IF t \in S THEN 1 ELSE 0)
<1>1. IsFiniteSet(Threads) BY MmapAssumption
<1>2. IsFiniteSet(S) /\ IsFiniteSet(T) /\ Cardinality(T) <= Cardinality(Threads)
  BY <1>1, FS_Subset
<1>3. S \ {t} = T \ {t} OBVIOUS
<1>4. /\ Cardinality(S \ {t}) = IF t \in S THEN Cardinality(S) - 1 ELSE Cardinality(S)
      /\ Cardinality(T \ {t}) = IF t \in T THEN Cardinality(T) - 1 ELSE Cardinality(T)
  BY <1>2, FS_RemoveElement
<1>5. Cardinality(S) \in Nat /\ Cardinality(T) \in Nat /\ Cardinality(Threads) \in Nat
  BY <1>1, <1>2, FS_CardinalityType
<1> QED BY <1>2, <1>3, <1>4, <1>5

(* Lemma: n_mmaps follows the mappings that are made and unmapped.         *)
LEMMA NumberStep ==
  ASSUME TypeOK, BlocksInv, NumberInv, NEW t \in Threads, Acts(t)
  PROVE  NumberInv'
<1> DEFINE pcs == {"count", "unmap_mem", "unmap"}  S == Uncounted  T == Uncounted'
<1>1. /\ \A u \in Threads \ {t} : th'[u] = th[u]
      /\ mp \in Params /\ mp' \in Params /\ th[t] \in Calls /\ th'[t] \in Calls /\ th \in [Threads -> Calls]
      /\ TypeOK'
  BY ActsFacts DEF TypeOK
<1>2. S \in SUBSET Threads /\ T \in SUBSET Threads /\ \A u \in Threads \ {t} : u \in S <=> u \in T
  BY <1>1 DEF Uncounted
<1>3. (t \in S <=> th[t].pc \in pcs) /\ (t \in T <=> th'[t].pc \in pcs) BY DEF Uncounted
<1> HIDE DEF S, T
<1>4. /\ Cardinality(S) \in Nat /\ Cardinality(T) \in Nat
      /\ Cardinality(T) = Cardinality(S) + (IF t \in T THEN 1 ELSE 0) - (IF t \in S THEN 1 ELSE 0)
  BY <1>2, ThreadMoves
<1>5. /\ IsFiniteSet(DOMAIN maps) /\ Cardinality(DOMAIN maps) \in Nat
      /\ IsFiniteSet(DOMAIN maps') /\ Cardinality(DOMAIN maps') \in Nat
  BY <1>1, MmapAssumption, FS_Subset, FS_CardinalityType DEF TypeOK
<1>6. mp.n_mmaps = Cardinality(DOMAIN maps) - Cardinality(S) BY DEF NumberInv, S
<1> SUFFICES mp'.n_mmaps = Cardinality(DOMAIN maps') - Cardinality(T) BY DEF NumberInv, T
<1>7. CASE Count(t)
  <2>1. th[t].pc = "count" /\ th'[t].pc = "count_max" /\ mp'.n_mmaps = mp.n_mmaps + 1 /\ maps' = maps
    BY <1>1, <1>7 DEF Count, At, Goto, Params, Calls
  <2> QED BY <2>1, <1>3, <1>4, <1>5, <1>6
<1>8. CASE UnmapCount(t)
  <2>1. /\ th[t].pc = "unmap_count" /\ th'[t].pc = "unmap_mem"
        /\ mp'.n_mmaps = mp.n_mmaps - 1 /\ maps' = maps
    BY <1>1, <1>8 DEF UnmapCount, At, Goto, Params, Calls
  <2> QED BY <2>1, <1>3, <1>4, <1>5, <1>6
<1>9. CASE Unmap(t)
  <2>1. th[t].pc = "unmap" /\ th'[t].pc = "idle" /\ mp' = mp
    BY <1>1, <1>9 DEF Unmap, At, Goto, Idle
  <2>2. th[t].b \in DOMAIN maps /\ DOMAIN maps' = DOMAIN maps \ {th[t].b}
    BY <1>9, UnmapStep DEF Without
  <2>3. Cardinality(DOMAIN maps') = Cardinality(DOMAIN maps) - 1
    BY <2>2, <1>5, FS_RemoveElement
  <2> QED BY <2>1, <2>3, <1>3, <1>4, <1>5, <1>6
<1>10. CASE Map(t)
  <2>1. th[t].pc = "map" /\ mp' = mp BY <1>10 DEF Map, At
  <2>3. CASE th'[t].pc = "idle" /\ maps' = maps
    BY <2>1, <2>3, <1>3, <1>4, <1>5, <1>6
  <2>4. ASSUME NEW b \in Blocks \ DOMAIN maps, NEW v, maps' = With(maps, b, v),
               Goto(t, [th[t] EXCEPT !.pc = "count", !.b = b])
        PROVE  Cardinality(DOMAIN maps') = Cardinality(DOMAIN maps) - Cardinality(S) + Cardinality(T)
    <3>1. th'[t].pc = "count" BY <1>1, <2>4 DEF Goto, Calls
    <3>2. DOMAIN maps' = DOMAIN maps \cup {b} BY <2>4 DEF With
    <3>3. Cardinality(DOMAIN maps') = Cardinality(DOMAIN maps) + 1
      BY <2>4, <3>2, <1>5, FS_AddElement
    <3> QED BY <2>1, <3>1, <3>3, <1>3, <1>4, <1>5
  <2>5. Goto(t, Idle) => th'[t].pc = "idle" BY <1>1 DEF Goto, Idle
  <2>6. \/ \E b \in Blocks \ DOMAIN maps : \E v :
             maps' = With(maps, b, v) /\ Goto(t, [th[t] EXCEPT !.pc = "count", !.b = b])
        \/ Goto(t, Idle) /\ maps' = maps
    BY <1>10 DEF Map, Fail
  <2>7. CASE Goto(t, Idle) /\ maps' = maps BY <2>3, <2>5, <2>7
  <2>8. CASE \E b \in Blocks \ DOMAIN maps : \E v :
               maps' = With(maps, b, v) /\ Goto(t, [th[t] EXCEPT !.pc = "count", !.b = b])
    <3>1. Cardinality(DOMAIN maps') = Cardinality(DOMAIN maps) - Cardinality(S) + Cardinality(T)
      BY <2>4, <2>8
    <3> QED BY <3>1, <2>1, <1>4, <1>5, <1>6
  <2> QED BY <2>6, <2>7, <2>8
<1>11. CASE UnmapMem(t)
  <2>1. /\ th[t].pc = "unmap_mem" /\ th'[t].pc = "unmap"
        /\ mp'.n_mmaps = mp.n_mmaps /\ maps' = maps
    BY <1>1, <1>11 DEF UnmapMem, At, Goto, Params, Calls
  <2> QED BY <2>1, <1>3, <1>4, <1>5, <1>6
<1>12. CASE /\ th[t].pc \notin pcs /\ th'[t].pc \notin pcs
            /\ mp'.n_mmaps = mp.n_mmaps /\ DOMAIN maps' = DOMAIN maps
  BY <1>12, <1>3, <1>4, <1>5, <1>6
<1>13. ASSUME \/ CountMax(t) \/ Mem(t) \/ MemMax(t) \/ SetThreshold(t) \/ SetTrim(t)
              \/ RemapMem(t) \/ RemapMax(t) \/ NoDyn(t) \/ Limit(t) \/ LimitMax(t)
              \/ ReadThreshold(t)
       PROVE  /\ th[t].pc \notin pcs /\ th'[t].pc \notin pcs
              /\ mp'.n_mmaps = mp.n_mmaps /\ DOMAIN maps' = DOMAIN maps
  <2>1. CASE CountMax(t)
    BY <1>1, <2>1 DEF CountMax, AtomicMax, At, Goto, Idle, Params, Calls
  <2>2. CASE Mem(t)
    BY <1>1, <2>2 DEF Mem, AtomicMax, At, Goto, Idle, Params, Calls
  <2>3. CASE MemMax(t)
    BY <1>1, <2>3, MemMaxFacts DEF MemMax, AtomicMax, At, Params, Calls
  <2>4. CASE SetThreshold(t)
    BY <1>1, <2>4 DEF SetThreshold, AtomicMax, At, Goto, Idle, Params, Calls
  <2>5. CASE SetTrim(t)
    BY <1>1, <2>5 DEF SetTrim, AtomicMax, At, Goto, Idle, Params, Calls
  <2>6. CASE RemapMem(t)
    BY <1>1, <2>6 DEF RemapMem, AtomicMax, At, Goto, Idle, Params, Calls
  <2>7. CASE RemapMax(t)
    BY <1>1, <2>7 DEF RemapMax, AtomicMax, At, Goto, Idle, Params, Calls
  <2>8. CASE NoDyn(t)
    BY <1>1, <2>8 DEF NoDyn, AtomicMax, At, Goto, Idle, Params, Calls
  <2>9. CASE Limit(t) BY <1>1, <2>9 DEF Limit, At, Goto, Calls
  <2>10. CASE LimitMax(t) BY <1>1, <2>10, LimitMaxFacts DEF TypeOK
  <2>11. CASE ReadThreshold(t) BY <1>1, <2>11 DEF ReadThreshold, At, Goto, Calls
  <2> QED BY <1>13, <2>1, <2>2, <2>3, <2>4, <2>5, <2>6, <2>7, <2>8, <2>9, <2>10, <2>11
<1>14. ASSUME \/ Asks(t)
              \/ \E r \in Requests, b \in DOMAIN mine :
                   ReallocSame(t, b, r) \/ ReallocRemap(t, b, r) \/ ReallocArena(t, b, r)
       PROVE  /\ th[t].pc \notin pcs /\ th'[t].pc \notin pcs
              /\ mp'.n_mmaps = mp.n_mmaps /\ DOMAIN maps' = DOMAIN maps
  <2>1. CASE Asks(t) BY <2>1, AskFacts
  <2>2. ASSUME NEW r, NEW b, ReallocSame(t, b, r) \/ ReallocRemap(t, b, r) \/ ReallocArena(t, b, r)
        PROVE  /\ th[t].pc = "idle" /\ mp' = mp /\ DOMAIN maps' = DOMAIN maps
               /\ th'[t].pc \in {"idle", "remap_mem", "unmap_count"}
    BY <1>1, <2>2, ZenonT(40)
      DEF ReallocSame, ReallocRemap, ReallocArena, CopyAndUnmap, At, Goto, Idle
  <2> QED BY <1>14, <2>1, <2>2
<1>15. ASSUME NEW b, Free(t, b)
       PROVE  /\ th[t].pc \notin pcs /\ th'[t].pc \notin pcs
              /\ mp'.n_mmaps = mp.n_mmaps /\ DOMAIN maps' = DOMAIN maps
  BY <1>1, <1>15 DEF Free, At, Goto, Idle
<1>16. ASSUME NEW v, NEW f \in {"mmap_threshold", "trim_threshold", "n_mmaps_max"}, Mallopt(t, f, v)
       PROVE  /\ th[t].pc \notin pcs /\ th'[t].pc \notin pcs
              /\ mp'.n_mmaps = mp.n_mmaps /\ DOMAIN maps' = DOMAIN maps
  BY <1>1, <1>16 DEF Mallopt, At, Goto, Idle, Params
<1> QED BY <1>7, <1>8, <1>9, <1>10, <1>11, <1>12, <1>13, <1>14, <1>15, <1>16
    DEF Acts, Step, Asks

(* Lemma: a finite set of numbers has a largest one, and Max picks it.     *)
LEMMA MaxBounds ==
  ASSUME NEW S \in SUBSET Nat, IsFiniteSet(S), S # {}
  PROVE  Max(S) \in S /\ \A x \in S : x <= Max(S)
<1> DEFINE Above(x) == {y \in S : y > x}  A == {Above(x) : x \in S}
<1>1. A # {} /\ A \subseteq FiniteSubsetsOf(S)
  <2>1. ASSUME NEW x \in S PROVE Above(x) \in SUBSET S /\ IsFiniteSet(Above(x))
    <3>1. Above(x) \in SUBSET S OBVIOUS
    <3> QED BY <3>1, FS_Subset
  <2> QED BY <2>1 DEF FiniteSubsetsOf
<1>2. IsWellFoundedOn(StrictSubsetOrdering(S), FiniteSubsetsOf(S))
  BY FS_StrictSubsetOrderingWellFounded
<1>3. \E d \in A : \A e \in A : ~(<<e, d>> \in StrictSubsetOrdering(S))
  <2> HIDE DEF A
  <2> QED BY <1>1, <1>2, WFMin
<1>4. PICK x \in S : \A e \in A : ~(<<e, Above(x)>> \in StrictSubsetOrdering(S)) BY <1>3
<1>5. ASSUME NEW y \in S, y > x PROVE FALSE
  <2>1. Above(y) \subseteq Above(x) /\ y \in Above(x) /\ y \notin Above(y)
    <3>1. x \in Nat /\ y \in Nat /\ ~(y > y) OBVIOUS
    <3>2. \A z \in S : z > y => z > x
      <4>1. ASSUME NEW z \in S, z > y PROVE z > x
        <5>1. z \in Nat OBVIOUS
        <5> QED BY <1>5, <3>1, <4>1, <5>1
      <4> QED BY <4>1
    <3> QED BY <1>5, <3>1, <3>2
  <2>2. <<Above(y), Above(x)>> \in (SUBSET S) \X (SUBSET S) /\ Above(y) \in A OBVIOUS
  <2> HIDE DEF Above, A
  <2> QED BY <1>4, <2>1, <2>2 DEF StrictSubsetOrdering
<1>6. \A y \in S : x >= y BY <1>5
<1> QED BY <1>6 DEF Max

(* Lemma: the threads past the test of n_mmaps stay within the bound.      *)
LEMMA LimitStep ==
  ASSUME TypeOK, BlocksInv, LimitInv, NEW t \in Threads, Acts(t)
  PROVE  LimitInv'
<1> DEFINE S == Admitted  T == Admitted'  N == Cardinality(Threads)  m == Max(MmapsMax)
           Adm(call) == \/ call.pc \in {"map", "count"}
                        \/ call.pc = "limit_max" /\ call.new < m
<1>1. /\ \A u \in Threads \ {t} : th'[u] = th[u]
      /\ mp \in Params /\ mp' \in Params /\ th[t] \in Calls /\ th'[t] \in Calls /\ th \in [Threads -> Calls]
      /\ fallbacks \in Nat /\ fallbacks' \in Nat
  BY ActsFacts DEF TypeOK
<1>2. S \in SUBSET Threads /\ T \in SUBSET Threads /\ \A u \in Threads \ {t} : u \in S <=> u \in T
  BY <1>1 DEF Admitted
<1>3. (t \in S <=> Adm(th[t])) /\ (t \in T <=> Adm(th'[t])) BY DEF Admitted
<1> HIDE DEF S, T
<1>4. /\ Cardinality(S) \in Nat /\ Cardinality(T) \in Nat /\ N \in Nat /\ Cardinality(T) <= N
      /\ Cardinality(T) = Cardinality(S) + (IF t \in T THEN 1 ELSE 0) - (IF t \in S THEN 1 ELSE 0)
  BY <1>2, ThreadMoves
<1>5. m \in Nat /\ \A x \in MmapsMax : x <= m
  <2>1. MmapsMax \in SUBSET Nat /\ IsFiniteSet(MmapsMax) /\ MmapsMax # {} BY MmapAssumption
  <2> QED BY <2>1, MaxBounds
<1> HIDE DEF N, m
<1>6. mp.n_mmaps_max \in MmapsMax /\ mp.n_mmaps + Cardinality(S) <= m + (N - 1) + fallbacks
  BY DEF LimitInv, S, N, m
<1>7. /\ mp.n_mmaps \in Int /\ mp'.n_mmaps \in Int
      /\ mp.n_mmaps_max \in Int /\ mp.n_mmaps_max <= m
  BY <1>1, <1>5, <1>6 DEF Params
<1> SUFFICES /\ mp'.n_mmaps_max \in MmapsMax
             /\ mp'.n_mmaps + Cardinality(T) <= m + (N - 1) + fallbacks'
  BY DEF LimitInv, T, N, m
<1>8. CASE Count(t)
  <2>1. /\ th[t].pc = "count" /\ th'[t].pc = "count_max" /\ mp'.n_mmaps = mp.n_mmaps + 1
        /\ mp'.n_mmaps_max = mp.n_mmaps_max /\ fallbacks' = fallbacks
    BY <1>1, <1>8 DEF Count, At, Goto, Params, Calls, ghosts
  <2> QED BY <2>1, <1>1, <1>3, <1>4, <1>5, <1>6, <1>7
<1>9. CASE UnmapCount(t)
  <2>1. /\ th[t].pc = "unmap_count" /\ th'[t].pc = "unmap_mem" /\ mp'.n_mmaps = mp.n_mmaps - 1
        /\ mp'.n_mmaps_max = mp.n_mmaps_max /\ fallbacks' = fallbacks
    BY <1>1, <1>9 DEF UnmapCount, At, Goto, Params, Calls, ghosts
  <2> QED BY <2>1, <1>1, <1>3, <1>4, <1>5, <1>6, <1>7
<1> DEFINE Within == /\ mp'.n_mmaps_max \in MmapsMax
                     /\ mp'.n_mmaps + Cardinality(T) <= m + (N - 1) + fallbacks'
<1>10. CASE Asks(t)
  <2>1. CASE th'[t].pc = "limit" /\ fallbacks' = fallbacks
    BY <1>10, <2>1, AskFacts, <1>1, <1>3, <1>4, <1>5, <1>6, <1>7
  <2>2. CASE fallbacks' = fallbacks + 1
    BY <1>10, <2>2, AskFacts, <1>1, <1>3, <1>4, <1>5, <1>6, <1>7
  <2> QED BY <1>10, <2>1, <2>2, AskFacts
<1>11. CASE /\ Adm(th'[t]) => Adm(th[t])
            /\ mp'.n_mmaps = mp.n_mmaps /\ mp'.n_mmaps_max \in MmapsMax /\ fallbacks' = fallbacks
  BY <1>11, <1>1, <1>3, <1>4, <1>5, <1>6, <1>7
<1> DEFINE Stays == /\ Adm(th'[t]) => Adm(th[t])
                    /\ mp'.n_mmaps = mp.n_mmaps /\ mp'.n_mmaps_max \in MmapsMax
                    /\ fallbacks' = fallbacks
<1>12. CASE Map(t)
  <2>1. th[t].pc = "map" /\ mp' = mp /\ fallbacks' = fallbacks BY <1>12 DEF Map, At, ghosts
  <2> QED BY <2>1, <1>6, <1>11
<1>13. ASSUME \/ CountMax(t) \/ Mem(t) \/ MemMax(t) \/ SetThreshold(t) \/ SetTrim(t)
              \/ UnmapMem(t) \/ Unmap(t) \/ RemapMem(t) \/ RemapMax(t) \/ NoDyn(t)
              \/ ReadThreshold(t)
       PROVE  Stays
  <2>1. CASE CountMax(t)
    BY <1>1, <1>6, <2>1 DEF CountMax, AtomicMax, At, Goto, Idle, Params, Calls, ghosts
  <2>2. CASE Mem(t)
    BY <1>1, <1>6, <2>2 DEF Mem, AtomicMax, At, Goto, Idle, Params, Calls, ghosts
  <2>3. CASE MemMax(t)
    BY <1>1, <1>6, <2>3, MemMaxFacts DEF MemMax, AtomicMax, At, Params, Calls, ghosts
  <2>4. CASE SetThreshold(t)
    BY <1>1, <1>6, <2>4 DEF SetThreshold, AtomicMax, At, Goto, Idle, Params, Calls, ghosts
  <2>5. CASE SetTrim(t)
    BY <1>1, <1>6, <2>5 DEF SetTrim, AtomicMax, At, Goto, Idle, Params, Calls, ghosts
  <2>6. CASE UnmapMem(t)
    BY <1>1, <1>6, <2>6 DEF UnmapMem, AtomicMax, At, Goto, Idle, Params, Calls, ghosts
  <2>7. CASE Unmap(t)
    BY <1>1, <1>6, <2>7 DEF Unmap, AtomicMax, At, Goto, Idle, Params, Calls, ghosts
  <2>8. CASE RemapMem(t)
    BY <1>1, <1>6, <2>8 DEF RemapMem, AtomicMax, At, Goto, Idle, Params, Calls, ghosts
  <2>9. CASE RemapMax(t)
    BY <1>1, <1>6, <2>9 DEF RemapMax, AtomicMax, At, Goto, Idle, Params, Calls, ghosts
  <2>10. CASE NoDyn(t)
    BY <1>1, <1>6, <2>10 DEF NoDyn, AtomicMax, At, Goto, Idle, Params, Calls, ghosts
  <2>11. CASE ReadThreshold(t) BY <1>1, <1>6, <2>11 DEF ReadThreshold, At, Goto, Calls, ghosts
  <2> QED BY <1>13, <2>1, <2>2, <2>3, <2>4, <2>5, <2>6, <2>7, <2>8, <2>9, <2>10, <2>11
<1>14. ASSUME NEW b, NEW r, ReallocSame(t, b, r) \/ ReallocRemap(t, b, r) \/ ReallocArena(t, b, r)
                            \/ Free(t, b)
       PROVE  Stays
  <2>1. th[t].pc = "idle" /\ mp' = mp /\ fallbacks' = fallbacks
    BY <1>14 DEF ReallocSame, ReallocRemap, ReallocArena, Free, At, ghosts
  <2>2. th'[t].pc \in {"idle", "remap_mem", "unmap_count", "threshold"}
    BY <2>1, <1>1, <1>14, ZenonT(40)
      DEF ReallocSame, ReallocRemap, ReallocArena, CopyAndUnmap, Free, Goto, Idle
  <2> QED BY <2>1, <2>2, <1>6
<1>15. ASSUME NEW v, NEW f \in {"mmap_threshold", "trim_threshold", "n_mmaps_max"},
              f = "n_mmaps_max" => v \in MmapsMax, Mallopt(t, f, v)
       PROVE  Stays
  BY <1>1, <1>6, <1>15 DEF Mallopt, At, Goto, Idle, Params
<1>16. CASE Limit(t)
  <2>1. /\ th[t].pc = "limit" /\ th'[t].pc = "limit_max" /\ th'[t].new = mp.n_mmaps
        /\ mp' = mp /\ fallbacks' = fallbacks
    BY <1>1, <1>16 DEF Limit, At, Goto, Calls, ghosts
  <2> QED BY <2>1, <1>1, <1>3, <1>4, <1>5, <1>6, <1>7
<1>17. CASE LimitMax(t)
  <2>1. th[t].new \in Int /\ th[t].pc = "limit_max" /\ mp' = mp
    BY <1>1, <1>17, LimitMaxFacts DEF Calls
  <2>2. CASE th[t].new < mp.n_mmaps_max /\ fallbacks' = fallbacks
    BY <2>1, <2>2, <1>1, <1>3, <1>4, <1>5, <1>6, <1>7
  <2>3. CASE fallbacks' = fallbacks + 1
    BY <2>1, <2>3, <1>1, <1>3, <1>4, <1>5, <1>6, <1>7
  <2>4. CASE th'[t].pc \in {"idle", "unmap_count"} /\ fallbacks' = fallbacks
    BY <2>1, <2>4, <1>1, <1>3, <1>4, <1>5, <1>6, <1>7
  <2> QED BY <1>17, <2>2, <2>3, <2>4, LimitMaxFacts
<1> HIDE DEF Stays, Within
<1>18. Stays \/ Within
  BY <1>8, <1>9, <1>10, <1>12, <1>13, <1>14, <1>15, <1>16, <1>17 DEF Acts, Step, Asks, Within
<1> QED BY <1>11, <1>18 DEF Stays, Within

(* Lemma: a mallopt that has ended holds off every free.                   *)
LEMMA ManualStep ==
  ASSUME TypeOK, BlocksInv, ManualInv, NEW t \in Threads, Acts(t)
  PROVE  ManualInv'
<1>1. /\ \A u \in Threads \ {t} : th'[u] = th[u]
      /\ mp \in Params /\ mp' \in Params /\ th[t] \in Calls /\ th'[t] \in Calls /\ th \in [Threads -> Calls]
  BY ActsFacts DEF TypeOK
<1> DEFINE Waits(call) == call.pc \in {"threshold", "set_threshold"}
<1> DEFINE Stays == /\ Waits(th'[t]) => Waits(th[t])
                    /\ mp'.no_dyn = mp.no_dyn /\ mp'.mmap_threshold = mp.mmap_threshold
                    /\ manual' = manual
<1>2. CASE Stays BY <1>1, <1>2 DEF ManualInv
<1>3. CASE SetThreshold(t)
  <2>1. th[t].pc = "set_threshold" /\ manual' = manual BY <1>3 DEF SetThreshold, At, ghosts
  <2> QED BY <2>1 DEF ManualInv
<1>4. CASE NoDyn(t)
  <2>1. /\ mp'.no_dyn = TRUE /\ mp'.mmap_threshold = mp.mmap_threshold /\ th'[t].pc = "idle"
        /\ manual' = IF \E u \in Threads : At(u, "threshold") \/ At(u, "set_threshold") THEN None
                     ELSE mp.mmap_threshold
    BY <1>1, <1>4 DEF NoDyn, Goto, Idle, Params
  <2> QED BY <1>1, <2>1 DEF ManualInv, At
<1>5. ASSUME NEW f \in {"mmap_threshold", "trim_threshold", "n_mmaps_max"}, NEW v \in Nat,
             Mallopt(t, f, v)
      PROVE  ManualInv'
  <2>1. /\ th'[t].pc = "mallopt" /\ mp'.no_dyn = mp.no_dyn
        /\ mp'.mmap_threshold = (IF f = "mmap_threshold" THEN v ELSE mp.mmap_threshold)
        /\ manual' = IF manual # None /\ f = "mmap_threshold" THEN v ELSE manual
    BY <1>1, <1>5 DEF Mallopt, Goto, Idle, Params
  <2> QED BY <1>1, <2>1 DEF ManualInv
<1>6. ASSUME NEW b, Free(t, b) PROVE ManualInv'
  <2>1. th'[t].pc = (IF Dynamic THEN "threshold" ELSE "unmap_count")
        /\ mp' = mp /\ manual' = manual
    BY <1>1, <1>6 DEF Free, Goto, Idle, ghosts
  <2> QED BY <1>1, <2>1 DEF ManualInv, Dynamic
<1>7. ASSUME \/ Map(t) \/ Count(t) \/ CountMax(t) \/ Mem(t) \/ MemMax(t) \/ SetTrim(t)
             \/ UnmapCount(t) \/ UnmapMem(t) \/ Unmap(t) \/ RemapMem(t) \/ RemapMax(t)
             \/ Limit(t) \/ LimitMax(t) \/ ReadThreshold(t)
      PROVE  Stays
  <2>1. CASE Map(t)
    <3>1. mp' = mp /\ manual' = manual BY <2>1 DEF Map, ghosts
    <3>2. \/ \E b : Goto(t, [th[t] EXCEPT !.pc = "count", !.b = b])
          \/ Goto(t, Idle)
      BY <2>1 DEF Map, Fail
    <3>3. th'[t].pc \in {"count", "idle"}
      <4>1. ASSUME NEW b, Goto(t, [th[t] EXCEPT !.pc = "count", !.b = b]) PROVE th'[t].pc = "count"
        BY <1>1, <4>1 DEF Goto, Calls
      <4>2. Goto(t, Idle) => th'[t].pc = "idle" BY <1>1 DEF Goto, Idle
      <4> QED BY <3>2, <4>1, <4>2
    <3> QED BY <3>1, <3>3
  <2>2. CASE Count(t)
    BY <1>1, <2>2 DEF Count, AtomicMax, At, Goto, Idle, Params, Calls, ghosts
  <2>3. CASE CountMax(t)
    BY <1>1, <2>3 DEF CountMax, AtomicMax, At, Goto, Idle, Params, Calls, ghosts
  <2>4. CASE Mem(t)
    BY <1>1, <2>4 DEF Mem, AtomicMax, At, Goto, Idle, Params, Calls, ghosts
  <2>5. CASE MemMax(t)
    BY <1>1, <2>5, MemMaxFacts DEF MemMax, AtomicMax, At, Params, Calls, ghosts
  <2>6. CASE SetTrim(t)
    BY <1>1, <2>6 DEF SetTrim, AtomicMax, At, Goto, Idle, Params, Calls, ghosts
  <2>7. CASE UnmapCount(t)
    BY <1>1, <2>7 DEF UnmapCount, AtomicMax, At, Goto, Idle, Params, Calls, ghosts
  <2>8. CASE UnmapMem(t)
    BY <1>1, <2>8 DEF UnmapMem, AtomicMax, At, Goto, Idle, Params, Calls, ghosts
  <2>9. CASE Unmap(t)
    BY <1>1, <2>9 DEF Unmap, AtomicMax, At, Goto, Idle, Params, Calls, ghosts
  <2>10. CASE RemapMem(t)
    BY <1>1, <2>10 DEF RemapMem, AtomicMax, At, Goto, Idle, Params, Calls, ghosts
  <2>11. CASE RemapMax(t)
    BY <1>1, <2>11 DEF RemapMax, AtomicMax, At, Goto, Idle, Params, Calls, ghosts
  <2>12. CASE Limit(t) BY <1>1, <2>12 DEF Limit, At, Goto, Calls, ghosts
  <2>13. CASE LimitMax(t) BY <2>13, LimitMaxFacts
  <2>14. CASE ReadThreshold(t) BY <1>1, <2>14 DEF ReadThreshold, At, Goto, Calls, ghosts
  <2> QED BY <1>7, <2>1, <2>2, <2>3, <2>4, <2>5, <2>6, <2>7, <2>8, <2>9, <2>10, <2>11, <2>12,
             <2>13, <2>14
<1>8. ASSUME \/ Asks(t)
             \/ \E r \in Requests, b \in DOMAIN mine :
                  ReallocSame(t, b, r) \/ ReallocRemap(t, b, r) \/ ReallocArena(t, b, r)
      PROVE  Stays
  <2>1. CASE Asks(t) BY <2>1, AskFacts
  <2>2. ASSUME NEW r, NEW b, ReallocSame(t, b, r) \/ ReallocRemap(t, b, r) \/ ReallocArena(t, b, r)
        PROVE  /\ th[t].pc = "idle" /\ mp' = mp /\ manual' = manual
               /\ th'[t].pc \in {"idle", "remap_mem", "unmap_count"}
    BY <1>1, <2>2, ZenonT(40)
      DEF ReallocSame, ReallocRemap, ReallocArena, CopyAndUnmap, At, Goto, Idle, ghosts
  <2> QED BY <1>8, <2>1, <2>2
<1>9. Settings \subseteq Nat /\ MmapsMax \subseteq Nat BY MmapAssumption
<1> HIDE DEF Stays
<1> QED BY <1>2, <1>3, <1>4, <1>5, <1>6, <1>7, <1>8, <1>9 DEF Acts, Step, Asks

-----------------------------------------------------------------------------
(* The units of memory.                                                    *)

(* Lemma: the units of a set of blocks are those of one block and of the   *)
(* others.                                                                 *)
LEMMA UnitsSplit ==
  ASSUME NEW S, IsFiniteSet(S), NEW f, \A x \in S : f[x] \in Nat, NEW b \in S
  PROVE  Units(f, S) \in Nat /\ Units(f, S \ {b}) \in Nat /\ Units(f, S) = Units(f, S \ {b}) + f[b]
<1> DEFINE Row(x) == {x} \X (1 .. f[x])  Cells(R) == UNION {Row(x) : x \in R}
<1>1. \A x \in S : IsFiniteSet(Row(x)) /\ Cardinality(Row(x)) = f[x]
  <2>1. ASSUME NEW x \in S PROVE IsFiniteSet(Row(x)) /\ Cardinality(Row(x)) = f[x]
    <3>1. f[x] \in Nat /\ IsFiniteSet({x}) /\ Cardinality({x}) = 1 BY FS_Singleton
    <3>2. IsFiniteSet(1 .. f[x]) /\ Cardinality(1 .. f[x]) = f[x] BY <3>1, FS_Interval, SMTT(40)
    <3>3. IsFiniteSet(Row(x)) /\ Cardinality(Row(x)) = 1 * f[x] BY <3>1, <3>2, FS_Product, ZenonT(40)
    <3> QED BY <3>1, <3>3
  <2> QED BY <2>1
<1>2. IsFiniteSet(Cells(S))
  <2> DEFINE rows == {Row(x) : x \in S}  row == [x \in S |-> Row(x)]
  <2>1. row \in Surjection(S, rows)
    <3> HIDE DEF Row
    <3> QED BY DEF Surjection
  <2>2. IsFiniteSet(rows)
    <3> HIDE DEF rows, row
    <3> QED BY <2>1, FS_Surjection
  <2>3. \A r \in rows : IsFiniteSet(r) BY <1>1
  <2> HIDE DEF rows, Row
  <2>4. IsFiniteSet(UNION rows) BY <2>2, <2>3, FS_UNION
  <2> QED BY <2>4 DEF rows
<1>3. Cells(S \ {b}) \subseteq Cells(S) /\ Cells(S) = Cells(S \ {b}) \cup Row(b)
  <2> HIDE DEF Row
  <2> QED OBVIOUS
<1>4. Cells(S \ {b}) \cap Row(b) = {} OBVIOUS
<1>5. IsFiniteSet(Cells(S \ {b})) BY <1>2, <1>3, FS_Subset
<1>6. Units(f, S) = Cardinality(Cells(S)) /\ Units(f, S \ {b}) = Cardinality(Cells(S \ {b}))
  BY DEF Units
<1> HIDE DEF Cells, Row
<1>7. Cardinality({}) = 0 BY FS_EmptySet
<1>8. Cardinality(Cells(S)) = Cardinality(Cells(S \ {b})) + Cardinality(Row(b)) - 0
  BY <1>1, <1>3, <1>4, <1>5, <1>7, FS_Union, ZenonT(40)
<1>9. Cardinality(Cells(S)) \in Nat /\ Cardinality(Cells(S \ {b})) \in Nat /\ f[b] \in Nat
  BY <1>2, <1>5, FS_CardinalityType
<1> QED BY <1>1, <1>6, <1>8, <1>9

(* Lemma: the units after the size of one block has changed.               *)
LEMMA UnitsMove ==
  ASSUME NEW S, NEW T, IsFiniteSet(S), IsFiniteSet(T), NEW f, NEW g, NEW b,
         \A x \in S : f[x] \in Nat, \A x \in T : g[x] \in Nat,
         S \ {b} = T \ {b}, \A x \in S \ {b} : g[x] = f[x]
  PROVE  /\ Units(f, S) \in Nat /\ Units(g, T) \in Nat
         /\ Units(g, T) = Units(f, S) + (IF b \in T THEN g[b] ELSE 0)
                                      - (IF b \in S THEN f[b] ELSE 0)
<1>1. Units(g, T \ {b}) = Units(f, S \ {b})
  <2>1. \A x \in S \ {b} : {x} \X (1 .. g[x]) = {x} \X (1 .. f[x]) OBVIOUS
  <2>2. {{x} \X (1 .. g[x]) : x \in T \ {b}} = {{x} \X (1 .. f[x]) : x \in S \ {b}} BY <2>1
  <2> QED BY <2>2 DEF Units
<1>2. Units(f, S) \in Nat
      /\ Units(f, S) = Units(f, S \ {b}) + (IF b \in S THEN f[b] ELSE 0)
  <2>1. CASE b \in S BY <2>1, UnitsSplit
  <2>2. CASE b \notin S
    <3>1. S \ {b} = S BY <2>2
    <3>2. Units(f, S) \in Nat
      <4>1. CASE S = {}
        <5>1. {{x} \X (1 .. f[x]) : x \in S} = {} BY <4>1
        <5>2. UNION {{x} \X (1 .. f[x]) : x \in S} = {} BY <5>1
        <5> QED BY <5>2, FS_EmptySet DEF Units
      <4>2. CASE S # {} BY <4>2, UnitsSplit
      <4> QED BY <4>1, <4>2
    <3> QED BY <2>2, <3>1, <3>2
  <2> QED BY <2>1, <2>2
<1>3. Units(g, T) \in Nat
      /\ Units(g, T) = Units(g, T \ {b}) + (IF b \in T THEN g[b] ELSE 0)
  <2>1. CASE b \in T BY <2>1, UnitsSplit
  <2>2. CASE b \notin T
    <3>1. T \ {b} = T BY <2>2
    <3>2. T = S \ {b} /\ Units(g, T) = Units(f, S \ {b}) BY <1>1, <3>1
    <3>3. Units(f, S \ {b}) \in Nat
      <4>1. CASE b \in S BY <4>1, UnitsSplit
      <4>2. CASE b \notin S
        <5>1. S \ {b} = S BY <4>2
        <5> QED BY <5>1, <1>2
      <4> QED BY <4>1, <4>2
    <3>4. Units(g, T) \in Nat BY <3>2, <3>3
    <3>5. Units(g, T \ {b}) = Units(g, T) BY <3>1
    <3> QED BY <2>2, <3>4, <3>5
  <2> QED BY <2>1, <2>2
<1>4. (b \in S => f[b] \in Nat) /\ (b \in T => g[b] \in Nat) OBVIOUS
<1>5. Units(f, S \ {b}) \in Int
  <2>1. CASE b \in S BY <2>1, UnitsSplit
  <2>2. CASE b \notin S
    <3>1. Units(f, S \ {b}) = Units(f, S)
      <4>1. S \ {b} = S BY <2>2
      <4> QED BY <4>1
    <3> QED BY <3>1, <1>2
  <2> QED BY <2>1, <2>2
<1> QED BY <1>1, <1>2, <1>3, <1>4, <1>5

(* Lemma: how much of a block is in mmapped_mem, for the thread that has   *)
(* it and for a block that no thread has.                                  *)
AddedFacts ==
  /\ \A x \in DOMAIN maps : Added[x] \in Nat
  /\ \A t \in Threads : th[t].b # None => Added[th[t].b] = maps[th[t].b] - Owes(t)
  /\ \A x \in DOMAIN maps : (\A t \in Threads : th[t].b # x) => Added[x] = maps[x]

(* What is added up follows from who works on which block.                 *)
LEMMA AddedValue == TypeOK /\ BlocksInv => AddedFacts
<1> SUFFICES ASSUME TypeOK, BlocksInv PROVE AddedFacts OBVIOUS
<1>1. ASSUME NEW t \in Threads, th[t].b # None
      PROVE  /\ th[t].b \in DOMAIN maps /\ Added[th[t].b] = maps[th[t].b] - Owes(t)
             /\ Added[th[t].b] \in Nat
  <2> DEFINE b == th[t].b
  <2>1. b \in Hands(t) /\ b \in DOMAIN maps /\ maps[b] \in Nat /\ th[t] \in Calls
    <3>1. b \in Hands(t) BY <1>1 DEF Hands
    <3> QED BY <3>1, HandFacts
  <2>2. \A u \in Threads : th[u].b = b => u = t
    <3>1. ASSUME NEW u \in Threads, th[u].b = b, u # t PROVE FALSE
      <4>1. b \in Hands(u) BY <1>1, <3>1 DEF Hands
      <4> QED BY <2>1, <3>1, <4>1 DEF BlocksInv
    <3> QED BY <3>1
  <2>3. (CHOOSE u \in Threads : th[u].b = b) = t BY <2>2
  <2>4. Added[b] = maps[b] - Owes(t) BY <2>1, <2>3 DEF Added
  <2>5. th[t].pc = "remap_mem" => th[t].new <= maps[b] BY DEF BlocksInv, CallOK, Asking
  <2>6. Owes(t) \in Int /\ Owes(t) <= maps[b]
    <3>1. th[t].new \in Int BY <2>1 DEF Calls
    <3> QED BY <2>1, <2>5, <3>1 DEF Owes
  <2> QED BY <2>1, <2>4, <2>6
<1>2. ASSUME NEW x \in DOMAIN maps, \A t \in Threads : th[t].b # x
      PROVE  Added[x] = maps[x]
  BY <1>2 DEF Added
<1>3. ASSUME NEW x \in DOMAIN maps PROVE Added[x] \in Nat
  <2>1. CASE \E t \in Threads : th[t].b = x
    <3>1. x # None BY HandFacts, TypeFacts, MmapAssumption DEF TypeOK
    <3> QED BY <1>1, <2>1, <3>1
  <2>2. CASE \A t \in Threads : th[t].b # x
    <3>1. maps[x] \in Nat BY DEF TypeOK
    <3> QED BY <1>2, <2>2, <3>1
  <2> QED BY <2>1, <2>2
<1> QED BY <1>1, <1>2, <1>3 DEF AddedFacts

(* Lemma: a block that t neither had nor has, and that it leaves alone.    *)
LEMMA AddedOthers ==
  ASSUME TypeOK, BlocksInv, TypeOK', BlocksInv', NEW t \in Threads,
         \A u \in Threads \ {t} : th'[u] = th[u],
         NEW x \in DOMAIN maps, x \in DOMAIN maps', maps'[x] = maps[x],
         th[t].b # x, th'[t].b # x
  PROVE  Added'[x] = Added[x]
<1>1. AddedFacts /\ AddedFacts'
  <2>1. AddedFacts BY AddedValue
  <2>2. TypeOK' /\ BlocksInv' => AddedFacts' BY AddedValue, PTL
  <2> QED BY <2>1, <2>2
<1>2. CASE \E u \in Threads : th[u].b = x
  <2>1. PICK u \in Threads : th[u].b = x BY <1>2
  <2>2. u # t /\ th'[u] = th[u] BY <2>1
  <2>3. x # None BY HandFacts, MmapAssumption DEF TypeOK
  <2>4. Owes(u)' = Owes(u) BY <2>1, <2>2 DEF Owes
  <2>5. Added[x] = maps[x] - Owes(u) BY <1>1, <2>1, <2>3 DEF AddedFacts
  <2>6. \A y : y = th'[u].b /\ y # None => Added'[y] = maps'[y] - Owes(u)'
    BY <1>1 DEF AddedFacts
  <2>7. th'[u].b = x BY <2>1, <2>2
  <2> QED BY <2>3, <2>4, <2>5, <2>6, <2>7
<1>3. CASE \A u \in Threads : th[u].b # x
  <2>1. \A u \in Threads : th'[u].b # x BY <1>3
  <2>2. Added[x] = maps[x] BY <1>1, <1>3 DEF AddedFacts
  <2>3. Added'[x] = maps'[x] BY <1>1, <2>1 DEF AddedFacts
  <2> QED BY <2>2, <2>3
<1> QED BY <1>2, <1>3

(* Lemma: what a step does to the units added, if it works on block b.     *)
LEMMA MemoryMoves ==
  ASSUME TypeOK, BlocksInv, TypeOK', BlocksInv', NEW t \in Threads,
         \A u \in Threads \ {t} : th'[u] = th[u],
         NEW b, DOMAIN maps \ {b} = DOMAIN maps' \ {b},
         \A x \in DOMAIN maps \ {b} : maps'[x] = maps[x],
         th[t].b \in {None, b}, th'[t].b \in {None, b}
  PROVE  /\ Units(Added, DOMAIN maps) \in Nat
         /\ Units(Added', DOMAIN maps') =
              Units(Added, DOMAIN maps) + (IF b \in DOMAIN maps' THEN Added'[b] ELSE 0)
                                        - (IF b \in DOMAIN maps THEN Added[b] ELSE 0)
<1>1. AddedFacts /\ AddedFacts'
  <2>1. AddedFacts BY AddedValue
  <2>2. TypeOK' /\ BlocksInv' => AddedFacts' BY AddedValue, PTL
  <2> QED BY <2>1, <2>2
<1>2. \A x \in DOMAIN maps \ {b} : Added'[x] = Added[x]
  <2>1. ASSUME NEW x \in DOMAIN maps \ {b} PROVE Added'[x] = Added[x]
    <3>1. x # None BY HandFacts, MmapAssumption DEF TypeOK
    <3>2. x \in DOMAIN maps' /\ maps'[x] = maps[x] /\ th[t].b # x /\ th'[t].b # x BY <2>1, <3>1
    <3> QED BY <3>2, AddedOthers
  <2> QED BY <2>1
<1>3. IsFiniteSet(DOMAIN maps) /\ IsFiniteSet(DOMAIN maps')
  BY MmapAssumption, FS_Subset DEF TypeOK
<1>4. (\A x \in DOMAIN maps : Added[x] \in Nat) /\ (\A x \in DOMAIN maps' : Added'[x] \in Nat)
  BY <1>1 DEF AddedFacts
<1> DEFINE S == DOMAIN maps  T == DOMAIN maps'  f == Added  g == Added'
<1>5. /\ IsFiniteSet(S) /\ IsFiniteSet(T) /\ S \ {b} = T \ {b} /\ \A x \in S : f[x] \in Nat
      /\ \A x \in T : g[x] \in Nat /\ \A y \in S \ {b} : g[y] = f[y]
  BY <1>2, <1>3, <1>4
<1>6. /\ Units(f, S) \in Nat
      /\ Units(g, T) = Units(f, S) + (IF b \in T THEN g[b] ELSE 0) - (IF b \in S THEN f[b] ELSE 0)
  <2> HIDE DEF S, T, f, g
  <2>1. PICK s0, t0, f0, g0 : s0 = S /\ t0 = T /\ f0 = f /\ g0 = g OBVIOUS
  <2>2. /\ IsFiniteSet(s0) /\ IsFiniteSet(t0) /\ s0 \ {b} = t0 \ {b}
        /\ \A x \in s0 : f0[x] \in Nat
        /\ \A x \in t0 : g0[x] \in Nat
        /\ \A x \in s0 \ {b} : g0[x] = f0[x]
    BY <1>5, <2>1
  <2>3. /\ Units(f0, s0) \in Nat
        /\ Units(g0, t0) = Units(f0, s0) + (IF b \in t0 THEN g0[b] ELSE 0)
                                        - (IF b \in s0 THEN f0[b] ELSE 0)
    BY ONLY <2>2, UnitsMove
  <2> QED BY <2>1, <2>3
<1> QED BY <1>6

(* Lemma: a step that leaves maps and what t owes alone.                   *)
LEMMA MemoryQuiet ==
  ASSUME TypeOK, BlocksInv, MemoryInv, TypeOK', BlocksInv', NEW t \in Threads,
         \A u \in Threads \ {t} : th'[u] = th[u],
         UNCHANGED <<maps, remaps>>, mp'.mmapped_mem = mp.mmapped_mem,
         Owes(t)' = Owes(t), th'[t].b = th[t].b \/ Owes(t) = 0
  PROVE  MemoryInv'
<1>1. AddedFacts /\ AddedFacts'
  <2>1. AddedFacts BY AddedValue
  <2>2. TypeOK' /\ BlocksInv' => AddedFacts' BY AddedValue, PTL
  <2> QED BY <2>1, <2>2
<1>2. ASSUME NEW x \in DOMAIN maps PROVE Added'[x] = Added[x]
  <2>0. x # None /\ maps[x] \in Nat /\ maps'[x] = maps[x] BY HandFacts, MmapAssumption DEF TypeOK
  <2>1. CASE th[t].b # x /\ th'[t].b # x
    <3>1. x \in DOMAIN maps' BY <1>2
    <3> QED BY <2>0, <2>1, <3>1, AddedOthers
  <2>2. CASE th[t].b = x /\ th'[t].b = x
    <3>1. Added[x] = maps[x] - Owes(t) BY <1>1, <2>0, <2>2 DEF AddedFacts
    <3>2. Added'[x] = maps'[x] - Owes(t)' BY <1>1, <2>0, <2>2 DEF AddedFacts
    <3> QED BY <2>0, <3>1, <3>2
  <2>3. CASE th[t].b = x /\ th'[t].b # x
    <3>1. Added[x] = maps[x] - Owes(t) BY <1>1, <2>0, <2>3 DEF AddedFacts
    <3>2. x \in Hands(t) BY <2>0, <2>3 DEF Hands
    <3>3. \A u \in Threads : th'[u].b # x
      <4>1. ASSUME NEW u \in Threads, th'[u].b = x PROVE FALSE
        <5>1. u # t /\ th[u].b = x BY <2>3, <4>1
        <5>2. x \in Hands(u) BY <2>0, <5>1 DEF Hands
        <5> QED BY <3>2, <5>1, <5>2 DEF BlocksInv
      <4> QED BY <4>1
    <3>4. Added'[x] = maps'[x] BY <1>1, <1>2, <3>3 DEF AddedFacts
    <3> QED BY <2>0, <2>3, <3>1, <3>4
  <2>4. CASE th[t].b # x /\ th'[t].b = x
    <3>1. Added'[x] = maps'[x] - Owes(t)' BY <1>1, <2>0, <2>4 DEF AddedFacts
    <3>2. x \in Hands(t)' BY <2>0, <2>4 DEF Hands
    <3>3. \A u \in Threads : th[u].b # x
      <4>1. ASSUME NEW u \in Threads, th[u].b = x PROVE FALSE
        <5>1. u # t /\ th'[u].b = x BY <2>4, <4>1
        <5>2. x \in Hands(u)' BY <2>0, <5>1 DEF Hands
        <5> QED BY <3>2, <5>1, <5>2 DEF BlocksInv
      <4> QED BY <4>1
    <3>4. Added[x] = maps[x] BY <1>1, <1>2, <3>3 DEF AddedFacts
    <3> QED BY <2>0, <2>4, <3>1, <3>4
  <2> QED BY <2>1, <2>2, <2>3, <2>4
<1>3. Units(Added', DOMAIN maps') = Units(Added, DOMAIN maps)
  <2>1. \A x \in DOMAIN maps : {x} \X (1 .. Added'[x]) = {x} \X (1 .. Added[x]) BY <1>2
  <2>2. {{x} \X (1 .. Added'[x]) : x \in DOMAIN maps'} = {{x} \X (1 .. Added[x]) : x \in DOMAIN maps}
    BY <2>1
  <2> QED BY <2>2 DEF Units
<1> QED BY <1>3 DEF MemoryInv

(* Lemma: mmapped_mem follows the mappings and the calls under way.        *)
LEMMA MemoryStep ==
  ASSUME TypeOK, BlocksInv, MemoryInv, NEW t \in Threads, Acts(t)
  PROVE  MemoryInv'
<1> DEFINE b == th[t].b  u0 == Units(Added, DOMAIN maps)
           same == Owes(t)' = Owes(t) /\ (th'[t].b = th[t].b \/ Owes(t) = 0)
           quiet == /\ maps' = maps /\ remaps' = remaps
                    /\ mp'.mmapped_mem = mp.mmapped_mem /\ same
<1>1. /\ \A u \in Threads \ {t} : th'[u] = th[u]
      /\ TypeOK' /\ BlocksInv'
  BY ActsFacts
<1>2. /\ mp \in Params /\ mp' \in Params /\ th[t] \in Calls /\ th'[t] \in Calls
      /\ th \in [Threads -> Calls] /\ remaps \in Nat /\ mp.mmapped_mem \in Int
  BY <1>1 DEF TypeOK, Params
<1>3. AddedFacts /\ AddedFacts' /\ CallOK(t)
  <2>1. AddedFacts BY AddedValue
  <2>2. TypeOK' /\ BlocksInv' => AddedFacts' BY AddedValue, PTL
  <2> QED BY <1>1, <2>1, <2>2 DEF BlocksInv
<1>4. mp.mmapped_mem = u0 + HDR * remaps BY DEF MemoryInv
<1>5. CASE quiet BY <1>1, <1>5, MemoryQuiet
<1>6. b # None => /\ b \in DOMAIN maps /\ maps[b] \in Nat /\ maps[b] = MmapSize(b)
                  /\ hdr[b] \in [off : Nat, sz : Nat] /\ Added[b] = maps[b] - Owes(t)
  <2>1. ASSUME b # None PROVE b \in DOMAIN maps /\ hdr[b] \in [off : Nat, sz : Nat] /\ maps[b] \in Nat
    <3>1. b \in Hands(t) BY <2>1 DEF Hands
    <3> QED BY <3>1, HandFacts
  <2> QED BY <1>3, <2>1 DEF BlocksInv, AddedFacts
<1>7. ASSUME maps' = maps, b # None, th'[t].b = b
      PROVE  u0 \in Nat /\ Units(Added', DOMAIN maps') = u0 + Owes(t) - Owes(t)'
  <2>1. Added'[b] = maps[b] - Owes(t)'
    <3>1. \A y : y = th'[t].b /\ y # None => Added'[y] = maps'[y] - Owes(t)' BY <1>3 DEF AddedFacts
    <3> QED BY <1>7, <3>1
  <2>2. b \in DOMAIN maps /\ Added[b] = maps[b] - Owes(t) /\ maps[b] \in Nat BY <1>6, <1>7
  <2>3. /\ u0 \in Nat
        /\ Units(Added', DOMAIN maps') = u0 + (IF b \in DOMAIN maps' THEN Added'[b] ELSE 0)
                                            - (IF b \in DOMAIN maps THEN Added[b] ELSE 0)
    <3>1. \E x : x = b OBVIOUS
    <3>2. PICK x : x = b BY <3>1
    <3>3. /\ DOMAIN maps \ {x} = DOMAIN maps' \ {x} /\ \A y \in DOMAIN maps \ {x} : maps'[y] = maps[y]
          /\ th[t].b \in {None, x} /\ th'[t].b \in {None, x}
      BY <1>7, <3>2
    <3>4. /\ u0 \in Nat
          /\ Units(Added', DOMAIN maps') = u0 + (IF x \in DOMAIN maps' THEN Added'[x] ELSE 0)
                                              - (IF x \in DOMAIN maps THEN Added[x] ELSE 0)
      BY <1>1, <3>3, MemoryMoves
    <3> QED BY <3>2, <3>4
  <2>4. Owes(t) \in Int /\ Owes(t)' \in Int
    <3>1. th[t].new \in Int /\ th'[t].new \in Int BY <1>2 DEF Calls
    <3>2. maps'[th'[t].b] \in Int BY <1>7, <2>2
    <3> QED BY <2>2, <3>1, <3>2 DEF Owes
  <2> QED BY <1>7, <2>1, <2>2, <2>3, <2>4
<1>8. CASE Mem(t)
  <2>1. /\ th[t].pc = "mem" /\ b # None /\ th'[t].pc = "mem_max" /\ th'[t].b = b /\ maps' = maps
        /\ remaps' = remaps /\ mp'.mmapped_mem = mp.mmapped_mem + MmapSize(b)
    BY <1>2, <1>3, <1>8 DEF Mem, At, Goto, Calls, Params, CallOK, Asking, ghosts
  <2>2. Owes(t) = maps[b] /\ Owes(t)' = 0 BY <2>1 DEF Owes
  <2>3. maps[b] \in Nat /\ maps[b] = MmapSize(b) BY <1>6, <2>1
  <2>4. u0 \in Nat /\ Units(Added', DOMAIN maps') = u0 + maps[b] - 0 BY <1>7, <2>1, <2>2
  <2> QED BY <1>2, <1>4, <2>1, <2>3, <2>4 DEF MemoryInv, HDR
<1>9. CASE UnmapMem(t)
  <2>1. /\ th[t].pc = "unmap_mem" /\ b # None /\ th'[t].pc = "unmap" /\ th'[t].b = b /\ maps' = maps
        /\ remaps' = remaps /\ mp'.mmapped_mem = mp.mmapped_mem - MmapSize(b)
    BY <1>2, <1>3, <1>9 DEF UnmapMem, At, Goto, Calls, Params, CallOK, Asking, ghosts
  <2>2. Owes(t) = 0 /\ Owes(t)' = maps[b] BY <2>1 DEF Owes
  <2>3. maps[b] \in Nat /\ maps[b] = MmapSize(b) BY <1>6, <2>1
  <2>4. u0 \in Nat /\ Units(Added', DOMAIN maps') = u0 + 0 - maps[b] BY <1>7, <2>1, <2>2
  <2> QED BY <1>2, <1>4, <2>1, <2>3, <2>4 DEF MemoryInv, HDR
<1>10. CASE RemapMem(t)
  <2>1. /\ th[t].pc = "remap_mem" /\ b # None /\ th'[t].pc = "remap_max" /\ th'[t].b = b /\ maps' = maps
        /\ remaps' = remaps /\ mp'.mmapped_mem = mp.mmapped_mem + th[t].new /\ th[t].new \in Int
    BY <1>2, <1>3, <1>10 DEF RemapMem, At, Goto, Calls, Params, CallOK, Asking, ghosts
  <2>2. Owes(t) = th[t].new /\ Owes(t)' = 0 BY <2>1 DEF Owes
  <2>3. u0 \in Nat /\ Units(Added', DOMAIN maps') = u0 + th[t].new - 0 BY <1>7, <2>1, <2>2
  <2> QED BY <1>2, <1>4, <2>1, <2>3 DEF MemoryInv, HDR
<1>11. CASE Unmap(t)
  <2>1. /\ th[t].pc = "unmap" /\ b # None /\ th'[t].b = None /\ remaps' = remaps /\ mp' = mp
    BY <1>2, <1>3, <1>11 DEF Unmap, At, Goto, Idle, Calls, CallOK, Asking, ghosts
  <2>2. b \in DOMAIN maps /\ maps' = Without(maps, b) BY <1>11, UnmapStep
  <2>3. DOMAIN maps' = DOMAIN maps \ {b} /\ \A x \in DOMAIN maps \ {b} : maps'[x] = maps[x]
    BY <2>2 DEF Without
  <2>4. Owes(t) = maps[b] BY <2>1 DEF Owes
  <2>5. Added[b] = 0 BY <1>6, <2>1, <2>4
  <2>6. PICK x : x = b OBVIOUS
  <2>7. /\ DOMAIN maps \ {x} = DOMAIN maps' \ {x} /\ \A y \in DOMAIN maps \ {x} : maps'[y] = maps[y]
        /\ th[t].b \in {None, x} /\ th'[t].b \in {None, x}
    BY <2>1, <2>3, <2>6
  <2>8. /\ u0 \in Nat
        /\ Units(Added', DOMAIN maps') = u0 + (IF x \in DOMAIN maps' THEN Added'[x] ELSE 0)
                                            - (IF x \in DOMAIN maps THEN Added[x] ELSE 0)
    BY <1>1, <2>7, MemoryMoves
  <2>9. Units(Added', DOMAIN maps') = u0 BY <2>2, <2>3, <2>5, <2>6, <2>8
  <2> QED BY <1>4, <2>1, <2>9 DEF MemoryInv
<1>12. CASE Map(t)
  <2> DEFINE size == AlignUp(th[t].nb + HDR, PageSize)
  <2>1. /\ th[t].pc = "map" /\ b = None /\ mp' = mp /\ remaps' = remaps
    BY <1>2, <1>3, <1>12 DEF Map, At, CallOK, Asking, ghosts
  <2> HIDE DEF size
  <2>2. ASSUME NEW x \in Blocks \ DOMAIN maps, maps' = With(maps, x, size),
               Goto(t, [th[t] EXCEPT !.pc = "count", !.b = x])
        PROVE  MemoryInv'
    <3>1. th'[t].pc = "count" /\ th'[t].b = x BY <1>2, <2>2 DEF Goto, Calls
    <3>2. DOMAIN maps' = DOMAIN maps \cup {x} /\ \A y \in DOMAIN maps : maps'[y] = maps[y]
      BY <2>2 DEF With
    <3>3. x # None /\ Owes(t)' = maps'[x] BY <2>2, <3>1, MmapAssumption DEF Owes
    <3>4. Added'[x] = maps'[x] - maps'[x] BY <1>3, <3>1, <3>3 DEF AddedFacts
    <3>5. maps'[x] \in Nat BY <1>1, <3>2 DEF TypeOK
    <3>6. /\ DOMAIN maps \ {x} = DOMAIN maps' \ {x} /\ \A y \in DOMAIN maps \ {x} : maps'[y] = maps[y]
          /\ th[t].b \in {None, x} /\ th'[t].b \in {None, x}
      BY <2>1, <2>2, <3>1, <3>2
    <3>7. /\ u0 \in Nat
          /\ Units(Added', DOMAIN maps') = u0 + (IF x \in DOMAIN maps' THEN Added'[x] ELSE 0)
                                              - (IF x \in DOMAIN maps THEN Added[x] ELSE 0)
      BY <1>1, <3>6, MemoryMoves
    <3>8. Units(Added', DOMAIN maps') = u0 BY <2>2, <3>2, <3>4, <3>5, <3>7
    <3> QED BY <1>4, <2>1, <3>8 DEF MemoryInv
  <2>3. ASSUME Goto(t, Idle), maps' = maps PROVE MemoryInv'
    <3>1. th'[t].pc = "idle" BY <1>2, <2>3 DEF Goto, Idle
    <3>2. Owes(t) = 0 /\ Owes(t)' = 0 BY <2>1, <3>1 DEF Owes
    <3> QED BY <1>5, <2>1, <2>3, <3>2
  <2>4. \/ \E x \in Blocks \ DOMAIN maps : /\ maps' = With(maps, x, size)
                                           /\ Goto(t, [th[t] EXCEPT !.pc = "count", !.b = x])
        \/ Goto(t, Idle) /\ maps' = maps
    BY <1>12 DEF Map, Fail, size
  <2> QED BY <2>2, <2>3, <2>4
<1>13. ASSUME NEW x \in DOMAIN mine, NEW r \in Requests, ReallocRemap(t, x, r) PROVE MemoryInv'
  <2> DEFINE size == NewSize(x, r)  new == size - hdr[x].sz - hdr[x].off
  <2>1. /\ th[t].pc = "idle" /\ maps' = [maps EXCEPT ![x] = size] /\ remaps' = remaps + 1 /\ mp' = mp
        /\ th' = [th EXCEPT ![t] = [Idle EXCEPT !.pc = "remap_mem", !.b = x, !.r = r, !.new = new]]
    BY <1>13 DEF ReallocRemap, At, Goto
  <2> HIDE DEF size
  <2>2. /\ x \in DOMAIN maps /\ x # None /\ hdr[x] \in [off : Nat, sz : Nat] /\ maps[x] \in Nat
        /\ maps[x] = MmapSize(x)
    BY HandFacts, MmapAssumption DEF TypeOK, BlocksInv
  <2>3. DOMAIN maps' = DOMAIN maps /\ maps'[x] = size /\ \A y \in DOMAIN maps \ {x} : maps'[y] = maps[y]
    BY <2>1, <2>2 DEF TypeOK
  <2>4. size \in Nat BY <1>1, <2>2, <2>3 DEF TypeOK
  <2>5. th'[t].pc = "remap_mem" /\ th'[t].b = x /\ th'[t].new = new BY <1>2, <2>1 DEF Idle
  <2>6. b = None BY <1>3, <2>1 DEF CallOK, Asking
  <2>7. Added[x] = maps[x]
    <3>1. \A u \in Threads : th[u].b # x
      <4>1. ASSUME NEW u \in Threads, th[u].b = x PROVE FALSE
        <5>1. x \in Hands(u) BY <2>2, <4>1 DEF Hands
        <5> QED BY <5>1, HandFacts
      <4> QED BY <4>1
    <3> QED BY <1>3, <2>2, <3>1 DEF AddedFacts
  <2>8. Added'[x] = size - new
    <3>1. Owes(t)' = new BY <2>5 DEF Owes
    <3> QED BY <1>3, <2>2, <2>3, <2>5, <3>1 DEF AddedFacts
  <2>9. /\ u0 \in Nat
        /\ Units(Added', DOMAIN maps') = u0 + (IF x \in DOMAIN maps' THEN Added'[x] ELSE 0)
                                            - (IF x \in DOMAIN maps THEN Added[x] ELSE 0)
    <3>1. /\ DOMAIN maps \ {x} = DOMAIN maps' \ {x} /\ \A y \in DOMAIN maps \ {x} : maps'[y] = maps[y]
          /\ th[t].b \in {None, x} /\ th'[t].b \in {None, x}
      BY <2>3, <2>5, <2>6
    <3> QED BY <1>1, <3>1, MemoryMoves
  <2>10. size - new = maps[x] - HDR BY <2>2, <2>4 DEF MmapSize, HDR
  <2>11. Units(Added', DOMAIN maps') = u0 - HDR BY <2>2, <2>3, <2>7, <2>8, <2>9, <2>10 DEF HDR
  <2>12. HDR * remaps' = HDR * remaps + HDR /\ HDR * remaps \in Nat BY <1>2, <2>1 DEF HDR
  <2>13. mp'.mmapped_mem = Units(Added', DOMAIN maps') + HDR * remaps'
    BY <1>4, <2>1, <2>9, <2>11, <2>12 DEF HDR
  <2> QED BY <2>13 DEF MemoryInv
<1>14. CASE Count(t) \/ CountMax(t) \/ SetThreshold(t) \/ SetTrim(t) \/ UnmapCount(t) \/ RemapMax(t)
  <2>1. CASE Count(t)
    BY <1>2, <1>5, <2>1 DEF Count, At, Goto, Params, Calls, Owes, ghosts
  <2>2. CASE CountMax(t)
    BY <1>2, <1>5, <2>2 DEF CountMax, AtomicMax, At, Goto, Params, Calls, Owes, ghosts
  <2>3. CASE SetThreshold(t)
    BY <1>2, <1>5, <2>3 DEF SetThreshold, At, Goto, Params, Calls, Owes, ghosts
  <2>4. CASE SetTrim(t)
    BY <1>2, <1>5, <2>4 DEF SetTrim, At, Goto, Params, Calls, Owes, ghosts
  <2>5. CASE UnmapCount(t)
    BY <1>2, <1>5, <2>5 DEF UnmapCount, At, Goto, Params, Calls, Owes, ghosts
  <2>6. CASE RemapMax(t)
    BY <1>2, <1>5, <2>6 DEF RemapMax, AtomicMax, At, Goto, Idle, Params, Calls, Owes, ghosts
  <2> QED BY <1>14, <2>1, <2>2, <2>3, <2>4, <2>5, <2>6
<1>15. ASSUME th[t].pc \in {"idle", "mallopt", "mem_max", "limit", "limit_max", "threshold"},
              maps' = maps, remaps' = remaps, mp'.mmapped_mem = mp.mmapped_mem,
              th'[t].pc \in {"idle", "limit", "limit_max", "map", "mallopt", "unmap_count",
                             "threshold", "set_threshold"}
       PROVE  MemoryInv'
  <2>1. Owes(t) = 0 /\ Owes(t)' = 0 BY <1>15 DEF Owes
  <2> QED BY <1>5, <1>15, <2>1
<1>16. CASE MemMax(t)
  BY <1>2, <1>15, <1>16, MemMaxFacts DEF MemMax, AtomicMax, Params
<1>17. CASE NoDyn(t)
  BY <1>2, <1>15, <1>17 DEF NoDyn, At, Goto, Idle, Params
<1>18. ASSUME NEW v, NEW f \in {"mmap_threshold", "trim_threshold", "n_mmaps_max"}, Mallopt(t, f, v)
       PROVE  MemoryInv'
  BY <1>2, <1>15, <1>18 DEF Mallopt, At, Goto, Idle, Params
<1>19. ASSUME NEW x, Free(t, x) PROVE MemoryInv'
  BY <1>2, <1>15, <1>19 DEF Free, At, Goto, Idle, ghosts
<1>20. CASE Asks(t) BY <1>15, <1>20, AskFacts
<1>21. ASSUME NEW x, NEW r, ReallocSame(t, x, r) \/ ReallocArena(t, x, r) PROVE MemoryInv'
  <2>1. /\ th[t].pc = "idle" /\ mp' = mp /\ maps' = maps /\ remaps' = remaps
        /\ th'[t].pc \in {"idle", "unmap_count"}
    BY <1>2, <1>21, ZenonT(40) DEF ReallocSame, ReallocArena, CopyAndUnmap, At, Goto, Idle, ghosts
  <2> QED BY <1>15, <2>1
<1>22. CASE Limit(t) BY <1>2, <1>15, <1>22 DEF Limit, At, Goto, Calls, ghosts
<1>23. CASE LimitMax(t) BY <1>15, <1>23, LimitMaxFacts
<1>24. CASE ReadThreshold(t) BY <1>2, <1>15, <1>24 DEF ReadThreshold, At, Goto, Calls, ghosts
<1> QED BY <1>8, <1>9, <1>10, <1>11, <1>12, <1>13, <1>14, <1>16, <1>17, <1>18, <1>19, <1>20,
           <1>21, <1>22, <1>23, <1>24
     DEF Acts, Step, Asks

(* Lemma: the thread that made the latest sum raises the peak to it.       *)
LEMMA PeaksStep ==
  ASSUME TypeOK, BlocksInv, PeaksInv, NEW t \in Threads, Acts(t)
  PROVE  PeaksInv'
<1> DEFINE num == \/ mp.n_mmaps <= mp.max_n_mmaps
                  \/ \E u \in Threads : th[u].pc = "count_max" /\ mp.n_mmaps <= th[u].new
           mem == \/ mp.mmapped_mem <= mp.max_mmapped_mem
                  \/ \E u \in Threads : /\ th[u].pc \in {"mem_max", "remap_max"}
                                        /\ mp.mmapped_mem <= th[u].new
<1>1. /\ \A u \in Threads \ {t} : th'[u] = th[u]
      /\ mp \in Params /\ mp' \in Params /\ th[t] \in Calls /\ th'[t] \in Calls
      /\ th \in [Threads -> Calls] /\ CallOK(t)
  BY ActsFacts DEF TypeOK, BlocksInv
<1>2. /\ mp.n_mmaps \in Int /\ mp.max_n_mmaps \in Int /\ mp'.n_mmaps \in Int /\ mp'.max_n_mmaps \in Int
      /\ mp.mmapped_mem \in Int /\ mp.max_mmapped_mem \in Int
      /\ mp'.mmapped_mem \in Int /\ mp'.max_mmapped_mem \in Int
      /\ \A u \in Threads : th[u].new \in Int
  BY <1>1 DEF Params, Calls
<1>3. num /\ mem BY DEF PeaksInv
<1>4. ASSUME mp'.n_mmaps <= mp.n_mmaps, mp'.max_n_mmaps >= mp.max_n_mmaps,
             th[t].pc = "count_max" => mp'.max_n_mmaps >= th[t].new
      PROVE  num'
  <2>1. CASE mp.n_mmaps <= mp.max_n_mmaps BY <1>2, <1>4, <2>1
  <2>2. ASSUME NEW u \in Threads, th[u].pc = "count_max", mp.n_mmaps <= th[u].new PROVE num'
    <3>1. CASE u = t BY <1>2, <1>4, <2>2, <3>1
    <3>2. CASE u # t
      <4>1. th'[u] = th[u] BY <1>1, <3>2
      <4>2. mp'.n_mmaps <= th[u].new BY <1>2, <1>4, <2>2
      <4> QED BY <2>2, <4>1, <4>2
    <3> QED BY <3>1, <3>2
  <2> QED BY <1>3, <2>1, <2>2
<1>5. ASSUME mp'.mmapped_mem <= mp.mmapped_mem, mp'.max_mmapped_mem >= mp.max_mmapped_mem,
             th[t].pc \in {"mem_max", "remap_max"} => mp'.max_mmapped_mem >= th[t].new
      PROVE  mem'
  <2>1. CASE mp.mmapped_mem <= mp.max_mmapped_mem BY <1>2, <1>5, <2>1
  <2>2. ASSUME NEW u \in Threads, th[u].pc \in {"mem_max", "remap_max"}, mp.mmapped_mem <= th[u].new
        PROVE mem'
    <3>1. CASE u = t BY <1>2, <1>5, <2>2, <3>1
    <3>2. CASE u # t
      <4>1. th'[u] = th[u] BY <1>1, <3>2
      <4>2. mp'.mmapped_mem <= th[u].new BY <1>2, <1>5, <2>2
      <4> QED BY <2>2, <4>1, <4>2
    <3> QED BY <3>1, <3>2
  <2> QED BY <1>3, <2>1, <2>2
<1> DEFINE Lower == /\ mp'.n_mmaps <= mp.n_mmaps /\ mp'.max_n_mmaps >= mp.max_n_mmaps
                    /\ (th[t].pc = "count_max" => mp'.max_n_mmaps >= th[t].new)
           LowerMem == /\ mp'.mmapped_mem <= mp.mmapped_mem
                       /\ mp'.max_mmapped_mem >= mp.max_mmapped_mem
                       /\ (th[t].pc \in {"mem_max", "remap_max"} => mp'.max_mmapped_mem >= th[t].new)
<1>6. CASE Count(t)
  <2>1. /\ th[t].pc = "count" /\ th'[t].pc = "count_max" /\ th'[t].new = mp.n_mmaps + 1
        /\ mp'.n_mmaps = mp.n_mmaps + 1 /\ mp'.mmapped_mem = mp.mmapped_mem
        /\ mp'.max_mmapped_mem = mp.max_mmapped_mem
    BY <1>1, <1>2, <1>6 DEF Count, At, Goto, Params, Calls
  <2>2. num' BY <1>2, <2>1
  <2>3. LowerMem BY <1>2, <2>1
  <2> QED BY <1>5, <2>2, <2>3 DEF PeaksInv
<1>7. CASE CountMax(t)
  <2>1. /\ th[t].pc = "count_max" /\ mp'.max_n_mmaps = Larger(mp.max_n_mmaps, th[t].new)
        /\ mp'.n_mmaps = mp.n_mmaps /\ mp'.mmapped_mem = mp.mmapped_mem
        /\ mp'.max_mmapped_mem = mp.max_mmapped_mem
    BY <1>1, <1>7 DEF CountMax, AtomicMax, At, Params
  <2>2. Lower /\ LowerMem BY <1>2, <2>1 DEF Larger
  <2> QED BY <1>4, <1>5, <2>2 DEF PeaksInv
<1>8. CASE Mem(t) \/ RemapMem(t)
  <2>1. /\ th[t].pc \in {"mem", "remap_mem"} /\ th'[t].pc \in {"mem_max", "remap_max"}
        /\ mp'.mmapped_mem = th'[t].new
        /\ mp'.max_n_mmaps = mp.max_n_mmaps /\ mp'.n_mmaps = mp.n_mmaps
    <3>1. CASE Mem(t) BY <1>1, <3>1 DEF Mem, At, Goto, Params, Calls
    <3>2. CASE RemapMem(t) BY <1>1, <3>2 DEF RemapMem, At, Goto, Params, Calls
    <3> QED BY <1>8, <3>1, <3>2
  <2>2. mem' BY <1>2, <2>1
  <2>3. Lower BY <1>2, <2>1
  <2> QED BY <1>4, <2>2, <2>3 DEF PeaksInv
<1>9. CASE MemMax(t) \/ RemapMax(t)
  <2>1. /\ th[t].pc \in {"mem_max", "remap_max"}
        /\ mp'.max_mmapped_mem = Larger(mp.max_mmapped_mem, th[t].new)
        /\ mp'.n_mmaps = mp.n_mmaps /\ mp'.mmapped_mem = mp.mmapped_mem
        /\ mp'.max_n_mmaps = mp.max_n_mmaps
    BY <1>1, <1>9 DEF MemMax, RemapMax, AtomicMax, At, Params
  <2>2. Lower /\ LowerMem BY <1>2, <2>1 DEF Larger
  <2> QED BY <1>4, <1>5, <2>2 DEF PeaksInv
<1>10. ASSUME th[t].pc \notin {"count_max", "mem_max", "remap_max"},
              mp'.n_mmaps <= mp.n_mmaps /\ mp'.max_n_mmaps = mp.max_n_mmaps,
              mp'.mmapped_mem <= mp.mmapped_mem /\ mp'.max_mmapped_mem = mp.max_mmapped_mem
       PROVE  PeaksInv'
  BY <1>2, <1>4, <1>5, <1>10 DEF PeaksInv
<1>11. CASE UnmapCount(t)
  <2>1. /\ th[t].pc = "unmap_count" /\ mp'.n_mmaps = mp.n_mmaps - 1
        /\ mp'.max_n_mmaps = mp.max_n_mmaps /\ mp'.mmapped_mem = mp.mmapped_mem
        /\ mp'.max_mmapped_mem = mp.max_mmapped_mem
    BY <1>1, <1>11 DEF UnmapCount, At, Params
  <2> QED BY <1>2, <1>10, <2>1
<1>12. CASE UnmapMem(t)
  <2>1. /\ th[t].pc = "unmap_mem" /\ mp'.mmapped_mem = mp.mmapped_mem - MmapSize(th[t].b)
        /\ mp'.n_mmaps = mp.n_mmaps
        /\ mp'.max_n_mmaps = mp.max_n_mmaps /\ mp'.max_mmapped_mem = mp.max_mmapped_mem
    BY <1>1, <1>12 DEF UnmapMem, At, Params
  <2>2. th[t].b \in Hands(t) BY <1>1, <2>1 DEF CallOK, Asking, Hands
  <2>3. hdr[th[t].b] \in [off : Nat, sz : Nat] BY <2>2, HandFacts
  <2>4. MmapSize(th[t].b) \in Nat BY <2>3 DEF MmapSize, HDR
  <2> QED BY <1>2, <1>10, <2>1, <2>4
<1>13. CASE SetThreshold(t) \/ SetTrim(t) \/ NoDyn(t)
  <2>1. /\ th[t].pc \in {"set_threshold", "set_trim", "mallopt"} /\ mp'.n_mmaps = mp.n_mmaps
        /\ mp'.max_n_mmaps = mp.max_n_mmaps /\ mp'.mmapped_mem = mp.mmapped_mem
        /\ mp'.max_mmapped_mem = mp.max_mmapped_mem
    <3>1. CASE SetThreshold(t) BY <1>1, <3>1 DEF SetThreshold, At, Params
    <3>2. CASE SetTrim(t) BY <1>1, <3>2 DEF SetTrim, At, Params
    <3>3. CASE NoDyn(t) BY <1>1, <3>3 DEF NoDyn, At, Params
    <3> QED BY <1>13, <3>1, <3>2, <3>3
  <2> QED BY <1>2, <1>10, <2>1
<1>14. ASSUME NEW v, NEW f \in {"mmap_threshold", "trim_threshold", "n_mmaps_max"}, Mallopt(t, f, v)
       PROVE  PeaksInv'
  <2>1. /\ th[t].pc = "idle" /\ mp'.n_mmaps = mp.n_mmaps
        /\ mp'.max_n_mmaps = mp.max_n_mmaps /\ mp'.mmapped_mem = mp.mmapped_mem
        /\ mp'.max_mmapped_mem = mp.max_mmapped_mem
    BY <1>1, <1>14 DEF Mallopt, At, Params
  <2> QED BY <1>2, <1>10, <2>1
<1>15. ASSUME th[t].pc \in {"idle", "limit", "limit_max", "map", "threshold", "unmap"}, mp' = mp
       PROVE  PeaksInv'
  BY <1>2, <1>10, <1>15, SMTT(40)
<1>16. ASSUME NEW r, \/ Malloc(t, r) \/ (\E al \in Alignments : Memalign(t, al, r))
                     \/ \E x \in DOMAIN mine : \/ ReallocSame(t, x, r) \/ ReallocRemap(t, x, r)
                                               \/ ReallocMap(t, x, r) \/ ReallocArena(t, x, r)
       PROVE  PeaksInv'
  BY <1>15, <1>16 DEF Malloc, Memalign, ReallocSame, ReallocRemap, ReallocMap, ReallocArena, At
<1>17. ASSUME NEW x, Free(t, x) PROVE PeaksInv' BY <1>15, <1>17 DEF Free, At
<1>18. CASE Map(t) \/ Unmap(t) \/ Limit(t) \/ LimitMax(t) \/ ReadThreshold(t)
  BY <1>15, <1>18 DEF Map, Unmap, Limit, LimitMax, ReadThreshold, At
<1> QED BY <1>6, <1>7, <1>8, <1>9, <1>11, <1>12, <1>13, <1>14, <1>16, <1>17, <1>18 DEF Acts, Step

-----------------------------------------------------------------------------
(* The theorems.                                                           *)

(* Lemma: the invariant holds at the start.                                *)
LEMMA InitIInv == Init => IInv
<1> SUFFICES ASSUME Init PROVE IInv OBVIOUS
<1>1. maps = [b \in {} |-> 0] /\ hdr = [b \in {} |-> 0] /\ mine = [b \in {} |-> 0]
      /\ DOMAIN maps = {} /\ DOMAIN mine = {}
  BY DEF Init
<1>2. th = [t \in Threads |-> Idle] /\ remaps = 0 /\ fallbacks = 0 /\ manual = None BY DEF Init
<1>3. /\ mp.n_mmaps = 0 /\ mp.n_mmaps_max \in MmapsMax /\ mp.max_n_mmaps = 0
      /\ mp.mmapped_mem = 0 /\ mp.max_mmapped_mem = 0
  BY DEF Init
<1>4. mp \in Params
  <2>1. MmapsMax \subseteq Int /\ Threshold \in Int /\ 2 * Threshold \in Int BY MmapAssumption
  <2>2. mp \in [n_mmaps : {0}, n_mmaps_max : MmapsMax, max_n_mmaps : {0},
                mmapped_mem : {0}, max_mmapped_mem : {0}, no_dyn : {FALSE},
                mmap_threshold : {Threshold}, trim_threshold : {2 * Threshold}]
    BY DEF Init
  <2>3. mp = [n_mmaps |-> mp.n_mmaps, n_mmaps_max |-> mp.n_mmaps_max,
              max_n_mmaps |-> mp.max_n_mmaps, mmapped_mem |-> mp.mmapped_mem,
              max_mmapped_mem |-> mp.max_mmapped_mem, no_dyn |-> mp.no_dyn,
              mmap_threshold |-> mp.mmap_threshold, trim_threshold |-> mp.trim_threshold]
    BY <2>2
  <2>4. mp.n_mmaps \in Int /\ mp.max_n_mmaps \in Int /\ mp.mmapped_mem \in Int
        /\ mp.max_mmapped_mem \in Int /\ mp.n_mmaps_max \in Int
    <3>1. 0 \in Int OBVIOUS
    <3>2. mp.n_mmaps_max \in Int BY <1>3, <2>1
    <3> QED BY <1>3, <3>1, <3>2
  <2>5. mp.no_dyn = FALSE /\ mp.mmap_threshold = Threshold /\ mp.trim_threshold = 2 * Threshold
    BY <2>2
  <2>6. mp.mmap_threshold \in Int /\ mp.trim_threshold \in Int BY <2>1, <2>5
  <2>7. mp.no_dyn \in BOOLEAN BY <2>5
  <2> QED BY <2>3, <2>4, <2>6, <2>7 DEF Params
<1>5. TypeOK
  <2>1. hdr \in [DOMAIN maps -> [off : Nat, sz : Nat]] BY <1>1
  <2>2. maps \in [DOMAIN maps -> Nat] /\ mine \in [DOMAIN mine -> Nat] BY <1>1
  <2>3. th \in [Threads -> Calls] BY <1>2, IdleCall
  <2> QED BY <1>1, <1>2, <1>4, <2>1, <2>2, <2>3 DEF TypeOK
<1>6. BlocksInv
  <2>1. \A t \in Threads : th[t] = Idle BY <1>2
  <2>2. \A t \in Threads : Hands(t) = {} BY <2>1, IdleCall DEF Hands
  <2>3. \A t \in Threads : CallOK(t) BY <2>1, <2>2, IdleCall DEF CallOK, Asking, Making
  <2> QED BY <1>1, <2>2, <2>3 DEF BlocksInv
<1>7. \A t \in Threads : th[t].pc = "idle" BY <1>2, IdleCall
<1>8. NumberInv
  <2>1. Uncounted = {} BY <1>7 DEF Uncounted
  <2>2. Cardinality({}) = 0 BY FS_EmptySet
  <2> QED BY <1>1, <1>3, <2>1, <2>2 DEF NumberInv
<1>9. MemoryInv
  <2>1. {{x} \X (1 .. Added[x]) : x \in DOMAIN maps} = {} BY <1>1
  <2>2. UNION {{x} \X (1 .. Added[x]) : x \in DOMAIN maps} = {} BY <2>1
  <2>3. Units(Added, DOMAIN maps) = 0 BY <2>2, FS_EmptySet DEF Units
  <2> QED BY <1>2, <1>3, <2>3 DEF MemoryInv, HDR
<1>10. PeaksInv BY <1>3 DEF PeaksInv
<1>11. LimitInv
  <2>1. Admitted = {} BY <1>7 DEF Admitted
  <2>2. Cardinality({}) = 0 BY FS_EmptySet
  <2>3. Max(MmapsMax) \in Nat
    <3>1. MmapsMax \in SUBSET Nat /\ IsFiniteSet(MmapsMax) /\ MmapsMax # {} BY MmapAssumption
    <3> QED BY <3>1, MaxBounds
  <2>4. Cardinality(Threads) \in Nat /\ Cardinality(Threads) # 0
    BY MmapAssumption, FS_CardinalityType, FS_EmptySet
  <2> QED BY <1>2, <1>3, <2>1, <2>2, <2>3, <2>4 DEF LimitInv
<1>12. ManualInv BY <1>2 DEF ManualInv
<1> QED BY <1>5, <1>6, <1>8, <1>9, <1>10, <1>11, <1>12 DEF IInv

(* Lemma: every step keeps the invariant.                                  *)
LEMMA IInvStep == IInv /\ [Next]_vars => IInv'
<1> SUFFICES ASSUME IInv, [Next]_vars PROVE IInv' OBVIOUS
<1>1. ASSUME NEW t \in Threads, Acts(t) PROVE IInv'
  <2>1. TypeOK' /\ BlocksInv' BY <1>1, BlocksSteps DEF IInv
  <2>2. NumberInv' BY <1>1, NumberStep DEF IInv
  <2>3. MemoryInv' BY <1>1, MemoryStep DEF IInv
  <2>4. PeaksInv' BY <1>1, PeaksStep DEF IInv
  <2>5. LimitInv' BY <1>1, LimitStep DEF IInv
  <2>6. ManualInv' BY <1>1, ManualStep DEF IInv
  <2> QED BY <2>1, <2>2, <2>3, <2>4, <2>5, <2>6 DEF IInv
<1>2. CASE Next
  <2>1. \E t \in Threads : Acts(t) BY <1>2 DEF Next, Acts
  <2> QED BY <1>1, <2>1
<1>3. CASE UNCHANGED vars
  <2> USE <1>3 DEF vars, ghosts
  <2>1. TypeOK' BY DEF IInv, TypeOK
  <2>2. \A t \in Threads : CallOK(t)' /\ Hands(t)' = Hands(t)
    BY DEF IInv, BlocksInv, CallOK, Asking, Hands, Usable, Lead
  <2>3. BlocksInv'
    <3>1. \A x : MmapSize(x)' = MmapSize(x) /\ Usable(x)' = Usable(x) BY DEF MmapSize, Usable
    <3> QED BY <2>2, <3>1 DEF IInv, BlocksInv
  <2>4. NumberInv' BY DEF IInv, NumberInv, Uncounted
  <2>5. MemoryInv'
    <3>1. \A t : Owes(t)' = Owes(t) BY DEF Owes
    <3>2. Added' = Added BY <3>1 DEF Added
    <3> QED BY <3>2 DEF IInv, MemoryInv, Units
  <2>6. PeaksInv' BY DEF IInv, PeaksInv
  <2>7. LimitInv' BY DEF IInv, LimitInv, Admitted
  <2>8. ManualInv' BY DEF IInv, ManualInv
  <2> QED BY <2>1, <2>3, <2>4, <2>5, <2>6, <2>7, <2>8 DEF IInv
<1> QED BY <1>2, <1>3

(* Theorem: the inductive invariant always holds.                          *)
THEOREM MmapInvariant == Spec => []IInv
BY InitIInv, IInvStep, PTL DEF Spec

(* Theorem: the two counters come out right whenever nobody is in a call,  *)
(* however the atomic steps of malloc, free and realloc have interleaved.  *)
THEOREM MmapCountsExact == Spec => []CountsExact
<1>1. IInv => CountsExact
  <2> SUFFICES ASSUME IInv, Quiet PROVE /\ mp.n_mmaps = Cardinality(DOMAIN maps)
                                        /\ mp.mmapped_mem = Mapped + HDR * remaps
    BY DEF CountsExact
  <2>1. \A t \in Threads : th[t].pc = "idle" BY DEF Quiet
  <2>2. IsFiniteSet(DOMAIN maps) /\ Cardinality(DOMAIN maps) \in Nat
    BY MmapAssumption, FS_Subset, FS_CardinalityType DEF IInv, TypeOK
  <2>3. Uncounted = {} /\ Cardinality({}) = 0 BY <2>1, FS_EmptySet DEF Uncounted
  <2>4. mp.n_mmaps = Cardinality(DOMAIN maps) BY <2>2, <2>3 DEF IInv, NumberInv
  <2>5. \A x \in DOMAIN maps : Added[x] = maps[x]
    <3>1. \A t \in Threads : th[t].b = None BY <2>1 DEF IInv, BlocksInv, CallOK, Asking
    <3>2. \A x \in DOMAIN maps : x # None BY MmapAssumption DEF IInv, TypeOK
    <3> QED BY <3>1, <3>2, AddedValue DEF AddedFacts, IInv
  <2>6. {{x} \X (1 .. Added[x]) : x \in DOMAIN maps} = {{x} \X (1 .. maps[x]) : x \in DOMAIN maps}
    BY <2>5
  <2>7. Units(Added, DOMAIN maps) = Mapped BY <2>6 DEF Units, Mapped
  <2> QED BY <2>4, <2>7 DEF IInv, MemoryInv
<1> QED BY <1>1, MmapInvariant, PTL

(* Theorem: a peak is never below what it is the peak of, although a       *)
(* thread can hold an old sum for long before it stores it.                *)
THEOREM MmapPeaksCovered == Spec => []PeaksCovered
<1>1. IInv => PeaksCovered
  <2> SUFFICES ASSUME IInv, Quiet PROVE mp.max_n_mmaps >= mp.n_mmaps
                                        /\ mp.max_mmapped_mem >= mp.mmapped_mem
    BY DEF PeaksCovered
  <2>1. mp \in Params BY DEF IInv, TypeOK
  <2>2. mp.n_mmaps <= mp.max_n_mmaps /\ mp.mmapped_mem <= mp.max_mmapped_mem
    BY DEF IInv, PeaksInv, Quiet
  <2> QED BY <2>1, <2>2 DEF Params
<1> QED BY <1>1, MmapInvariant, PTL

(* Theorem: threads that test n_mmaps before they count their mapping      *)
(* exceed M_MMAP_MAX by at most one each, but for the first.               *)
THEOREM MmapLimitOvershoot == Spec => []LimitOvershoot
<1>1. IInv => LimitOvershoot
  <2> SUFFICES ASSUME IInv PROVE LimitOvershoot OBVIOUS
  <2>1. IsFiniteSet(Threads) /\ IsFiniteSet(Admitted)
    BY MmapAssumption, FS_Subset DEF Admitted
  <2>2. Cardinality(Threads) \in Nat /\ Cardinality(Admitted) \in Nat BY <2>1, FS_CardinalityType
  <2>3. Max(MmapsMax) \in Nat
    <3>1. MmapsMax \in SUBSET Nat /\ IsFiniteSet(MmapsMax) /\ MmapsMax # {} BY MmapAssumption
    <3> QED BY <3>1, MaxBounds
  <2>4. mp.n_mmaps \in Int /\ fallbacks \in Nat BY DEF IInv, TypeOK, Params
  <2>5. mp.n_mmaps + Cardinality(Admitted)
          <= Max(MmapsMax) + (Cardinality(Threads) - 1) + fallbacks
    BY DEF IInv, LimitInv
  <2> QED BY <2>2, <2>3, <2>4, <2>5 DEF LimitOvershoot
<1> QED BY <1>1, MmapInvariant, PTL

(* Theorem: the header of a mapped block always names exactly the pages    *)
(* that the system has mapped for it, and the block has room for what the  *)
(* program asked for.                                                      *)
THEOREM MmapBlocksWhole == Spec => []BlocksWhole
<1>1. IInv => BlocksWhole BY DEF IInv, TypeOK, BlocksInv, BlocksWhole
<1> QED BY <1>1, MmapInvariant, PTL

(* Theorem: no free moves a threshold that a mallopt has set.              *)
THEOREM MmapManualThresholdKept == Spec => []ManualThresholdKept
<1>1. IInv => ManualThresholdKept BY DEF IInv, ManualInv, ManualThresholdKept
<1> QED BY <1>1, MmapInvariant, PTL
=============================================================================
