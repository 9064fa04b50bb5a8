---------------------------- MODULE ScallocHeap ----------------------------
(***************************************************************************)
(* What the main arena promises about its memory, whatever policy chooses  *)
(* the chunks: the heap is cut into chunks that tile it up to the break,   *)
(* `free` is the set of chunks that a bin or the unsorted list holds, the  *)
(* top chunk borders the break, and everything else is held by somebody    *)
(* (the program, a fastbin, a thread's cache, a call in progress).         *)
(*                                                                         *)
(* Each action is one thing scalloc.c does to the headers.  ScallocArena   *)
(* refines it: the lists, sizes and threads there decide which action      *)
(* comes next and on which chunk.                                          *)
(***************************************************************************)
EXTENDS ScallocChunks

CONSTANT HeapLimit   \* bound: MORECORE fails beyond this many units

ASSUME HeapAssumption == HeapLimit \in Nat

VARIABLES
  hdr,         \* chunk address -> [sz, pinuse, psz]
  top,         \* av->top
  system_mem,  \* av->system_mem
  free         \* the chunks on a bin or on the unsorted list

vars == <<hdr, top, system_mem, free>>

Held == DOMAIN hdr \ (free \cup {top})

(* malloc_init_state: an empty top chunk at the base.                      *)
Init ==
  /\ hdr = [a \in {0} |-> [sz |-> 0, pinuse |-> TRUE, psz |-> 0]]
  /\ top = 0 /\ system_mem = 0 /\ free = {}

(* A free chunk is taken whole, or split with the rest staying free.       *)
Take(c) ==
  /\ hdr' = SetInuse(hdr, c)
  /\ free' = free \ {c}
  /\ UNCHANGED <<top, system_mem>>

TakePart(c, nb) ==
  /\ nb >= MINSIZE /\ ~TooSmall(hdr[c].sz - nb)
  /\ hdr' = SplitFree(hdr, c, nb)
  /\ free' = (free \ {c}) \cup {c + nb}
  /\ UNCHANGED <<top, system_mem>>

(* The break moves to brk: in a systrim, or before a request of nb units   *)
(* is cut from top.                                                        *)
Moved(brk) == [hdr EXCEPT ![top].sz = @ + (brk - system_mem)]

MoveBreak(brk) ==
  /\ hdr[top].sz + (brk - system_mem) >= MINSIZE
  /\ hdr' = Moved(brk) /\ system_mem' = brk
  /\ UNCHANGED <<top, free>>

CutTop(brk, nb) ==
  /\ brk >= system_mem
  /\ nb >= MINSIZE /\ hdr[top].sz + (brk - system_mem) >= nb + MINSIZE
  /\ hdr' = CutAt(Moved(brk), top, nb)
  /\ top' = top + nb /\ system_mem' = brk
  /\ UNCHANGED free

(* Chunk p, with headers h and free chunks F, is merged with its free      *)
(* neighbours or with top.                                                 *)
Release(h, F, p, backward) ==
  LET m == Merge(h, top, p, backward)
  IN  /\ hdr' = MergedHdr(h, m)
      /\ top' = IF m.atTop THEN m.q ELSE top
      /\ free' = (F \ {m.prev, m.next}) \cup (IF m.atTop THEN {} ELSE {m.q})
      /\ UNCHANGED system_mem

FreeChunk(c) == Release(hdr, free, c, TRUE)

(* _int_memalign: the first nb units of c are freed, the rest is kept.     *)
FreeLead(c, nb) ==
  /\ nb >= MINSIZE /\ ~TooSmall(hdr[c].sz - nb)
  /\ Release(CutAt(hdr, c, nb), free, c, TRUE)

(* What follows the first nb units of c is freed, if it can be a chunk or  *)
(* becomes part of one (_int_memalign), or stays in use as a fast chunk.   *)
FreeTail(h, F, c, nb) ==
  LET over == h[c].sz - nb
  IN  /\ nb >= MINSIZE /\ over > 0
      /\ TooSmall(over) /\ Next_(h, c) # top => ~InUseAfter(h, Next_(h, c))
      /\ Release(CutAt(h, c, nb), F, c + nb, FALSE)

KeepTail(h, F, c, nb) ==
  /\ nb >= MINSIZE /\ ~TooSmall(h[c].sz - nb)
  /\ hdr' = CutAt(h, c, nb)
  /\ free' = F
  /\ UNCHANGED <<top, system_mem>>

(* _int_realloc: c takes the chunk after it, free or its own result of     *)
(* _int_malloc, and is then as it is or cut down.                          *)
Joined(c) == SetInuse(Absorb(hdr, c), c)
Rest(c) == free \ {Next_(hdr, c)}

Join(c) ==
  /\ Next_(hdr, c) # top
  /\ hdr' = Joined(c)
  /\ free' = Rest(c)
  /\ UNCHANGED <<top, system_mem>>

JoinFreeTail(c, nb) == Next_(hdr, c) # top /\ FreeTail(Joined(c), Rest(c), c, nb)
JoinKeepTail(c, nb) == Next_(hdr, c) # top /\ KeepTail(Joined(c), Rest(c), c, nb)

(* ... or takes from top.                                                  *)
JoinTop(c, nb) ==
  /\ Next_(hdr, c) = top
  /\ nb > hdr[c].sz /\ hdr[c].sz + hdr[top].sz >= nb + MINSIZE
  /\ hdr' = CutAt(Absorb(hdr, c), c, nb)
  /\ top' = c + nb
  /\ UNCHANGED <<system_mem, free>>

Brks == 0 .. HeapLimit
Sizes == 1 .. HeapLimit

OnFree(c) == Take(c) \/ \E nb \in Sizes : TakePart(c, nb)
OnTop == \E brk \in Brks : MoveBreak(brk) \/ \E nb \in Sizes : CutTop(brk, nb)
OnHeld(c) ==
  \/ FreeChunk(c) \/ Join(c)
  \/ \E nb \in Sizes :
       \/ FreeLead(c, nb) \/ FreeTail(hdr, free, c, nb) \/ KeepTail(hdr, free, c, nb)
       \/ JoinFreeTail(c, nb) \/ JoinKeepTail(c, nb) \/ JoinTop(c, nb)

Next == (\E c \in free : OnFree(c)) \/ OnTop \/ (\E c \in Held : OnHeld(c))

Spec == Init /\ [][Next]_vars

-----------------------------------------------------------------------------
(* Properties.                                                             *)

(* Every header is a chunk's, and `free` holds chunks other than top; the  *)
(* prev_size word is kept at 0 while it belongs to the chunk before.       *)
TypeOK ==
  /\ DOMAIN hdr \subseteq Nat
  /\ hdr \in [DOMAIN hdr -> [sz : Nat, pinuse : BOOLEAN, psz : Nat]]
  /\ \A c \in DOMAIN hdr : hdr[c].pinuse => hdr[c].psz = 0
  /\ top \in DOMAIN hdr /\ system_mem \in Brks
  /\ free \subseteq DOMAIN hdr \ {top}

(* The chunks tile the heap from its base to the break, without gap or     *)
(* overlap, whatever was split, merged, grown or trimmed; none is smaller  *)
(* than MINSIZE, and top keeps MINSIZE and PREV_INUSE once the heap exists *)
(* (what do_check_malloc_state and sysmalloc assert).                      *)
Tiling ==
  /\ 0 \in DOMAIN hdr /\ Next_(hdr, top) = system_mem
  /\ system_mem > 0 => hdr[top].sz >= MINSIZE
  /\ hdr[top].pinuse
  /\ \A c \in DOMAIN hdr \ {top} :
       /\ hdr[c].sz >= MINSIZE /\ Next_(hdr, c) \in DOMAIN hdr
       /\ \A d \in DOMAIN hdr : d <= c \/ Next_(hdr, c) <= d

(* Boundary tags: the header after a chunk says that it is free exactly    *)
(* when it is on a bin or on the unsorted list (not in a fastbin, a        *)
(* thread's cache or somebody's hands), and then holds its size, so that   *)
(* free and unlink_chunk step backward to its start.                       *)
BoundaryTags ==
  \A c \in DOMAIN hdr \ {top} :
    LET next == hdr[Next_(hdr, c)]
    IN  /\ next.pinuse <=> c \notin free
        /\ c \in free => next.psz = hdr[c].sz

(* Coalescing is complete: no binned chunk borders another one or top      *)
(* ("no consolidated chunk physically borders another one").               *)
Coalesced == \A c \in free : Next_(hdr, c) # top /\ Next_(hdr, c) \notin free
=============================================================================
