--------------------------- MODULE ScallocCalloc ---------------------------
(***************************************************************************)
(* calloc over the heap of ScallocHeap: which part of a chunk it clears.   *)
(* A chunk cut from top may be memory that the system has just cleared.    *)
(* calloc finds that out from top and its size, read before _int_malloc    *)
(* (which may consolidate and grow the heap), and from the largest size    *)
(* the heap ever had, because memory given back to the system and taken    *)
(* again is unspecified (MORECORE_CLEARS is 1).                            *)
(*                                                                         *)
(* Contents are looked at in words of SIZE_SZ, two to a unit: word 2a is   *)
(* the prev_size word of a chunk at a and word 2a + 1 its size word, so    *)
(* that a chunk's memory is the words from 2a + 2 to the prev_size word of *)
(* the next chunk.  The words from `garbage` on are zero.                  *)
(***************************************************************************)
EXTENDS ScallocHeap

VARIABLES
  max_system_mem,  \* av->max_system_mem
  garbage,         \* the words below it may be non-zero
  overgrown,       \* a systrim made the heap larger than max_system_mem
  call,            \* the calloc in progress, which has the arena's mutex
  stale            \* words a calloc returned that may be non-zero

callocVars == <<max_system_mem, garbage, overgrown, call, stale>>

NoCall == [nb |-> 0, oldtop |-> None, oldtopsize |-> 0]
InCalloc == call # NoCall

CallocInit ==
  /\ Init
  /\ max_system_mem = 0 /\ garbage = 0 /\ overgrown = FALSE
  /\ call = NoCall /\ stale = {}

Larger(m, n) == IF m < n THEN n ELSE m

(* Whatever lies below top, and top's own header, may have been written,   *)
(* and what the heap gave back has unspecified contents.                   *)
Dirtied == garbage' =
  Larger(garbage, Larger(2 * top' + 2, IF system_mem' < system_mem THEN 2 * system_mem ELSE 0))

(* Only sysmalloc raises max_system_mem; systrim, which grows the heap     *)
(* when top is MINSIZE, does not.                                          *)
Sysmalloced(brk) ==
  max_system_mem' = IF brk > system_mem THEN Larger(max_system_mem, brk) ELSE max_system_mem

(* Everything else that happens to the heap.                               *)
Policy ==
  /\ ~InCalloc
  /\ (\E c \in free : OnFree(c)) \/ (\E c \in Held : OnHeld(c))
  /\ Dirtied /\ stale' = {}
  /\ UNCHANGED <<max_system_mem, overgrown, call>>

Trim(brk) ==
  /\ ~InCalloc
  /\ MoveBreak(brk)
  /\ overgrown' = (overgrown \/ brk > max_system_mem)
  /\ Dirtied /\ stale' = {}
  /\ UNCHANGED <<max_system_mem, call>>

Top(brk, nb) ==
  /\ ~InCalloc
  /\ CutTop(brk, nb) /\ Sysmalloced(brk)
  /\ Dirtied /\ stale' = {}
  /\ UNCHANGED <<overgrown, call>>

(* top and what the heap has behind it that may not be clear.  Before the  *)
(* first sysmalloc top is not in the heap.                                 *)
OldTopSize_TopOnly == hdr[top].sz
OldTopSize == Larger(hdr[top].sz, max_system_mem - top)

Calloc(nb) ==
  /\ ~InCalloc /\ nb >= MINSIZE
  /\ call' = [nb |-> nb, oldtop |-> IF system_mem = 0 THEN None ELSE top,
              oldtopsize |-> OldTopSize]
  /\ stale' = {}
  /\ UNCHANGED <<vars, max_system_mem, garbage, overgrown>>

(* _int_malloc consolidates a fast chunk.                                  *)
CallocConsolidate(c) ==
  /\ InCalloc
  /\ FreeChunk(c) /\ Dirtied
  /\ UNCHANGED <<max_system_mem, overgrown, call, stale>>

(* The words of chunk p, of csz units, that calloc does not clear.         *)
Uncleared(p, csz) ==
  LET clear == IF p = call.oldtop /\ csz > call.oldtopsize THEN call.oldtopsize ELSE csz
  IN  (2 * p + 2 .. 2 * (p + csz)) \ (2 * p + 2 .. 2 * p + 2 + (2 * clear - 1) - 1)

Returns(p) ==
  /\ stale' = {w \in Uncleared(p, hdr'[p].sz) : w < garbage}
  /\ call' = NoCall
  /\ Dirtied /\ UNCHANGED overgrown

(* The chunk comes from a bin, whole or split, from a fastbin or from top; *)
(* or there is none.                                                       *)
CallocBin(c) ==
  /\ InCalloc
  /\ \/ hdr[c].sz >= call.nb /\ TooSmall(hdr[c].sz - call.nb) /\ Take(c)
     \/ TakePart(c, call.nb)
  /\ Returns(c) /\ UNCHANGED max_system_mem

CallocFast(c) ==
  /\ InCalloc /\ hdr[c].sz = call.nb
  /\ UNCHANGED vars
  /\ Returns(c) /\ UNCHANGED max_system_mem

CallocTop(brk) ==
  /\ InCalloc
  /\ CutTop(brk, call.nb)
  /\ Returns(top) /\ Sysmalloced(brk)

CallocFails ==
  /\ InCalloc
  /\ call' = NoCall
  /\ UNCHANGED <<vars, max_system_mem, garbage, overgrown, stale>>

CallocNext ==
  \/ Policy
  \/ \E brk \in Brks : Trim(brk) \/ \E nb \in Sizes : Top(brk, nb)
  \/ \E nb \in Sizes : Calloc(nb)
  \/ \E c \in Held : CallocConsolidate(c) \/ CallocFast(c)
  \/ \E c \in free : CallocBin(c)
  \/ \E brk \in Brks : CallocTop(brk)
  \/ CallocFails

CallocSpec == CallocInit /\ [][CallocNext]_<<vars, callocVars>>

-----------------------------------------------------------------------------
(* calloc returns cleared memory although it clears only a part of it:     *)
(* top may have been cut, trimmed, grown again and merged with what was    *)
(* before it since that memory was fresh.  (Unless systrim made the heap   *)
(* larger than max_system_mem knows: then memory it gave back may return.) *)
CallocClears == ~overgrown => stale = {}
=============================================================================
