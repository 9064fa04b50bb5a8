--------------------------- MODULE ScallocChunks ---------------------------
(***************************************************************************)
(* The chunks of a heap and their boundary tags, as scalloc.c keeps them.  *)
(*                                                                         *)
(* Addresses and sizes are counted in units of MALLOC_ALIGNMENT (16 bytes) *)
(* from the base of the heap, so MINSIZE is 2.  A header exists only where *)
(* a chunk starts: the headers are a partial function h from addresses to  *)
(* records of the chunk's size, its PREV_INUSE bit and its prev_size word, *)
(* and reading a header that is not there is an error of the model.        *)
(*                                                                         *)
(* An operator X_Slip, like CutAt_OffByOne, is X with a plausible slip; no *)
(* specification uses it.                                                  *)
(***************************************************************************)
EXTENDS Integers

CONSTANT None   \* no chunk (and no thread)

ASSUME NoneAssumption == None \notin Int

MINSIZE == 2

(* What is left of a chunk is too small to be a chunk: it is not split off.*)
TooSmall_OffByOne(over) == over <= MINSIZE
TooSmall(over) == over < MINSIZE

Next_(h, p) == p + h[p].sz
InUseAfter(h, p) == h[Next_(h, p)].pinuse

(* set_inuse_bit_at_offset: the word of the next chunk that held this      *)
(* chunk's footer is user data again, modelled as 0.                       *)
SetInuse_Forgotten(h, p) == h
SetInuse(h, p) == [h EXCEPT ![Next_(h, p)].pinuse = TRUE, ![Next_(h, p)].psz = 0]

(* Cuts chunk p to nb units; what follows becomes a chunk whose            *)
(* predecessor is in use.                                                  *)
CutAt_OffByOne(h, p, nb) ==
  [a \in DOMAIN h \cup {p + nb} |->
     IF a = p THEN [h[p] EXCEPT !.sz = nb]
     ELSE IF a = p + nb THEN [sz |-> h[p].sz - nb - 1, pinuse |-> TRUE, psz |-> 0]
     ELSE h[a]]
CutAt(h, p, nb) ==
  [a \in DOMAIN h \cup {p + nb} |->
     IF a = p THEN [h[p] EXCEPT !.sz = nb]
     ELSE IF a = p + nb THEN [sz |-> h[p].sz - nb, pinuse |-> TRUE, psz |-> 0]
     ELSE h[a]]

(* Split of a chunk on a free list: the remainder stays free, set_foot.    *)
SplitFree_NoFoot(h, p, nb) == CutAt(h, p, nb)
SplitFree(h, p, nb) ==
  LET c == CutAt(h, p, nb) IN [c EXCEPT ![Next_(h, p)].psz = h[p].sz - nb]

(* The chunk after p joins p, which _int_realloc is about to grow.         *)
Absorb_KeepsHeader(h, p) == [h EXCEPT ![p].sz = @ + h[Next_(h, p)].sz]
Absorb(h, p) == [a \in DOMAIN h \ {Next_(h, p)} |->
                   IF a = p THEN [h[p] EXCEPT !.sz = h[p].sz + h[Next_(h, p)].sz] ELSE h[a]]

(* The chunks that free merges with chunk p, and the chunk that results:   *)
(* backward as _int_free_merge_chunk does (not for the tail of memalign),  *)
(* forward as _int_free_create_chunk does.                                 *)
Backward_Ignored(h, p) == p
Backward(h, p) == IF ~h[p].pinuse THEN p - h[p].psz ELSE p
Merge(h, top, p, backward) ==
  LET next  == Next_(h, p)
      atTop == next = top
      q     == IF backward THEN Backward(h, p) ELSE p
      nfree == ~atTop /\ ~InUseAfter(h, next)
      end   == IF atTop \/ nfree THEN Next_(h, next) ELSE next
  IN  [q |-> q, sz |-> end - q, atTop |-> atTop,
       prev |-> IF q = p THEN None ELSE q, next |-> IF nfree THEN next ELSE None,
       gone |-> ({p} \ {q}) \cup (IF atTop \/ nfree THEN {next} ELSE {})]

MergedHdr_KeepsInuse(h, m) ==
  [a \in DOMAIN h \ m.gone |->
     IF a = m.q THEN [sz |-> m.sz, pinuse |-> TRUE, psz |-> 0]
     ELSE IF a = m.q + m.sz /\ ~m.atTop THEN [h[a] EXCEPT !.psz = m.sz]
          ELSE h[a]]
MergedHdr(h, m) ==
  [a \in DOMAIN h \ m.gone |->
     IF a = m.q THEN [sz |-> m.sz, pinuse |-> TRUE, psz |-> 0]
     ELSE IF a = m.q + m.sz /\ ~m.atTop
          THEN [h[a] EXCEPT !.pinuse = FALSE, !.psz = m.sz]
          ELSE h[a]]
=============================================================================
