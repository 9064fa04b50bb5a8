----------------------------- MODULE ChunkCache -----------------------------
(***************************************************************************)
(* What the per-thread caches promise: a chunk is with the arena, with the *)
(* program, or in the cache of one thread; what the program gets is large  *)
(* and aligned enough; in a cache a chunk keeps its size; a chunk changes  *)
(* caches only by way of the program or the arena; and a cache has a       *)
(* bounded number of chunks of each size.                                  *)
(***************************************************************************)
EXTENDS Integers, FiniteSets

CONSTANTS
  Threads,
  Chunks,   \* the addresses that the program may be given
  Sizes,    \* the chunk sizes there are
  Requests, \* what is asked for: [bytes, al]
  Needs(_)  \* the chunk size that a request of so many bytes needs

VARIABLES
  pool,  \* the chunks that the arena has
  cache, \* thread -> the chunks in its cache
  asked, \* chunk of the program -> what it asked for
  size,  \* chunk -> its size, 0 while the arena has it
  limit  \* the most chunks of one size in one cache, set before the first call

vars == <<pool, cache, asked, size, limit>>

Init ==
  /\ pool = Chunks
  /\ cache = [t \in Threads |-> {}]
  /\ asked = [c \in {} |-> 0]
  /\ size = [c \in Chunks |-> 0]
  /\ limit \in Nat

(* The program gets c for a request that it satisfies, or no longer has it.*)
Asks(c) ==
  \E req \in Requests :
    /\ asked' = [d \in DOMAIN asked \cup {c} |-> IF d = c THEN req ELSE asked[d]]
    /\ size'[c] >= Needs(req.bytes) /\ c % req.al = 0
Forgets(c) == asked' = [d \in DOMAIN asked \ {c} |-> asked[d]]

Cut(c) == \E sz \in Sizes : size' = [size EXCEPT ![c] = sz]
RoomFor(t, sz) == Cardinality({d \in cache[t] : size[d] = sz}) < limit

(* The arena gives c to the program, or puts it into a cache on the way.   *)
Give(c) ==
  /\ pool' = pool \ {c}
  /\ Cut(c) /\ Asks(c)
  /\ UNCHANGED cache
Stash(t, c) ==
  /\ pool' = pool \ {c}
  /\ Cut(c) /\ UNCHANGED asked
  /\ RoomFor(t, size'[c]) /\ cache' = [cache EXCEPT ![t] = @ \cup {c}]

(* A cache serves a request, or the program frees c into it.               *)
Hit(t, c) ==
  /\ UNCHANGED <<pool, size>>
  /\ Asks(c) /\ cache' = [cache EXCEPT ![t] = @ \ {c}]
Keep(t, c) ==
  /\ UNCHANGED <<pool, size>>
  /\ Forgets(c)
  /\ RoomFor(t, size[c]) /\ cache' = [cache EXCEPT ![t] = @ \cup {c}]

(* The arena gets c back, from the program or from a cache.                *)
Release(c) ==
  /\ pool' = pool \cup {c} /\ size' = [size EXCEPT ![c] = 0]
  /\ Forgets(c)
  /\ UNCHANGED cache
Drop(t, c) ==
  /\ pool' = pool \cup {c} /\ size' = [size EXCEPT ![c] = 0]
  /\ UNCHANGED asked
  /\ cache' = [cache EXCEPT ![t] = @ \ {c}]

Next ==
  /\ UNCHANGED limit
  /\ \/ \E c \in pool : Give(c) \/ \E t \in Threads : Stash(t, c)
     \/ \E c \in DOMAIN asked : Release(c) \/ \E t \in Threads : Keep(t, c)
     \/ \E t \in Threads : \E c \in cache[t] : Hit(t, c) \/ Drop(t, c)

Spec == Init /\ [][Next]_vars

-----------------------------------------------------------------------------
(* No chunk is in two places, and none is lost.                            *)
OnePlace ==
  /\ Chunks = pool \cup DOMAIN asked \cup UNION {cache[t] : t \in Threads}
  /\ pool \cap DOMAIN asked = {}
  /\ \A t \in Threads :
       /\ cache[t] \cap (pool \cup DOMAIN asked) = {}
       /\ \A s \in Threads \ {t} : cache[s] \cap cache[t] = {}

(* No cache has more chunks of a size than the limit that was set.         *)
Bounded ==
  \A t \in Threads, sz \in Sizes : Cardinality({d \in cache[t] : size[d] = sz}) <= limit
=============================================================================
