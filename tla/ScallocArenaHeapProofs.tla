----------------------- MODULE ScallocArenaHeapProofs -----------------------
(***************************************************************************)
(* The arena implements the heap, and every chunk of it has one owner, for *)
(* every value of the constants.                                           *)
(*                                                                         *)
(* ScallocArenaProofs has the invariant, OwnInv, and the steps that hand a *)
(* chunk from one place to another as it is.  Here are those that cut and  *)
(* merge chunks, and what follows when all are put together.               *)
(***************************************************************************)
EXTENDS ScallocArenaProofs

-----------------------------------------------------------------------------
(* Steps that change which chunks there are.                               *)

(* Lemma: chunks end below the break.                                      *)
LEMMA ChunkBounds ==
  ASSUME OwnInv, NEW c \in DOMAIN hdr
  PROVE  /\ c \in Nat /\ hdr[c].sz \in Nat /\ c + hdr[c].sz <= system_mem
         /\ hdr[c].sz <= HeapLimit /\ system_mem <= HeapLimit /\ system_mem \in Nat
         /\ HeapLimit \in Nat
<1>1. HeapFacts BY HeapIs DEF OwnInv
<1>2. c \in Nat /\ hdr[c].sz \in Nat /\ top \in Nat /\ hdr[top].sz \in Nat /\ system_mem \in Nat
      /\ system_mem <= HeapLimit /\ HeapLimit \in Nat
  BY <1>1, ArenaAssumption DEF HeapFacts, Header
<1>3. top + hdr[top].sz = system_mem BY <1>1 DEF HeapFacts, Next_
<1>4. c # top => c + hdr[c].sz <= top
  BY <1>1 DEF HeapFacts, Next_
<1> QED BY <1>2, <1>3, <1>4

(* Lemma: what a cut does to the headers.                                  *)
LEMMA CutShape ==
  ASSUME NEW h, h \in [DOMAIN h -> Header], NEW c \in DOMAIN h, c \in Nat, NEW nb \in Nat, nb > 0,
         nb <= h[c].sz, c + nb \notin DOMAIN h
  PROVE  /\ DOMAIN CutAt(h, c, nb) = DOMAIN h \cup {c + nb}
         /\ CutAt(h, c, nb) \in [DOMAIN h \cup {c + nb} -> Header]
         /\ CutAt(h, c, nb)[c].sz = nb /\ CutAt(h, c, nb)[c + nb].sz = h[c].sz - nb
         /\ \A d \in DOMAIN h \ {c} : CutAt(h, c, nb)[d] = h[d]
<1> PICK g : g = CutAt(h, c, nb) OBVIOUS
<1> PICK e : e = c + nb OBVIOUS
<1>1. g = [a \in DOMAIN h \cup {e} |->
             IF a = c THEN [h[c] EXCEPT !.sz = nb]
             ELSE IF a = e THEN [sz |-> h[c].sz - nb, pinuse |-> TRUE, psz |-> 0] ELSE h[a]]
  BY DEF CutAt
<1>2. e # c /\ e \notin DOMAIN h BY ONLY e = c + nb, c \in Nat, nb \in Nat, nb > 0,
                                         c + nb \notin DOMAIN h
<1>3. /\ DOMAIN g = DOMAIN h \cup {e} /\ g[c] = [h[c] EXCEPT !.sz = nb]
      /\ g[e] = [sz |-> h[c].sz - nb, pinuse |-> TRUE, psz |-> 0]
      /\ \A d \in DOMAIN h \ {c} : g[d] = h[d]
  BY ONLY <1>1, <1>2, c \in DOMAIN h
<1>4. h[c] \in Header /\ h[c].sz \in Nat BY DEF Header
<1>5. g[c] \in Header /\ g[c].sz = nb BY <1>3, <1>4 DEF Header
<1>6. h[c].sz - nb \in Nat BY <1>4
<1>7. g[e] \in Header /\ g[e].sz = h[c].sz - nb BY <1>3, <1>6 DEF Header
<1>8. \A d \in DOMAIN g : g[d] \in Header BY <1>3, <1>5, <1>7
<1>9. g = [d \in DOMAIN h \cup {e} |-> g[d]] BY <1>1
<1> QED BY <1>3, <1>5, <1>7, <1>8, <1>9

(* Lemma: a chunk starts nowhere inside another one.                       *)
LEMMA NoneInside ==
  ASSUME OwnInv, NEW c \in DOMAIN hdr, NEW nb \in Nat, nb > 0, nb < hdr[c].sz
  PROVE  c + nb \notin DOMAIN hdr /\ c + nb \in Nat /\ c + nb \in Int /\ c + nb # None
<1>1. HeapFacts BY HeapIs DEF OwnInv
<1>2. c \in Nat /\ hdr[c].sz \in Nat BY ChunkBounds
<1>3. c + nb \in Nat /\ c + nb \in Int /\ c + nb # None BY <1>2, NoneAssumption
<1>4. CASE c = top
  <2>1. \A d \in DOMAIN hdr : d <= c BY <1>1, <1>4 DEF HeapFacts
  <2> QED BY <1>2, <1>3, <2>1
<1>5. CASE c # top
  <2>1. \A d \in DOMAIN hdr : d <= c \/ c + hdr[c].sz <= d BY <1>1, <1>5 DEF HeapFacts, Next_
  <2> QED BY <1>2, <1>3, <2>1
<1> QED BY <1>3, <1>4, <1>5

(* Lemma: what a split does to them.                                       *)
LEMMA SplitShape ==
  ASSUME OwnInv, NEW c \in Binned, NEW nb \in Int, nb >= MINSIZE, ~TooSmall(hdr[c].sz - nb),
         hdr' = SplitFree(hdr, c, nb)
  PROVE  /\ c + nb \notin DOMAIN hdr /\ c + nb \in Int /\ c + nb # None
         /\ c \in DOMAIN hdr \ {top} /\ c \in Int /\ c # None
         /\ DOMAIN hdr' = DOMAIN hdr \cup {c + nb} /\ hdr'[c].sz = nb
         /\ \A d \in DOMAIN hdr \ {c} : hdr'[d].sz = hdr[d].sz
         /\ nb \in HP!Sizes
<1>1. c \in DOMAIN hdr \ {top} BY ListedSize
<1>2. /\ c \in Nat /\ hdr[c].sz \in Nat /\ hdr[c].sz <= HeapLimit /\ HeapLimit \in Nat
  BY <1>1, ChunkBounds
<1>3. nb \in Nat /\ nb > 0 /\ nb < hdr[c].sz /\ nb <= HeapLimit /\ nb >= 1
  BY <1>2 DEF TooSmall, MINSIZE
<1>4. nb \in HP!Sizes BY <1>2, <1>3 DEF HP!Sizes
<1>5. c + nb \notin DOMAIN hdr /\ c + nb \in Int /\ c + nb # None BY <1>1, <1>3, NoneInside
<1> PICK g : g = CutAt(hdr, c, nb) OBVIOUS
<1>6. hdr \in [DOMAIN hdr -> Header] BY HeapIs DEF OwnInv, HeapFacts
<1>7. /\ DOMAIN g = DOMAIN hdr \cup {c + nb} /\ g \in [DOMAIN g -> Header]
      /\ g[c].sz = nb /\ g[c + nb].sz = hdr[c].sz - nb
      /\ \A d \in DOMAIN hdr \ {c} : g[d] = hdr[d]
  <2>1. /\ c \in DOMAIN hdr /\ c \in Nat /\ nb \in Nat /\ nb > 0 /\ nb <= hdr[c].sz
        /\ c + nb \notin DOMAIN hdr
    BY <1>1, <1>2, <1>3, <1>5
  <2>2. /\ DOMAIN CutAt(hdr, c, nb) = DOMAIN hdr \cup {c + nb}
        /\ CutAt(hdr, c, nb) \in [DOMAIN hdr \cup {c + nb} -> Header]
        /\ CutAt(hdr, c, nb)[c].sz = nb /\ CutAt(hdr, c, nb)[c + nb].sz = hdr[c].sz - nb
        /\ \A d \in DOMAIN hdr \ {c} : CutAt(hdr, c, nb)[d] = hdr[d]
    BY ONLY <1>6, <2>1, CutShape, Zenon
  <2> QED BY <2>2
<1> PICK n : n = Next_(hdr, c) OBVIOUS
<1>8. hdr' = [g EXCEPT ![n].psz = hdr[c].sz - nb] BY DEF SplitFree
<1>9. DOMAIN hdr' = DOMAIN g /\ \A d \in DOMAIN g : hdr'[d].sz = g[d].sz
  BY <1>7, <1>8 DEF Header
<1> QED BY <1>1, <1>2, <1>4, <1>5, <1>7, <1>9, NoneAssumption

(* Lemma: a call takes part of a listed chunk; the rest is unsorted.       *)
LEMMA SplitKeeps ==
  ASSUME OwnInv, NEW t \in Threads, op[t].pc \in {"unsorted", "fit"}, NEW nb, nb = op[t].nb,
         NEW from \in BinPlaces, NEW c \in ChunksAt(from),
         ~TooSmall(hdr[c].sz - nb), hdr' = SplitFree(hdr, c, nb),
         OnlyLists({from, UnsortedPl}),
         Once(unsorted'), ToSet(unsorted') = (ToSet(unsorted) \ {c}) \cup {c + nb},
         from # UnsortedPl => Leaves(from, c),
         Got(t, c), UNCHANGED <<lock, top, system_mem, fastVars, tcache, live>>,
         bins' \in [BinIndices -> Seq(Int)], binmap' \subseteq BinIndices,
         last_remainder' \in Int \cup {None},
         \A i \in BinIndices : BinPl(i) = from => Descends(bins'[i], hdr)
  PROVE  OwnInv' /\ HeapStep
<1> PICK r : r = c + nb OBVIOUS
<1> PICK G : G = {c} BY Zenon
<1> PICK N : N = {c, r} BY Zenon
<1> PICK dest : dest = [x \in N |-> IF x = c THEN VPl(t) ELSE UnsortedPl] BY Zenon
<1> PICK Q : Q = {from, UnsortedPl, VPl(t)} BY Zenon
<1>1. InSearch(op[t]) /\ op[t].pc # "consolidate" BY DEF InSearch
<1>2. /\ op[t] \in Call_ /\ CallSound(op[t], hdr) /\ op[t].chain = <<>> /\ op[t].v = None
      /\ nb \in Int /\ nb >= MINSIZE
  BY <1>1, SearchFacts
<1>3. from \in Places /\ UnsortedPl \in Places /\ VPl(t) \in Places /\ UnsortedPl \in BinPlaces
      /\ VPl(t) \notin BinPlaces /\ VPl(t) # UnsortedPl /\ VPl(t) # from
  BY PlacesAre, BinPlacesAre DEF BinPlaces
<1>4. c \in Binned /\ c \in ChunksAt(from)
  <2>1. Binned = UNION {ChunksAt(pl) : pl \in BinPlaces} BY BinnedIs DEF OwnInv, Shaped
  <2> QED BY <2>1
<1>5. /\ r \notin DOMAIN hdr /\ r \in Int /\ r # None
      /\ c \in DOMAIN hdr \ {top} /\ c \in Int /\ c # None
      /\ DOMAIN hdr' = DOMAIN hdr \cup {r} /\ hdr'[c].sz = nb
      /\ \A d \in DOMAIN hdr \ {c} : hdr'[d].sz = hdr[d].sz
      /\ nb \in HP!Sizes
  BY <1>2, <1>4, SplitShape, Zenon
<1>6. PICK d \in Call_ : /\ op' = [op EXCEPT ![t] = d] /\ Same(d, op[t]) /\ d.pc = "got"
                         /\ d.v = c /\ d.chain = op[t].chain
  BY <1>5, GotCall DEF OwnInv
<1>7. op'[t] = d /\ \A u \in Threads \ {t} : op'[u] = op[u] BY <1>6, CallSet, Zenon
  DEF OwnInv
<1>8. Shaped'
  <2>1. unsorted' \in Seq(Int) BY DEF Once
  <2> QED BY <1>6, <2>1, ShapedBy DEF OwnInv, Shaped, fastVars
<1>9. dest[c] = VPl(t) /\ dest[r] = UnsortedPl /\ c # r BY <1>5
<1>10. /\ {x \in N : dest[x] = VPl(t)} = {c} /\ {x \in N : dest[x] = UnsortedPl} = {r}
       /\ \A pl \in BinPlaces \ {UnsortedPl} : {x \in N : dest[x] = pl} = {}
  BY <1>3, <1>9
<1>11. Placing(Q, G, N, dest)
  <2>1. OnlyLists(Q) BY DEF OnlyLists
  <2>2. Only(Q) BY <1>6, <2>1, OnlyIs, Zenon DEF OwnInv, Same
  <2>3. ChunksAt(UnsortedPl)' = (ChunksAt(UnsortedPl) \ G) \cup {x \in N : dest[x] = UnsortedPl}
        /\ Once(ListAt(UnsortedPl)')
    BY <1>10, ChunksAre, ChunksAreNext, ListsAtNext, Zenon
  <2>4. ChunksAt(VPl(t))' = (ChunksAt(VPl(t)) \ G) \cup {x \in N : dest[x] = VPl(t)}
        /\ Once(ListAt(VPl(t))')
    <3>1. ChunksAt(VPl(t)) = {} BY <1>2, ChunksAre
    <3>2. ChunksAt(VPl(t))' = {c} BY <1>5, <1>6, <1>7, ChunksAreNext
    <3> QED BY <1>10, <3>1, <3>2, ListsAtNext, EmptyOnce, Zenon
  <2>5. from # UnsortedPl => ChunksAt(from)' = (ChunksAt(from) \ G) \cup {x \in N : dest[x] = from}
                             /\ Once(ListAt(from)')
    BY <1>10, ZenonT(40) DEF Leaves
  <2>6. \A pl \in Q : /\ ChunksAt(pl)' = (ChunksAt(pl) \ G) \cup {x \in N : dest[x] = pl}
                      /\ Once(ListAt(pl)')
    <3> TAKE pl \in Q
    <3>1. CASE pl = UnsortedPl BY <2>3, <3>1, Zenon
    <3>2. CASE pl = VPl(t) BY <2>4, <3>2, Zenon
    <3>3. CASE pl = from /\ from # UnsortedPl BY <2>5, <3>3, Zenon
    <3> QED BY <3>1, <3>2, <3>3, Zenon
  <2>7. \A x \in G : \E pl \in Q : x \in ChunksAt(pl) OBVIOUS
  <2>8. DOMAIN hdr' = (DOMAIN hdr \ G) \cup N /\ N \cap (DOMAIN hdr \ G) = {} BY <1>5
  <2>9. Q \subseteq Places /\ (\A x \in N : dest[x] \in Q) BY <1>3, <1>9
  <2> QED BY <1>5, <2>2, <2>6, <2>7, <2>8, <2>9, Zenon DEF Placing
<1>12. HeapStep
  <2>1. Binned' = (Binned \ G) \cup {x \in N : dest[x] \in BinPlaces}
    BY <1>8, <1>11, PlacedBinned DEF OwnInv
  <2>2. {x \in N : dest[x] \in BinPlaces} = {r} BY <1>3, <1>9
  <2>3. Binned' = (Binned \ {c}) \cup {c + nb} BY <2>1, <2>2, Zenon
  <2>4. HP!SplitFree(hdr, c, nb) = SplitFree(hdr, c, nb) /\ HP!MINSIZE = MINSIZE
        /\ HP!TooSmall(hdr[c].sz - nb) = TooSmall(hdr[c].sz - nb)
    BY SameShape, SameSmall
  <2>5. HP!TakePart(c, nb) BY <1>2, <2>3, <2>4, Zenon DEF HP!TakePart
  <2>6. HP!Next BY <1>4, <1>5, <2>5, Zenon DEF HP!Next, HP!OnFree
  <2> QED BY <2>6 DEF HeapStep
<1>13. Leaving(t, Q, G, N, dest)
  <2>1. \A u \in Threads \ {t} : op'[u] = op[u] /\ PPl(u) \notin Q /\ VPl(u) \notin Q
    BY <1>7, PlacesAt, BinPlacesAre
  <2>2. \A x \in N : MayBeAt(dest[x], hdr'[x].sz) BY <1>9, MayBe
  <2>3. CallSound(op'[t], hdr')
    <3>1. op[t].p # None => hdr'[op[t].p].sz = hdr[op[t].p].sz
      <4>1. op[t].p # None => op[t].p \in DOMAIN hdr /\ op[t].p \in ChunksAt(PPl(t))
        BY HandsAt DEF OwnInv
      <4>2. PPl(t) \in Places /\ PPl(t) # from BY PlacesAre, BinPlacesAre
      <4>3. c \notin ChunksAt(PPl(t)) BY <1>3, <4>2 DEF OwnInv, Owned
      <4> QED BY <1>5, <4>1, <4>3
    <3>2. InSearch(d) /\ Within(hdr'[d.v].sz, d.nb)
      BY <1>2, <1>5, <1>6 DEF InSearch, Same, Within, MINSIZE
    <3>3. CallSound(d, hdr') BY <1>1, <1>2, <1>6, <3>1, <3>2, GoOn
    <3> QED BY <1>7, <3>3
  <2>4. \A p \in DOMAIN live' : p \in DOMAIN live \ G /\ live'[p] = live[p]
    <3>1. LivePl \in Places /\ LivePl # from BY PlacesAre, BinPlacesAre
    <3>2. c \notin DOMAIN live BY <1>3, <3>1, ChunksAre DEF OwnInv, Owned
    <3> QED BY <3>2
  <2>5. \A i \in BinIndices : BinPl(i) \in Q => Descends(bins'[i], hdr')
    <3> SUFFICES ASSUME NEW i \in BinIndices, BinPl(i) \in Q PROVE Descends(bins'[i], hdr')
      OBVIOUS
    <3>1. BinPl(i) = from /\ from # UnsortedPl BY PlacesAt
    <3>2. Descends(bins'[i], hdr) BY <3>1
    <3>3. ToSet(bins'[i]) \subseteq DOMAIN hdr \ {c}
      <4>1. ToSet(bins'[i]) = ChunksAt(from) \ {c} BY <3>1, ChunksAreNext DEF Leaves
      <4> QED BY <1>3, <4>1 DEF OwnInv, Owned
    <3>4. \A a, b : Before(bins'[i], a, b) => a \in ToSet(bins'[i]) /\ b \in ToSet(bins'[i])
      BY DEF Before, ToSet
    <3> QED BY <1>5, <3>2, <3>3, <3>4 DEF Descends
  <2> QED BY <1>8, <1>12, <2>1, <2>2, <2>3, <2>4, <2>5 DEF Leaving
<1> QED BY <1>11, <1>12, <1>13, LeavingKeeps

(* Lemma: the last remainder is cut; its rest stays unsorted.              *)
LEMMA OwnSplitRemainder ==
  ASSUME OwnInv, NEW t \in Threads, SplitRemainder(t)
  PROVE  OwnInv' /\ HeapStep
<1> PICK nb : nb = op[t].nb OBVIOUS
<1> PICK c : c = Last(unsorted) OBVIOUS
<1>1. /\ op[t].pc = "unsorted" /\ unsorted = <<c>> /\ hdr[c].sz > nb + MINSIZE
      /\ hdr' = SplitFree(hdr, c, nb) /\ unsorted' = <<c + nb>> /\ last_remainder' = c + nb
      /\ Got(t, c)
      /\ UNCHANGED <<lock, top, system_mem, fastVars, bins, binmap, tcache, live>>
  BY DEF SplitRemainder, Unsorted, Holds, SplitsRemainder
<1>2. InSearch(op[t]) BY <1>1 DEF InSearch
<1>3. op[t].nb \in Int /\ op[t].nb >= MINSIZE BY <1>2, SearchFacts
<1>4. unsorted # <<>> BY <1>1
<1>5. c \in Binned /\ hdr[c].sz \in Nat /\ c \in ChunksAt(UnsortedPl) /\ UnsortedPl \in BinPlaces
  BY <1>4, LastUnsorted, Zenon
<1>6. nb \in Int /\ nb >= MINSIZE /\ ~TooSmall(hdr[c].sz - nb)
  BY <1>1, <1>3, <1>5 DEF TooSmall, MINSIZE
<1>7. c + nb \in Int BY <1>1, <1>5, <1>6, SplitShape, Zenon
<1>8. Once(unsorted') /\ ToSet(unsorted') = {c + nb}
  <2>1. PICK r : r = c + nb OBVIOUS
  <2>2. unsorted' = <<r>> /\ r \in Int BY <1>1, <1>7, <2>1
  <2>3. <<r>> \in Seq(Int) BY <2>2
  <2>4. DOMAIN <<r>> = {1} OBVIOUS
  <2>5. IsInjective(<<r>>) BY <2>4 DEF IsInjective
  <2>6. ToSet(<<r>>) = {r} BY <2>4 DEF ToSet
  <2> QED BY <2>1, <2>2, <2>3, <2>5, <2>6 DEF Once
<1>9. ToSet(unsorted) = {c}
  <2>1. DOMAIN <<c>> = {1} OBVIOUS
  <2>2. ToSet(<<c>>) = {c} BY <2>1 DEF ToSet
  <2> QED BY <1>1, <2>2
<1>10. ToSet(unsorted') = (ToSet(unsorted) \ {c}) \cup {c + nb} BY <1>8, <1>9
<1>11. OnlyLists({UnsortedPl, UnsortedPl}) BY <1>1 DEF OnlyLists, fastVars
<1>12. bins' \in [BinIndices -> Seq(Int)] /\ binmap' \subseteq BinIndices
       /\ last_remainder' \in Int \cup {None}
  BY <1>1, <1>7 DEF OwnInv, Shaped
<1>13. \A i \in BinIndices : BinPl(i) = UnsortedPl => Descends(bins'[i], hdr)
  BY PlacesAt
<1>14. UNCHANGED <<lock, top, system_mem, fastVars, tcache, live>> BY <1>1
<1>15. op[t].pc \in {"unsorted", "fit"} BY <1>1
<1>16. hdr' = SplitFree(hdr, c, nb) /\ Got(t, c) BY <1>1
<1> HIDE DEF UnsortedPl
<1> QED BY ONLY OwnInv, t \in Threads, nb = op[t].nb, <1>5, <1>6, <1>8, <1>10, <1>11,
  <1>12, <1>13, <1>14, <1>15,
           <1>16, SplitKeeps, Zenon

(* Lemma: a call takes a chunk, or its first units, out of a bin.          *)
LEMMA OwnTakeFromBin ==
  ASSUME OwnInv, NEW t \in Threads, op[t].pc = "fit", NEW i \in BinIndices,
         NEW c \in ToSet(bins[i]), hdr[c].sz >= op[t].nb, NEW remember,
         TakeFromBin(t, i, c, remember), binmap' \subseteq BinIndices
  PROVE  OwnInv' /\ HeapStep
<1> PICK nb : nb = op[t].nb OBVIOUS
<1> PICK over : over = hdr[c].sz - nb OBVIOUS
<1> PICK from : from = BinPl(i) OBVIOUS
<1> PICK r : r = Unlink(bins[i], c) OBVIOUS
<1>1. /\ bins' = [bins EXCEPT ![i] = r]
      /\ IF TooSmall(over)
         THEN hdr' = SetInuse(hdr, c) /\ UNCHANGED <<unsorted, last_remainder>>
         ELSE /\ hdr' = SplitFree(hdr, c, nb)
              /\ unsorted' = <<c + nb>> \o unsorted
              /\ last_remainder' = IF remember THEN c + nb ELSE last_remainder
      /\ Got(t, c)
      /\ UNCHANGED <<lock, top, system_mem, fastVars, tcache, live>>
  BY Zenon DEF TakeFromBin
<1>2. InSearch(op[t]) /\ op[t].pc # "consolidate" BY DEF InSearch
<1>3. /\ op[t] \in Call_ /\ CallSound(op[t], hdr) /\ op[t].chain = <<>> /\ op[t].v = None
      /\ nb \in Int /\ nb >= MINSIZE
  BY <1>2, SearchFacts
<1>4. /\ Once(bins[i]) /\ Descends(bins[i], hdr) /\ Once(unsorted)
      /\ ToSet(unsorted) \subseteq DOMAIN hdr
  BY ListsAre
<1>5. Fewer(r, bins[i], {c}) BY <1>4, UnlinkFewer
<1>6. r \in Seq(Int) BY <1>5 DEF Fewer, Once
<1>7. /\ bins' \in [BinIndices -> Seq(Int)] /\ bins'[i] = r
      /\ \A x \in BinIndices \ {i} : bins'[x] = bins[x]
  BY <1>1, <1>6, BinSet, Zenon DEF OwnInv
<1>8. Descends(bins'[i], hdr) BY <1>4, <1>5, <1>7, FewerDescends
<1>9. Leaves(from, c) BY <1>5, <1>7, LeavesAre, Zenon
<1>10. from \in Places /\ from \in BinPlaces /\ from.at = "bin" /\ c \in ChunksAt(from)
  BY PlacesAre, BinPlacesAre, PlacesAt, ChunksAre
<1>11. \A x \in BinIndices : BinPl(x) = from => x = i BY PlacesAt
<1>12. c \in Binned
  BY InBinned DEF OwnInv
<1>13. c \in DOMAIN hdr /\ hdr[c].sz \in Nat /\ c \in Int /\ c # None
  BY <1>12, ListedSize, AddressOf
<1>14. CASE TooSmall(over)
  <2>1. hdr' = SetInuse(hdr, c) /\ UNCHANGED <<unsorted, last_remainder>> BY <1>1, <1>14
  <2>2. PICK d \in Call_ : /\ op' = [op EXCEPT ![t] = d] /\ Same(d, op[t]) /\ d.pc = "got"
                           /\ d.v = c /\ d.chain = op[t].chain
    BY <1>1, <1>13, GotCall DEF OwnInv
  <2>3. Shaped'
    BY <1>1, <1>7, <2>1, <2>2, ShapedBy DEF OwnInv, Shaped, fastVars
  <2>4. OnlyLists({from}) BY <1>1, <1>7, <2>1 DEF OnlyLists, fastVars
  <2>5. Within(hdr[c].sz, nb) BY <1>3, <1>13, <1>14 DEF Within, TooSmall, MINSIZE
  <2>6. CallSound(d, hdr) BY <1>2, <2>2, <2>5, GotSound
  <2>7. Untied(c, from, VPl(t)) BY <1>10, <2>1, BinPlacesAre DEF Untied
  <2>8. d.p = op[t].p BY <2>2 DEF Same
  <2>9. UNCHANGED <<top, system_mem, live>> BY <1>1
  <2>10. from.at \notin {"p", "v"} BY <1>10
  <2>11. \A x \in BinIndices : BinPl(x) = from => Descends(bins'[x], hdr) BY <1>8, <1>11
  <2> QED BY ONLY OwnInv, t \in Threads, <1>3, <1>9, <1>10, <2>2, <2>3, <2>4, <2>6, <2>7,
    <2>8,
                  <2>9, <2>10, <2>11, ToHand, Zenon
<1>15. CASE ~TooSmall(over)
  <2>1. /\ hdr' = SplitFree(hdr, c, nb) /\ unsorted' = <<c + nb>> \o unsorted
        /\ last_remainder' \in {c + nb, last_remainder}
    BY <1>1, <1>15
  <2>2. ~TooSmall(hdr[c].sz - nb) BY <1>15
  <2>3. c + nb \notin DOMAIN hdr /\ c + nb \in Int
    BY <1>3, <1>12, <2>1, <2>2, SplitShape, Zenon
  <2>4. More(unsorted', unsorted, c + nb) BY <1>4, <2>1, <2>3, PushMore
  <2>5. Once(unsorted') /\ ToSet(unsorted') = ToSet(unsorted) \cup {c + nb} BY <2>4 DEF More
  <2>6. c \notin ToSet(unsorted)
    <3>1. from # UnsortedPl /\ UnsortedPl \in Places BY PlacesAt, PlacesAre
    <3> QED BY <1>10, <3>1, ChunksAre DEF OwnInv, Owned
  <2>7. ToSet(unsorted') = (ToSet(unsorted) \ {c}) \cup {c + nb} BY <2>5, <2>6
  <2>8. OnlyLists({from, UnsortedPl}) BY <1>1, <1>7 DEF OnlyLists, fastVars
  <2>9. last_remainder' \in Int \cup {None} BY <2>1, <2>3 DEF OwnInv, Shaped
  <2>10. \A x \in BinIndices : BinPl(x) = from => Descends(bins'[x], hdr) BY <1>8, <1>11
  <2>11. Got(t, c) /\ UNCHANGED <<lock, top, system_mem, fastVars, tcache, live>> BY <1>1
  <2>12. op[t].pc \in {"unsorted", "fit"} OBVIOUS
  <2>13. bins' \in [BinIndices -> Seq(Int)] /\ binmap' \subseteq BinIndices BY <1>7
  <2>14. hdr' = SplitFree(hdr, c, nb) BY <2>1
  <2> QED BY ONLY OwnInv, t \in Threads, nb = op[t].nb, <1>9, <1>10, <2>2, <2>5, <2>7,
    <2>8, <2>9,
                  <2>10, <2>11, <2>12, <2>13, <2>14, SplitKeeps, Zenon
<1> QED BY <1>14, <1>15

(* Lemma: a larger chunk is of a bin as far or further.                    *)
LEMMA IndexMono ==
  ASSUME NEW m \in Nat, NEW n \in Nat, m <= n
  PROVE  BinIndex(m) <= BinIndex(n) /\ BinIndex(m) \in Int /\ BinIndex(n) \in Int
<1>1. MinLarge \in Nat /\ LargeWidth \in Nat /\ LargeWidth > 0 /\ LargeBins \in Nat /\ LargeBins > 0
  BY ArenaAssumption
<1> DEFINE J(x) == (x - MinLarge) \div LargeWidth
<1>2. ASSUME NEW x \in Nat, x >= MinLarge PROVE J(x) \in Nat
  BY <1>1, <1>2
<1>3. (m >= MinLarge) => J(m) <= J(n)
  BY <1>1
<1>4. BinIndex(m) = IF m < MinLarge THEN m
                    ELSE MinLarge + (IF J(m) < LargeBins THEN J(m) ELSE LargeBins - 1)
  BY DEF BinIndex, InSmallbinRange
<1>5. BinIndex(n) = IF n < MinLarge THEN n
                    ELSE MinLarge + (IF J(n) < LargeBins THEN J(n) ELSE LargeBins - 1)
  BY DEF BinIndex, InSmallbinRange
<1>6. m >= MinLarge => J(m) \in Nat BY <1>2
<1>7. n >= MinLarge => J(n) \in Nat BY <1>2
<1> HIDE DEF J
<1> QED BY <1>1, <1>3, <1>4, <1>5, <1>6, <1>7

(* Lemma: a bounded set of numbers has a greatest one.                     *)
LEMMA GreatestNumber ==
  ASSUME NEW n \in Nat, NEW T, T \subseteq 1 .. n, T # {}
  PROVE  \E m \in T : \A k \in T : k <= m
<1> PICK U : U = {n - k : k \in T} BY Zenon
<1>1. U \subseteq Nat /\ U # {}
  <2>1. \A k \in T : n - k \in Nat OBVIOUS
  <2>2. \A u \in U : u \in Nat BY <2>1
  <2>3. PICK k \in T : TRUE BY Zenon
  <2>4. n - k \in U BY <2>3
  <2> QED BY <2>2, <2>4
<1>2. PICK u \in U : \A x \in U : u <= x BY <1>1, LeastNumber, Zenon
<1>3. PICK m \in T : u = n - m BY <1>2
<1>4. ASSUME NEW k \in T PROVE k <= m
  <2>1. n - k \in U OBVIOUS
  <2>2. u <= n - k BY <1>2, <2>1
  <2>3. k \in 1 .. n /\ m \in 1 .. n OBVIOUS
  <2> QED BY <1>3, <2>2, <2>3
<1> QED BY <1>4

(* Lemma: the place that the best-fit search of one bin stops at.          *)
FitsIn(b, nb) == {n \in DOMAIN b : hdr[b[n]].sz >= nb}
FitSize(b, nb) ==
  hdr[b[CHOOSE n \in FitsIn(b, nb) : \A m \in FitsIn(b, nb) : m <= n]].sz
FitHead(b, nb) ==
  CHOOSE n \in FitsIn(b, nb) :
    /\ hdr[b[n]].sz = FitSize(b, nb)
    /\ \A m \in FitsIn(b, nb) : hdr[b[m]].sz = FitSize(b, nb) => n <= m
FitPlace(b, nb) ==
  IF FitHead(b, nb) < Len(b) /\ hdr[b[FitHead(b, nb) + 1]].sz = FitSize(b, nb)
  THEN FitHead(b, nb) + 1 ELSE FitHead(b, nb)

(* Lemma: the place the best fit search ends at is in the bin, and fits.   *)
LEMMA FitFound ==
  ASSUME NEW b \in Seq(Int), NEW nb \in Int, b # <<>>, hdr[Head(b)].sz >= nb
  PROVE  /\ FitPlace(b, nb) \in DOMAIN b
         /\ hdr[b[FitPlace(b, nb)]].sz = FitSize(b, nb)
         /\ \E n \in FitsIn(b, nb) : /\ hdr[b[n]].sz = FitSize(b, nb)
                                     /\ \A m \in FitsIn(b, nb) : m <= n
<1> PICK fits : fits = FitsIn(b, nb) OBVIOUS
<1> PICK size : size = FitSize(b, nb) OBVIOUS
<1>1. Len(b) \in Nat /\ DOMAIN b = 1 .. Len(b) /\ Len(b) # 0 BY ListIs
<1>2. fits \subseteq 1 .. Len(b) /\ 1 \in fits BY <1>1 DEF FitsIn
<1>3. \E n \in fits : \A m \in fits : m <= n BY <1>1, <1>2, GreatestNumber, Zenon
<1> PICK last : last = CHOOSE n \in fits : \A m \in fits : m <= n OBVIOUS
<1>4. last \in fits /\ \A m \in fits : m <= last BY <1>3
<1>5. size = hdr[b[last]].sz BY DEF FitSize
<1> PICK same : same = {n \in fits : hdr[b[n]].sz = size} BY Zenon
<1>6. same # {} /\ same \subseteq Nat BY <1>2, <1>4, <1>5
<1>7. PICK k \in same : \A m \in same : k <= m BY <1>6, LeastNumber, Zenon
<1> PICK head : head = FitHead(b, nb) OBVIOUS
<1>8. head = CHOOSE n \in fits : /\ hdr[b[n]].sz = size
                                 /\ \A m \in fits : hdr[b[m]].sz = size => n <= m
  BY DEF FitHead
<1>9. head \in fits /\ hdr[b[head]].sz = size
  <2>1. k \in fits /\ hdr[b[k]].sz = size /\ \A m \in fits : hdr[b[m]].sz = size => k <= m
    BY <1>7
  <2> QED BY <1>8, <2>1, Zenon
<1>10. head \in Nat /\ head >= 1 /\ head <= Len(b) BY <1>1, <1>2, <1>9
<1>11. FitPlace(b, nb) = IF head < Len(b) /\ hdr[b[head + 1]].sz = size THEN head + 1 ELSE head
  BY DEF FitPlace
<1>12. CASE head < Len(b) /\ hdr[b[head + 1]].sz = size
  <2>1. FitPlace(b, nb) = head + 1 BY <1>11, <1>12
  <2>2. head + 1 \in DOMAIN b BY <1>1, <1>10, <1>12
  <2> QED BY <1>4, <1>5, <1>12, <2>1, <2>2, Zenon
<1>13. CASE ~(head < Len(b) /\ hdr[b[head + 1]].sz = size)
  <2>1. FitPlace(b, nb) = head BY <1>11, <1>13
  <2>2. head \in DOMAIN b BY <1>1, <1>2, <1>9
  <2>3. hdr[b[head]].sz = FitSize(b, nb) /\ hdr[b[last]].sz = FitSize(b, nb) BY <1>5, <1>9
  <2> QED BY <1>4, <2>1, <2>2, <2>3
<1> QED BY <1>12, <1>13

(* Lemma: a best fit leaves its bin, whole or cut.                         *)
LEMMA OwnBestFit ==
  ASSUME OwnInv, NEW t \in Threads, BestFit(t)
  PROVE  OwnInv' /\ HeapStep
<1> PICK nb : nb = op[t].nb OBVIOUS
<1> PICK i : i = BinIndex(nb) OBVIOUS
<1> PICK b : b = bins[i] OBVIOUS
<1> PICK n : n = FitPlace(b, nb) OBVIOUS
<1> PICK c : c = b[n] OBVIOUS
<1>0. Holds(t, "fit") /\ OwnBinFits(nb) /\ binmap' = binmap BY Zenon DEF BestFit
<1>1. /\ op[t].pc = "fit" /\ ~InSmallbinRange(nb) /\ b # <<>> /\ hdr[Head(b)].sz >= nb
      /\ binmap' = binmap
  BY <1>0, Zenon DEF Holds, OwnBinFits
<1>1a. TakeFromBin(t, BinIndex(op[t].nb), bins[BinIndex(op[t].nb)][FitPlace(bins[BinIndex(op[t].nb)], op[t].nb)], FALSE)
  BY Zenon DEF BestFit, FitPlace, FitHead, FitSize, FitsIn
<1>1b. TakeFromBin(t, i, c, FALSE) BY <1>1a, Zenon
<1>2. nb \in Int /\ nb >= MINSIZE BY <1>1, SearchFacts DEF InSearch
<1>3. i \in BinIndices BY <1>2, IndexIs DEF MINSIZE
<1>4. b \in Seq(Int) BY <1>3, ListsAre DEF Once
<1>5. n \in DOMAIN b /\ \E m \in FitsIn(b, nb) : hdr[c].sz = hdr[b[m]].sz
  BY <1>1, <1>2, <1>4, FitFound, SMTT(40)
<1>6. c \in ToSet(bins[i]) BY <1>5 DEF ToSet
<1>7. hdr[c].sz >= op[t].nb BY <1>5 DEF FitsIn
<1>8. binmap' \subseteq BinIndices BY <1>1 DEF OwnInv, Shaped
<1> QED BY ONLY OwnInv, t \in Threads, <1>1, <1>1b, <1>3, <1>6, <1>7, <1>8, OwnTakeFromBin,
  Zenon

(* Lemma: a chunk of a larger bin leaves it, whole or cut.                 *)
LEMMA OwnScanBins ==
  ASSUME OwnInv, NEW t \in Threads, ScanBins(t)
  PROVE  OwnInv' /\ HeapStep
<1> PICK nb : nb = op[t].nb OBVIOUS
<1> PICK L : L = Larger(nb) OBVIOUS
<1> PICK i : i = CHOOSE n \in L : \A m \in L : n <= m OBVIOUS
<1> PICK c : c = Last(bins[i]) BY Zenon
<1>1. /\ op[t].pc = "fit" /\ L # {} /\ TakeFromBin(t, i, c, InSmallbinRange(nb))
      /\ binmap' = Scanned(nb)
  BY DEF ScanBins, Holds
<1>2. nb \in Int /\ nb >= MINSIZE BY <1>1, SearchFacts DEF InSearch
<1>3. binmap \subseteq BinIndices /\ BinIndices \subseteq Nat
  BY ArenaAssumption, SMTT(40) DEF OwnInv, Shaped, BinIndices, MINSIZE
<1>4. L \subseteq Nat BY <1>3, Zenon DEF Larger
<1>5. i \in L BY <1>1, <1>4, LeastNumber
<1>5a. i \in Larger(nb) BY <1>5
<1>5b. \A x \in Larger(nb) : x \in binmap /\ x > BinIndex(nb) /\ bins[x] # <<>> BY Zenon DEF Larger
<1>6. i \in BinIndices /\ i > BinIndex(nb) /\ bins[i] # <<>> BY <1>3, <1>5a, <1>5b, Zenon
<1>7. c \in ToSet(bins[i]) /\ c \in DOMAIN hdr /\ BinIndex(hdr[c].sz) = i BY <1>6,
  LastLists, Zenon
<1>8. hdr[c].sz \in Nat BY <1>7, AddressOf
<1>9. hdr[c].sz >= nb
  <2> SUFFICES ASSUME hdr[c].sz < nb PROVE FALSE BY <1>2, <1>8
  <2>1. hdr[c].sz <= nb /\ nb \in Nat BY <1>2, <1>8 DEF MINSIZE
  <2>2. BinIndex(hdr[c].sz) <= BinIndex(nb) /\ BinIndex(nb) \in Int BY <1>8, <2>1, IndexMono
  <2>3. i \in Nat BY ONLY <1>3, <1>6
  <2>4. i \in Int BY ONLY <2>3
  <2> QED BY ONLY <1>6, <1>7, <2>2, <2>4
<1>10. binmap' \subseteq BinIndices BY <1>1, <1>3, Zenon DEF Scanned
<1> PICK remember : remember = InSmallbinRange(nb) OBVIOUS
<1>11. TakeFromBin(t, i, c, remember) BY <1>1
<1>12. hdr[c].sz >= op[t].nb BY <1>9
<1> QED BY ONLY OwnInv, t \in Threads, <1>1, <1>6, <1>7, <1>10, <1>11, <1>12, OwnTakeFromBin

-----------------------------------------------------------------------------
(* The top chunk.                                                          *)

(* Lemma: what moving the break does to the headers.                       *)
LEMMA MovedShape ==
  ASSUME OwnInv, NEW x \in Int, hdr[top].sz + x >= 0
  PROVE  /\ [hdr EXCEPT ![top].sz = @ + x] \in [DOMAIN hdr -> Header]
         /\ DOMAIN [hdr EXCEPT ![top].sz = @ + x] = DOMAIN hdr
         /\ [hdr EXCEPT ![top].sz = @ + x][top].sz = hdr[top].sz + x
         /\ \A c \in DOMAIN hdr \ {top} : [hdr EXCEPT ![top].sz = @ + x][c] = hdr[c]
<1>1. hdr \in [DOMAIN hdr -> Header] /\ top \in DOMAIN hdr BY HeapIs DEF OwnInv, HeapFacts
<1>2. hdr[top].sz + x \in Nat BY <1>1 DEF Header
<1> PICK y : y = hdr[top].sz + x OBVIOUS
<1>3. [hdr EXCEPT ![top].sz = @ + x] = [hdr EXCEPT ![top].sz = y] BY <1>1
<1>4. y \in Nat BY <1>2
<1> QED BY ONLY <1>1, <1>3, <1>4, y = hdr[top].sz + x DEF Header

(* Lemma: a chunk is cut from top, after the break moved.                  *)
LEMMA TopCutShape ==
  ASSUME OwnInv, NEW brk \in Int, brk >= system_mem, brk <= HeapLimit,
         NEW nb \in Int, nb >= MINSIZE, hdr[top].sz + (brk - system_mem) >= nb + MINSIZE,
         NEW h, h = [hdr EXCEPT ![top].sz = @ + (brk - system_mem)], hdr' = CutAt(h, top, nb)
  PROVE  /\ top + nb \notin DOMAIN hdr /\ top + nb \in Int /\ top + nb # None
         /\ top \in DOMAIN hdr /\ top \in Int /\ top # None
         /\ DOMAIN hdr' = DOMAIN hdr \cup {top + nb} /\ hdr'[top].sz = nb
         /\ \A d \in DOMAIN hdr \ {top} : hdr'[d].sz = hdr[d].sz
         /\ nb \in HP!Sizes /\ brk \in HP!Brks
<1>0. HeapFacts BY HeapIs DEF OwnInv
<1>1. top \in DOMAIN hdr /\ top \in Nat /\ hdr[top].sz \in Nat /\ system_mem \in Nat
      /\ HeapLimit \in Nat /\ top + hdr[top].sz = system_mem
  BY <1>0, ArenaAssumption DEF HeapFacts, Header, Next_
<1> PICK x : x = brk - system_mem OBVIOUS
<1>2. x \in Int /\ hdr[top].sz + x >= 0 /\ hdr[top].sz + x >= nb + 2 /\ nb >= 2 /\ x >= 0
  BY <1>1 DEF MINSIZE
<1>3. /\ h \in [DOMAIN hdr -> Header] /\ DOMAIN h = DOMAIN hdr /\ h[top].sz = hdr[top].sz + x
      /\ \A c \in DOMAIN hdr \ {top} : h[c] = hdr[c]
  BY <1>2, MovedShape
<1>4. nb \in Nat /\ nb > 0 /\ nb <= h[top].sz /\ nb >= 1 /\ nb <= HeapLimit BY <1>1, <1>2, <1>3
<1>5. nb \in HP!Sizes /\ brk \in HP!Brks BY <1>1, <1>4 DEF HP!Sizes, HP!Brks
<1>6. top + nb \notin DOMAIN hdr
  <2>1. \A d \in DOMAIN hdr : d <= top BY <1>0 DEF HeapFacts
  <2>2. ~(top + nb <= top) BY <1>1, <1>2
  <2> QED BY <2>1, <2>2
<1>7. /\ DOMAIN CutAt(h, top, nb) = DOMAIN h \cup {top + nb}
      /\ CutAt(h, top, nb)[top].sz = nb
      /\ \A d \in DOMAIN h \ {top} : CutAt(h, top, nb)[d] = h[d]
  <2>1. top + nb \notin DOMAIN h /\ top \in DOMAIN h /\ h \in [DOMAIN h -> Header] BY <1>3, <1>6
  <2> QED BY ONLY <2>1, <1>1, <1>4, CutShape
<1>8. /\ DOMAIN hdr' = DOMAIN hdr \cup {top + nb} /\ hdr'[top].sz = nb
      /\ \A d \in DOMAIN hdr \ {top} : hdr'[d] = hdr[d]
  BY <1>3, <1>7, Zenon
<1>9. \A d \in DOMAIN hdr \ {top} : hdr'[d].sz = hdr[d].sz BY <1>8, Zenon
<1>10. top + nb \in Int /\ top + nb # None /\ top \in Int /\ top # None
  BY <1>1, NoneAssumption
<1> QED BY <1>1, <1>5, <1>6, <1>8, <1>9, <1>10, Zenon

(* Lemma: a call takes the first units of top.                             *)
LEMMA TopKeeps ==
  ASSUME OwnInv, NEW t \in Threads, op[t].pc = "fit", NEW nb, nb = op[t].nb,
         NEW brk \in Int, brk >= system_mem, brk <= HeapLimit,
         hdr[top].sz + (brk - system_mem) >= nb + MINSIZE,
         hdr' = CutAt([hdr EXCEPT ![top].sz = @ + (brk - system_mem)], top, nb),
         top' = top + nb, system_mem' = brk, Got(t, top), binmap' \subseteq BinIndices,
         UNCHANGED <<lock, fastVars, unsorted, bins, last_remainder, tcache, live>>
  PROVE  OwnInv' /\ HeapStep
<1> PICK c : c = top OBVIOUS
<1> PICK r : r = top + nb OBVIOUS
<1> PICK G : G = {c} BY Zenon
<1> PICK N : N = {c, r} BY Zenon
<1> PICK dest : dest = [x \in N |-> IF x = c THEN VPl(t) ELSE TopPl] BY Zenon
<1> PICK Q : Q = {TopPl, VPl(t)} BY Zenon
<1>1. InSearch(op[t]) /\ op[t].pc # "consolidate" BY DEF InSearch
<1>2. /\ op[t] \in Call_ /\ CallSound(op[t], hdr) /\ op[t].chain = <<>> /\ op[t].v = None
      /\ nb \in Int /\ nb >= MINSIZE
  BY <1>1, SearchFacts
<1>3. TopPl \in Places /\ VPl(t) \in Places /\ TopPl \notin BinPlaces
      /\ VPl(t) \notin BinPlaces /\ VPl(t) # TopPl
  BY PlacesAre, BinPlacesAre, PlacesAt
<1>5. /\ r \notin DOMAIN hdr /\ r \in Int /\ r # None
      /\ c \in DOMAIN hdr /\ c \in Int /\ c # None
      /\ DOMAIN hdr' = DOMAIN hdr \cup {r} /\ hdr'[c].sz = nb
      /\ \A d \in DOMAIN hdr \ {c} : hdr'[d].sz = hdr[d].sz
      /\ nb \in HP!Sizes /\ brk \in HP!Brks
  BY <1>2, TopCutShape, Zenon
<1>6. PICK d \in Call_ : /\ op' = [op EXCEPT ![t] = d] /\ Same(d, op[t]) /\ d.pc = "got"
                         /\ d.v = c /\ d.chain = op[t].chain
  BY <1>5, GotCall DEF OwnInv
<1>7. op'[t] = d /\ \A u \in Threads \ {t} : op'[u] = op[u] BY <1>6, CallSet, Zenon
  DEF OwnInv
<1>8. Shaped'
  BY <1>6, ShapedBy DEF OwnInv, Shaped, fastVars
<1>9. dest[c] = VPl(t) /\ dest[r] = TopPl /\ c # r BY <1>5
<1>10. {x \in N : dest[x] = VPl(t)} = {c} /\ {x \in N : dest[x] = TopPl} = {r}
  BY <1>3, <1>9
<1>11. Placing(Q, G, N, dest)
  <2>1. OnlyLists(Q) BY DEF OnlyLists, fastVars
  <2>2. Only(Q) BY <1>6, <2>1, OnlyIs, Zenon DEF OwnInv, Same
  <2>3. ChunksAt(TopPl)' = (ChunksAt(TopPl) \ G) \cup {x \in N : dest[x] = TopPl}
        /\ Once(ListAt(TopPl)')
    BY <1>10, ChunksAre, ChunksAreNext, ListsAtNext, EmptyOnce, Zenon
  <2>4. ChunksAt(VPl(t))' = (ChunksAt(VPl(t)) \ G) \cup {x \in N : dest[x] = VPl(t)}
        /\ Once(ListAt(VPl(t))')
    <3>1. ChunksAt(VPl(t)) = {} BY <1>2, ChunksAre
    <3>2. ChunksAt(VPl(t))' = {c} BY <1>5, <1>6, <1>7, ChunksAreNext
    <3> QED BY <1>10, <3>1, <3>2, ListsAtNext, EmptyOnce, Zenon
  <2>6. \A pl \in Q : /\ ChunksAt(pl)' = (ChunksAt(pl) \ G) \cup {x \in N : dest[x] = pl}
                      /\ Once(ListAt(pl)')
    <3> TAKE pl \in Q
    <3>1. CASE pl = TopPl BY <2>3, <3>1, Zenon
    <3>2. CASE pl = VPl(t) BY <2>4, <3>2, Zenon
    <3> QED BY <3>1, <3>2, Zenon
  <2>7. \A x \in G : \E pl \in Q : x \in ChunksAt(pl) BY ChunksAre
  <2>8. DOMAIN hdr' = (DOMAIN hdr \ G) \cup N /\ N \cap (DOMAIN hdr \ G) = {} BY <1>5, Zenon
  <2>9. Q \subseteq Places /\ (\A x \in N : dest[x] \in Q) BY <1>3, <1>9
  <2> QED BY <1>5, <2>2, <2>6, <2>7, <2>8, <2>9, Zenon DEF Placing
<1>12. HeapStep
  <2>1. Binned' = (Binned \ G) \cup {x \in N : dest[x] \in BinPlaces}
    BY <1>8, <1>11, PlacedBinned DEF OwnInv
  <2>2. {x \in N : dest[x] \in BinPlaces} = {} BY <1>3, <1>9
  <2>3. Binned' = Binned
    <3>1. c \notin Binned BY HeapIs DEF OwnInv, HeapFacts
    <3> QED BY <2>1, <2>2, <3>1, Zenon
  <2>4. /\ HP!CutAt([hdr EXCEPT ![top].sz = @ + (brk - system_mem)], top, nb)
             = CutAt([hdr EXCEPT ![top].sz = @ + (brk - system_mem)], top, nb)
        /\ HP!MINSIZE = MINSIZE
    BY SameShape, SameSmall
  <2>5. HP!CutTop(brk, nb) BY <1>2, <2>3, <2>4, Zenon DEF HP!CutTop, HP!Moved
  <2>6. HP!Next BY <1>5, <2>5, Zenon DEF HP!Next, HP!OnTop
  <2> QED BY <2>6 DEF HeapStep
<1>13. Leaving(t, Q, G, N, dest)
  <2>1. \A u \in Threads \ {t} : op'[u] = op[u] /\ PPl(u) \notin Q /\ VPl(u) \notin Q
    BY <1>7, PlacesAt
  <2>2. \A x \in N : MayBeAt(dest[x], hdr'[x].sz) BY <1>9, MayBe
  <2>3. CallSound(op'[t], hdr')
    <3>1. op[t].p # None => hdr'[op[t].p].sz = hdr[op[t].p].sz
      <4>1. op[t].p # None => op[t].p \in DOMAIN hdr /\ op[t].p \in ChunksAt(PPl(t))
        BY HandsAt DEF OwnInv
      <4>2. PPl(t) \in Places /\ PPl(t) # TopPl BY PlacesAre, PlacesAt
      <4>3. c \notin ChunksAt(PPl(t)) BY <1>3, <4>2, ChunksAre DEF OwnInv, Owned
      <4> QED BY <1>5, <4>1, <4>3, Zenon
    <3>2. InSearch(d) /\ Within(hdr'[d.v].sz, d.nb)
      BY <1>2, <1>5, <1>6 DEF InSearch, Same, Within, MINSIZE
    <3>3. CallSound(d, hdr') BY <1>1, <1>2, <1>6, <3>1, <3>2, GoOn
    <3> QED BY <1>7, <3>3
  <2>4. \A p \in DOMAIN live' : p \in DOMAIN live \ G /\ live'[p] = live[p]
    <3>1. LivePl \in Places /\ LivePl # TopPl BY PlacesAre, PlacesAt
    <3>2. c \notin DOMAIN live BY <1>3, <3>1, ChunksAre DEF OwnInv, Owned
    <3> QED BY <3>2
  <2>5. \A i \in BinIndices : BinPl(i) \notin Q BY PlacesAt
  <2> QED BY <1>8, <1>12, <2>1, <2>2, <2>3, <2>4, <2>5 DEF Leaving
<1> QED BY <1>11, <1>12, <1>13, LeavingKeeps

(* Lemma: a chunk is cut off the top.                                      *)
LEMMA OwnUseTop ==
  ASSUME OwnInv, NEW t \in Threads, UseTop(t)
  PROVE  OwnInv' /\ HeapStep
<1> PICK nb : nb = op[t].nb OBVIOUS
<1>1. /\ op[t].pc = "fit" /\ hdr[top].sz >= nb + MINSIZE
      /\ hdr' = CutAt(hdr, top, nb) /\ top' = top + nb /\ binmap' = Scanned(nb) /\ Got(t, top)
      /\ UNCHANGED <<lock, system_mem, fastVars, unsorted, bins, last_remainder, tcache, live>>
  BY DEF UseTop, NoBinFits, Holds, TopFits
<1>2. HeapFacts BY HeapIs DEF OwnInv
<1>3. /\ hdr \in [DOMAIN hdr -> Header] /\ top \in DOMAIN hdr /\ hdr[top].sz \in Nat
      /\ system_mem \in Int /\ system_mem <= HeapLimit
  BY <1>2 DEF HeapFacts, Header
<1> PICK brk : brk = system_mem OBVIOUS
<1>4. hdr = [hdr EXCEPT ![top].sz = @ + (brk - system_mem)]
  <2>1. hdr[top].sz + (brk - system_mem) = hdr[top].sz BY <1>3
  <2>2. hdr[top] = [hdr[top] EXCEPT !.sz = @ + (brk - system_mem)] BY <1>3, <2>1 DEF Header
  <2> QED BY <1>3, <2>2
<1>5. /\ brk \in Int /\ brk >= system_mem /\ brk <= HeapLimit
      /\ hdr[top].sz + (brk - system_mem) >= nb + MINSIZE
  BY <1>1, <1>3
<1>6. hdr' = CutAt([hdr EXCEPT ![top].sz = @ + (brk - system_mem)], top, nb) BY <1>1, <1>4
<1>7. binmap' \subseteq BinIndices BY <1>1 DEF Scanned, OwnInv, Shaped
<1>8. top' = top + nb /\ system_mem' = brk /\ Got(t, top)
      /\ UNCHANGED <<lock, fastVars, unsorted, bins, last_remainder, tcache, live>>
  BY <1>1
<1> QED BY ONLY OwnInv, t \in Threads, nb = op[t].nb, <1>1, <1>5, <1>6, <1>7, <1>8, TopKeeps

(* Lemma: rounding up covers what is rounded.                              *)
LEMMA AlignUpCovers ==
  ASSUME NEW n \in Nat, NEW a \in Nat \ {0}
  PROVE  AlignUp(n, a) \in Nat /\ AlignUp(n, a) >= n
<1> DEFINE q == (n + a - 1) \div a
<1>1. q \in Int /\ a * q <= n + a - 1 /\ n + a - 1 < a * (q + 1) OBVIOUS
<1>2. a * (q + 1) = q * a + a BY <1>1
<1>3. q * a >= n BY <1>1, <1>2
<1> QED BY <1>1, <1>3 DEF AlignUp

(* Lemma: and rounding down does not exceed it.                            *)
LEMMA RoundDown ==
  ASSUME NEW n \in Int, NEW a \in Nat \ {0}
  PROVE  (n \div a) * a \in Int /\ (n \div a) * a <= n
<1> DEFINE q == n \div a
<1>1. q \in Int /\ a * q <= n OBVIOUS
<1>2. a * q = q * a BY <1>1
<1> QED BY <1>1, <1>2

(* Lemma: sysmalloc grows the top and cuts a chunk off it, or fails.       *)
LEMMA OwnSysMalloc ==
  ASSUME OwnInv, NEW t \in Threads, SysMalloc(t)
  PROVE  OwnInv' /\ HeapStep
<1> PICK nb : nb = op[t].nb OBVIOUS
<1> PICK x : x = Growth(nb) OBVIOUS
<1>1. /\ op[t].pc = "fit" /\ ~(hdr[top].sz >= nb + MINSIZE) /\ binmap' = Scanned(nb)
      /\ \/ /\ system_mem + x <= HeapLimit
            /\ system_mem' = system_mem + x
            /\ hdr' = CutAt([hdr EXCEPT ![top].sz = @ + x], top, nb)
            /\ top' = top + nb
            /\ Got(t, top)
         \/ Got(t, None) /\ UNCHANGED heapVars
      /\ UNCHANGED <<lock, fastVars, unsorted, bins, last_remainder, tcache, live>>
  BY DEF SysMalloc, NoBinFits, Holds, TopFits
<1>2. HeapFacts BY HeapIs DEF OwnInv
<1>3. /\ top \in DOMAIN hdr /\ hdr[top].sz \in Nat
      /\ system_mem \in Int /\ system_mem <= HeapLimit /\ HeapLimit \in Nat
  BY <1>2, ArenaAssumption DEF HeapFacts, Header
<1>4. InSearch(op[t]) /\ op[t].pc # "consolidate" BY <1>1 DEF InSearch
<1>5. op[t] \in Call_ /\ op[t].v = None /\ op[t].chain = <<>> /\ nb \in Int /\ nb >= MINSIZE
  BY <1>1, <1>4, SearchFacts
<1>6. x \in Nat /\ hdr[top].sz + x >= nb + MINSIZE
  <2>1. TopPad \in Nat /\ PageSize \in Nat \ {0} BY ArenaAssumption
  <2> PICK n : n = nb + TopPad + MINSIZE - hdr[top].sz OBVIOUS
  <2>2. n \in Nat /\ hdr[top].sz + n >= nb + MINSIZE BY <1>1, <1>3, <1>5, <2>1, SMTT(40) DEF MINSIZE
  <2>3. x = AlignUp(n, PageSize) BY DEF Growth
  <2>4. x \in Nat /\ x >= n BY <2>1, <2>2, <2>3, AlignUpCovers
  <2> QED BY <1>3, <1>5, <2>2, <2>4 DEF MINSIZE
<1>7. binmap' \subseteq BinIndices BY <1>1 DEF Scanned, OwnInv, Shaped
<1>8. CASE /\ system_mem + x <= HeapLimit
           /\ system_mem' = system_mem + x
           /\ hdr' = CutAt([hdr EXCEPT ![top].sz = @ + x], top, nb)
           /\ top' = top + nb
           /\ Got(t, top)
  <2> PICK brk : brk = system_mem + x OBVIOUS
  <2>1. brk \in Int /\ brk >= system_mem /\ brk <= HeapLimit /\ brk - system_mem = x
    BY <1>3, <1>6, <1>8
  <2>2. hdr[top].sz + (brk - system_mem) >= nb + MINSIZE BY <1>6, <2>1
  <2>3. hdr' = CutAt([hdr EXCEPT ![top].sz = @ + (brk - system_mem)], top, nb) BY <1>8,
    <2>1, Zenon
  <2>4. top' = top + nb /\ system_mem' = brk /\ Got(t, top)
        /\ UNCHANGED <<lock, fastVars, unsorted, bins, last_remainder, tcache, live>>
    BY <1>1, <1>8
  <2> QED BY ONLY OwnInv, t \in Threads, nb = op[t].nb, <1>1, <1>7, <2>1, <2>2, <2>3, <2>4, TopKeeps
<1>9. CASE Got(t, None) /\ UNCHANGED heapVars
  <2>1. PICK d \in Call_ : /\ op' = [op EXCEPT ![t] = d] /\ Same(d, op[t]) /\ d.pc = "got"
                           /\ d.v = None /\ d.chain = op[t].chain
    <3>1. None \in Int \cup {None} /\ Got(t, None) /\ Shaped BY <1>9 DEF OwnInv
    <3> QED BY ONLY <3>1, t \in Threads, GotCall, Zenon
  <2>2. CallSound(d, hdr) BY <1>4, <2>1, GotSound
  <2>3. Shaped' BY <1>1, <1>7, <2>1, CallShaped DEF OwnInv, Shaped, fastVars
  <2>4. UNCHANGED <<heapVars, bins, unsorted, fastbins, tcache, live>> BY <1>1, <1>9 DEF fastVars
  <2>5. d.p = op[t].p /\ d.v = op[t].v BY <1>5, <2>1 DEF Same
  <2> QED BY ONLY OwnInv, t \in Threads, <2>1, <2>2, <2>3, <2>4, <2>5, StayCall, Zenon
<1> QED BY <1>1, <1>8, <1>9

(* Lemma: the break moves, and the size of top with it.                    *)
LEMMA BreakKeeps ==
  ASSUME OwnInv, NEW t \in Threads, NEW x \in Int, hdr[top].sz - x >= MINSIZE,
         system_mem - x <= HeapLimit, system_mem' = system_mem - x,
         hdr' = [hdr EXCEPT ![top].sz = @ - x], NEW d \in Call_, op' = [op EXCEPT ![t] = d],
         d.p = op[t].p, d.v = op[t].v, d.chain = op[t].chain,
         CallSound(d, hdr), UNCHANGED <<lock, top, fastVars, binVars, tcache, live>>
  PROVE  OwnInv' /\ HeapStep
<1> PICK G : G = {top} BY Zenon
<1> PICK dest : dest = [y \in G |-> TopPl] BY Zenon
<1> PICK Q : Q = {TopPl} BY Zenon
<1>1. HeapFacts BY HeapIs DEF OwnInv
<1>2. /\ top \in DOMAIN hdr /\ top \in Nat /\ hdr[top].sz \in Nat /\ HeapLimit \in Nat
      /\ system_mem \in Nat /\ top + hdr[top].sz = system_mem
  BY <1>1, ArenaAssumption DEF HeapFacts, Header, Next_
<1> PICK brk : brk = system_mem - x OBVIOUS
<1>3. brk \in HP!Brks /\ hdr[top].sz + (brk - system_mem) >= MINSIZE
      /\ hdr[top].sz - x = hdr[top].sz + (brk - system_mem)
  BY <1>2 DEF HP!Brks, MINSIZE
<1>4. hdr' = [hdr EXCEPT ![top].sz = @ + (brk - system_mem)] BY <1>2, <1>3, Zenon
<1>5. DOMAIN hdr' = DOMAIN hdr /\ \A c \in DOMAIN hdr \ {top} : hdr'[c] = hdr[c] BY <1>2
<1>6. op'[t] = d /\ \A u \in Threads \ {t} : op'[u] = op[u] BY CallSet, Zenon DEF OwnInv
<1>7. TopPl \in Places /\ TopPl \notin BinPlaces /\ \A c \in G : dest[c] = TopPl
  BY PlacesAre, BinPlacesAre
<1>8. Shaped' BY ShapedBy DEF OwnInv, Shaped, fastVars, binVars
<1>9. Placing(Q, G, G, dest)
  <2>1. OnlyLists(Q) BY DEF OnlyLists, fastVars, binVars
  <2>2. Only(Q) BY <2>1, OnlyIs, Zenon DEF OwnInv
  <2>3. ChunksAt(TopPl)' = (ChunksAt(TopPl) \ G) \cup {c \in G : dest[c] = TopPl}
        /\ Once(ListAt(TopPl)')
    BY <1>7, ChunksAre, ChunksAreNext, ListsAtNext, EmptyOnce
  <2>4. \A c \in G : \E pl \in Q : c \in ChunksAt(pl) BY ChunksAre
  <2>5. DOMAIN hdr' = (DOMAIN hdr \ G) \cup G /\ G \cap (DOMAIN hdr \ G) = {}
        /\ \A c \in DOMAIN hdr \ G : hdr'[c].sz = hdr[c].sz
    BY <1>2, <1>5, Zenon
  <2> QED BY <1>7, <2>2, <2>3, <2>4, <2>5 DEF Placing
<1>10. HeapStep
  <2>1. Binned' = Binned BY DEF Binned, ListsOf, binVars
  <2>2. HP!MINSIZE = MINSIZE BY SameSmall
  <2>3. system_mem' = brk /\ top' = top OBVIOUS
  <2>4. HP!MoveBreak(brk) BY <1>3, <1>4, <2>1, <2>2, <2>3, Zenon DEF HP!MoveBreak, HP!Moved
  <2>5. HP!Next BY <1>3, <2>4, Zenon DEF HP!Next, HP!OnTop
  <2> QED BY <2>5 DEF HeapStep
<1>11. Leaving(t, Q, G, G, dest)
  <2>1. \A u \in Threads \ {t} : op'[u] = op[u] /\ PPl(u) \notin Q /\ VPl(u) \notin Q
    BY <1>6, PlacesAt
  <2>2. \A c \in G : MayBeAt(dest[c], hdr'[c].sz) BY <1>7, MayBe
  <2>3. CallSound(op'[t], hdr')
    <3>1. PPl(t) \in Places /\ PPl(t) # TopPl /\ VPl(t) \in Places /\ VPl(t) # TopPl
      BY PlacesAre, PlacesAt
    <3>2. top \notin ChunksAt(PPl(t)) /\ top \notin ChunksAt(VPl(t))
      BY <1>7, <3>1, ChunksAre DEF OwnInv, Owned
    <3>3. d.p # None => hdr'[d.p].sz = hdr[d.p].sz
      <4>1. op[t].p # None => op[t].p \in DOMAIN hdr /\ op[t].p \in ChunksAt(PPl(t))
        BY HandsAt DEF OwnInv
      <4> QED BY <1>5, <3>2, <4>1
    <3>4. d.v # None => hdr'[d.v].sz = hdr[d.v].sz
      <4>1. op[t].v # None => op[t].v \in DOMAIN hdr /\ op[t].v \in ChunksAt(VPl(t))
        BY HandsAt DEF OwnInv
      <4> QED BY <1>5, <3>2, <4>1
    <3>5. CallSound(d, hdr') BY ONLY CallSound(d, hdr), <3>3, <3>4, CallFrame
    <3> QED BY <1>6, <3>5
  <2>4. \A p \in DOMAIN live' : p \in DOMAIN live \ G /\ live'[p] = live[p]
    <3>1. LivePl \in Places /\ LivePl # TopPl BY PlacesAre, PlacesAt
    <3>2. top \notin DOMAIN live BY <1>7, <3>1, ChunksAre DEF OwnInv, Owned
    <3> QED BY <3>2
  <2>5. \A i \in BinIndices : BinPl(i) \notin Q BY PlacesAt
  <2> QED BY <1>8, <1>10, <2>1, <2>2, <2>3, <2>4, <2>5 DEF Leaving
<1> QED BY <1>9, <1>10, <1>11, LeavingKeeps

(* Lemma: systrim gives whole pages of the top back.                       *)
LEMMA OwnSysTrim ==
  ASSUME OwnInv, LockInv, NEW t \in Threads, SysTrim(t)
  PROVE  OwnInv' /\ HeapStep
<1> PICK k : k = op[t].k OBVIOUS
<1> DEFINE e == [op[t] EXCEPT !.pc = k]
           d == [e EXCEPT !.k = "idle"]
<1> PICK pad : pad = IF op[t].fn = "trim" THEN op[t].pad ELSE TopPad OBVIOUS
<1> PICK x : x = Extra(pad) OBVIOUS
<1>1. op[t] \in Call_ /\ CallSound(op[t], hdr) BY DEF OwnInv, Shaped, CallsInv
<1>2. op[t].pc = "systrim" BY DEF SysTrim, Holds
<1>3. op' = [op EXCEPT ![t] = d] BY <1>1, Zenon DEF SysTrim, OwnInv, Shaped
<1>4. UNCHANGED <<lock, top, fastVars, binVars, tcache, live>> BY DEF SysTrim
<1>5. \/ SysTrimReleases(pad) /\ system_mem' = system_mem - x /\ hdr' = [hdr EXCEPT ![top].sz = @ - x]
      \/ UNCHANGED <<system_mem, hdr>>
  BY DEF SysTrim
<1>6. /\ k \in {"done", "aligned"} /\ op[t].p = None /\ op[t].al > 0 /\ op[t].pad >= 0
      /\ k = "done" => Brings(op[t], hdr)
      /\ k = "aligned" => AtPlace(op[t], hdr)
  BY <1>2, ComingFacts
<1>7. op[t].chain = <<>> BY <1>1, <1>2 DEF CallSound
<1>8. /\ e \in Call_ /\ Same(e, op[t]) /\ e.pc = k /\ e.v = op[t].v /\ e.chain = <<>>
  <2>1. e \in Call_ BY <1>1, <1>6, CallWith, Zenon DEF LockedPCs
  <2> QED BY <1>1, <1>7, <2>1 DEF Same, Call_
<1> HIDE DEF e
<1>9. /\ d \in Call_ /\ Same(d, op[t]) /\ d.pc = k /\ d.v = op[t].v /\ d.chain = <<>>
  <2>1. d \in Call_ BY <1>8, CallWith, Zenon
  <2> QED BY <1>8, <2>1, Zenon DEF Same, Call_
<1> HIDE DEF d
<1>10. CallSound(d, hdr)
  <2>2. (Brings(op[t], hdr) <=> Brings(d, hdr)) /\ (AtPlace(op[t], hdr) <=> AtPlace(d, hdr))
    BY <1>9 DEF Brings, AtPlace, Same
  <2>3. d.al > 0 /\ d.pad >= 0 /\ d.p = None BY <1>6, <1>9 DEF Same
  <2>4. CASE k = "done" BY <1>6, <1>9, <2>2, <2>3, <2>4, DoneSound
  <2>5. CASE k = "aligned" BY <1>6, <1>9, <2>2, <2>3, <2>5, AlignedSound
  <2> QED BY <1>6, <2>4, <2>5
<1>11. d.p = op[t].p /\ d.v = op[t].v /\ d.chain = op[t].chain BY <1>7, <1>9 DEF Same
<1>12. CASE UNCHANGED <<system_mem, hdr>>
  <2>1. Shaped' BY <1>3, <1>4, <1>9, CallShaped DEF OwnInv, Shaped, fastVars, binVars
  <2>2. UNCHANGED <<heapVars, bins, unsorted, fastbins, tcache, live>>
    BY <1>4, <1>12 DEF heapVars, binVars, fastVars
  <2> QED BY ONLY OwnInv, t \in Threads, <1>3, <1>9, <1>10, <1>11, <2>1, <2>2, StayCall,
    Zenon
<1>13. CASE /\ SysTrimReleases(pad) /\ system_mem' = system_mem - x
            /\ hdr' = [hdr EXCEPT ![top].sz = @ - x]
  <2>1. hdr[top].sz \in Nat BY HeapIs DEF OwnInv, HeapFacts, Header
  <2>2. pad \in Nat
    <3>1. op[t].pad \in Int BY <1>1 DEF Call_
    <3> QED BY <1>6, <3>1, ArenaAssumption
  <2>3. PageSize \in Nat \ {0} BY ArenaAssumption
  <2> PICK y : y = hdr[top].sz - MINSIZE - pad - 1 OBVIOUS
  <2>4. y \in Int /\ hdr[top].sz - y >= MINSIZE BY <2>1, <2>2 DEF MINSIZE
  <2>5. x = (y \div PageSize) * PageSize BY DEF Extra
  <2>6. x \in Int /\ x <= y BY <2>3, <2>4, <2>5, RoundDown, Zenon
  <2>7. hdr[top].sz - x >= MINSIZE BY <2>1, <2>4, <2>6 DEF MINSIZE
  <2>8. system_mem - x <= HeapLimit BY <1>13 DEF SysTrimReleases
  <2> QED BY ONLY OwnInv, t \in Threads, <1>3, <1>4, <1>9, <1>10, <1>11, <1>13, <2>6, <2>7,
    <2>8,
                  BreakKeeps, Zenon
<1> QED BY <1>5, <1>12, <1>13

-----------------------------------------------------------------------------
(* Chunks are merged.                                                      *)

(* What a merge of p with its free neighbours, next chunk n, does to       *)
(* headers h, where F are the free chunks.                                 *)
MergedAs(h, F, p, n, m, g) ==
  /\ \/ m.q = p /\ m.prev = None
     \/ m.q # p /\ m.q \in F /\ m.prev = m.q
  /\ n \in DOMAIN h \ {p, m.q} /\ (m.atTop <=> n = top)
  /\ m.next = IF n \in F THEN n ELSE None
  /\ m.gone = ({p} \ {m.q}) \cup (IF n = top \/ n \in F THEN {n} ELSE {})
  /\ F \subseteq DOMAIN h \ {top} /\ top \in DOMAIN h /\ DOMAIN h \subseteq Nat
  /\ DOMAIN g = DOMAIN h \ m.gone /\ g[m.q].sz = m.sz /\ m.sz \in Nat
  /\ \A d \in DOMAIN g \ {m.q} : g[d].sz = h[d].sz
  /\ m.sz >= h[p].sz /\ (n \in F => m.sz >= h[n].sz)

(* Lemma: what merging a chunk with its free neighbours does to the        *)
(* headers.                                                                *)
LEMMA MergeFacts ==
  ASSUME NEW h, NEW F, HP!Good(h, top, F), NEW p \in DOMAIN h \ {top}, p \notin F,
         NEW b \in BOOLEAN, b \/ h[p].pinuse, NEW m, m = Merge(h, top, p, b),
         NEW n, n = Next_(h, p), NEW g, g = MergedHdr(h, m)
  PROVE  MergedAs(h, F, p, n, m, g)
<1>1. m = HP!Merge(h, top, p, b) /\ n = HP!Next_(h, p) /\ g = HP!MergedHdr(h, m)
  BY SameMerge, SameSmall
<1>0. HeapLimit \in Nat /\ None \notin Int BY ArenaAssumption, NoneAssumption
<1> PICK tp : tp = top OBVIOUS
<1>1a. /\ m = HP!Merge(h, tp, p, b) /\ HP!Good(h, tp, F) /\ p \in DOMAIN h \ {tp} /\ p \notin F
       /\ b \in BOOLEAN /\ (b \/ h[p].pinuse)
  BY <1>1
<1>2. /\ m.q \in DOMAIN h \ {top}
      /\ \/ m.q = p /\ h[p].pinuse /\ m.prev = None
         \/ m.q # p /\ m.q \in F /\ HP!Next_(h, m.q) = p /\ m.prev = m.q
      /\ n \in DOMAIN h \ {p, m.q} /\ (n = top => m.atTop) /\ (n # top => ~m.atTop)
      /\ \/ /\ n = top \/ n \in F
            /\ m.sz = HP!Next_(h, n) - m.q /\ m.gone = ({p} \ {m.q}) \cup {n}
         \/ /\ n # top /\ n \notin F
            /\ m.sz = n - m.q /\ m.gone = {p} \ {m.q}
      /\ m.next = IF n \in F THEN n ELSE None
  <2>1. /\ m.q \in DOMAIN h \ {tp}
        /\ \/ m.q = p /\ h[p].pinuse /\ m.prev = None
           \/ m.q # p /\ m.q \in F /\ HP!Next_(h, m.q) = p /\ m.prev = m.q
        /\ n \in DOMAIN h \ {p, m.q} /\ (n = tp => m.atTop) /\ (n # tp => ~m.atTop)
        /\ \/ /\ n = tp \/ n \in F
              /\ m.sz = HP!Next_(h, n) - m.q /\ m.gone = ({p} \ {m.q}) \cup {n}
           \/ /\ n # tp /\ n \notin F
              /\ m.sz = n - m.q /\ m.gone = {p} \ {m.q}
        /\ m.next = IF n \in F THEN n ELSE None
    BY ONLY <1>0, <1>1, <1>1a, HP!MergeReach, SMTT(60)
  <2> QED BY ONLY <2>1, tp = top
<1>3. HP!Coalescing(h, top, F, p, n, m, g)
  <2>1. HP!Coalescing(h, tp, F, p, n, m, g) BY ONLY <1>0, <1>1, <1>1a, HP!MergeLaid, Zenon
  <2> QED BY ONLY <2>1, tp = top, Zenon
<1>4. /\ DOMAIN g = DOMAIN h \ m.gone
      /\ g[m.q] = [sz |-> m.sz, pinuse |-> TRUE, psz |-> 0]
      /\ \A d \in DOMAIN g \ {m.q} : g[d].sz = h[d].sz
      /\ m.sz >= h[p].sz /\ (n = top \/ n \in F => m.sz >= h[n].sz) /\ m.sz \in Nat
  BY <1>3, Zenon DEF HP!Coalescing
<1>5. F \subseteq DOMAIN h \ {top} /\ top \in DOMAIN h /\ DOMAIN h \subseteq Nat
  BY Zenon DEF HP!Good, HP!Tagged, HP!Laid
<1>6. m.gone = ({p} \ {m.q}) \cup (IF n = top \/ n \in F THEN {n} ELSE {})
  BY ONLY <1>2
<1>7. m.atTop <=> n = top BY ONLY <1>2
<1>8. g[m.q].sz = m.sz BY ONLY <1>4
<1> QED BY ONLY <1>2, <1>4, <1>5, <1>6, <1>7, <1>8 DEF MergedAs

(* h is hdr with the chunks of B in place of those of A; of these, p is    *)
(* about to be freed, the others are kept.                                 *)
Freed(h, A, B, p) ==
  /\ HP!Good(h, top, Binned \ A)
  /\ A \subseteq DOMAIN hdr \ {top}
  /\ DOMAIN h = (DOMAIN hdr \ A) \cup B /\ B \cap (DOMAIN hdr \ A) = {}
  /\ \A c \in DOMAIN hdr \ A : h[c].sz = hdr[c].sz
  /\ p \in B

(* The chunks that a merge takes in.                                       *)
Eaten(m) == ({m.prev, m.next} \ {None}) \cup (IF m.atTop THEN {top} ELSE {})

(* The same, seen from hdr.                                                *)
MergedFrom(h, A, B, p, m, g) ==
  /\ DOMAIN g = ((DOMAIN hdr \ (A \cup Eaten(m))) \cup (B \ {p})) \cup {m.q}
  /\ m.q \notin B \ {p} /\ m.q \notin DOMAIN hdr \ (A \cup Eaten(m)) /\ m.q \in Int
  /\ m.q # None
  /\ (m.q = p \/ m.q \in {m.prev, m.next} \ {None})
  /\ {m.prev, m.next} \ {None} \subseteq Binned \ A
  /\ \A c \in DOMAIN hdr \ (A \cup Eaten(m)) : g[c].sz = hdr[c].sz
  /\ \A c \in B \ {p} : g[c].sz = h[c].sz
  /\ g[m.q].sz = m.sz /\ m.sz \in Nat /\ m.sz >= h[p].sz
  /\ (m.atTop <=> Next_(h, p) = top)
  /\ (Next_(h, p) \in Binned \ A => m.sz >= hdr[Next_(h, p)].sz)
  /\ Binned \subseteq DOMAIN hdr \ {top} /\ top \in DOMAIN hdr

(* Lemma: a merge in the arena: the heap it leaves and the chunks it       *)
(* swallowed.                                                              *)
LEMMA MergeShape ==
  ASSUME OwnInv, NEW h, NEW A, NEW B, NEW p, Freed(h, A, B, p),
         NEW b \in BOOLEAN, b \/ h[p].pinuse, NEW m, m = Merge(h, top, p, b),
         NEW g, g = MergedHdr(h, m)
  PROVE  MergedFrom(h, A, B, p, m, g)
<1> PICK F : F = Binned \ A BY Zenon
<1> PICK n : n = Next_(h, p) OBVIOUS
<1>1. /\ HP!Good(h, top, F) /\ A \subseteq DOMAIN hdr \ {top}
      /\ DOMAIN h = (DOMAIN hdr \ A) \cup B /\ B \cap (DOMAIN hdr \ A) = {}
      /\ \A c \in DOMAIN hdr \ A : h[c].sz = hdr[c].sz
      /\ p \in B
  BY DEF Freed
<1>2. Binned \subseteq DOMAIN hdr \ {top} /\ top \in DOMAIN hdr
  BY HeapIs DEF OwnInv, HeapFacts
<1>3. top \in DOMAIN hdr \ A /\ F \subseteq DOMAIN hdr \ A BY <1>1, <1>2
<1>4. p \in DOMAIN h \ {top} /\ p \notin F BY <1>1, <1>3
<1>5. /\ \/ m.q = p /\ m.prev = None
         \/ m.q # p /\ m.q \in F /\ m.prev = m.q
      /\ n \in DOMAIN h \ {p, m.q} /\ (m.atTop <=> n = top)
      /\ m.next = IF n \in F THEN n ELSE None
      /\ m.gone = ({p} \ {m.q}) \cup (IF n = top \/ n \in F THEN {n} ELSE {})
      /\ F \subseteq DOMAIN h \ {top} /\ top \in DOMAIN h /\ DOMAIN h \subseteq Nat
      /\ DOMAIN g = DOMAIN h \ m.gone /\ g[m.q].sz = m.sz /\ m.sz \in Nat
      /\ \A d \in DOMAIN g \ {m.q} : g[d].sz = h[d].sz
      /\ m.sz >= h[p].sz /\ (n \in F => m.sz >= h[n].sz)
  <2>1. MergedAs(h, F, p, n, m, g) BY <1>1, <1>4, MergeFacts
  <2> QED BY <2>1 DEF MergedAs
<1>6. None \notin Nat BY NoneAssumption
<1> PICK q : q = m.q OBVIOUS
<1> PICK E : E = Eaten(m) OBVIOUS
<1>7. E = (IF q = p THEN {} ELSE {q}) \cup (IF n = top \/ n \in F THEN {n} ELSE {})
  <2>1. q \in Nat /\ n \in Nat BY <1>5, <1>4
  <2>2. {m.prev, m.next} \ {None}
           = (IF q = p THEN {} ELSE {q}) \cup (IF n \in F THEN {n} ELSE {})
    <3>1. m.prev = IF q = p THEN None ELSE q BY <1>5
    <3>2. q # None /\ n # None BY <1>6, <2>1
    <3> QED BY <1>5, <3>1, <3>2
  <2>3. E = ((IF q = p THEN {} ELSE {q}) \cup (IF n \in F THEN {n} ELSE {}))
              \cup (IF n = top THEN {top} ELSE {})
    BY <1>5, <2>2 DEF Eaten
  <2> QED BY <1>5, <2>3
<1>8. E \subseteq DOMAIN hdr \ A /\ E \cap B = {}
  BY ONLY <1>1, <1>3, <1>5, <1>7, q = m.q
<1>9. m.gone \cup {q} = {p} \cup E /\ q \notin m.gone /\ q \in {p} \cup E
  BY ONLY <1>5, <1>7, q = m.q
<1>10. DOMAIN g = ((DOMAIN hdr \ (A \cup E)) \cup (B \ {p})) \cup {q}
  <2>1. DOMAIN g = (DOMAIN h \ ({p} \cup E)) \cup {q}
    <3>1. q \in DOMAIN h BY <1>4, <1>5
    <3> QED BY ONLY <1>5, <1>9, <3>1
  <2>2. DOMAIN h \ ({p} \cup E) = (DOMAIN hdr \ (A \cup E)) \cup (B \ {p})
    BY ONLY <1>1, <1>8
  <2> QED BY ONLY <2>1, <2>2
<1>11. q \notin B \ {p} /\ q \notin DOMAIN hdr \ (A \cup E)
  BY ONLY <1>1, <1>8, <1>9
<1>12. q = p \/ q \in {m.prev, m.next} \ {None}
  BY <1>4, <1>5, <1>6
<1>13. {m.prev, m.next} \ {None} \subseteq F BY <1>5
<1>14. \A c \in DOMAIN hdr \ (A \cup E) : g[c].sz = hdr[c].sz
  BY ONLY <1>1, <1>5, <1>10, <1>11, q = m.q
<1>15. \A c \in B \ {p} : g[c].sz = h[c].sz
  BY ONLY <1>5, <1>10, <1>11, q = m.q
<1>16. n \in F => m.sz >= hdr[n].sz BY ONLY <1>1, <1>3, <1>5
<1>17. q \in Nat BY <1>4, <1>5
<1>18. q \in Int /\ q # None BY <1>6, <1>17
<1> QED BY ONLY <1>2, <1>5, <1>10, <1>11, <1>12, <1>13, <1>14, <1>15, <1>16, <1>18, q = m.q,
                E = Eaten(m), F = Binned \ A, n = Next_(h, p)
            DEF MergedFrom

-----------------------------------------------------------------------------
(* What a merge does to top and to the lists of free chunks: the chunk     *)
(* that results goes home, the chunks of X are gone.                       *)
MergedLists(m, X, home) ==
  /\ home \in {TopPl} \cup BinPlaces /\ (home = TopPl <=> m.atTop)
  /\ top' = IF m.atTop THEN m.q ELSE top
  /\ \E r : /\ Fewer(r, unsorted, X)
            /\ unsorted' = IF home = UnsortedPl THEN <<m.q>> \o r ELSE r
  /\ \A i \in BinIndices :
       /\ \E r : /\ Fewer(r, bins[i], X)
                 /\ bins'[i] = IF home = BinPl(i) THEN <<m.q>> \o r ELSE r
       /\ home = BinPl(i) => BinIndex(m.sz) = i /\ InSmallbinRange(i)

(* A list u that is s without the chunks of X and with q before, if here.  *)
Renewed(u, s, X, q, here) ==
  /\ Once(u) /\ ToSet(u) = (ToSet(s) \ X) \cup (IF here THEN {q} ELSE {})
  /\ \A a, b : Before(u, a, b) => Before(s, a, b) \/ (here /\ a = q /\ b # q)

(* Lemma: a list that lost chunks and gained none.                         *)
LEMMA FewerRenewed ==
  ASSUME NEW s, NEW r, NEW X, Fewer(r, s, X), NEW q
  PROVE  Renewed(r, s, X, q, FALSE)
BY DEF Fewer, Renewed

(* Lemma: a list that lost chunks and gained the merged one at its head.   *)
LEMMA PushRenewed ==
  ASSUME NEW s, NEW r, NEW X, Fewer(r, s, X), NEW q \in Int, q \notin ToSet(s) \ X
  PROVE  Renewed(<<q>> \o r, s, X, q, TRUE)
<1>1. Once(r) /\ ToSet(r) = ToSet(s) \ X /\ \A a, b : Before(r, a, b) => Before(s, a, b)
  BY DEF Fewer
<1>2. More(<<q>> \o r, r, q) /\ \A a, b : Before(<<q>> \o r, a, b) => b # q BY <1>1, PushMore
<1> PICK u : u = <<q>> \o r BY Zenon
<1>3. More(u, r, q) /\ \A a, b : Before(u, a, b) => b # q BY <1>2
<1>4. Renewed(u, s, X, q, TRUE) BY <1>1, <1>3 DEF More, Renewed
<1> QED BY <1>4, Zenon

(* Lemma: the lists of free chunks after a merge.                          *)
LEMMA MergedBins ==
  ASSUME OwnInv, NEW m, NEW X, NEW home, MergedLists(m, X, home), m.q \in Int,
         \A pl \in BinPlaces : m.q \notin ChunksAt(pl) \ X
  PROVE  \A pl \in BinPlaces :
           /\ ChunksAt(pl)' = (ChunksAt(pl) \ X) \cup (IF home = pl THEN {m.q} ELSE {})
           /\ Once(ListAt(pl)')
<1> PICK q : q = m.q OBVIOUS
<1>1. /\ ChunksAt(UnsortedPl)' = (ChunksAt(UnsortedPl) \ X) \cup (IF home = UnsortedPl THEN {q} ELSE {})
      /\ Once(ListAt(UnsortedPl)')
  <2> PICK here \in BOOLEAN : here <=> home = UnsortedPl BY Zenon
  <2>1. PICK r : Fewer(r, unsorted, X) /\ unsorted' = IF here THEN <<q>> \o r ELSE r
    BY DEF MergedLists
  <2>2. q \notin ToSet(unsorted) \ X BY ChunksAre DEF BinPlaces
  <2>3. q \in Int OBVIOUS
  <2>4. Renewed(unsorted', unsorted, X, q, here)
    <3>1. CASE here
      <4>1. unsorted' = <<q>> \o r BY <2>1, <3>1
      <4>2. Renewed(<<q>> \o r, unsorted, X, q, TRUE) BY ONLY <2>1, <2>2, <2>3,
        PushRenewed, Zenon
      <4> QED BY <4>1, <4>2, <3>1, Zenon
    <3>2. CASE ~here
      <4>1. unsorted' = r BY <2>1, <3>2
      <4>2. Renewed(r, unsorted, X, q, FALSE) BY ONLY <2>1, FewerRenewed, Zenon
      <4> QED BY <4>1, <4>2, <3>2, Zenon
    <3> QED BY <3>1, <3>2
  <2>5. Once(unsorted') /\ ToSet(unsorted') = (ToSet(unsorted) \ X) \cup (IF here THEN {q} ELSE {})
    BY <2>4 DEF Renewed
  <2> QED BY <2>5, ChunksAre, ChunksAreNext, ListsAtNext
<1>2. ASSUME NEW i \in BinIndices
      PROVE  /\ ChunksAt(BinPl(i))' = (ChunksAt(BinPl(i)) \ X) \cup (IF home = BinPl(i) THEN {q} ELSE {})
             /\ Once(ListAt(BinPl(i))')
  <2> PICK here \in BOOLEAN : here <=> home = BinPl(i) BY Zenon
  <2>1. PICK r : Fewer(r, bins[i], X) /\ bins'[i] = IF here THEN <<q>> \o r ELSE r
    BY DEF MergedLists
  <2>2. q \notin ToSet(bins[i]) \ X BY ChunksAre DEF BinPlaces
  <2>3. q \in Int OBVIOUS
  <2>4. Renewed(bins'[i], bins[i], X, q, here)
    <3>1. CASE here
      <4>1. bins'[i] = <<q>> \o r BY <2>1, <3>1
      <4>2. Renewed(<<q>> \o r, bins[i], X, q, TRUE) BY ONLY <2>1, <2>2, <2>3, PushRenewed,
        Zenon
      <4> QED BY <4>1, <4>2, <3>1, Zenon
    <3>2. CASE ~here
      <4>1. bins'[i] = r BY <2>1, <3>2
      <4>2. Renewed(r, bins[i], X, q, FALSE) BY ONLY <2>1, FewerRenewed, Zenon
      <4> QED BY <4>1, <4>2, <3>2, Zenon
    <3> QED BY <3>1, <3>2
  <2>5. Once(bins'[i]) /\ ToSet(bins'[i]) = (ToSet(bins[i]) \ X) \cup (IF here THEN {q} ELSE {})
    BY <2>4 DEF Renewed
  <2> QED BY <2>5, ChunksAre, ChunksAreNext, ListsAtNext
<1>3. ASSUME NEW pl \in BinPlaces
      PROVE  /\ ChunksAt(pl)' = (ChunksAt(pl) \ X) \cup (IF home = pl THEN {q} ELSE {})
             /\ Once(ListAt(pl)')
  <2>1. CASE pl = UnsortedPl BY <1>1, <2>1
  <2>2. CASE pl # UnsortedPl
    <3>1. PICK i \in BinIndices : pl = BinPl(i) BY <2>2 DEF BinPlaces
    <3> QED BY <1>2, <3>1
  <2> QED BY <2>1, <2>2
<1> QED BY <1>3

(* Lemma: the bins still descend.                                          *)
LEMMA MergedDescends ==
  ASSUME OwnInv, NEW m, NEW X, NEW home, MergedLists(m, X, home), m.q \in Int,
         NEW i \in BinIndices, m.q \notin ToSet(bins[i]) \ X, NEW g,
         \A c \in ToSet(bins[i]) \ X : g[c].sz = hdr[c].sz, g[m.q].sz = m.sz, m.sz \in Nat,
         m.atTop \/ m.sz >= MINSIZE
  PROVE  Descends(bins'[i], g)
<1> PICK q : q = m.q OBVIOUS
<1> PICK here \in BOOLEAN : here <=> home = BinPl(i) BY Zenon
<1>1. PICK r : Fewer(r, bins[i], X) /\ bins'[i] = IF here THEN <<q>> \o r ELSE r
  BY DEF MergedLists
<1>2. q \in Int /\ q \notin ToSet(bins[i]) \ X OBVIOUS
<1>3. /\ ToSet(bins'[i]) = (ToSet(bins[i]) \ X) \cup (IF here THEN {q} ELSE {})
      /\ \A a, b : Before(bins'[i], a, b) => Before(bins[i], a, b) \/ (here /\ a = q /\ b # q)
  <2>1. Renewed(bins'[i], bins[i], X, q, here)
    <3>1. CASE here
      <4>1. bins'[i] = <<q>> \o r BY <1>1, <3>1
      <4>2. Renewed(<<q>> \o r, bins[i], X, q, TRUE) BY ONLY <1>1, <1>2, PushRenewed, Zenon
      <4> QED BY <4>1, <4>2, <3>1, Zenon
    <3>2. CASE ~here
      <4>1. bins'[i] = r BY <1>1, <3>2
      <4>2. Renewed(r, bins[i], X, q, FALSE) BY ONLY <1>1, FewerRenewed, Zenon
      <4> QED BY <4>1, <4>2, <3>2, Zenon
    <3> QED BY <3>1, <3>2
  <2> QED BY <2>1 DEF Renewed
<1>4. Descends(bins[i], hdr) /\ \A c \in ToSet(bins[i]) : BinIndex(hdr[c].sz) = i
  BY ListsAre
<1>5. \A a, b : Before(bins'[i], a, b) => a \in ToSet(bins'[i]) /\ b \in ToSet(bins'[i])
  BY DEF Before, ToSet
<1>6. CASE ~here
  <2>1. \A a, b : Before(bins'[i], a, b) => Before(bins[i], a, b) BY <1>3, <1>6
  <2>2. \A c \in ToSet(bins'[i]) : g[c].sz = hdr[c].sz BY <1>3, <1>6
  <2> QED BY <1>4, <1>5, <2>1, <2>2 DEF Descends
<1>7. CASE here
  <2>1. BinIndex(m.sz) = i /\ InSmallbinRange(i) /\ m.sz >= MINSIZE
    <3>1. BinPl(i) # TopPl BY PlacesAt
    <3> QED BY <1>7, <3>1 DEF MergedLists
  <2>2. m.sz = i BY <2>1, SmallIs
  <2>3. ASSUME NEW c \in ToSet(bins[i]) \ X PROVE g[c].sz = i
    <3>1. c \in Binned BY InBinned DEF OwnInv
    <3>2. hdr[c].sz \in Nat /\ hdr[c].sz >= MINSIZE BY <3>1, ListedSize
    <3>3. BinIndex(hdr[c].sz) = i BY <1>4
    <3>4. hdr[c].sz = i BY ONLY <2>1, <3>2, <3>3, SmallIs
    <3> QED BY <3>4
  <2>4. \A c \in ToSet(bins'[i]) : g[c].sz = i BY <1>3, <2>2, <2>3
  <2>5. i \in Int BY <2>2
  <2> QED BY <1>5, <2>4, <2>5 DEF Descends
<1> QED BY <1>6, <1>7

(* Thread t frees p: in headers h the chunks of B replace those of A, out  *)
(* of them was in a bin; p is merged and goes home, the rest of B goes to  *)
(* the thread's hand, and nothing else happens at the places S.            *)
Merging(t, h, A, B, p, b, m, out, home, S) ==
  /\ Freed(h, A, B, p) /\ b \in BOOLEAN /\ (b \/ h[p].pinuse)
  /\ m = Merge(h, top, p, b) /\ hdr' = MergedHdr(h, m) /\ system_mem' = system_mem
  /\ (m.atTop \/ m.sz >= MINSIZE)
  /\ out \in A \cup {None} /\ A \cap Binned \subseteq {out}
  /\ MergedLists(m, {m.prev, m.next, out}, home)
  /\ S \subseteq {LivePl, PPl(t), VPl(t), ChainPl(t)} /\ (B # {p} => VPl(t) \in S)
  /\ Only(BinPlaces \cup {TopPl} \cup S)
  /\ \A c \in A : \E pl \in BinPlaces \cup S : c \in ChunksAt(pl)
  /\ \A pl \in S : /\ ChunksAt(pl)' = (ChunksAt(pl) \ A) \cup (IF pl = VPl(t) THEN B \ {p} ELSE {})
                   /\ Once(ListAt(pl)')
  /\ \A u \in Threads \ {t} : op'[u] = op[u]
  /\ CallSound(op'[t], hdr')
  /\ \A x \in DOMAIN live' : x \in DOMAIN live \ A /\ live'[x] = live[x]
  /\ (HP!Release(h, Binned \ A, p, b) => HP!Next)

(* Lemma: a step that frees a chunk by a merge keeps the invariant.        *)
LEMMA MergeKeeps ==
  ASSUME OwnInv, Shaped', NEW t \in Threads, NEW h, NEW A, NEW B, NEW p, NEW b, NEW m, NEW out,
         NEW home, NEW S, Merging(t, h, A, B, p, b, m, out, home, S)
  PROVE  OwnInv' /\ HeapStep
<1> PICK q : q = m.q OBVIOUS
<1> PICK X : X = {m.prev, m.next, out} BY Zenon
<1> PICK E : E = Eaten(m) OBVIOUS
<1> PICK G : G = A \cup E BY Zenon
<1> PICK N : N = (B \ {p}) \cup {q} BY Zenon
<1> PICK Q : Q = BinPlaces \cup {TopPl} \cup S BY Zenon
<1> PICK dest : dest = [c \in N |-> IF c = q THEN home ELSE VPl(t)] BY Zenon
<1>1. /\ Freed(h, A, B, p) /\ b \in BOOLEAN /\ (b \/ h[p].pinuse)
      /\ m = Merge(h, top, p, b) /\ hdr' = MergedHdr(h, m) /\ system_mem' = system_mem
      /\ (m.atTop \/ m.sz >= MINSIZE)
      /\ out \in A \cup {None} /\ A \cap Binned \subseteq {out}
      /\ MergedLists(m, X, home)
  BY DEF Merging
<1>2. /\ S \subseteq {LivePl, PPl(t), VPl(t), ChainPl(t)} /\ (B # {p} => VPl(t) \in S)
      /\ Only(Q)
      /\ \A c \in A : \E pl \in BinPlaces \cup S : c \in ChunksAt(pl)
      /\ \A pl \in S :
           /\ ChunksAt(pl)' = (ChunksAt(pl) \ A) \cup (IF pl = VPl(t) THEN B \ {p} ELSE {})
           /\ Once(ListAt(pl)')
      /\ \A u \in Threads \ {t} : op'[u] = op[u]
      /\ CallSound(op'[t], hdr')
      /\ \A x \in DOMAIN live' : x \in DOMAIN live \ A /\ live'[x] = live[x]
      /\ (HP!Release(h, Binned \ A, p, b) => HP!Next)
  BY DEF Merging
<1>3. MergedFrom(h, A, B, p, m, hdr') BY <1>1, MergeShape
<1>4. /\ DOMAIN hdr' = ((DOMAIN hdr \ G) \cup (B \ {p})) \cup {q}
      /\ q \notin B \ {p} /\ q \notin DOMAIN hdr \ G /\ q \in Int /\ q # None
      /\ {m.prev, m.next} \ {None} \subseteq Binned \ A
      /\ \A c \in DOMAIN hdr \ G : hdr'[c].sz = hdr[c].sz
      /\ hdr'[q].sz = m.sz /\ m.sz \in Nat
      /\ Binned \subseteq DOMAIN hdr \ {top} /\ top \in DOMAIN hdr
  BY <1>3 DEF MergedFrom
<1>5. None \notin DOMAIN hdr
  <2>1. DOMAIN hdr \subseteq Nat BY HeapIs DEF OwnInv, HeapFacts
  <2> QED BY <2>1, NoneAssumption
<1>6. /\ A \subseteq DOMAIN hdr \ {top} /\ B \cap (DOMAIN hdr \ A) = {} /\ p \in B
  BY <1>1 DEF Freed
<1>7. E = ({m.prev, m.next} \ {None}) \cup (IF m.atTop THEN {top} ELSE {}) BY DEF Eaten
<1>8. Binned \cap G = Binned \cap X
  BY ONLY <1>1, <1>4, <1>5, <1>6, <1>7, G = A \cup E, X = {m.prev, m.next, out}
<1>9. \A pl \in BinPlaces : ChunksAt(pl) \subseteq Binned
  <2>1. Binned = UNION {ChunksAt(pl) : pl \in BinPlaces} BY BinnedIs DEF OwnInv, Shaped
  <2> QED BY <2>1
<1>10. \A pl \in BinPlaces : q \notin ChunksAt(pl) \ X
  BY ONLY <1>4, <1>8, <1>9
<1>11. \A pl \in BinPlaces :
         /\ ChunksAt(pl)' = (ChunksAt(pl) \ X) \cup (IF home = pl THEN {q} ELSE {})
         /\ Once(ListAt(pl)')
  <2>1. MergedLists(m, X, home) /\ m.q \in Int /\ \A pl \in BinPlaces : m.q \notin ChunksAt(pl) \ X
    BY <1>1, <1>4, <1>10
  <2> QED BY ONLY OwnInv, <2>1, MergedBins, q = m.q
<1>12. home \in {TopPl} \cup BinPlaces /\ (home = TopPl <=> m.atTop)
       /\ top' = IF m.atTop THEN q ELSE top
  BY <1>1 DEF MergedLists
<1>13. /\ BinPlaces \cup {TopPl} \subseteq Places /\ {LivePl, PPl(t), VPl(t), ChainPl(t)} \subseteq Places
       /\ (BinPlaces \cup {TopPl}) \cap {LivePl, PPl(t), VPl(t), ChainPl(t)} = {}
       /\ TopPl \notin BinPlaces
  BY PlacesAre, PlacesAt, BinPlacesAre DEF BinPlaces
<1>14. \A c \in E : \E pl \in BinPlaces \cup {TopPl} : c \in ChunksAt(pl)
  <2>1. Binned = UNION {ChunksAt(pl) : pl \in BinPlaces} BY BinnedIs DEF OwnInv, Shaped
  <2>2. ChunksAt(TopPl) = {top} BY ChunksAre
  <2> QED BY ONLY <1>4, <1>7, <2>1, <2>2
<1>15. \A pl \in S : ChunksAt(pl) \cap E = {}
  BY <1>2, <1>13, <1>14 DEF OwnInv, Owned
<1>16. /\ dest[q] = home /\ \A c \in B \ {p} : dest[c] = VPl(t)
       /\ \A c \in N : c = q \/ c \in B \ {p}
  BY <1>4
<1>17. /\ \A pl \in BinPlaces \cup {TopPl} : {c \in N : dest[c] = pl} = IF home = pl THEN {q} ELSE {}
       /\ \A pl \in S : {c \in N : dest[c] = pl} = IF pl = VPl(t) THEN B \ {p} ELSE {}
  <2>1. ASSUME NEW pl \in BinPlaces \cup {TopPl}
        PROVE  {c \in N : dest[c] = pl} = IF home = pl THEN {q} ELSE {}
    <3>1. pl # VPl(t) BY <1>13
    <3> QED BY <1>4, <1>16, <3>1
  <2>2. ASSUME NEW pl \in S
        PROVE  {c \in N : dest[c] = pl} = IF pl = VPl(t) THEN B \ {p} ELSE {}
    <3>1. pl # home BY <1>2, <1>12, <1>13
    <3> QED BY <1>4, <1>16, <3>1
  <2> QED BY <2>1, <2>2, Zenon
<1>18. Placing(Q, G, N, dest)
  <2>1. Q \subseteq Places BY <1>2, <1>13
  <2>2. \A c \in G : \E pl \in Q : c \in ChunksAt(pl)
    BY ONLY <1>2, <1>14, G = A \cup E, Q = BinPlaces \cup {TopPl} \cup S
  <2>3. \A c \in N : dest[c] \in Q
    <3>1. home \in Q BY <1>12
    <3>2. \A c \in B \ {p} : dest[c] \in Q BY <1>2, <1>6, <1>16
    <3> QED BY <1>16, <3>1, <3>2
  <2>4. \A pl \in Q : /\ ChunksAt(pl)' = (ChunksAt(pl) \ G) \cup {c \in N : dest[c] = pl}
                      /\ Once(ListAt(pl)')
    <3> TAKE pl \in Q
    <3>1. CASE pl \in BinPlaces
      <4>1. ChunksAt(pl) \ X = ChunksAt(pl) \ G BY ONLY <1>8, <1>9, <3>1
      <4> QED BY <1>11, <1>17, <3>1, <4>1
    <3>2. CASE pl = TopPl
      <4>1. ChunksAt(pl) = {top} /\ ChunksAt(pl)' = {top'} /\ Once(ListAt(pl)')
        BY <3>2, ChunksAre, ChunksAreNext, ListsAtNext, EmptyOnce
      <4>2. top \in G <=> m.atTop BY ONLY <1>4, <1>6, <1>7, G = A \cup E
      <4>3. {c \in N : dest[c] = pl} = IF m.atTop THEN {q} ELSE {} BY <1>12, <1>17, <3>2
      <4> QED BY ONLY <1>12, <4>1, <4>2, <4>3
    <3>3. CASE pl \in S
      <4>1. ChunksAt(pl) \ A = ChunksAt(pl) \ G BY ONLY <1>15, <3>3, G = A \cup E
      <4> QED BY <1>2, <1>17, <3>3, <4>1
    <3> QED BY <3>1, <3>2, <3>3
  <2>5. DOMAIN hdr' = (DOMAIN hdr \ G) \cup N /\ N \cap (DOMAIN hdr \ G) = {}
    BY ONLY <1>4, <1>6, G = A \cup E, N = (B \ {p}) \cup {q}
  <2> QED BY ONLY <1>2, <1>4, <2>1, <2>2, <2>3, <2>4, <2>5, Zenon DEF Placing
<1>19. HeapStep
  <2>1. Binned' = (Binned \ G) \cup {c \in N : dest[c] \in BinPlaces}
    BY <1>18, PlacedBinned DEF OwnInv
  <2>2. {c \in N : dest[c] \in BinPlaces} = IF m.atTop THEN {} ELSE {q}
    <3>1. VPl(t) \notin BinPlaces BY <1>13
    <3>2. home \in BinPlaces <=> ~m.atTop BY <1>12, <1>13
    <3> QED BY ONLY <1>16, <3>1, <3>2, N = (B \ {p}) \cup {q}
  <2>3. Binned \ G = (Binned \ A) \ {m.prev, m.next}
    BY ONLY <1>4, <1>5, <1>7, G = A \cup E
  <2>4. Binned' = ((Binned \ A) \ {m.prev, m.next}) \cup (IF m.atTop THEN {} ELSE {m.q})
    BY ONLY <2>1, <2>2, <2>3, q = m.q
  <2>5. m = HP!Merge(h, top, p, b) /\ hdr' = HP!MergedHdr(h, m) BY <1>1, SameMerge
  <2>6. top' = IF m.atTop THEN m.q ELSE top BY <1>12
  <2>7. HP!Release(h, Binned \ A, p, b)
    BY ONLY <1>1, <2>4, <2>5, <2>6, Zenon DEF HP!Release
  <2> QED BY <1>2, <2>7 DEF HeapStep
<1>20. Leaving(t, Q, G, N, dest)
  <2>1. \A u \in Threads \ {t} : op'[u] = op[u] /\ PPl(u) \notin Q /\ VPl(u) \notin Q
    <3> TAKE u \in Threads \ {t}
    <3>1. PPl(u) \notin BinPlaces \cup {TopPl} /\ VPl(u) \notin BinPlaces \cup {TopPl}
      BY PlacesAt, BinPlacesAre
    <3>2. PPl(u) \notin {LivePl, PPl(t), VPl(t), ChainPl(t)}
          /\ VPl(u) \notin {LivePl, PPl(t), VPl(t), ChainPl(t)}
      BY PlacesAt
    <3> QED BY <1>2, <3>1, <3>2
  <2>2. \A c \in N : MayBeAt(dest[c], hdr'[c].sz)
    <3>1. \A c \in B \ {p} : MayBeAt(dest[c], hdr'[c].sz) BY <1>16, MayBe
    <3>2. MayBeAt(home, m.sz)
      <4>1. CASE home \in {TopPl, UnsortedPl} BY <4>1, MayBe
      <4>2. CASE home \notin {TopPl, UnsortedPl}
        <5>1. PICK i \in BinIndices : home = BinPl(i) BY <1>12, <4>2 DEF BinPlaces
        <5>2. BinIndex(m.sz) = i BY <1>1, <5>1 DEF MergedLists
        <5> QED BY <5>1, <5>2, MayBe
      <4> QED BY <4>1, <4>2
    <3> QED BY <1>4, <1>16, <3>1, <3>2, Zenon
  <2>3. \A x \in DOMAIN live' : x \in DOMAIN live \ G /\ live'[x] = live[x]
    <3>1. LivePl \in Places /\ LivePl \notin BinPlaces \cup {TopPl} BY <1>13
    <3>2. DOMAIN live \cap E = {} BY <1>13, <1>14, <3>1, ChunksAre DEF OwnInv, Owned
    <3> QED BY <1>2, <3>2
  <2>4. \A i \in BinIndices : BinPl(i) \in Q => Descends(bins'[i], hdr')
    <3> TAKE i \in BinIndices
    <3>1. BinPl(i) \in BinPlaces /\ ChunksAt(BinPl(i)) = ToSet(bins[i]) BY BinPlacesAre, ChunksAre
    <3>2. m.q \notin ToSet(bins[i]) \ X BY <1>10, <3>1
    <3>3. ToSet(bins[i]) \subseteq Binned BY <1>9, <3>1
    <3>4. \A c \in ToSet(bins[i]) \ X : hdr'[c].sz = hdr[c].sz
      BY ONLY <1>4, <1>8, <3>3
    <3>5. MergedLists(m, X, home) /\ m.q \in Int /\ hdr'[m.q].sz = m.sz /\ m.sz \in Nat
          /\ (m.atTop \/ m.sz >= MINSIZE)
      BY <1>1, <1>4
    <3>6. Descends(bins'[i], hdr')
      BY ONLY OwnInv, i \in BinIndices, <3>2, <3>4, <3>5, MergedDescends
    <3> QED BY <3>6
  <2>5. CallSound(op'[t], hdr') BY <1>2
  <2> QED BY ONLY Shaped', <1>19, <2>1, <2>2, <2>3, <2>4, <2>5 DEF Leaving
<1> QED BY ONLY OwnInv, t \in Threads, <1>18, <1>19, <1>20, LeavingKeeps

(* Lemma: the lists of free chunks without out and the chunks merged.      *)
LEMMA UnlinkMerged ==
  ASSUME NEW s, Once(s), NEW m, NEW out
  PROVE  Fewer(Merged(Unlink(s, out), m), s, {m.prev, m.next, out})
<1>1. PICK r : r = Unlink(s, out) OBVIOUS
<1>2. Fewer(r, s, {out}) /\ Once(r) BY <1>1, UnlinkFewer DEF Fewer
<1>3. Fewer(Merged(r, m), r, {m.prev, m.next}) BY <1>2, MergedFewer
<1>4. Fewer(Merged(r, m), s, {out} \cup {m.prev, m.next}) BY <1>2, <1>3, FewerFewer
<1>5. {out} \cup {m.prev, m.next} = {m.prev, m.next, out} OBVIOUS
<1> QED BY <1>1, <1>4, <1>5

(* Where _int_free puts a merged chunk, and malloc_consolidate.            *)
FreeHome(m) ==
  IF m.atTop THEN TopPl
  ELSE IF InSmallbinRange(m.sz) THEN BinPl(BinIndex(m.sz)) ELSE UnsortedPl
ConsolidateHome(m) == IF m.atTop THEN TopPl ELSE UnsortedPl

(* Lemma: what FreeMerged does to the lists.                               *)
LEMMA FreeMergedIs ==
  ASSUME OwnInv, NEW h, NEW m, NEW out, FreeMerged(h, m, out), m.q \in Int, m.sz \in Nat,
         m.atTop \/ m.sz >= MINSIZE
  PROVE  /\ MergedLists(m, {m.prev, m.next, out}, FreeHome(m))
         /\ hdr' = MergedHdr(h, m) /\ UNCHANGED <<system_mem, last_remainder>>
         /\ unsorted' \in Seq(Int) /\ bins' \in [BinIndices -> Seq(Int)]
         /\ binmap' \subseteq BinIndices
<1> PICK X : X = {m.prev, m.next, out} BY Zenon
<1> PICK home : home = FreeHome(m) OBVIOUS
<1> DEFINE small == ~m.atTop /\ InSmallbinRange(m.sz)
           large == ~m.atTop /\ ~InSmallbinRange(m.sz)
           u == Merged(Unlink(unsorted, out), m)
           c == [i \in BinIndices |-> Merged(Unlink(bins[i], out), m)]
           j == BinIndex(m.sz)
<1>1. /\ hdr' = MergedHdr(h, m) /\ top' = IF m.atTop THEN m.q ELSE top
      /\ bins' = IF small THEN [c EXCEPT ![j] = <<m.q>> \o @] ELSE c
      /\ binmap' = IF small THEN binmap \cup {j} ELSE binmap
      /\ unsorted' = IF large THEN <<m.q>> \o u ELSE u
      /\ UNCHANGED <<system_mem, last_remainder>>
  BY DEF FreeMerged
<1>2. small => j \in BinIndices /\ InSmallbinRange(j)
  <2>1. small => m.sz \in Nat /\ m.sz >= MINSIZE OBVIOUS
  <2> QED BY <2>1, IndexIs
<1>3. /\ m.atTop => home = TopPl
      /\ small => home = BinPl(j)
      /\ large => home = UnsortedPl
  BY DEF FreeHome
<1>4. TopPl \notin BinPlaces /\ UnsortedPl \in BinPlaces /\ UnsortedPl # TopPl
      /\ \A i : BinPl(i) # TopPl /\ BinPl(i) # UnsortedPl /\ \A k : BinPl(i) = BinPl(k) => i = k
  BY BinPlacesAre, PlacesAt
<1>5. home \in {TopPl} \cup BinPlaces /\ (home = TopPl <=> m.atTop)
  BY <1>2, <1>3, <1>4, BinPlacesAre
<1>6. (home = UnsortedPl <=> large) /\ \A i \in BinIndices : home = BinPl(i) <=> small /\ i = j
  BY <1>3, <1>4
<1>7. Fewer(u, unsorted, X) BY ListsAre, UnlinkMerged
<1>8. unsorted' = IF home = UnsortedPl THEN <<m.q>> \o u ELSE u BY <1>1, <1>6
<1>9. \A i \in BinIndices :
        /\ c[i] = Merged(Unlink(bins[i], out), m)
        /\ bins'[i] = IF home = BinPl(i) THEN <<m.q>> \o c[i] ELSE c[i]
  BY <1>1, <1>6
<1>10. \A i \in BinIndices : Fewer(c[i], bins[i], X)
  <2> TAKE i \in BinIndices
  <2>1. Fewer(Merged(Unlink(bins[i], out), m), bins[i], X) BY ListsAre, UnlinkMerged
  <2> QED BY <1>9, <2>1
<1>11. MergedLists(m, X, home)
  <2>1. \A i \in BinIndices : home = BinPl(i) => BinIndex(m.sz) = i /\ InSmallbinRange(i)
    BY <1>2, <1>6
  <2>2. \A i \in BinIndices :
          \E r : /\ Fewer(r, bins[i], X)
                 /\ bins'[i] = IF home = BinPl(i) THEN <<m.q>> \o r ELSE r
    BY <1>9, <1>10
  <2>3. top' = IF m.atTop THEN m.q ELSE top BY <1>1
  <2>4. \E r : /\ Fewer(r, unsorted, X)
               /\ unsorted' = IF home = UnsortedPl THEN <<m.q>> \o r ELSE r
    BY <1>7, <1>8
  <2> QED BY ONLY <1>5, <2>1, <2>2, <2>3, <2>4 DEF MergedLists
<1>12. unsorted' \in Seq(Int)
  <2>1. u \in Seq(Int) BY <1>7 DEF Fewer, Once
  <2> HIDE DEF u
  <2> QED BY <1>8, <2>1
<1>13. bins' \in [BinIndices -> Seq(Int)]
  <2>1. \A i \in BinIndices : c[i] \in Seq(Int) BY <1>10 DEF Fewer, Once
  <2>2. DOMAIN bins' = BinIndices /\ bins' = [i \in BinIndices |-> bins'[i]] BY <1>1, Zenon
  <2> HIDE DEF c
  <2>3. \A i \in BinIndices : bins'[i] \in Seq(Int)
    <3> TAKE i \in BinIndices
    <3> PICK r : r = c[i] OBVIOUS
    <3>1. r \in Seq(Int) /\ bins'[i] = (IF home = BinPl(i) THEN <<m.q>> \o r ELSE r) BY <1>9, <2>1
    <3>2. <<m.q>> \o r \in Seq(Int) BY <3>1
    <3> QED BY <3>1, <3>2
  <2> QED BY <2>2, <2>3
<1>14. binmap' \subseteq BinIndices BY <1>1, <1>2 DEF OwnInv, Shaped
<1> QED BY <1>1, <1>11, <1>12, <1>13, <1>14

(* Lemma: what the heap knows of a chunk that somebody holds.              *)
LEMMA HeldGood ==
  ASSUME OwnInv, NEW pl \in Places, pl \notin BinPlaces \cup {TopPl}, NEW p \in ChunksAt(pl)
  PROVE  /\ p \in DOMAIN hdr \ {top} /\ p \in Int /\ p # None /\ p \notin Binned
         /\ hdr[p].sz \in Nat /\ hdr[p].sz >= MINSIZE
         /\ HP!Good(hdr, top, Binned) /\ HP!Whole(hdr, top, Binned, system_mem)
         /\ p \in HP!Held
<1>1. /\ p \in DOMAIN hdr \ {top} /\ p \in Int /\ p # None
      /\ hdr[p].sz \in Nat /\ hdr[p].sz >= MINSIZE
  BY HeldSize
<1>2. p \notin Binned
  <2>1. Binned = UNION {ChunksAt(b) : b \in BinPlaces} BY BinnedIs DEF OwnInv, Shaped
  <2>2. BinPlaces \subseteq Places BY PlacesAre DEF BinPlaces
  <2> QED BY <2>1, <2>2 DEF OwnInv, Owned
<1>4. HP!Whole(hdr, top, Binned, system_mem)
  <2>1. CASE HP!Init
    <3>1. DOMAIN hdr = {0} /\ top = 0 BY <2>1, Zenon DEF HP!Init
    <3> QED BY <1>1, <3>1
  <2> QED BY <2>1, Zenon DEF OwnInv, HP!IInv
<1>5. HP!Good(hdr, top, Binned) BY <1>4, Zenon DEF HP!Whole
<1>6. p \in HP!Held BY <1>1, <1>2, Zenon DEF HP!Held
<1> QED BY <1>1, <1>2, <1>4, <1>5, <1>6

(* Lemma: a chunk that somebody holds can be freed as it is.               *)
LEMMA FreedSelf ==
  ASSUME OwnInv, NEW pl \in Places, pl \notin BinPlaces \cup {TopPl}, NEW p \in ChunksAt(pl)
  PROVE  /\ Freed(hdr, {p}, {p}, p) /\ {p} \cap Binned = {} /\ hdr[p].sz >= MINSIZE
         /\ (HP!Release(hdr, Binned \ {p}, p, TRUE) => HP!Next)
<1>1. /\ p \in DOMAIN hdr \ {top} /\ p \notin Binned /\ hdr[p].sz >= MINSIZE
      /\ HP!Good(hdr, top, Binned) /\ p \in HP!Held
  BY HeldGood
<1>2. Binned \ {p} = Binned BY <1>1
<1>3. Freed(hdr, {p}, {p}, p) BY <1>1, <1>2 DEF Freed
<1>4. HP!Release(hdr, Binned \ {p}, p, TRUE) => HP!Next
  <2>1. HP!Release(hdr, Binned \ {p}, p, TRUE) => HP!FreeChunk(p) BY <1>2, Zenon DEF HP!FreeChunk
  <2> QED BY <1>1, <2>1, Zenon DEF HP!Next, HP!OnHeld
<1> QED BY <1>1, <1>3, <1>4, Zenon

(* Lemma: a merge changes no size of what somebody else holds.             *)
LEMMA Spared ==
  ASSUME OwnInv, NEW h, NEW A, NEW B, NEW p, NEW m, NEW g, MergedFrom(h, A, B, p, m, g),
         NEW pl \in Places, pl \notin BinPlaces \cup {TopPl}, NEW c \in ChunksAt(pl), c \notin A
  PROVE  g[c].sz = hdr[c].sz
<1>1. c \in DOMAIN hdr \ {top} BY HeldSize, PlacesAre
<1>2. c \notin Binned
  <2>1. Binned = UNION {ChunksAt(b) : b \in BinPlaces} BY BinnedIs DEF OwnInv, Shaped
  <2>2. BinPlaces \subseteq Places BY PlacesAre DEF BinPlaces
  <2> QED BY <2>1, <2>2 DEF OwnInv, Owned
<1>3. {m.prev, m.next} \ {None} \subseteq Binned BY DEF MergedFrom
<1>4. c \notin Eaten(m) BY <1>1, <1>2, <1>3 DEF Eaten
<1> QED BY <1>1, <1>4 DEF MergedFrom

(* Lemma: a call frees a chunk that it held.                               *)
LEMMA SelfMerged ==
  ASSUME OwnInv, Shaped', NEW t \in Threads, NEW src \in {PPl(t), ChainPl(t)},
         NEW p \in ChunksAt(src), Leaves(src, p), NEW m, m = Merge(hdr, top, p, TRUE),
         hdr' = MergedHdr(hdr, m), NEW home, MergedLists(m, {m.prev, m.next, None}, home),
         NEW d \in Call_, op' = [op EXCEPT ![t] = d], CallSound(d, hdr), d.v = op[t].v,
         d.p = op[t].p \/ (src = PPl(t) /\ d.p = None),
         d.chain = op[t].chain \/ src = ChainPl(t),
         UNCHANGED <<system_mem, live, fastbins, tcache>>
  PROVE  OwnInv' /\ HeapStep
<1> PICK A : A = {p} BY Zenon
<1> PICK S : S = {src} BY Zenon
<1>1. src \in Places /\ src \notin BinPlaces \cup {TopPl} /\ PPl(t) # ChainPl(t)
      /\ VPl(t) \notin {PPl(t), ChainPl(t)} /\ VPl(t) \in Places /\ PPl(t) \in Places
      /\ VPl(t) \notin BinPlaces \cup {TopPl} /\ PPl(t) \notin BinPlaces \cup {TopPl}
  BY PlacesAre, PlacesAt, BinPlacesAre
<1>2. /\ Freed(hdr, A, A, p) /\ A \cap Binned = {} /\ hdr[p].sz >= MINSIZE
      /\ (HP!Release(hdr, Binned \ A, p, TRUE) => HP!Next)
  BY <1>1, FreedSelf, Zenon
<1>3. MergedFrom(hdr, A, A, p, m, hdr') BY <1>2, MergeShape, Zenon
<1>4. m.atTop \/ m.sz >= MINSIZE
  <2>1. hdr[p].sz \in Nat BY <1>1, HeldSize, PlacesAre
  <2>2. m.sz \in Nat /\ m.sz >= hdr[p].sz BY <1>3, Zenon DEF MergedFrom
  <2> PICK k : k = hdr[p].sz OBVIOUS
  <2>3. k \in Nat /\ k >= MINSIZE /\ m.sz \in Nat /\ m.sz >= k BY <1>2, <2>1, <2>2, Zenon
  <2> QED BY ONLY <2>3 DEF MINSIZE
<1>5. op'[t] = d /\ \A u \in Threads \ {t} : op'[u] = op[u] BY CallSet, Zenon DEF OwnInv
<1>6. CallSound(op'[t], hdr')
  <2>1. d.v # None => hdr'[d.v].sz = hdr[d.v].sz
    <3>1. d.v # None => d.v \in ChunksAt(VPl(t)) BY HandsAt DEF OwnInv
    <3>2. p \notin ChunksAt(VPl(t)) BY <1>1 DEF OwnInv, Owned
    <3>3. d.v # None => d.v \notin A BY <3>1, <3>2
    <3>4. VPl(t) \in Places /\ VPl(t) \notin BinPlaces \cup {TopPl} BY <1>1
    <3> QED BY ONLY OwnInv, <1>3, <3>1, <3>3, <3>4, Spared
  <2>2. d.p # None => hdr'[d.p].sz = hdr[d.p].sz
    <3>1. SUFFICES ASSUME d.p # None PROVE hdr'[d.p].sz = hdr[d.p].sz BY Zenon
    <3>2. d.p \in ChunksAt(PPl(t)) /\ d.p = op[t].p BY <3>1, HandsAt DEF OwnInv
    <3>3. CASE src = PPl(t)
      <4>1. ChunksAt(PPl(t)) = {op[t].p} \ {None} BY ChunksAre
      <4>2. op[t].p = p BY <3>2, <3>3, <4>1
      <4>3. ChunksAt(PPl(t))' = {op'[t].p} \ {None} BY ChunksAreNext
      <4>4. p \notin ChunksAt(PPl(t))' BY <3>3 DEF Leaves
      <4> QED BY <1>5, <3>1, <3>2, <4>2, <4>3, <4>4
    <3>4. CASE src # PPl(t)
      <4>1. p \notin ChunksAt(PPl(t)) BY <1>1, <3>4 DEF OwnInv, Owned
      <4>2. d.p \in ChunksAt(PPl(t)) /\ d.p \notin A BY <3>2, <4>1
      <4>3. PPl(t) \in Places /\ PPl(t) \notin BinPlaces \cup {TopPl} BY <1>1
      <4> QED BY ONLY OwnInv, <1>3, <4>2, <4>3, Spared
    <3> QED BY <3>3, <3>4, Zenon
  <2> QED BY <1>5, <2>1, <2>2, CallFrame, Zenon
<1>7. Only(BinPlaces \cup {TopPl} \cup S)
  <2> PICK Q : Q = BinPlaces \cup {TopPl} \cup S BY Zenon
  <2>1. UnsortedPl \in Q /\ TopPl \in Q /\ (\A i \in BinIndices : BinPl(i) \in Q) /\ src \in Q
    BY BinPlacesAre
  <2>2. OnlyLists(Q) BY <2>1 DEF OnlyLists
  <2> QED BY <2>1, <2>2, OnlyIs, Zenon DEF OwnInv
<1>8. Merging(t, hdr, A, A, p, TRUE, m, None, home, S)
  <2>1. \A c \in A : \E pl \in BinPlaces \cup S : c \in ChunksAt(pl) OBVIOUS
  <2>2. \A pl \in S : /\ ChunksAt(pl)' = (ChunksAt(pl) \ A) \cup (IF pl = VPl(t) THEN A \ {p} ELSE {})
                      /\ Once(ListAt(pl)')
    BY <1>1 DEF Leaves
  <2>3. \A x \in DOMAIN live' : x \in DOMAIN live \ A /\ live'[x] = live[x]
    <3>1. LivePl \in Places /\ src # LivePl BY PlacesAre, PlacesAt
    <3>2. p \notin DOMAIN live BY <1>1, <3>1, ChunksAre DEF OwnInv, Owned
    <3> QED BY <3>2
  <2>4. S \subseteq {LivePl, PPl(t), VPl(t), ChainPl(t)} /\ (A # {p} => VPl(t) \in S) OBVIOUS
  <2>5. None \in A \cup {None} /\ A \cap Binned \subseteq {None} BY <1>2
  <2>6. TRUE \in BOOLEAN /\ (TRUE \/ hdr[p].pinuse) OBVIOUS
  <2>7. m = Merge(hdr, top, p, TRUE) /\ hdr' = MergedHdr(hdr, m) /\ system_mem' = system_mem
        /\ MergedLists(m, {m.prev, m.next, None}, home)
    BY Zenon
  <2>8. \A u \in Threads \ {t} : op'[u] = op[u] BY <1>5
  <2> QED BY ONLY <1>2, <1>4, <1>6, <1>7, <2>1, <2>2, <2>3, <2>4, <2>5, <2>6, <2>7, <2>8,
    Zenon
          DEF Merging
<1> QED BY ONLY OwnInv, Shaped', t \in Threads, <1>8, MergeKeeps, Zenon

(* Lemma: malloc_consolidate merges one chunk of its chain.                *)
LEMMA OwnConsolidateChunk ==
  ASSUME OwnInv, NEW t \in Threads, ConsolidateChunk(t)
  PROVE  OwnInv' /\ HeapStep
<1> PICK c : c = op[t].chain OBVIOUS
<1> PICK p : p = Head(c) OBVIOUS
<1> PICK m : m = Merge(hdr, top, p, TRUE) BY Zenon
<1> PICK d : d = [op[t] EXCEPT !.chain = Tail(@)] BY Zenon
<1> PICK home : home = ConsolidateHome(m) BY Zenon
<1>1. op[t] \in Call_ /\ CallSound(op[t], hdr) BY DEF OwnInv, Shaped, CallsInv
<1>2. /\ op[t].pc = "consolidate" /\ lock = t /\ c # <<>>
      /\ hdr' = MergedHdr(hdr, m)
      /\ top' = IF m.atTop THEN m.q ELSE top
      /\ bins' = [i \in BinIndices |-> Merged(bins[i], m)]
      /\ unsorted' = IF m.atTop THEN Merged(unsorted, m) ELSE <<m.q>> \o Merged(unsorted, m)
      /\ UNCHANGED <<lock, system_mem, fastVars, binmap, last_remainder, tcache, live>>
  BY DEF ConsolidateChunk, Holds
<1>3. op' = [op EXCEPT ![t] = d] BY DEF ConsolidateChunk, OwnInv, Shaped
<1>4. Once(c) BY ListsAre
<1>5. Fewer(Tail(c), c, {p}) /\ p \in ToSet(c) BY <1>2, <1>4, TailFewer
<1>6. Tail(c) \in Seq(Int) BY <1>5 DEF Fewer, Once
<1>7. d \in Call_ /\ d.chain = Tail(c) /\ Same(d, op[t]) /\ d.pc = op[t].pc /\ d.v = op[t].v
      /\ d.after = op[t].after /\ d.k = op[t].k
  <2>1. d = [op[t] EXCEPT !.chain = Tail(c)] OBVIOUS
  <2>2. d \in Call_ BY <1>1, <1>6, <2>1, CallWith, ZenonT(40)
  <2> QED BY <1>1, <2>1, <2>2 DEF Same, Call_
<1>8. CallSound(d, hdr) BY <1>1, <1>2, <1>7, SameSound, Zenon
<1>9. op'[t] = d BY <1>3, <1>7, CallSet, Zenon DEF OwnInv
<1>10. p \in ChunksAt(ChainPl(t)) BY <1>5, ChunksAre
<1>11. Leaves(ChainPl(t), p)
  <2>1. Fewer(op'[t].chain, op[t].chain, {p}) BY <1>5, <1>7, <1>9
  <2> QED BY ONLY <2>1, LeavesAre, Zenon
<1>12. ChainPl(t) \in Places /\ ChainPl(t) \notin BinPlaces \cup {TopPl}
  BY PlacesAre, PlacesAt, BinPlacesAre
<1>13. m.q \in Int
  <2>1. Freed(hdr, {p}, {p}, p) BY <1>10, <1>12, FreedSelf, Zenon
  <2>2. MergedFrom(hdr, {p}, {p}, p, m, hdr') BY <1>2, <2>1, MergeShape, Zenon
  <2> QED BY <2>2, Zenon DEF MergedFrom
<1>14. \A s : Once(s) => Fewer(Merged(s, m), s, {m.prev, m.next, None})
  <2> TAKE s
  <2>1. SUFFICES ASSUME Once(s) PROVE Fewer(Merged(s, m), s, {m.prev, m.next,
    None}) BY Zenon
  <2>2. ToSet(s) \subseteq Int BY <2>1, ListIs DEF Once
  <2>3. Fewer(Merged(s, m), s, {m.prev, m.next}) BY <2>1, MergedFewer, Zenon
  <2> QED BY <2>2, <2>3, NoneAssumption, ZenonT(40) DEF Fewer
<1>15. MergedLists(m, {m.prev, m.next, None}, home)
  <2>1. home \in {TopPl, UnsortedPl} /\ (home = TopPl <=> m.atTop)
        /\ (home = UnsortedPl <=> ~m.atTop)
    BY PlacesAt, Zenon DEF ConsolidateHome
  <2>2. UnsortedPl \in BinPlaces /\ \A i : BinPl(i) # home
    <3>1. \A i : BinPl(i) # TopPl /\ BinPl(i) # UnsortedPl BY PlacesAt
    <3> QED BY <2>1, <3>1, BinPlacesAre, Zenon
  <2>3. Fewer(Merged(unsorted, m), unsorted, {m.prev, m.next, None}) BY <1>14, ListsAre,
    Zenon
  <2>4. \A i \in BinIndices : Fewer(bins'[i], bins[i], {m.prev, m.next, None})
    BY <1>2, <1>14, ListsAre, Zenon
  <2>5. \E r : /\ Fewer(r, unsorted, {m.prev, m.next, None})
               /\ unsorted' = IF home = UnsortedPl THEN <<m.q>> \o r ELSE r
    BY <1>2, <2>1, <2>3, Zenon
  <2>6. top' = IF m.atTop THEN m.q ELSE top BY <1>2
  <2> QED BY <2>1, <2>2, <2>4, <2>5, <2>6, Zenon DEF MergedLists
<1>16. Shaped'
  <2>1. Merged(unsorted, m) \in Seq(Int) /\ \A i \in BinIndices : Merged(bins[i], m) \in Seq(Int)
    BY <1>14, ListsAre, Zenon DEF Fewer, Once
  <2>2. unsorted' \in Seq(Int)
    <3> PICK r : r = Merged(unsorted, m) BY Zenon
    <3> PICK q : q = m.q BY Zenon
    <3>1. r \in Seq(Int) /\ q \in Int BY <1>13, <2>1, Zenon
    <3>2. <<q>> \o r \in Seq(Int) BY ONLY <3>1
    <3>3. unsorted' = IF m.atTop THEN r ELSE <<q>> \o r BY <1>2
    <3> QED BY ONLY <3>1, <3>2, <3>3
  <2>3. bins' \in [BinIndices -> Seq(Int)] BY <1>2, <2>1, Zenon
  <2> QED BY <1>2, <1>3, <1>7, <2>2, <2>3, ShapedBy, Zenon DEF OwnInv, Shaped, fastVars
<1>17. UNCHANGED <<system_mem, live, fastbins, tcache>> BY <1>2 DEF fastVars
<1>18. d.p = op[t].p /\ d.v = op[t].v BY <1>7 DEF Same
<1> HIDE DEF ChainPl
<1> QED BY ONLY OwnInv, t \in Threads, m = Merge(hdr, top, p, TRUE), <1>2, <1>3, <1>7,
  <1>8, <1>10,
           <1>11, <1>15, <1>16, <1>17, <1>18, SelfMerged, Zenon

(* Lemma: it does not matter when the call lets go of its chunk.           *)
LEMMA MaybeDrops ==
  ASSUME NEW call \in Call_, NEW sz, NEW k \in {"done", "aligned"}
  PROVE  [MaybeConsolidate(call, sz, k) EXCEPT !.p = None]
           = MaybeConsolidate([call EXCEPT !.p = None], sz, k)
<1>1. CASE sz < ConsolidationThreshold
  <2>1. [[call EXCEPT !.pc = k] EXCEPT !.p = None] = [[call EXCEPT !.p = None] EXCEPT !.pc = k]
    BY ONLY call \in Call_, Zenon DEF Call_
  <2> QED BY ONLY <1>1, <2>1 DEF MaybeConsolidate
<1>2. CASE ~(sz < ConsolidationThreshold) /\ have_fastchunks
  <2>1. [[call EXCEPT !.pc = "consolidate", !.fb = 0, !.chain = <<>>, !.after = "systrim", !.k = k]
           EXCEPT !.p = None]
          = [[call EXCEPT !.p = None]
               EXCEPT !.pc = "consolidate", !.fb = 0, !.chain = <<>>, !.after = "systrim", !.k = k]
    BY ONLY call \in Call_, Zenon DEF Call_
  <2> QED BY ONLY <1>2, <2>1 DEF MaybeConsolidate
<1>3. CASE ~(sz < ConsolidationThreshold) /\ ~have_fastchunks
  <2>1. [[call EXCEPT !.pc = "systrim", !.k = k] EXCEPT !.p = None]
          = [[call EXCEPT !.p = None] EXCEPT !.pc = "systrim", !.k = k]
    BY ONLY call \in Call_, Zenon DEF Call_
  <2> QED BY ONLY <1>3, <2>1 DEF MaybeConsolidate
<1> QED BY <1>1, <1>2, <1>3

(* A call frees the chunk that it holds and goes on as c, with the result. *)
HeldMerging(t, c, m) ==
  /\ op[t].p # None /\ m = Merge(hdr, top, op[t].p, TRUE) /\ FreeMerged(hdr, m, None)
  /\ c \in Call_ /\ c.p = None /\ c.v = op[t].v /\ c.chain = <<>> /\ op[t].chain = <<>>
  /\ c.al > 0 /\ c.pad >= 0 /\ Brings(c, hdr)
  /\ op' = [op EXCEPT ![t] = MaybeConsolidate(c, m.sz, "done")]
  /\ lock' \in Threads \cup {None} /\ UNCHANGED <<fastVars, tcache, live>>

(* Lemma: a call that merges the chunk in its hand keeps the invariant.    *)
LEMMA HeldMerged ==
  ASSUME OwnInv, NEW t \in Threads, NEW c, NEW m, HeldMerging(t, c, m)
  PROVE  OwnInv' /\ HeapStep
<1> PICK p : p = op[t].p OBVIOUS
<1>0. /\ p # None /\ m = Merge(hdr, top, p, TRUE) /\ FreeMerged(hdr, m, None)
      /\ c \in Call_ /\ c.p = None /\ c.v = op[t].v /\ c.chain = <<>> /\ op[t].chain = <<>>
      /\ c.al > 0 /\ c.pad >= 0 /\ Brings(c, hdr)
      /\ op' = [op EXCEPT ![t] = MaybeConsolidate(c, m.sz, "done")]
      /\ lock' \in Threads \cup {None} /\ UNCHANGED <<fastVars, tcache, live>>
  BY DEF HeldMerging
<1> PICK d : d = MaybeConsolidate(c, m.sz, "done") OBVIOUS
<1> PICK src : src = PPl(t) OBVIOUS
<1>1. d \in Call_ /\ CallSound(d, hdr) /\ d.v = op[t].v /\ d.p = None /\ d.chain = op[t].chain
  BY <1>0, MaybeSound, ZenonT(40)
<1>2. op' = [op EXCEPT ![t] = d] BY <1>0
<1>3. op'[t] = d BY <1>1, <1>2, CallSet, Zenon DEF OwnInv
<1>4. src \in Places /\ src \notin BinPlaces \cup {TopPl} /\ p \in ChunksAt(src)
  BY <1>0, PlacesAre, PlacesAt, BinPlacesAre, ChunksAre
<1>5. Leaves(src, p) BY <1>1, <1>3, LeavesAre
<1>6. Freed(hdr, {p}, {p}, p) /\ hdr[p].sz >= MINSIZE BY <1>4, FreedSelf, Zenon
<1>7. MergedFrom(hdr, {p}, {p}, p, m, MergedHdr(hdr, m)) BY <1>0, <1>6, MergeShape, Zenon
<1>8. m.q \in Int /\ m.sz \in Nat /\ (m.atTop \/ m.sz >= MINSIZE)
  <2> PICK k : k = hdr[p].sz OBVIOUS
  <2>1. k \in Nat /\ k >= MINSIZE BY <1>4, <1>6, HeldSize
  <2>2. m.q \in Int /\ m.sz \in Nat /\ m.sz >= k BY <1>7 DEF MergedFrom
  <2> QED BY ONLY <2>1, <2>2 DEF MINSIZE
<1>9. /\ MergedLists(m, {m.prev, m.next, None}, FreeHome(m))
      /\ hdr' = MergedHdr(hdr, m) /\ UNCHANGED <<system_mem, last_remainder>>
      /\ unsorted' \in Seq(Int) /\ bins' \in [BinIndices -> Seq(Int)]
      /\ binmap' \subseteq BinIndices
  BY <1>0, <1>8, FreeMergedIs, Zenon
<1>10. Shaped' BY <1>0, <1>1, <1>2, <1>9, ShapedBy, ZenonT(40) DEF OwnInv, Shaped, fastVars
<1>11. UNCHANGED <<system_mem, live, fastbins, tcache>> BY <1>0, <1>9 DEF fastVars
<1>12. src \in {PPl(t), ChainPl(t)} /\ p \in ChunksAt(src)
       /\ (d.p = op[t].p \/ (src = PPl(t) /\ d.p = None))
       /\ (d.chain = op[t].chain \/ src = ChainPl(t))
  BY <1>1, <1>4
<1> QED BY ONLY OwnInv, t \in Threads, <1>0, <1>1, <1>2, <1>5, <1>9, <1>10,
           <1>11, <1>12, SelfMerged, Zenon

(* Lemma: free merges its chunk under the lock.                            *)
LEMMA OwnFreeMerge ==
  ASSUME OwnInv, NEW t \in Threads, FreeMerge(t)
  PROVE  OwnInv' /\ HeapStep
<1> PICK p : p = op[t].p OBVIOUS
<1> PICK m : m = Merge(hdr, top, p, TRUE) BY Zenon
<1> PICK c : c = [op[t] EXCEPT !.p = None] BY Zenon
<1>1. op[t] \in Call_ /\ CallSound(op[t], hdr) BY DEF OwnInv, Shaped, CallsInv
<1>2. /\ op[t].pc = "free_chunk" /\ lock' = t /\ FreeMerged(hdr, m, None)
      /\ op' = [op EXCEPT ![t] = [MaybeConsolidate(op[t], m.sz, "done") EXCEPT !.p = None]]
      /\ UNCHANGED <<fastVars, tcache, live>>
  BY Zenon DEF FreeMerge
<1>3. p # None /\ Brings(op[t], hdr) /\ op[t].chain = <<>> /\ op[t].al > 0 /\ op[t].pad >= 0
  BY <1>1, <1>2 DEF CallSound
<1>4. op' = [op EXCEPT ![t] = MaybeConsolidate(c, m.sz, "done")] BY <1>1, <1>2, MaybeDrops,
  Zenon
<1>5. c \in Call_ BY <1>1, CallWith, Zenon
<1>6. /\ c.p = None /\ c.v = op[t].v /\ c.chain = <<>> /\ c.al > 0 /\ c.pad >= 0
      /\ c.want = op[t].want /\ c.fn = op[t].fn /\ c.al = op[t].al
  BY <1>1, <1>3 DEF Call_
<1>7. Brings(c, hdr) BY <1>3, <1>6 DEF Brings
<1>8. lock' \in Threads \cup {None} BY <1>2
<1>9. HeldMerging(t, c, m)
  BY ONLY p = op[t].p, m = Merge(hdr, top, p, TRUE), <1>2, <1>3, <1>4, <1>5, <1>6, <1>7,
    <1>8, Zenon
     DEF HeldMerging
<1> QED BY ONLY OwnInv, t \in Threads, <1>9, HeldMerged

(* Lemma: a list of chunks has no None to unlink.                          *)
LEMMA UnlinkNone ==
  ASSUME NEW s, Once(s)
  PROVE  Unlink(s, None) = s
<1>1. \A i \in 1 .. Len(s) : s[i] # None BY NoneAssumption DEF Once
<1> QED BY <1>1 DEF Unlink, RemoveFirst

(* A call pushes the chunk that it holds and goes on as c.                 *)
HeldPushing(t, c) ==
  /\ op[t].p # None /\ hdr[op[t].p].sz <= MaxFast
  /\ fastbins' = [fastbins EXCEPT ![hdr[op[t].p].sz] = <<op[t].p>> \o @]
  /\ c \in Call_ /\ c.p = None /\ c.v = op[t].v /\ c.chain = op[t].chain
  /\ CallSound(c, hdr) /\ op' = [op EXCEPT ![t] = c]
  /\ lock' \in Threads \cup {None} /\ have_fastchunks' \in BOOLEAN
  /\ UNCHANGED <<heapVars, binVars, tcache, live>>

(* Lemma: a call that pushes the chunk in its hand on a fastbin keeps the  *)
(* invariant.                                                              *)
LEMMA HeldPushed ==
  ASSUME OwnInv, NEW t \in Threads, NEW c, HeldPushing(t, c)
  PROVE  OwnInv' /\ HeapStep
<1> PICK p : p = op[t].p OBVIOUS
<1> PICK sz : sz = hdr[p].sz OBVIOUS
<1> PICK s : s = fastbins[sz] OBVIOUS
<1> PICK from : from = PPl(t) OBVIOUS
<1> PICK to : to = FastPl(sz) OBVIOUS
<1>1. /\ p # None /\ sz <= MaxFast /\ fastbins' = [fastbins EXCEPT ![sz] = <<p>> \o s]
      /\ c \in Call_ /\ c.p = None /\ c.v = op[t].v /\ c.chain = op[t].chain
      /\ CallSound(c, hdr) /\ op' = [op EXCEPT ![t] = c]
      /\ lock' \in Threads \cup {None} /\ have_fastchunks' \in BOOLEAN
      /\ UNCHANGED <<heapVars, binVars, tcache, live>>
  BY DEF HeldPushing
<1>2. /\ from \in Places /\ from.at = "p" /\ from.t = t /\ from \notin BinPlaces /\ from # TopPl
      /\ p \in ChunksAt(from)
  BY <1>1, PlacesAre, PlacesAt, BinPlacesAre, ChunksAre
<1>3. p \in DOMAIN hdr /\ p \in Int /\ sz \in Nat /\ sz >= MINSIZE BY <1>2, HeldSize
<1>4. sz \in FastSizes BY <1>1, <1>3, ArenaAssumption DEF FastSizes, MINSIZE
<1>5. to \in Places /\ to.at = "fast" /\ to \notin BinPlaces
  BY <1>4, PlacesAre, PlacesAt, BinPlacesAre
<1>6. p \notin ToSet(s) /\ Once(s)
  <2>1. p \notin ChunksAt(to) BY <1>2, <1>5 DEF OwnInv, Owned
  <2> QED BY <1>4, <2>1, ChunksAre, ListsAre
<1>7. More(<<p>> \o s, s, p) BY <1>3, <1>6, PushMore
<1>8. /\ fastbins' \in [FastSizes -> Seq(Int)] /\ fastbins'[sz] = <<p>> \o s
      /\ \A x \in FastSizes : x # sz => fastbins'[x] = fastbins[x]
  <2> PICK r : r = <<p>> \o s BY Zenon
  <2>1. Once(r) BY <1>7, Zenon DEF More
  <2>2. fastbins' = [fastbins EXCEPT ![sz] = r] BY <1>1, Zenon
  <2> QED BY <1>4, <2>1, <2>2, FastOne, Zenon DEF OwnInv
<1>9. Joins(to, p)
  <2>1. More(fastbins'[sz], fastbins[sz], p) BY <1>7, <1>8, Zenon
  <2> QED BY <2>1, JoinsAre
<1>10. op'[t] = c BY <1>1, CallSet, Zenon DEF OwnInv
<1>11. Leaves(from, p) BY <1>1, <1>10, LeavesAre
<1>12. MayBeAt(to, hdr[p].sz) BY MayBe
<1>13. Shaped' BY <1>1, <1>8, ShapedBy, Zenon DEF OwnInv, Shaped, binVars
<1>14. OnlyLists({from, to}) BY <1>1, <1>8, Zenon DEF OnlyLists, heapVars, binVars
<1>15. \A q \in DOMAIN live' : \/ q # p /\ q \in DOMAIN live /\ live'[q] = live[q]
                               \/ q = p /\ Within(hdr[p].sz, live'[q])
  <2>1. LivePl \in Places /\ LivePl # from BY <1>2, PlacesAre, PlacesAt
  <2>2. p \notin DOMAIN live BY <1>2, <2>1, ChunksAre DEF OwnInv, Owned
  <2> QED BY <1>1, <2>2
<1>16. UNCHANGED <<heapVars, bins>> BY <1>1 DEF binVars
<1>17. from # to /\ (from.at \in {"p", "v"} => from.t = t) /\ (to.at \in {"p", "v"} => to.t = t)
  BY <1>2, <1>5
<1>18. /\ c.p = op[t].p \/ PPl(t) \in {from, to}
       /\ c.v = op[t].v \/ VPl(t) \in {from, to}
       /\ c.chain = op[t].chain \/ ChainPl(t) \in {from, to}
  BY <1>1
<1>19. c \in Call_ /\ op' = [op EXCEPT ![t] = c] /\ CallSound(c, hdr) BY <1>1
<1>20. /\ from \in Places /\ to \in Places /\ from \notin BinPlaces /\ to \notin BinPlaces
       /\ p \in ChunksAt(from)
  BY <1>2, <1>5
<1> QED BY ONLY OwnInv, t \in Threads, <1>9, <1>11, <1>12, <1>13, <1>14, <1>15, <1>16,
  <1>17, <1>18, <1>19, <1>20, HandOver, ZenonT(40)

(* Lemma: realloc has moved to another chunk and frees the old one.        *)
LEMMA OwnReallocMoved ==
  ASSUME OwnInv, NEW t \in Threads, ReallocGot(t), op[t].v # None, op[t].v # Next_(hdr, op[t].p)
  PROVE  OwnInv' /\ HeapStep
<1> PICK p : p = op[t].p OBVIOUS
<1> PICK c : c = [op[t] EXCEPT !.pc = "done", !.p = None, !.old = 0, !.nb = 0] OBVIOUS
<1>1. op[t] \in Call_ /\ CallSound(op[t], hdr) BY DEF OwnInv, Shaped, CallsInv
<1>2. /\ op[t].pc = "got" /\ op[t].fn = "realloc" /\ FreeLocked(t, hdr, p, None, c)
      /\ UNCHANGED <<lock, tcache, live>>
  BY DEF ReallocGot, Holds
<1>3. /\ p # None /\ op[t].chain = <<>> /\ op[t].al > 0 /\ op[t].pad >= 0
      /\ Within(hdr[op[t].v].sz, op[t].want)
  <2>1. InSearch(op[t]) BY <1>2 DEF InSearch
  <2>2. Searches(op[t], hdr) BY <1>1, <2>1 DEF CallSound
  <2> QED BY <1>1, <1>2, <2>2 DEF Searches, CallSound
<1>4. c \in Call_
  <2> DEFINE d == [op[t] EXCEPT !.pc = "done"]
             e == [d EXCEPT !.p = None]
             f == [e EXCEPT !.old = 0]
  <2>1. d \in Call_ BY <1>1, CallWith, Zenon DEF LockedPCs
  <2> HIDE DEF d
  <2>2. e \in Call_ BY <2>1, None \in Int \cup {None}, CallWith, Zenon
  <2> HIDE DEF e
  <2>3. f \in Call_ BY <2>2, 0 \in Int, CallWith, Zenon
  <2> HIDE DEF f
  <2>4. [f EXCEPT !.nb = 0] \in Call_ BY <2>3, 0 \in Int, CallWith, Zenon
  <2> QED BY <2>4 DEF d, e, f
<1>5. /\ c.p = None /\ c.v = op[t].v /\ c.chain = <<>> /\ c.al = op[t].al /\ c.pad = op[t].pad
      /\ c.want = op[t].want /\ c.fn = "realloc" /\ c.pc = "done"
  BY ONLY <1>1, <1>2, <1>3, c = [op[t] EXCEPT !.pc = "done", !.p = None, !.old = 0,
     !.nb = 0] DEF Call_
<1>6. Brings(c, hdr) BY <1>3, <1>5 DEF Brings
<1>7. CASE hdr[p].sz <= MaxFast
  <2>1. /\ have_fastchunks' = TRUE /\ fastbins' = [fastbins EXCEPT ![hdr[p].sz] = <<p>> \o @]
        /\ op' = [op EXCEPT ![t] = c] /\ hdr' = hdr
        /\ bins' = [i \in BinIndices |-> Unlink(bins[i], None)]
        /\ unsorted' = Unlink(unsorted, None)
        /\ UNCHANGED <<top, system_mem, binmap, last_remainder>>
    BY <1>2, <1>7 DEF FreeLocked
  <2>2. bins' = bins /\ unsorted' = unsorted
    BY <2>1, ListsAre, UnlinkNone DEF OwnInv, Shaped
  <2>3. CallSound(c, hdr) BY <1>3, <1>5, <1>6, DoneSound, Zenon
  <2>4. UNCHANGED <<heapVars, binVars, tcache, live>> /\ lock' \in Threads \cup {None}
    BY <1>2, <2>1, <2>2, SMTT(40) DEF heapVars, binVars, OwnInv, Shaped
  <2>5. HeldPushing(t, c)
    BY ONLY p = op[t].p, <1>3, <1>4, <1>5, <1>7, <2>1, <2>3, <2>4 DEF HeldPushing
  <2> QED BY ONLY OwnInv, t \in Threads, <2>5, HeldPushed
<1>8. CASE ~(hdr[p].sz <= MaxFast)
  <2> PICK m : m = Merge(hdr, top, p, TRUE) BY Zenon
  <2>1. /\ FreeMerged(hdr, m, None) /\ UNCHANGED fastVars
        /\ op' = [op EXCEPT ![t] = MaybeConsolidate(c, m.sz, "done")]
    BY <1>2, <1>5, <1>8, Zenon DEF FreeLocked
  <2>2. lock' \in Threads \cup {None} BY <1>2 DEF OwnInv, Shaped
  <2>3. UNCHANGED <<fastVars, tcache, live>> BY <1>2, <2>1
  <2>4. HeldMerging(t, c, m)
    BY ONLY p = op[t].p, m = Merge(hdr, top, p, TRUE), <1>3, <1>4, <1>5, <1>6, <2>1, <2>2,
      <2>3, Zenon
       DEF HeldMerging
  <2> QED BY ONLY OwnInv, t \in Threads, <2>4, HeldMerged
<1> QED BY <1>7, <1>8

-----------------------------------------------------------------------------
(* memalign.                                                               *)

(* Lemma: rounding up gives a multiple, and not one too far.               *)
LEMMA AlignUpMultiple ==
  ASSUME NEW n \in Nat, NEW a \in Nat \ {0}
  PROVE  /\ AlignUp(n, a) \in Nat /\ AlignUp(n, a) >= n /\ AlignUp(n, a) < n + a
         /\ AlignUp(n, a) % a = 0 /\ (AlignUp(n, a) + a) % a = 0
<1> PICK k : k = (n + a - 1) \div a OBVIOUS
<1>1. k \in Int /\ a * k <= n + a - 1 /\ n + a - 1 < a * k + a OBVIOUS
<1>2. AlignUp(n, a) = k * a BY DEF AlignUp
<1>3. k * a = a * k /\ k * a \in Int BY <1>1
<1>4. ASSUME NEW j \in Int PROVE (j * a) % a = 0
  <2> PICK r : r = (j * a) % a OBVIOUS
  <2> PICK e : e = (j * a) \div a OBVIOUS
  <2>1. r \in Int /\ e \in Int /\ j * a = a * e + r /\ 0 <= r /\ r < a OBVIOUS
  <2>2. r = a * (j - e) BY <2>1
  <2>3. j - e <= 0 => r <= 0 BY <2>2, <2>1
  <2>4. j - e >= 1 => r >= a BY <2>2, <2>1
  <2> QED BY <2>1, <2>3, <2>4
<1>5. k * a + a = (k + 1) * a BY <1>1
<1>6. (k * a) % a = 0 /\ ((k + 1) * a) % a = 0 BY <1>1, <1>4
<1> QED BY <1>1, <1>2, <1>3, <1>5, <1>6

(* Lemma: the aligned place leaves room for a chunk before it and for what *)
(* was asked for after it.                                                 *)
LEMMA PlaceFits ==
  ASSUME NEW v \in Nat, NEW al \in Nat \ {0}, ~Aligned(v, al)
  PROVE  /\ AlignedPlace(v, al) \in Nat /\ AlignedPlace(v, al) - v >= MINSIZE
         /\ AlignedPlace(v, al) - v <= al + 1 /\ Aligned(AlignedPlace(v, al), al)
<1> PICK u : u = AlignUp(v + 1, al) OBVIOUS
<1>1. u \in Nat /\ u >= v + 1 /\ u < v + 1 + al /\ u % al = 0 /\ (u + al) % al = 0
  BY AlignUpMultiple
<1>2. u # v + 1 BY <1>1 DEF Aligned
<1>3. AlignedPlace(v, al) = IF (u - 1) - v < MINSIZE THEN (u - 1) + al ELSE u - 1
  BY DEF AlignedPlace
<1>4. (u - 1) + 1 = u /\ ((u - 1) + al) + 1 = u + al BY <1>1
<1>5. Aligned(u - 1, al) /\ Aligned((u - 1) + al, al) BY <1>1, <1>4 DEF Aligned
<1> QED BY <1>1, <1>2, <1>3, <1>5 DEF MINSIZE

(* g is h with chunk v cut in two, v and e, of which one is to be freed.   *)
CutInTwo(h, A, v, x, g, e) ==
  /\ Freed(g, A, {v, e}, v) /\ Freed(g, A, {v, e}, e)
  /\ g[v].sz = x /\ g[e].sz = h[v].sz - x /\ g[e].pinuse
  /\ v \in Nat /\ e # v /\ e # None /\ v # None /\ v \in Int /\ e \in Int

(* Lemma: a chunk to be freed can be cut in two.                           *)
LEMMA CutFreed ==
  ASSUME OwnInv, NEW h, NEW A, NEW v, Freed(h, A, {v}, v), NEW x \in Nat, x > 0, x < h[v].sz
  PROVE  CutInTwo(h, A, v, x, CutAt(h, v, x), v + x)
<1> PICK g : g = CutAt(h, v, x) OBVIOUS
<1> PICK e : e = v + x OBVIOUS
<1> PICK F : F = Binned \ A BY Zenon
<1>0. HeapLimit \in Nat /\ None \notin Int BY ArenaAssumption, NoneAssumption
<1>1. /\ HP!Good(h, top, F) /\ A \subseteq DOMAIN hdr \ {top}
      /\ DOMAIN h = (DOMAIN hdr \ A) \cup {v} /\ {v} \cap (DOMAIN hdr \ A) = {}
      /\ \A c \in DOMAIN hdr \ A : h[c].sz = hdr[c].sz
  BY DEF Freed
<1>2. Binned \subseteq DOMAIN hdr \ {top} /\ top \in DOMAIN hdr
  BY HeapIs DEF OwnInv, HeapFacts
<1>3. v # top /\ v \notin F /\ v \in DOMAIN h BY <1>1, <1>2
<1>4. DOMAIN h \subseteq Nat /\ h \in [DOMAIN h -> Header]
  BY <1>1, Zenon DEF HP!Good, HP!Laid, HP!Header, Header
<1>5. v \in Nat /\ h[v].sz \in Nat BY <1>3, <1>4 DEF Header
<1>6. e \in Nat /\ e # v BY <1>5
<1>7. e \notin DOMAIN h /\ HP!Good(g, top, F)
  <2> PICK tp : tp = top OBVIOUS
  <2>1. HP!Good(h, tp, F) /\ v \in DOMAIN h /\ v \notin F /\ v # tp BY <1>1, <1>3
  <2>2. h[v].sz > x BY <1>5
  <2>3. /\ v + x \notin DOMAIN h
        /\ HP!Good(HP!CutAt(h, v, x), IF v = tp THEN v + x ELSE tp, F)
    BY ONLY <1>0, <2>1, <2>2, x \in Nat, x > 0, HP!CutGood, Zenon
  <2>4. HP!CutAt(h, v, x) = g BY SameShape
  <2> QED BY ONLY <2>1, <2>3, <2>4, tp = top, e = v + x
<1>8. /\ DOMAIN g = DOMAIN h \cup {e} /\ g[v].sz = x /\ g[e].sz = h[v].sz - x
      /\ \A d \in DOMAIN h \ {v} : g[d] = h[d]
  <2>1. x <= h[v].sz BY <1>5
  <2>2. v + x \notin DOMAIN h BY <1>7
  <2>4. /\ h \in [DOMAIN h -> Header] /\ v \in DOMAIN h /\ v \in Nat /\ x \in Nat /\ x > 0
        /\ x <= h[v].sz /\ v + x \notin DOMAIN h
    BY <1>3, <1>4, <1>5, <2>1, <2>2
  <2>3. /\ DOMAIN CutAt(h, v, x) = DOMAIN h \cup {v + x}
        /\ CutAt(h, v, x) \in [DOMAIN h \cup {v + x} -> Header]
        /\ CutAt(h, v, x)[v].sz = x /\ CutAt(h, v, x)[v + x].sz = h[v].sz - x
        /\ \A d \in DOMAIN h \ {v} : CutAt(h, v, x)[d] = h[d]
    BY ONLY <2>4, CutShape
  <2> QED BY ONLY <2>3, g = CutAt(h, v, x), e = v + x
<1>9. g[e].pinuse
  <2>1. g[e] = [sz |-> h[v].sz - x, pinuse |-> TRUE, psz |-> 0] BY <1>6 DEF CutAt
  <2> QED BY <2>1
<1>10. /\ DOMAIN g = (DOMAIN hdr \ A) \cup {v, e} /\ {v, e} \cap (DOMAIN hdr \ A) = {}
       /\ \A c \in DOMAIN hdr \ A : g[c].sz = hdr[c].sz
  BY ONLY <1>1, <1>3, <1>7, <1>8
<1>11. Freed(g, A, {v, e}, v) /\ Freed(g, A, {v, e}, e)
  BY <1>1, <1>7, <1>10 DEF Freed
<1>12. v # None /\ e # None /\ v \in Int /\ e \in Int BY ONLY <1>0, <1>5, <1>6
<1>13. CutInTwo(h, A, v, x, g, e)
  BY ONLY <1>5, <1>6, <1>8, <1>9, <1>11, <1>12 DEF CutInTwo
<1> QED BY ONLY <1>13, g = CutAt(h, v, x), e = v + x

(* A call of thread t gives up the chunks of A, which it has or the        *)
(* program gave it or are free, at the places S, to hold one chunk then.   *)
Reach(t, A, S) ==
  /\ S \subseteq {LivePl, PPl(t), VPl(t)} /\ VPl(t) \in S
  /\ \A x \in A : \E pl \in BinPlaces \cup S : x \in ChunksAt(pl)
  /\ {op[t].p, op[t].v} \subseteq A \cup {None} /\ (op[t].p # None => PPl(t) \in S)
  /\ op[t].chain = <<>>
  /\ DOMAIN live' = DOMAIN live \ A /\ live' \in [DOMAIN live' -> Int]
  /\ \A x \in DOMAIN live' : live'[x] = live[x]
  /\ (LivePl \notin S => live' = live)

Handed(t, A, S, keep, d) ==
  /\ \A pl \in S : /\ ChunksAt(pl)' = (ChunksAt(pl) \ A) \cup (IF pl = VPl(t) THEN {keep} ELSE {})
                   /\ Once(ListAt(pl)')
  /\ op'[t] = d /\ \A u \in Threads \ {t} : op'[u] = op[u]
  /\ \A Q : OnlyLists(Q) /\ S \subseteq Q => Only(Q)
  /\ S \subseteq Places /\ S \cap (BinPlaces \cup {TopPl}) = {}

(* Lemma: the places a resizing call reads and the one it keeps.           *)
LEMMA ReachKeeps ==
  ASSUME OwnInv, NEW t \in Threads, NEW A, NEW S, Reach(t, A, S), NEW keep, keep # None,
         NEW d \in Call_, d.p = None, d.v = keep, d.chain = <<>>, op' = [op EXCEPT ![t] = d]
  PROVE  Handed(t, A, S, keep, d)
<1>1. op'[t] = d /\ \A u \in Threads \ {t} : op'[u] = op[u] BY CallSet, Zenon DEF OwnInv
<1>2. /\ {LivePl, PPl(t), VPl(t)} \subseteq Places /\ LivePl # VPl(t) /\ PPl(t) # VPl(t) /\ LivePl # PPl(t)
      /\ {LivePl, PPl(t), VPl(t)} \cap (BinPlaces \cup {TopPl}) = {}
  BY PlacesAre, PlacesAt, BinPlacesAre
<1>3. ASSUME NEW pl \in S
      PROVE  /\ ChunksAt(pl)' = (ChunksAt(pl) \ A) \cup (IF pl = VPl(t) THEN {keep} ELSE {})
             /\ Once(ListAt(pl)')
  <2>1. CASE pl = LivePl
    <3>1. ChunksAt(pl) = DOMAIN live /\ ChunksAt(pl)' = DOMAIN live' /\ Once(ListAt(pl)')
      BY <2>1, ChunksAre, ChunksAreNext, ListsAtNext, EmptyOnce
    <3> QED BY <1>2, <2>1, <3>1 DEF Reach
  <2>2. CASE pl = PPl(t)
    <3>1. /\ ChunksAt(pl) = {op[t].p} \ {None} /\ ChunksAt(pl)' = {op'[t].p} \ {None}
          /\ Once(ListAt(pl)')
      BY <2>2, ChunksAre, ChunksAreNext, ListsAtNext, EmptyOnce
    <3> QED BY <1>1, <1>2, <2>2, <3>1 DEF Reach
  <2>3. CASE pl = VPl(t)
    <3>1. /\ ChunksAt(pl) = {op[t].v} \ {None} /\ ChunksAt(pl)' = {op'[t].v} \ {None}
          /\ Once(ListAt(pl)')
      BY <2>3, ChunksAre, ChunksAreNext, ListsAtNext, EmptyOnce
    <3> QED BY <1>1, <2>3, <3>1 DEF Reach
  <2> QED BY <2>1, <2>2, <2>3 DEF Reach
<1>4. ASSUME NEW Q, OnlyLists(Q), S \subseteq Q PROVE Only(Q)
  <2>1. /\ d.p = op[t].p \/ PPl(t) \in Q
        /\ d.v = op[t].v \/ VPl(t) \in Q
        /\ d.chain = op[t].chain \/ ChainPl(t) \in Q
    BY <1>4 DEF Reach
  <2> QED BY <1>4, <2>1, OnlyIs, Zenon DEF OwnInv
<1>5. S \subseteq Places /\ S \cap (BinPlaces \cup {TopPl}) = {} BY <1>2 DEF Reach
<1> QED BY <1>1, <1>3, <1>4, <1>5 DEF Handed

(* A call frees p, merged, and keeps another part of what it had; it goes  *)
(* on at k as c.                                                           *)
HandMerging(t, h, A, p, keep, b, m, out, S, c, k) ==
  /\ Freed(h, A, {p, keep}, p) /\ p # keep /\ keep \in Int
  /\ b \in BOOLEAN /\ (b \/ h[p].pinuse)
  /\ m = Merge(h, top, p, b) /\ FreeMerged(h, m, out) /\ (m.atTop \/ m.sz >= MINSIZE)
  /\ out \in A \cup {None} /\ A \cap Binned \subseteq {out}
  /\ Reach(t, A, S)
  /\ (HP!Release(h, Binned \ A, p, b) => HP!Next)
  /\ c \in Call_ /\ c.v = keep /\ c.p = None /\ c.chain = <<>> /\ c.al > 0 /\ c.pad >= 0
  /\ k \in {"done", "aligned"} /\ (k = "done" => Brings(c, h)) /\ (k = "aligned" => AtPlace(c, h))
  /\ op' = [op EXCEPT ![t] = MaybeConsolidate(c, m.sz, k)]
  /\ lock' \in Threads \cup {None} /\ UNCHANGED <<fastVars, tcache>>

(* Lemma: a resizing call that frees what it cut off by a merge.           *)
LEMMA HandMerged ==
  ASSUME OwnInv, NEW t \in Threads, NEW h, NEW A, NEW p, NEW keep, NEW b, NEW m, NEW out,
         NEW S, NEW c, NEW k, HandMerging(t, h, A, p, keep, b, m, out, S, c, k)
  PROVE  OwnInv' /\ HeapStep
<1> PICK B : B = {p, keep} BY Zenon
<1> PICK g : g = MergedHdr(h, m) OBVIOUS
<1> PICK d : d = MaybeConsolidate(c, m.sz, k) OBVIOUS
<1> PICK home : home = FreeHome(m) OBVIOUS
<1>1. /\ Freed(h, A, B, p) /\ p # keep /\ keep \in Int
      /\ b \in BOOLEAN /\ (b \/ h[p].pinuse)
      /\ m = Merge(h, top, p, b) /\ FreeMerged(h, m, out) /\ (m.atTop \/ m.sz >= MINSIZE)
      /\ out \in A \cup {None} /\ A \cap Binned \subseteq {out}
      /\ Reach(t, A, S)
      /\ (HP!Release(h, Binned \ A, p, b) => HP!Next)
  BY DEF HandMerging
<1>2. /\ c \in Call_ /\ c.v = keep /\ c.p = None /\ c.chain = <<>> /\ c.al > 0 /\ c.pad >= 0
      /\ k \in {"done", "aligned"} /\ (k = "done" => Brings(c, h)) /\ (k = "aligned" => AtPlace(c, h))
      /\ op' = [op EXCEPT ![t] = d]
      /\ lock' \in Threads \cup {None} /\ UNCHANGED <<fastVars, tcache>>
  BY DEF HandMerging
<1>3. MergedFrom(h, A, B, p, m, g) BY <1>1, MergeShape
<1>4. /\ m.q \in Int /\ m.sz \in Nat /\ g[keep].sz = h[keep].sz
  BY <1>1, <1>3 DEF MergedFrom
<1>5. /\ MergedLists(m, {m.prev, m.next, out}, home)
      /\ hdr' = g /\ UNCHANGED <<system_mem, last_remainder>>
      /\ unsorted' \in Seq(Int) /\ bins' \in [BinIndices -> Seq(Int)]
      /\ binmap' \subseteq BinIndices
  BY <1>1, <1>4, FreeMergedIs, Zenon
<1>6. (k = "done" => Brings(c, g)) /\ (k = "aligned" => AtPlace(c, g))
  BY <1>2, <1>4 DEF Brings, AtPlace
<1>7. /\ d \in Call_ /\ CallSound(d, g) /\ d.v = keep /\ d.p = None /\ d.chain = <<>>
  BY <1>2, <1>6, MaybeSound
<1>8. keep # None BY <1>1, NoneAssumption
<1>9. /\ \A pl \in S : /\ ChunksAt(pl)' = (ChunksAt(pl) \ A) \cup (IF pl = VPl(t) THEN {keep} ELSE {})
                       /\ Once(ListAt(pl)')
      /\ op'[t] = d /\ \A u \in Threads \ {t} : op'[u] = op[u]
      /\ \A Q : OnlyLists(Q) /\ S \subseteq Q => Only(Q)
      /\ S \subseteq Places /\ S \cap (BinPlaces \cup {TopPl}) = {}
  <2>1. Reach(t, A, S) /\ d \in Call_ /\ d.p = None /\ d.v = keep /\ d.chain = <<>>
        /\ op' = [op EXCEPT ![t] = d]
    BY <1>1, <1>2, <1>7
  <2>2. Handed(t, A, S, keep, d) BY ONLY OwnInv, t \in Threads, <1>8, <2>1, ReachKeeps,
    Zenon
  <2> QED BY <2>2 DEF Handed
<1>10. Shaped'
  <2>1. live' \in [DOMAIN live' -> Int] BY <1>1 DEF Reach
  <2> QED BY <1>2, <1>5, <1>7, <2>1, ShapedBy DEF OwnInv, Shaped, fastVars
<1>11. Only(BinPlaces \cup {TopPl} \cup S)
  <2>1. LivePl \in S \/ DOMAIN live' = DOMAIN live BY <1>1 DEF Reach
  <2>2. OnlyLists(BinPlaces \cup {TopPl} \cup S)
    BY <1>2, <2>1, BinPlacesAre DEF OnlyLists, fastVars
  <2> QED BY <1>9, <2>2
<1>12. Merging(t, h, A, B, p, b, m, out, home, S)
  <2>1. /\ S \subseteq {LivePl, PPl(t), VPl(t), ChainPl(t)} /\ VPl(t) \in S
        /\ \A x \in A : \E pl \in BinPlaces \cup S : x \in ChunksAt(pl)
        /\ \A x \in DOMAIN live' : x \in DOMAIN live \ A /\ live'[x] = live[x]
    BY <1>1 DEF Reach
  <2>2. B \ {p} = {keep} BY <1>1
  <2>3. hdr' = MergedHdr(h, m) /\ system_mem' = system_mem BY <1>5
  <2>4. CallSound(op'[t], hdr') BY <1>5, <1>7, <1>9
  <2>5. MergedLists(m, {m.prev, m.next, out}, home) BY <1>5
  <2>6. \A pl \in S : /\ ChunksAt(pl)' = (ChunksAt(pl) \ A) \cup (IF pl = VPl(t) THEN B \ {p} ELSE {})
                      /\ Once(ListAt(pl)')
    BY ONLY <1>9, <2>2
  <2>7. \A u \in Threads \ {t} : op'[u] = op[u] BY <1>9
  <2>8. /\ Freed(h, A, B, p) /\ b \in BOOLEAN /\ (b \/ h[p].pinuse)
        /\ m = Merge(h, top, p, b) /\ (m.atTop \/ m.sz >= MINSIZE)
        /\ out \in A \cup {None} /\ A \cap Binned \subseteq {out}
        /\ (HP!Release(h, Binned \ A, p, b) => HP!Next)
    BY <1>1
  <2>9. /\ S \subseteq {LivePl, PPl(t), VPl(t), ChainPl(t)} /\ (B # {p} => VPl(t) \in S)
        /\ \A x \in A : \E pl \in BinPlaces \cup S : x \in ChunksAt(pl)
    BY <2>1
  <2>10. \A x \in DOMAIN live' : x \in DOMAIN live \ A /\ live'[x] = live[x] BY <2>1
  <2> QED BY ONLY <1>11, <2>3, <2>4, <2>5, <2>6, <2>7, <2>8, <2>9, <2>10 DEF Merging
<1> QED BY ONLY OwnInv, <1>10, <1>12, t \in Threads, MergeKeeps

(* Lemma: a step of a call on the chunk that it holds.                     *)
LEMMA InHand ==
  ASSUME OwnInv, NEW t \in Threads, op[t].v # None, op[t].p = None, op[t].chain = <<>>,
         live' = live
  PROVE  /\ VPl(t) \in Places /\ VPl(t) \notin BinPlaces \cup {TopPl}
         /\ op[t].v \in ChunksAt(VPl(t)) /\ Reach(t, {op[t].v}, {VPl(t)})
<1>1. VPl(t) \in Places /\ VPl(t) \notin BinPlaces \cup {TopPl} /\ LivePl # VPl(t) /\ LivePl \in Places
  BY PlacesAre, PlacesAt, BinPlacesAre
<1>2. op[t].v \in ChunksAt(VPl(t)) BY ChunksAre
<1>3. op[t].v \notin DOMAIN live BY <1>1, <1>2, ChunksAre DEF OwnInv, Owned
<1>4. live' \in [DOMAIN live' -> Int] BY DEF OwnInv, Shaped
<1> QED BY <1>1, <1>2, <1>3, <1>4 DEF Reach

(* Lemma: memalign's leading part is cut off and freed.                    *)
LEMMA OwnMemalignGot ==
  ASSUME OwnInv, NEW t \in Threads, MemalignGot(t)
  PROVE  OwnInv' /\ HeapStep
<1> PICK v : v = op[t].v OBVIOUS
<1> PICK new : new = AlignedPlace(v, op[t].al) OBVIOUS
<1> PICK x : x = new - v OBVIOUS
<1> PICK h : h = CutAt(hdr, v, x) OBVIOUS
<1> PICK m : m = Merge(h, top, v, TRUE) BY Zenon
<1>1. /\ op[t].pc = "got" /\ op[t].fn = "memalign" /\ UNCHANGED <<lock, fastVars, tcache, live>>
      /\ v = None => op' = [op EXCEPT ![t].pc = "done"] /\ UNCHANGED <<heapVars, binVars>>
      /\ v # None /\ Aligned(v, op[t].al) =>
           op' = [op EXCEPT ![t].pc = "aligned"] /\ UNCHANGED <<heapVars, binVars>>
      /\ v # None /\ ~Aligned(v, op[t].al) =>
           /\ FreeMerged(h, m, None)
           /\ op' = [op EXCEPT ![t] = MaybeConsolidate([op[t] EXCEPT !.v = new], m.sz, "aligned")]
  BY Zenon DEF MemalignGot, Holds
<1>2. /\ op[t] \in Call_ /\ CallSound(op[t], hdr) /\ Searches(op[t], hdr) /\ op[t].chain = <<>>
  BY <1>1, SearchFacts DEF InSearch
<1>3. /\ op[t].p = None /\ op[t].want >= MINSIZE /\ op[t].nb = Padded(op[t].want, op[t].al)
      /\ op[t].al > 0 /\ op[t].pad >= 0 /\ (v # None => Within(hdr[v].sz, op[t].nb))
      /\ op[t].al \in Int /\ op[t].want \in Int /\ op[t].v \in Int \cup {None}
  <2>1. /\ op[t].p = None /\ op[t].want >= MINSIZE /\ op[t].nb = Padded(op[t].want, op[t].al)
        /\ (v # None => Within(hdr[v].sz, op[t].nb))
    BY <1>1, <1>2 DEF Searches
  <2>2. op[t].al > 0 /\ op[t].pad >= 0 BY <1>2 DEF CallSound
  <2>3. op[t].al \in Int /\ op[t].want \in Int /\ op[t].v \in Int \cup {None}
    BY <1>2 DEF Call_, Chunks
  <2> QED BY <2>1, <2>2, <2>3
<1>4. lock' \in Threads \cup {None} BY <1>1 DEF OwnInv, Shaped
<1>5. v # None =>
        /\ v \in DOMAIN hdr /\ v \in Nat /\ hdr[v].sz \in Nat /\ hdr[v].sz <= HeapLimit
        /\ HeapLimit \in Nat /\ hdr[v].sz >= op[t].want + op[t].al + 3
  <2> SUFFICES ASSUME v # None
               PROVE  /\ v \in DOMAIN hdr /\ v \in Nat /\ hdr[v].sz \in Nat /\ hdr[v].sz <= HeapLimit
                      /\ HeapLimit \in Nat /\ hdr[v].sz >= op[t].want + op[t].al + 3
    OBVIOUS
  <2>1. v \in DOMAIN hdr BY HandsAt DEF OwnInv
  <2>2. v \in Nat /\ hdr[v].sz \in Nat /\ hdr[v].sz <= HeapLimit /\ HeapLimit \in Nat
    BY <2>1, ChunkBounds
  <2>3. hdr[v].sz >= Padded(op[t].want, op[t].al) BY <1>3, <2>2 DEF Within
  <2>4. Padded(op[t].want, op[t].al) = op[t].want + op[t].al + 3 BY <1>3 DEF Padded, MINSIZE
  <2> QED BY <2>1, <2>2, <2>3, <2>4
<1>6. CASE v = None \/ Aligned(v, op[t].al)
  <2> PICK k \in {"done", "aligned"} : k = IF v = None THEN "done" ELSE "aligned" OBVIOUS
  <2> PICK d : d = [op[t] EXCEPT !.pc = k] BY Zenon
  <2>1. op' = [op EXCEPT ![t] = d] /\ UNCHANGED <<heapVars, binVars>>
    BY <1>1, <1>6
  <2>2. d \in Call_ BY <1>2, CallWith, Zenon DEF LockedPCs
  <2>3. Same(d, op[t]) /\ d.pc = k /\ d.v = v /\ d.chain = <<>>
    BY ONLY <1>2, d = [op[t] EXCEPT !.pc = k], v = op[t].v DEF Same, Call_
  <2>4. CallSound(d, hdr)
    <3>1. d.al > 0 /\ d.pad >= 0 /\ d.p = None BY <1>3, <2>3 DEF Same
    <3>2. CASE v = None
      <4>1. Brings(d, hdr) BY <2>3, <3>2 DEF Brings
      <4> QED BY <2>3, <3>1, <3>2, <4>1, DoneSound, Zenon
    <3>3. CASE v # None
      <4>1. hdr[v].sz >= op[t].want BY <1>3, <1>5, <3>3
      <4>2. AtPlace(d, hdr) BY <1>1, <1>3, <1>6, <2>3, <3>3, <4>1 DEF AtPlace, Same
      <4> QED BY <2>3, <3>1, <3>3, <4>2, AlignedSound, Zenon
    <3> QED BY <3>2, <3>3
  <2>5. Shaped' BY <1>1, <2>1, <2>2, CallShaped DEF OwnInv, Shaped, fastVars, binVars
  <2> QED BY <1>1, <1>2, <2>1, <2>2, <2>3, <2>4, <2>5, StayCall, ZenonT(40)
    DEF Same, fastVars, binVars
<1>7. CASE ~(v = None \/ Aligned(v, op[t].al))
  <2> PICK c : c = [op[t] EXCEPT !.v = new] BY Zenon
  <2>1. FreeMerged(h, m, None) /\ op' = [op EXCEPT ![t] = MaybeConsolidate(c, m.sz, "aligned")]
    BY <1>1, <1>7, Zenon
  <2>2. /\ new \in Nat /\ new - v >= MINSIZE /\ new - v <= op[t].al + 1 /\ Aligned(new, op[t].al)
    BY <1>3, <1>5, <1>7, PlaceFits
  <2>3. /\ x \in Nat /\ x > 0 /\ x < hdr[v].sz /\ x >= MINSIZE /\ hdr[v].sz - x >= op[t].want
        /\ hdr[v].sz - x >= MINSIZE /\ v + x = new /\ x \in HP!Sizes
    <3>1. /\ x \in Nat /\ x > 0 /\ x < hdr[v].sz /\ x >= MINSIZE /\ hdr[v].sz - x >= op[t].want
          /\ hdr[v].sz - x >= MINSIZE /\ v + x = new
      <4> PICK s : s = hdr[v].sz OBVIOUS
      <4> PICK w : w = op[t].want OBVIOUS
      <4> PICK a : a = op[t].al OBVIOUS
      <4>1. v \in Nat /\ new \in Nat /\ s \in Nat /\ w \in Int /\ a \in Int /\ s >= w + a + 3
            /\ new - v >= 2 /\ new - v <= a + 1 /\ a > 0 /\ w >= 2 /\ x = new - v
        BY <1>3, <1>5, <1>7, <2>2 DEF MINSIZE
      <4>2. x \in Nat /\ x > 0 /\ x < s /\ x >= 2 /\ s - x >= w /\ s - x >= 2 /\ v + x = new
        BY ONLY <4>1
      <4> QED BY <4>2 DEF MINSIZE
    <3>2. x \in HP!Sizes BY <1>5, <1>7, <3>1 DEF HP!Sizes
    <3> QED BY <3>1, <3>2
  <2>4. /\ VPl(t) \in Places /\ VPl(t) \notin BinPlaces \cup {TopPl}
        /\ v \in ChunksAt(VPl(t)) /\ Reach(t, {v}, {VPl(t)})
    BY <1>1, <1>2, <1>3, <1>7, InHand, Zenon
  <2>5. Freed(hdr, {v}, {v}, v) /\ {v} \cap Binned = {} BY <2>4, FreedSelf, Zenon
  <2>6. v \notin Binned /\ v \in HP!Held BY <2>4, HeldGood
  <2>7. /\ Freed(h, {v}, {v, new}, v) /\ h[v].sz = x /\ h[new].sz = hdr[v].sz - x
        /\ new # v /\ new \in Int
    <3>1. CutInTwo(hdr, {v}, v, x, CutAt(hdr, v, x), v + x)
      BY ONLY OwnInv, <2>3, <2>5, CutFreed
    <3>2. CutInTwo(hdr, {v}, v, x, h, new) BY ONLY <2>3, <3>1, h = CutAt(hdr, v, x)
    <3> QED BY ONLY <3>2 DEF CutInTwo
  <2>8. MergedFrom(h, {v}, {v, new}, v, m, MergedHdr(h, m)) BY <2>7, MergeShape, Zenon
  <2>9. m.atTop \/ m.sz >= MINSIZE
    <3>1. m.sz \in Nat /\ m.sz >= h[v].sz BY <2>8, Zenon DEF MergedFrom
    <3> QED BY ONLY <2>3, <2>7, <3>1 DEF MINSIZE
  <2>10. HP!Release(h, Binned \ {v}, v, TRUE) => HP!Next
    <3>1. Binned \ {v} = Binned BY <2>6
    <3>2. HP!CutAt(hdr, v, x) = h BY SameShape
    <3>3. x >= HP!MINSIZE /\ ~HP!TooSmall(hdr[v].sz - x)
      <4>1. ~TooSmall(hdr[v].sz - x) BY <2>3, <1>5, <1>7 DEF TooSmall, MINSIZE
      <4> QED BY <2>3, <4>1, SameSmall
    <3>4. HP!Release(h, Binned \ {v}, v, TRUE) => HP!FreeLead(v, x)
      BY <3>1, <3>2, <3>3, Zenon DEF HP!FreeLead
    <3> QED BY <2>3, <2>6, <3>4, Zenon DEF HP!Next, HP!OnHeld
  <2>11. c \in Call_ BY <1>2, <2>7, CallWith, Zenon
  <2>12. /\ c.v = new /\ c.p = None /\ c.chain = <<>> /\ c.al = op[t].al /\ c.pad = op[t].pad
         /\ c.want = op[t].want /\ c.fn = "memalign"
    BY ONLY <1>1, <1>2, <1>3, c = [op[t] EXCEPT !.v = new] DEF Call_
  <2>13. AtPlace(c, h)
    <3>1. new # None BY <2>7, NoneAssumption
    <3>2. h[new].sz >= op[t].want BY <2>3, <2>7
    <3> QED BY <1>3, <2>2, <2>12, <3>1, <3>2 DEF AtPlace
  <2>14. HandMerging(t, h, {v}, v, new, TRUE, m, None, {VPl(t)}, c, "aligned")
    <3>1. None \in {v} \cup {None} /\ {v} \cap Binned \subseteq {None} BY <2>5
    <3>2. c.al > 0 /\ c.pad >= 0 BY <1>3, <2>12
    <3>3. TRUE \in BOOLEAN /\ (TRUE \/ h[v].pinuse) OBVIOUS
    <3>4. UNCHANGED <<fastVars, tcache>> BY <1>1
    <3>5. "aligned" \in {"done", "aligned"} /\ ("aligned" = "done" => Brings(c, h)) OBVIOUS
    <3> QED BY ONLY m = Merge(h, top, v, TRUE), <1>4, <2>1, <2>4, <2>7, <2>9, <2>10, <2>11,
                    <2>12, <2>13, <3>1, <3>2, <3>3, <3>4, <3>5, Zenon DEF HandMerging
  <2> QED BY ONLY OwnInv, t \in Threads, <2>14, HandMerged, Zenon
<1> QED BY <1>6, <1>7

(* What follows the first nb units of chunk v is freed, as m.              *)
TailFreed(h, A, v, nb, g, e, m) ==
  /\ CutInTwo(h, A, v, nb, g, e) /\ (m.atTop \/ m.sz >= MINSIZE)
  /\ (HP!Release(g, Binned \ A, e, FALSE) => HP!FreeTail(h, Binned \ A, v, nb))
  /\ nb \in HP!Sizes

(* Lemma: cutting a tail off a chunk and merging it onward is freeing it.  *)
LEMMA TailFrees ==
  ASSUME OwnInv, NEW h, NEW A, NEW v, Freed(h, A, {v}, v), NEW nb \in Int, nb >= MINSIZE,
         h[v].sz - nb > 0, h[v].sz <= HeapLimit,
         ~TooSmall(h[v].sz - nb) \/ Next_(h, v) = top \/ ~InUseAfter(h, Next_(h, v))
  PROVE  TailFreed(h, A, v, nb, CutAt(h, v, nb), v + nb, Merge(CutAt(h, v, nb), top, v + nb, FALSE))
<1> PICK g : g = CutAt(h, v, nb) OBVIOUS
<1> PICK e : e = v + nb OBVIOUS
<1> PICK m : m = Merge(g, top, e, FALSE) BY Zenon
<1> PICK n : n = Next_(h, v) OBVIOUS
<1> PICK F : F = Binned \ A BY Zenon
<1>1. /\ HP!Good(h, top, F) /\ A \subseteq DOMAIN hdr \ {top}
      /\ DOMAIN h = (DOMAIN hdr \ A) \cup {v} /\ {v} \cap (DOMAIN hdr \ A) = {}
  BY DEF Freed
<1>2. v # top /\ v \in DOMAIN h
  <2>1. top \in DOMAIN hdr BY HeapIs DEF OwnInv, HeapFacts
  <2> QED BY <1>1, <2>1
<1>3. /\ DOMAIN h \subseteq Nat /\ h \in [DOMAIN h -> Header]
      /\ \A c \in DOMAIN h \ {top} : Next_(h, c) \in DOMAIN h
      /\ \A c \in DOMAIN h \ {top} : h[Next_(h, c)].pinuse <=> c \notin F
  BY <1>1, SameSmall, Zenon DEF HP!Good, HP!Laid, HP!Tagged, HP!Header, Header
<1>4. v \in Nat /\ h[v].sz \in Nat /\ n = v + h[v].sz BY <1>2, <1>3 DEF Header, Next_
<1>5. nb \in Nat /\ nb > 0 /\ nb < h[v].sz /\ nb >= 1 /\ nb <= HeapLimit
  <2> PICK s : s = h[v].sz OBVIOUS
  <2>1. s \in Nat /\ nb \in Int /\ nb >= 2 /\ s - nb > 0 /\ s <= HeapLimit /\ HeapLimit \in Nat
    BY <1>4, ArenaAssumption DEF MINSIZE
  <2>2. nb \in Nat /\ nb > 0 /\ nb < s /\ nb >= 1 /\ nb <= HeapLimit BY ONLY <2>1
  <2> QED BY <2>2
<1>6. nb \in HP!Sizes
  <2>1. HeapLimit \in Nat BY ArenaAssumption
  <2> QED BY ONLY <1>5, <2>1 DEF HP!Sizes
<1>7. CutInTwo(h, A, v, nb, g, e)
  <2>1. CutInTwo(h, A, v, nb, CutAt(h, v, nb), v + nb)
    BY ONLY OwnInv, Freed(h, A, {v}, v), <1>5, CutFreed
  <2> QED BY ONLY <2>1, g = CutAt(h, v, nb), e = v + nb
<1>8. /\ Freed(g, A, {v, e}, e) /\ g[e].sz = h[v].sz - nb /\ g[e].pinuse BY <1>7 DEF CutInTwo
<1>9. MergedFrom(g, A, {v, e}, e, m, MergedHdr(g, m))
  <2>1. FALSE \in BOOLEAN /\ (FALSE \/ g[e].pinuse) BY <1>8
  <2> QED BY ONLY OwnInv, <1>8, <2>1, m = Merge(g, top, e, FALSE), MergeShape, Zenon
<1>10. Next_(g, e) = n
  <2>1. Next_(g, e) = (v + nb) + (h[v].sz - nb) BY <1>8 DEF Next_
  <2> QED BY ONLY <1>4, <1>5, <2>1
<1>11. /\ m.sz \in Nat /\ m.sz >= h[v].sz - nb /\ (m.atTop <=> n = top)
       /\ (n \in F => m.sz >= hdr[n].sz)
  <2>1. /\ m.sz \in Nat /\ m.sz >= g[e].sz /\ (m.atTop <=> Next_(g, e) = top)
        /\ (Next_(g, e) \in F => m.sz >= hdr[Next_(g, e)].sz)
    BY <1>9, Zenon DEF MergedFrom
  <2> QED BY ONLY <1>8, <1>10, <2>1
<1>12. m.atTop \/ m.sz >= MINSIZE
  <2>1. CASE ~TooSmall(h[v].sz - nb)
    <3> PICK s : s = h[v].sz OBVIOUS
    <3>1. s \in Nat /\ nb \in Nat /\ m.sz \in Nat /\ m.sz >= s - nb BY <1>4, <1>5, <1>11,
      Zenon
    <3>2. s - nb >= 2 BY <1>4, <1>5, <2>1 DEF TooSmall, MINSIZE
    <3>3. m.sz >= 2 BY ONLY <3>1, <3>2
    <3> QED BY <3>3, Zenon DEF MINSIZE
  <2>2. CASE n = top BY <1>11, <2>2, Zenon
  <2>3. CASE n # top /\ ~InUseAfter(h, n)
    <3>1. n \in DOMAIN h \ {top} BY <1>2, <1>3, <2>3
    <3>2. n \in F BY <1>3, <2>3, <3>1 DEF InUseAfter
    <3>3. hdr[n].sz \in Nat /\ hdr[n].sz >= MINSIZE BY <3>2, ListedSize
    <3>4. m.sz >= hdr[n].sz /\ m.sz \in Nat BY <1>11, <3>2, Zenon
    <3> PICK k : k = hdr[n].sz OBVIOUS
    <3>5. k \in Nat /\ k >= 2 /\ m.sz >= k /\ m.sz \in Nat BY <3>3, <3>4, Zenon DEF MINSIZE
    <3> QED BY ONLY <3>5 DEF MINSIZE
  <2> QED BY <2>1, <2>2, <2>3, Zenon
<1>13. HP!Release(g, F, e, FALSE) => HP!FreeTail(h, F, v, nb)
  <2>1. HP!CutAt(h, v, nb) = g BY SameShape
  <2>2. nb >= HP!MINSIZE /\ HP!Next_(h, v) = n BY SameSmall
  <2>3. HP!TooSmall(h[v].sz - nb) /\ n # top => ~HP!InUseAfter(h, n)
    <3>1. TooSmall(h[v].sz - nb) /\ n # top => ~InUseAfter(h, n) OBVIOUS
    <3> QED BY ONLY <3>1, SameSmall, Zenon
  <2>4. h[v].sz - nb > 0 OBVIOUS
  <2> QED BY ONLY <2>1, <2>2, <2>3, <2>4, e = v + nb, Zenon DEF HP!FreeTail
<1>14. TailFreed(h, A, v, nb, g, e, m)
  BY ONLY <1>6, <1>7, <1>12, <1>13, F = Binned \ A, Zenon DEF TailFreed
<1> QED BY ONLY <1>14, g = CutAt(h, v, nb), e = v + nb, m = Merge(g, top, e, FALSE), Zenon

(* Lemma: memalign's trailing part is cut off and freed, or kept.          *)
LEMMA OwnMemalignTail ==
  ASSUME OwnInv, NEW t \in Threads, MemalignTail(t)
  PROVE  OwnInv' /\ HeapStep
<1> PICK v : v = op[t].v OBVIOUS
<1> PICK nb : nb = op[t].want OBVIOUS
<1> PICK next : next = Next_(hdr, v) OBVIOUS
<1> PICK h : h = CutAt(hdr, v, nb) OBVIOUS
<1> PICK e : e = v + nb OBVIOUS
<1> PICK m : m = Merge(h, top, e, FALSE) BY Zenon
<1> PICK c : c = op[t] OBVIOUS
<1> DEFINE over == hdr[v].sz - nb
           cuts == over > 0 /\ (~TooSmall(over) \/ next = top \/ ~InUseAfter(hdr, next))
<1>1. /\ op[t].pc = "aligned" /\ UNCHANGED <<lock, fastVars, tcache, live>>
      /\ cuts => /\ FreeMerged(h, m, None)
                 /\ op' = [op EXCEPT ![t] = MaybeConsolidate(c, m.sz, "done")]
      /\ ~cuts => op' = [op EXCEPT ![t].pc = "done"] /\ UNCHANGED <<heapVars, binVars>>
  BY Zenon DEF MemalignTail, Holds
<1>2. /\ c \in Call_ /\ CallSound(c, hdr) BY DEF OwnInv, Shaped, CallsInv
<1>3. /\ c.p = None /\ v # None /\ c.fn = "memalign" /\ nb >= MINSIZE /\ hdr[v].sz >= nb
      /\ Aligned(v, c.al) /\ c.al > 0 /\ c.pad >= 0 /\ c.chain = <<>> /\ nb \in Int
  <2>1. Comes(c, "aligned") BY <1>1 DEF Comes
  <2>2. /\ c.p = None /\ v # None /\ c.fn = "memalign" /\ nb >= MINSIZE /\ hdr[v].sz >= nb
        /\ Aligned(v, c.al) /\ c.al > 0 /\ c.pad >= 0 /\ c.chain = <<>>
    BY <1>1, <1>2, <2>1 DEF CallSound
  <2>3. nb \in Int BY <1>2 DEF Call_
  <2> QED BY <2>2, <2>3
<1>4. /\ VPl(t) \in Places /\ VPl(t) \notin BinPlaces \cup {TopPl}
      /\ v \in ChunksAt(VPl(t)) /\ Reach(t, {v}, {VPl(t)})
  BY <1>1, <1>3, InHand
<1>5. v \in DOMAIN hdr \ {top} /\ v \notin Binned /\ v \in HP!Held /\ hdr[v].sz \in Nat
  BY <1>4, HeldGood
<1>6. hdr[v].sz <= HeapLimit BY <1>5, ChunkBounds
<1>7. CASE ~cuts
  <2> PICK d : d = [c EXCEPT !.pc = "done"] BY Zenon
  <2>1. op' = [op EXCEPT ![t] = d] /\ UNCHANGED <<heapVars, binVars>> BY <1>1, <1>7
  <2>2. d \in Call_ BY <1>2, CallWith, Zenon DEF LockedPCs
  <2>3. Same(d, c) /\ d.pc = "done" /\ d.v = v /\ d.chain = <<>>
    BY ONLY <1>2, <1>3, d = [c EXCEPT !.pc = "done"], v = op[t].v, c = op[t] DEF Same, Call_
  <2>4. Within(hdr[v].sz, nb)
    <3>1. ~(over > 0) \/ TooSmall(over) BY <1>7
    <3> PICK s : s = hdr[v].sz OBVIOUS
    <3>2. s \in Nat /\ nb \in Int /\ s >= nb /\ (~(s - nb > 0) \/ s - nb < 2)
      BY <1>3, <1>5, <3>1 DEF TooSmall, MINSIZE
    <3>3. nb <= s /\ s < nb + 2 BY ONLY <3>2
    <3> QED BY <3>3 DEF Within, MINSIZE
  <2>5. CallSound(d, hdr)
    <3>1. d.al > 0 /\ d.pad >= 0 /\ d.p = None BY <1>3, <2>3 DEF Same
    <3>2. Brings(d, hdr) BY <1>3, <2>3, <2>4 DEF Brings, Same
    <3> QED BY <2>3, <3>1, <3>2, DoneSound, Zenon
  <2>6. Shaped' BY <1>1, <2>1, <2>2, CallShaped DEF OwnInv, Shaped, fastVars, binVars
  <2>7. d.v = op[t].v /\ d.p = op[t].p /\ d.chain = op[t].chain
    BY ONLY <1>3, <2>3, c = op[t], v = op[t].v DEF Same
  <2> QED BY <1>1, <2>1, <2>2, <2>5, <2>6, <2>7, StayCall, Zenon DEF fastVars, binVars
<1>8. CASE cuts
  <2>1. FreeMerged(h, m, None) /\ op' = [op EXCEPT ![t] = MaybeConsolidate(c, m.sz, "done")]
    BY <1>1, <1>8, Zenon
  <2>2. Freed(hdr, {v}, {v}, v) /\ {v} \cap Binned = {} BY <1>4, FreedSelf, Zenon
  <2>3. TailFreed(hdr, {v}, v, nb, h, e, m)
    <3>1. /\ hdr[v].sz - nb > 0
          /\ ~TooSmall(hdr[v].sz - nb) \/ Next_(hdr, v) = top \/ ~InUseAfter(hdr, Next_(hdr, v))
      BY <1>8
    <3>2. TailFreed(hdr, {v}, v, nb, CutAt(hdr, v, nb), v + nb, Merge(CutAt(hdr, v, nb), top, v + nb, FALSE))
      BY ONLY OwnInv, <1>3, <1>6, <2>2, <3>1, TailFrees, Zenon
    <3> QED BY ONLY <3>2, h = CutAt(hdr, v, nb), e = v + nb, m = Merge(h, top, e, FALSE),
      Zenon
  <2>4. /\ Freed(h, {v}, {e, v}, e) /\ h[v].sz = nb /\ h[e].pinuse /\ e # v /\ v \in Int
        /\ (m.atTop \/ m.sz >= MINSIZE) /\ nb \in HP!Sizes
    <3>1. {e, v} = {v, e} OBVIOUS
    <3> QED BY <2>3, <3>1, Zenon DEF TailFreed, CutInTwo
  <2>5. HP!Release(h, Binned \ {v}, e, FALSE) => HP!Next
    <3>1. HP!Release(h, Binned \ {v}, e, FALSE) => HP!FreeTail(hdr, Binned \ {v}, v, nb)
      BY <2>3, Zenon DEF TailFreed
    <3>2. Binned \ {v} = Binned BY <1>5
    <3>3. HP!Release(h, Binned \ {v}, e, FALSE) => HP!FreeTail(hdr, Binned, v, nb)
      BY ONLY <3>1, <3>2
    <3> QED BY <1>5, <2>4, <3>3, Zenon DEF HP!Next, HP!OnHeld
  <2>6. Brings(c, h)
    <3>1. Within(nb, nb) BY <1>3 DEF Within, MINSIZE
    <3> QED BY <1>3, <2>4, <3>1 DEF Brings
  <2>7. HandMerging(t, h, {v}, e, v, FALSE, m, None, {VPl(t)}, c, "done")
    <3>1. None \in {v} \cup {None} /\ {v} \cap Binned \subseteq {None} BY <2>2
    <3>2. c.v = v OBVIOUS
    <3>3. FALSE \in BOOLEAN /\ (FALSE \/ h[e].pinuse) BY <2>4
    <3>4. UNCHANGED <<fastVars, tcache>> /\ lock' \in Threads \cup {None}
      BY <1>1 DEF OwnInv, Shaped
    <3>5. "done" \in {"done", "aligned"} /\ ("done" = "aligned" => AtPlace(c, h)) OBVIOUS
    <3> QED BY ONLY m = Merge(h, top, e, FALSE), <1>2, <1>3, <1>4, <2>1, <2>4, <2>5, <2>6,
                    <3>1, <3>2, <3>3, <3>4, <3>5, Zenon DEF HandMerging
  <2> QED BY ONLY OwnInv, t \in Threads, <2>7, HandMerged, Zenon
<1> QED BY <1>7, <1>8

-----------------------------------------------------------------------------
(* The end of realloc.                                                     *)

(* A call gives up A to hold p, and to push e when that is a chunk; out    *)
(* leaves the list that has it.                                            *)
Resting(t, g, A, p, e, out, S, c) ==
  /\ Freed(g, A, {p} \cup ({e} \ {None}), p) /\ p # e /\ p \in Int
  /\ hdr' = g /\ UNCHANGED <<top, system_mem>>
  /\ out \in A \cup {None} /\ A \cap Binned \subseteq {out}
  /\ Reach(t, A, S)
  /\ bins' = [i \in BinIndices |-> Unlink(bins[i], out)] /\ unsorted' = Unlink(unsorted, out)
  /\ (e = None => fastbins' = fastbins)
  /\ (e # None => /\ e \in Int /\ g[e].sz \in FastSizes
                  /\ fastbins' = [fastbins EXCEPT ![g[e].sz] = <<e>> \o @])
  /\ have_fastchunks' \in BOOLEAN /\ lock' \in Threads \cup {None}
  /\ UNCHANGED <<binmap, last_remainder, tcache>>
  /\ c \in Call_ /\ c.v = p /\ c.p = None /\ c.chain = <<>> /\ CallSound(c, g)
  /\ op' = [op EXCEPT ![t] = c]
  /\ (Binned' = Binned \ A => HeapStep)

(* Lemma: unlinking out takes it from the list that has it.                *)
LEMMA OutUnlinked ==
  ASSUME OwnInv, NEW A, NEW out, out \in A \cup {None}, A \cap Binned \subseteq {out},
         bins' = [i \in BinIndices |-> Unlink(bins[i], out)], unsorted' = Unlink(unsorted, out)
  PROVE  /\ \A pl \in BinPlaces : ChunksAt(pl)' = ChunksAt(pl) \ A /\ Once(ListAt(pl)')
         /\ unsorted' \in Seq(Int) /\ bins' \in [BinIndices -> Seq(Int)]
         /\ \A i \in BinIndices : Fewer(bins'[i], bins[i], {out}) /\ ToSet(bins'[i]) \subseteq Binned \ A
<1>1. /\ Fewer(unsorted', unsorted, {out})
      /\ \A i \in BinIndices : Fewer(bins'[i], bins[i], {out})
  BY ListsAre, UnlinkFewer
<1>2. /\ ToSet(unsorted) \subseteq Binned
      /\ \A i \in BinIndices : ToSet(bins[i]) \subseteq Binned
  BY InBinned DEF OwnInv
<1>3. None \notin Binned
  <2>1. DOMAIN hdr \subseteq Nat /\ Binned \subseteq DOMAIN hdr BY HeapIs DEF OwnInv, HeapFacts
  <2> QED BY <2>1, NoneAssumption
<1>4. \A s : ToSet(s) \subseteq Binned => ToSet(s) \ {out} = ToSet(s) \ A
  BY ONLY out \in A \cup {None}, A \cap Binned \subseteq {out}, <1>3
<1>5. ToSet(unsorted') = ToSet(unsorted) \ A /\ Once(unsorted') BY <1>1, <1>2, <1>4 DEF Fewer
<1>6. \A i \in BinIndices : ToSet(bins'[i]) = ToSet(bins[i]) \ A /\ Once(bins'[i])
  BY <1>1, <1>2, <1>4 DEF Fewer
<1>7. \A pl \in BinPlaces : ChunksAt(pl)' = ChunksAt(pl) \ A /\ Once(ListAt(pl)')
  <2> TAKE pl \in BinPlaces
  <2>1. CASE pl = UnsortedPl BY <1>5, <2>1, ChunksAre, ChunksAreNext, ListsAtNext
  <2>2. CASE pl # UnsortedPl
    <3>1. PICK i \in BinIndices : pl = BinPl(i) BY <2>2 DEF BinPlaces
    <3> QED BY <1>6, <3>1, ChunksAre, ChunksAreNext, ListsAtNext, ZenonT(40)
  <2> QED BY <2>1, <2>2
<1>8. unsorted' \in Seq(Int) /\ bins' \in [BinIndices -> Seq(Int)]
  <2>1. \A i \in BinIndices : Unlink(bins[i], out) \in Seq(Int) BY <1>6 DEF Once
  <2> QED BY <1>5, <2>1 DEF Once
<1>9. \A i \in BinIndices : ToSet(bins'[i]) \subseteq Binned \ A BY <1>2, <1>6
<1> QED BY <1>1, <1>7, <1>8, <1>9, Zenon

(* Lemma: a resized chunk whose rest, if any, is cut off without a merge.  *)
LEMMA RestKeeps ==
  ASSUME OwnInv, NEW t \in Threads, NEW g, NEW A, NEW p, NEW e, NEW out, NEW S, NEW c,
         Resting(t, g, A, p, e, out, S, c)
  PROVE  OwnInv' /\ HeapStep
<1> PICK n : n = g[e].sz OBVIOUS
<1> PICK E : E = {e} \ {None} BY Zenon
<1> PICK B : B = {p} \cup E BY Zenon
<1> PICK W : W = IF e = None THEN {} ELSE {FastPl(n)} BY Zenon
<1> PICK Q : Q = BinPlaces \cup S \cup W BY Zenon
<1> PICK dest : dest = [x \in B |-> IF x = p THEN VPl(t) ELSE FastPl(n)] BY Zenon
<1>1. /\ Freed(g, A, B, p) /\ p # e /\ p \in Int
      /\ hdr' = g /\ UNCHANGED <<top, system_mem>>
      /\ out \in A \cup {None} /\ A \cap Binned \subseteq {out}
      /\ Reach(t, A, S)
      /\ bins' = [i \in BinIndices |-> Unlink(bins[i], out)] /\ unsorted' = Unlink(unsorted, out)
      /\ (e = None => fastbins' = fastbins)
      /\ (e # None => /\ e \in Int /\ n \in FastSizes
                      /\ fastbins' = [fastbins EXCEPT ![n] = <<e>> \o @])
  BY DEF Resting
<1>2. /\ have_fastchunks' \in BOOLEAN /\ lock' \in Threads \cup {None}
      /\ UNCHANGED <<binmap, last_remainder, tcache>>
      /\ c \in Call_ /\ c.v = p /\ c.p = None /\ c.chain = <<>> /\ CallSound(c, g)
      /\ op' = [op EXCEPT ![t] = c]
      /\ (Binned' = Binned \ A => HeapStep)
  BY DEF Resting
<1>3. /\ A \subseteq DOMAIN hdr \ {top} /\ DOMAIN g = (DOMAIN hdr \ A) \cup B
      /\ B \cap (DOMAIN hdr \ A) = {} /\ \A x \in DOMAIN hdr \ A : g[x].sz = hdr[x].sz
  BY <1>1 DEF Freed
<1>4. /\ S \subseteq {LivePl, PPl(t), VPl(t)} /\ VPl(t) \in S
      /\ \A x \in A : \E pl \in BinPlaces \cup S : x \in ChunksAt(pl)
      /\ DOMAIN live' = DOMAIN live \ A /\ live' \in [DOMAIN live' -> Int]
      /\ \A x \in DOMAIN live' : live'[x] = live[x]
      /\ (LivePl \notin S => live' = live)
  BY <1>1 DEF Reach
<1>5. p # None BY <1>1, NoneAssumption
<1>6. /\ \A pl \in S : /\ ChunksAt(pl)' = (ChunksAt(pl) \ A) \cup (IF pl = VPl(t) THEN {p} ELSE {})
                       /\ Once(ListAt(pl)')
      /\ op'[t] = c /\ \A u \in Threads \ {t} : op'[u] = op[u]
      /\ \A R : OnlyLists(R) /\ S \subseteq R => Only(R)
      /\ S \subseteq Places /\ S \cap (BinPlaces \cup {TopPl}) = {}
  <2>1. Handed(t, A, S, p, c) BY ONLY OwnInv, t \in Threads, <1>1, <1>2, <1>5, ReachKeeps,
    Zenon
  <2> QED BY <2>1 DEF Handed
<1>7. /\ \A pl \in BinPlaces : ChunksAt(pl)' = ChunksAt(pl) \ A /\ Once(ListAt(pl)')
      /\ unsorted' \in Seq(Int) /\ bins' \in [BinIndices -> Seq(Int)]
      /\ \A i \in BinIndices : Fewer(bins'[i], bins[i], {out}) /\ ToSet(bins'[i]) \subseteq Binned \ A
  BY ONLY OwnInv, <1>1, OutUnlinked, Zenon
<1>8. /\ W \subseteq Places /\ W \cap (BinPlaces \cup S) = {} /\ BinPlaces \subseteq Places
      /\ \A pl \in W : pl.at = "fast"
  <2>1. e # None => FastPl(n) \in Places BY <1>1, PlacesAre
  <2>2. FastPl(n).at = "fast" /\ FastPl(n) \notin BinPlaces \cup {LivePl, PPl(t), VPl(t)}
    BY PlacesAt, BinPlacesAre
  <2>3. BinPlaces \subseteq Places BY PlacesAre DEF BinPlaces
  <2> QED BY <1>4, <2>1, <2>2, <2>3
<1>9. /\ \A pl \in W : ChunksAt(pl)' = (ChunksAt(pl) \ A) \cup E /\ Once(ListAt(pl)')
      /\ fastbins' \in [FastSizes -> Seq(Int)]
      /\ \A x \in FastSizes : fastbins'[x] = fastbins[x] \/ FastPl(x) \in W
  <2>1. CASE e = None BY <1>1, <2>1 DEF OwnInv, Shaped
  <2>2. CASE e # None
    <3>1. W = {FastPl(n)} /\ E = {e} /\ n \in FastSizes /\ e \in Int BY <1>1, <2>2
    <3>2. ChunksAt(FastPl(n)) \cap A = {} BY <1>4, <1>6, <1>8, <3>1 DEF OwnInv, Owned
    <3>3. ChunksAt(FastPl(n)) \subseteq DOMAIN hdr BY <1>8, <3>1 DEF OwnInv, Owned
    <3>4. e \notin ChunksAt(FastPl(n)) BY ONLY <1>3, <3>1, <3>2, <3>3, B = {p} \cup E
    <3>5. ChunksAt(FastPl(n)) = ToSet(fastbins[n]) /\ Once(fastbins[n])
      BY <3>1, ChunksAre, ListsAre
    <3> PICK r : r = <<e>> \o fastbins[n] BY Zenon
    <3>6. More(r, fastbins[n], e) BY <3>1, <3>4, <3>5, PushMore
    <3>7. fastbins' = [fastbins EXCEPT ![n] = r] BY <1>1, <2>2
    <3>8. Once(r) /\ ToSet(r) = ToSet(fastbins[n]) \cup {e} BY <3>6 DEF More
    <3>9. /\ fastbins' \in [FastSizes -> Seq(Int)] /\ fastbins'[n] = r
          /\ \A x \in FastSizes : x # n => fastbins'[x] = fastbins[x]
      BY <3>1, <3>7, <3>8, FastOne, Zenon DEF OwnInv
    <3>10. ChunksAt(FastPl(n))' = ToSet(r) /\ Once(ListAt(FastPl(n))')
      BY <3>8, <3>9, ChunksAreNext, ListsAtNext, Zenon
    <3>11. ChunksAt(FastPl(n))' = (ChunksAt(FastPl(n)) \ A) \cup E
      BY ONLY <3>1, <3>2, <3>5, <3>8, <3>10
    <3> QED BY <3>1, <3>9, <3>10, <3>11, Zenon
  <2> QED BY <2>1, <2>2
<1>10. Shaped'
  BY <1>2, <1>4, <1>7, <1>9, ShapedBy DEF OwnInv, Shaped
<1>11. Only(Q)
  <2>1. LivePl \in S \/ DOMAIN live' = DOMAIN live BY <1>4
  <2>2. OnlyLists(Q) BY <1>1, <1>2, <1>9, <2>1, BinPlacesAre DEF OnlyLists
  <2> QED BY <1>6, <2>2
<1>12. /\ dest[p] = VPl(t) /\ (\A x \in E : dest[x] = FastPl(n) /\ x # p)
       /\ \A x \in B : x = p \/ x \in E
  BY <1>1
<1>13. /\ \A pl \in BinPlaces : {x \in B : dest[x] = pl} = {}
       /\ \A pl \in S : {x \in B : dest[x] = pl} = IF pl = VPl(t) THEN {p} ELSE {}
       /\ \A pl \in W : {x \in B : dest[x] = pl} = E
  <2>1. VPl(t) \notin BinPlaces /\ VPl(t) \notin W BY <1>4, <1>6, <1>8
  <2>2. FastPl(n) \notin BinPlaces \cup S
    BY <1>4, PlacesAt, BinPlacesAre
  <2>3. \A pl \in W : pl = FastPl(n) OBVIOUS
  <2> QED BY <1>12, <2>1, <2>2, <2>3, Zenon
<1>14. Placing(Q, A, B, dest)
  <2>1. Q \subseteq Places BY <1>6, <1>8
  <2>2. \A x \in A : \E pl \in Q : x \in ChunksAt(pl) BY <1>4
  <2>3. \A x \in B : dest[x] \in Q
    <3>1. \A x \in E : FastPl(n) \in W OBVIOUS
    <3> QED BY ONLY <1>4, <1>12, <3>1, Q = BinPlaces \cup S \cup W
  <2>4. \A pl \in Q : /\ ChunksAt(pl)' = (ChunksAt(pl) \ A) \cup {x \in B : dest[x] = pl}
                      /\ Once(ListAt(pl)')
    <3> TAKE pl \in Q
    <3>1. CASE pl \in BinPlaces BY <1>7, <1>13, <3>1, Zenon
    <3>2. CASE pl \in S BY <1>6, <1>13, <3>2
    <3>3. CASE pl \in W BY <1>9, <1>13, <3>3, Zenon
    <3> QED BY <3>1, <3>2, <3>3
  <2>5. DOMAIN hdr' = (DOMAIN hdr \ A) \cup B /\ \A x \in DOMAIN hdr \ A : hdr'[x].sz = hdr[x].sz
    BY <1>1, <1>3
  <2> QED BY ONLY <1>3, <1>11, <2>1, <2>2, <2>3, <2>4, <2>5 DEF Placing
<1>15. HeapStep
  <2>1. Binned' = (Binned \ A) \cup {x \in B : dest[x] \in BinPlaces}
    BY <1>10, <1>14, PlacedBinned DEF OwnInv
  <2>2. {x \in B : dest[x] \in BinPlaces} = {} BY <1>13, Zenon
  <2>3. Binned' = Binned \ A BY ONLY <2>1, <2>2
  <2> QED BY <1>2, <2>3
<1>16. Leaving(t, Q, A, B, dest)
  <2>1. \A u \in Threads \ {t} : op'[u] = op[u] /\ PPl(u) \notin Q /\ VPl(u) \notin Q
    <3> TAKE u \in Threads \ {t}
    <3>1. PPl(u) \notin BinPlaces /\ VPl(u) \notin BinPlaces BY BinPlacesAre
    <3>2. /\ PPl(u) \notin {LivePl, PPl(t), VPl(t)} /\ VPl(u) \notin {LivePl, PPl(t), VPl(t)}
          /\ PPl(u).at = "p" /\ VPl(u).at = "v"
      BY PlacesAt
    <3>3. PPl(u) \notin W /\ VPl(u) \notin W BY <1>8, <3>2
    <3> QED BY <1>4, <1>6, <3>1, <3>2, <3>3
  <2>2. \A x \in B : MayBeAt(dest[x], hdr'[x].sz)
    <3>1. MayBeAt(dest[p], hdr'[p].sz) BY <1>12, MayBe
    <3>2. \A x \in E : MayBeAt(dest[x], hdr'[x].sz) BY <1>1, <1>12, MayBe
    <3> QED BY <1>12, <3>1, <3>2
  <2>3. \A x \in DOMAIN live' : x \in DOMAIN live \ A /\ live'[x] = live[x] BY <1>4
  <2>4. \A i \in BinIndices : BinPl(i) \in Q => Descends(bins'[i], hdr')
    <3> TAKE i \in BinIndices
    <3>1. \A x \in ToSet(bins'[i]) : hdr'[x].sz = hdr[x].sz
      <4>1. Binned \subseteq DOMAIN hdr BY HeapIs DEF OwnInv, HeapFacts
      <4> QED BY ONLY <1>1, <1>3, <1>7, <4>1
    <3>2. Fewer(bins'[i], bins[i], {out}) /\ Descends(bins[i], hdr) BY <1>7, Zenon
      DEF OwnInv, Ordered
    <3> QED BY ONLY <3>1, <3>2, FewerDescends
  <2>5. CallSound(op'[t], hdr') BY <1>1, <1>2, <1>6
  <2> QED BY ONLY <1>10, <1>15, <2>1, <2>2, <2>3, <2>4, <2>5 DEF Leaving
<1> QED BY ONLY OwnInv, t \in Threads, <1>14, <1>15, <1>16, LeavingKeeps

(* w are the headers after realloc has made p as large as it can be, from  *)
(* the chunks A that the call had at S or unlinks.                         *)
Regrown(t, w, A, p, out, S) ==
  /\ Freed(w, A, {p}, p) /\ w[p].sz <= HeapLimit /\ p \in Int
  /\ out \in A \cup {None} /\ A \cap Binned \subseteq {out}
  /\ Reach(t, A, S)
  /\ (hdr' = w /\ Binned' = Binned \ A /\ UNCHANGED <<top, system_mem>> => HeapStep)
  /\ \A nb \in HP!Sizes :
       HP!FreeTail(w, Binned \ A, p, nb) \/ HP!KeepTail(w, Binned \ A, p, nb) => HP!Next

RestTaking(t, w, A, p, nb, out, S, c) ==
  /\ Regrown(t, w, A, p, out, S)
  /\ nb \in Int /\ nb >= MINSIZE /\ nb <= w[p].sz
  /\ c \in Call_ /\ c.v = p /\ c.p = None /\ c.chain = <<>> /\ c.al > 0 /\ c.pad >= 0
  /\ c.pc = "done" /\ c.want = nb /\ c.fn = "realloc"
  /\ lock' \in Threads \cup {None} /\ tcache' = tcache
  /\ TooSmall(w[p].sz - nb) =>
       /\ hdr' = w /\ op' = [op EXCEPT ![t] = c]
       /\ bins' = [i \in BinIndices |-> Unlink(bins[i], out)] /\ unsorted' = Unlink(unsorted, out)
       /\ UNCHANGED <<top, system_mem, fastVars, binmap, last_remainder>>
  /\ ~TooSmall(w[p].sz - nb) => FreeLocked(t, CutAt(w, p, nb), p + nb, out, c)

(* Lemma: a merge that does not look backward is one that could not step   *)
(* back.                                                                   *)
LEMMA NoStepBack ==
  ASSUME NEW g, NEW e, g[e].pinuse
  PROVE  Merge(g, top, e, TRUE) = Merge(g, top, e, FALSE)
BY DEF Merge, Backward

(* Lemma: a resized chunk whose rest is freed.                             *)
LEMMA RestTaken ==
  ASSUME OwnInv, NEW t \in Threads, NEW w, NEW A, NEW p, NEW nb, NEW out, NEW S, NEW c,
         RestTaking(t, w, A, p, nb, out, S, c)
  PROVE  OwnInv' /\ HeapStep
<1> PICK s : s = w[p].sz OBVIOUS
<1> PICK g : g = CutAt(w, p, nb) OBVIOUS
<1> PICK e : e = p + nb OBVIOUS
<1> PICK m : m = Merge(g, top, e, FALSE) BY Zenon
<1>1. /\ Freed(w, A, {p}, p) /\ s <= HeapLimit /\ p \in Int
      /\ out \in A \cup {None} /\ A \cap Binned \subseteq {out}
      /\ Reach(t, A, S)
      /\ (hdr' = w /\ Binned' = Binned \ A /\ UNCHANGED <<top, system_mem>> => HeapStep)
      /\ \A x \in HP!Sizes :
           HP!FreeTail(w, Binned \ A, p, x) \/ HP!KeepTail(w, Binned \ A, p, x) => HP!Next
  BY Zenon DEF RestTaking, Regrown
<1>2. /\ nb \in Int /\ nb >= MINSIZE /\ nb <= s
      /\ c \in Call_ /\ c.v = p /\ c.p = None /\ c.chain = <<>> /\ c.al > 0 /\ c.pad >= 0
      /\ c.pc = "done" /\ c.want = nb /\ c.fn = "realloc"
      /\ lock' \in Threads \cup {None} /\ tcache' = tcache
      /\ TooSmall(s - nb) =>
           /\ hdr' = w /\ op' = [op EXCEPT ![t] = c]
           /\ bins' = [i \in BinIndices |-> Unlink(bins[i], out)]
           /\ unsorted' = Unlink(unsorted, out)
           /\ UNCHANGED <<top, system_mem, fastVars, binmap, last_remainder>>
      /\ ~TooSmall(s - nb) => FreeLocked(t, g, e, out, c)
  BY DEF RestTaking
<1>3. s \in Nat /\ p # None
  <2>1. HP!Good(w, top, Binned \ A) /\ DOMAIN w = (DOMAIN hdr \ A) \cup {p} BY <1>1 DEF Freed
  <2>2. w \in [DOMAIN w -> Header]
    BY <2>1, Zenon DEF HP!Good, HP!Laid, HP!Header, Header
  <2> QED BY <1>1, <2>1, <2>2, NoneAssumption DEF Header
<1>4. have_fastchunks \in BOOLEAN BY DEF OwnInv, Shaped
<1>5. CASE TooSmall(s - nb)
  <2>1. /\ hdr' = w /\ op' = [op EXCEPT ![t] = c]
        /\ bins' = [i \in BinIndices |-> Unlink(bins[i], out)] /\ unsorted' = Unlink(unsorted, out)
        /\ UNCHANGED <<top, system_mem, fastVars, binmap, last_remainder>>
    BY <1>2, <1>5
  <2>2. CallSound(c, w)
    <3>1. s < nb + 2
      <4>1. s - nb < 2 BY <1>5 DEF TooSmall, MINSIZE
      <4> QED BY ONLY <1>2, <1>3, <4>1
    <3>2. Within(w[p].sz, nb) BY <1>2, <3>1 DEF Within, MINSIZE
    <3>3. Brings(c, w) BY <1>2, <3>2 DEF Brings
    <3> QED BY <1>2, <3>3, DoneSound
  <2>3. Resting(t, w, A, p, None, out, S, c)
    <3>1. {p} \cup ({None} \ {None}) = {p} OBVIOUS
    <3>2. fastbins' = fastbins /\ have_fastchunks' \in BOOLEAN BY <1>4, <2>1 DEF fastVars
    <3> QED BY ONLY <1>1, <1>2, <1>3, <2>1, <2>2, <3>1, <3>2, Zenon DEF Resting
  <2> QED BY ONLY OwnInv, t \in Threads, <2>3, RestKeeps
<1>6. CASE ~TooSmall(s - nb)
  <2>1. FreeLocked(t, g, e, out, c) BY <1>2, <1>6
  <2>2. s - nb >= 2 /\ nb \in Nat /\ nb > 0 /\ nb < s /\ s - nb > 0 /\ nb <= HeapLimit
    <3>1. ~(s - nb < 2) /\ nb >= 2 /\ HeapLimit \in Nat
      BY <1>2, <1>6, ArenaAssumption DEF TooSmall, MINSIZE
    <3> QED BY ONLY <1>1, <1>2, <1>3, <3>1
  <2>3. TailFreed(w, A, p, nb, g, e, m)
    <3>1. /\ nb \in Int /\ nb >= MINSIZE /\ w[p].sz - nb > 0 /\ w[p].sz <= HeapLimit
          /\ ~TooSmall(w[p].sz - nb) \/ Next_(w, p) = top \/ ~InUseAfter(w, Next_(w, p))
      BY <1>1, <1>2, <1>6, <2>2
    <3>2. TailFreed(w, A, p, nb, CutAt(w, p, nb), p + nb, Merge(CutAt(w, p, nb), top, p + nb, FALSE))
      BY ONLY OwnInv, <1>1, <3>1, TailFrees, Zenon
    <3> QED BY ONLY <3>2, g = CutAt(w, p, nb), e = p + nb, m = Merge(g, top, e, FALSE),
      Zenon
  <2>4. /\ Freed(g, A, {p, e}, p) /\ Freed(g, A, {e, p}, e) /\ g[p].sz = nb /\ g[e].sz = s - nb
        /\ g[e].pinuse /\ e # p /\ e # None /\ e \in Int
        /\ (m.atTop \/ m.sz >= MINSIZE) /\ nb \in HP!Sizes
        /\ (HP!Release(g, Binned \ A, e, FALSE) => HP!FreeTail(w, Binned \ A, p, nb))
    <3>1. {e, p} = {p, e} OBVIOUS
    <3> QED BY <2>3, <3>1, Zenon DEF TailFreed, CutInTwo
  <2>5. Within(g[p].sz, nb) BY <1>2, <2>4 DEF Within, MINSIZE
  <2>6. Brings(c, g) BY <1>2, <2>5 DEF Brings
  <2>7. CASE g[e].sz <= MaxFast
    <3>1. /\ have_fastchunks' = TRUE /\ fastbins' = [fastbins EXCEPT ![g[e].sz] = <<e>> \o @]
          /\ op' = [op EXCEPT ![t] = c] /\ hdr' = g
          /\ bins' = [i \in BinIndices |-> Unlink(bins[i], out)]
          /\ unsorted' = Unlink(unsorted, out)
          /\ UNCHANGED <<top, system_mem, binmap, last_remainder>>
      BY <2>1, <2>7 DEF FreeLocked
    <3>2. g[e].sz \in FastSizes
      <4>1. s - nb \in Int /\ s - nb >= 2 /\ s - nb <= MaxFast BY <1>2, <1>3, <2>2, <2>4, <2>7
      <4> QED BY <2>4, <4>1, ArenaAssumption DEF FastSizes, MINSIZE
    <3>3. CallSound(c, g) BY <1>2, <2>6, DoneSound
    <3>4. Binned' = Binned \ A => HeapStep
      <4>1. nb >= HP!MINSIZE /\ ~HP!TooSmall(w[p].sz - nb) /\ HP!CutAt(w, p, nb) = g
        BY <1>2, <1>6, SameSmall, SameShape
      <4>2. Binned' = Binned \ A => HP!KeepTail(w, Binned \ A, p, nb)
        BY ONLY <3>1, <4>1, Zenon DEF HP!KeepTail
      <4> QED BY <1>1, <2>4, <4>2 DEF HeapStep
    <3>5. Resting(t, g, A, p, e, out, S, c)
      <4>1. {p} \cup ({e} \ {None}) = {p, e} BY <2>4
      <4>2. have_fastchunks' \in BOOLEAN BY <3>1
      <4> QED BY ONLY <1>1, <1>2, <2>4, <3>1, <3>2, <3>3, <3>4, <4>1, <4>2, Zenon
        DEF Resting
    <3> QED BY ONLY OwnInv, t \in Threads, <3>5, RestKeeps
  <2>8. CASE ~(g[e].sz <= MaxFast)
    <3>1. Merge(g, top, e, TRUE) = m BY <2>4, NoStepBack, Zenon
    <3>2. /\ FreeMerged(g, m, out) /\ UNCHANGED fastVars
          /\ op' = [op EXCEPT ![t] = MaybeConsolidate(c, m.sz, "done")]
      BY <1>2, <2>1, <2>8, <3>1, Zenon DEF FreeLocked
    <3>3. HP!Release(g, Binned \ A, e, FALSE) => HP!Next BY <1>1, <2>4
    <3>4. HandMerging(t, g, A, e, p, FALSE, m, out, S, c, "done")
      <4>1. FALSE \in BOOLEAN /\ (FALSE \/ g[e].pinuse) BY <2>4
      <4>2. "done" \in {"done", "aligned"} /\ ("done" = "aligned" => AtPlace(c, g)) OBVIOUS
      <4>3. UNCHANGED <<fastVars, tcache>> BY <1>2, <3>2
      <4> QED BY ONLY m = Merge(g, top, e, FALSE), <1>1, <1>2, <2>4, <2>6, <3>2, <3>3,
        <4>1, <4>2, <4>3, Zenon
              DEF HandMerging
    <3> QED BY ONLY OwnInv, t \in Threads, <3>4, HandMerged, Zenon
  <2> QED BY <2>7, <2>8
<1> QED BY <1>5, <1>6

(* Lemma: a held chunk as it is, for a realloc that makes it smaller.      *)
WholeAs(p) ==
  /\ SetInuse(hdr, p) = hdr /\ Freed(hdr, {p}, {p}, p) /\ {p} \cap Binned = {}
  /\ hdr[p].sz <= HeapLimit
  /\ (hdr' = hdr /\ Binned' = Binned \ {p} /\ UNCHANGED <<top, system_mem>> => HeapStep)
  /\ \A nb \in HP!Sizes :
       HP!FreeTail(hdr, Binned \ {p}, p, nb) \/ HP!KeepTail(hdr, Binned \ {p}, p, nb) => HP!Next

(* Lemma: a chunk outside the bins is in use for the heap.                 *)
LEMMA WholeIs ==
  ASSUME OwnInv, NEW pl \in Places, pl \notin BinPlaces \cup {TopPl}, NEW p \in ChunksAt(pl)
  PROVE  WholeAs(p)
<1> PICK n : n = Next_(hdr, p) OBVIOUS
<1> PICK g : g = SetInuse(hdr, p) OBVIOUS
<1>1. /\ p \in DOMAIN hdr \ {top} /\ p \notin Binned /\ p \in HP!Held
      /\ HP!Good(hdr, top, Binned)
  BY HeldGood
<1>2. Freed(hdr, {p}, {p}, p) /\ {p} \cap Binned = {} BY FreedSelf, Zenon
<1>3. hdr \in [DOMAIN hdr -> Header] /\ n \in DOMAIN hdr /\ hdr[n].pinuse
  BY <1>1, HeapIs DEF OwnInv, HeapFacts
<1>4. hdr[n].psz = 0 BY <1>1, <1>3, Zenon DEF HP!Good, HP!Tagged
<1>5. g = [hdr EXCEPT ![n] = [[hdr[n] EXCEPT !.pinuse = TRUE] EXCEPT !.psz = 0]]
  BY <1>3, Zenon DEF SetInuse
<1>6. [[hdr[n] EXCEPT !.pinuse = TRUE] EXCEPT !.psz = 0] = hdr[n]
  <2> PICK r : r = hdr[n] OBVIOUS
  <2>1. r \in Header /\ r.pinuse = TRUE /\ r.psz = 0 BY <1>3, <1>4 DEF Header
  <2>2. [[r EXCEPT !.pinuse = TRUE] EXCEPT !.psz = 0] = r BY ONLY <2>1, Zenon DEF Header
  <2> QED BY <2>2
<1>7. g = hdr
  <2>1. g = [hdr EXCEPT ![n] = hdr[n]] BY <1>5, <1>6, Zenon
  <2> QED BY ONLY <1>3, <2>1
<1>8. Binned \ {p} = Binned BY <1>1
<1>9. hdr[p].sz <= HeapLimit BY <1>1, ChunkBounds
<1>10. \A nb \in HP!Sizes :
         HP!FreeTail(hdr, Binned \ {p}, p, nb) \/ HP!KeepTail(hdr, Binned \ {p}, p, nb) => HP!Next
  <2>1. \A nb \in HP!Sizes :
          HP!FreeTail(hdr, Binned, p, nb) \/ HP!KeepTail(hdr, Binned, p, nb) => HP!Next
    BY <1>1, Zenon DEF HP!Next, HP!OnHeld
  <2> QED BY ONLY <1>8, <2>1
<1>11. hdr' = hdr /\ Binned' = Binned \ {p} /\ UNCHANGED <<top, system_mem>> => HeapStep
  BY <1>8 DEF HeapStep
<1> QED BY ONLY <1>2, <1>7, <1>9, <1>10, <1>11, g = SetInuse(hdr, p), Zenon DEF WholeAs

(* Lemma: the headers when the chunk after p joins it.                     *)
AbsorbedAs(p, n, k) ==
  /\ p \in Nat /\ hdr[p].sz \in Nat /\ n = p + hdr[p].sz /\ n \in DOMAIN hdr /\ n > p
  /\ hdr[n].sz \in Nat /\ hdr[p].sz + hdr[n].sz <= HeapLimit
  /\ DOMAIN k = DOMAIN hdr \ {n} /\ p \in DOMAIN k /\ k[p].sz = hdr[p].sz + hdr[n].sz
  /\ k \in [DOMAIN k -> Header]
  /\ \A a \in DOMAIN hdr \ {n, p} : k[a] = hdr[a]

(* Lemma: what absorbing the next chunk does to the headers.               *)
LEMMA AbsorbIs ==
  ASSUME OwnInv, NEW p \in DOMAIN hdr \ {top}
  PROVE  AbsorbedAs(p, Next_(hdr, p), Absorb(hdr, p))
<1> PICK n : n = Next_(hdr, p) OBVIOUS
<1> PICK k : k = Absorb(hdr, p) OBVIOUS
<1>2. /\ hdr \in [DOMAIN hdr -> Header] /\ n \in DOMAIN hdr /\ hdr[p].sz >= MINSIZE
  BY HeapIs DEF OwnInv, HeapFacts
<1>3. /\ p \in Nat /\ hdr[p].sz \in Nat /\ n = p + hdr[p].sz /\ n \in Nat
      /\ hdr[n].sz \in Nat /\ n + hdr[n].sz <= system_mem /\ system_mem <= HeapLimit
      /\ system_mem \in Nat /\ HeapLimit \in Nat
  <2>1. p \in Nat /\ hdr[p].sz \in Nat BY ChunkBounds
  <2>2. /\ n \in Nat /\ hdr[n].sz \in Nat /\ n + hdr[n].sz <= system_mem
        /\ system_mem <= HeapLimit /\ system_mem \in Nat /\ HeapLimit \in Nat
    BY <1>2, ChunkBounds
  <2> QED BY <2>1, <2>2 DEF Next_
<1>4. n # p /\ n > p /\ hdr[p].sz + hdr[n].sz <= HeapLimit
  <2> PICK y : y = hdr[p].sz OBVIOUS
  <2> PICK z : z = hdr[n].sz OBVIOUS
  <2>1. /\ p \in Nat /\ y \in Nat /\ y >= 2 /\ z \in Nat /\ n = p + y /\ n + z <= system_mem
        /\ system_mem <= HeapLimit /\ system_mem \in Nat /\ HeapLimit \in Nat
    BY <1>2, <1>3 DEF MINSIZE
  <2>2. n # p /\ n > p /\ y + z <= HeapLimit BY ONLY <2>1
  <2> QED BY <2>2
<1>5. /\ DOMAIN k = DOMAIN hdr \ {n} /\ p \in DOMAIN k /\ k[p].sz = hdr[p].sz + hdr[n].sz
      /\ k[p] \in Header
      /\ \A a \in DOMAIN hdr \ {n, p} : k[a] = hdr[a]
  <2>1. k = [a \in DOMAIN hdr \ {n} |->
               IF a = p THEN [hdr[p] EXCEPT !.sz = hdr[p].sz + hdr[n].sz] ELSE hdr[a]]
    BY DEF Absorb
  <2>2. hdr[p] \in Header /\ hdr[p].sz + hdr[n].sz \in Nat BY <1>2, <1>3
  <2>3. k[p] = [hdr[p] EXCEPT !.sz = hdr[p].sz + hdr[n].sz] BY <1>4, <2>1
  <2>4. k[p] \in Header /\ k[p].sz = hdr[p].sz + hdr[n].sz BY ONLY <2>2, <2>3 DEF Header
  <2> QED BY <1>4, <2>1, <2>4
<1>6. k \in [DOMAIN k -> Header]
  <2>1. \A a \in DOMAIN k : k[a] \in Header BY ONLY <1>2, <1>5
  <2>2. k = [a \in DOMAIN k |-> k[a]] BY DEF Absorb
  <2> QED BY ONLY <2>1, <2>2
<1>7. AbsorbedAs(p, n, k) BY ONLY <1>2, <1>3, <1>4, <1>5, <1>6 DEF AbsorbedAs
<1> QED BY ONLY <1>7, n = Next_(hdr, p), k = Absorb(hdr, p)

(* Lemma: a held chunk joined with the one after it, which is not top.     *)
JoinedAs(p, n, k, w) ==
  /\ Freed(w, {p, n}, {p}, p)
  /\ k \in [DOMAIN k -> Header] /\ p \in DOMAIN k /\ k[p].sz = hdr[p].sz + hdr[n].sz
  /\ w[p].sz = hdr[p].sz + hdr[n].sz /\ w[p].sz <= HeapLimit
  /\ (hdr' = w /\ Binned' = Binned \ {p, n} /\ UNCHANGED <<top, system_mem>> => HeapStep)
  /\ \A nb \in HP!Sizes :
       HP!FreeTail(w, Binned \ {p, n}, p, nb) \/ HP!KeepTail(w, Binned \ {p, n}, p, nb) => HP!Next

(* Lemma: a chunk joined with the free one after it.                       *)
LEMMA JoinedIs ==
  ASSUME OwnInv, NEW pl \in Places, pl \notin BinPlaces \cup {TopPl}, NEW p \in ChunksAt(pl),
         Next_(hdr, p) # top
  PROVE  JoinedAs(p, Next_(hdr, p), Absorb(hdr, p), SetInuse(Absorb(hdr, p), p))
<1> PICK n : n = Next_(hdr, p) OBVIOUS
<1> PICK k : k = Absorb(hdr, p) OBVIOUS
<1> PICK w : w = SetInuse(k, p) OBVIOUS
<1>0. HeapLimit \in Nat /\ None \notin Int BY ArenaAssumption, NoneAssumption
<1>1. /\ p \in DOMAIN hdr \ {top} /\ p \notin Binned /\ p \in HP!Held
      /\ HP!Good(hdr, top, Binned)
  BY HeldGood
<1>4. AbsorbedAs(p, n, k) BY <1>1, AbsorbIs
<1>5. /\ DOMAIN k = DOMAIN hdr \ {n} /\ p \in DOMAIN k /\ k[p].sz = hdr[p].sz + hdr[n].sz
      /\ k \in [DOMAIN k -> Header]
      /\ \A a \in DOMAIN hdr \ {n, p} : k[a] = hdr[a]
      /\ n \in DOMAIN hdr /\ hdr[p].sz + hdr[n].sz <= HeapLimit
  BY <1>4 DEF AbsorbedAs
<1>2. n # top /\ n # p BY <1>5
<1>6. k \in [DOMAIN k -> Header] BY <1>5
<1>7. HP!Good(w, top, Binned \ {n}) /\ DOMAIN w = DOMAIN hdr \ {n}
  <2> PICK tp : tp = top OBVIOUS
  <2> PICK F : F = Binned OBVIOUS
  <2>1. w = HP!SetInuse(HP!Absorb(hdr, p), p) BY SameShape
  <2>2. HP!Good(hdr, tp, F) /\ p \in DOMAIN hdr \ {tp} /\ p \notin F /\ n # tp BY <1>1, <1>2
  <2>3. n = HP!Next_(hdr, p) BY SameSmall
  <2>4. HP!JoinedWith(hdr, tp, F, n, w) BY ONLY <1>0, <2>1, <2>2, <2>3, HP!JoinGood, Zenon
  <2> QED BY <2>4, Zenon DEF HP!JoinedWith
<1>8. \A a \in DOMAIN k : w[a].sz = k[a].sz
  <2>1. w = [k EXCEPT ![Next_(k, p)].pinuse = TRUE, ![Next_(k, p)].psz = 0] BY DEF SetInuse
  <2> PICK x : x = Next_(k, p) OBVIOUS
  <2>2. w = [[k EXCEPT ![x].pinuse = TRUE] EXCEPT ![x].psz = 0] BY <2>1
  <2> QED BY ONLY <1>6, <2>2 DEF Header
<1>9. /\ w[p].sz = hdr[p].sz + hdr[n].sz
      /\ \A a \in DOMAIN hdr \ {n, p} : w[a].sz = hdr[a].sz
  BY <1>5, <1>8
<1>10. w[p].sz <= HeapLimit BY <1>5, <1>9
<1>11. Binned \ {p, n} = Binned \ {n} BY <1>1
<1>12. Freed(w, {p, n}, {p}, p)
  <2>1. HP!Good(w, top, Binned \ {p, n}) BY <1>7, <1>11
  <2>2. {p, n} \subseteq DOMAIN hdr \ {top} BY <1>1, <1>2, <1>5
  <2>3. DOMAIN w = (DOMAIN hdr \ {p, n}) \cup {p} BY <1>1, <1>2, <1>7
  <2> QED BY <1>9, <2>1, <2>2, <2>3 DEF Freed
<1>13. /\ HP!Joined(p) = w /\ HP!Rest(p) = Binned \ {p, n} /\ HP!Next_(hdr, p) # top
  <2>1. HP!Joined(p) = HP!SetInuse(HP!Absorb(hdr, p), p) BY Zenon DEF HP!Joined
  <2>2. HP!Rest(p) = Binned \ {HP!Next_(hdr, p)} BY Zenon DEF HP!Rest
  <2>3. HP!Next_(hdr, p) = n BY SameSmall
  <2>4. HP!SetInuse(HP!Absorb(hdr, p), p) = w BY SameShape
  <2> QED BY <1>2, <1>11, <2>1, <2>2, <2>3, <2>4
<1>14. hdr' = w /\ Binned' = Binned \ {p, n} /\ UNCHANGED <<top, system_mem>> => HeapStep
  <2>1. hdr' = w /\ Binned' = Binned \ {p, n} /\ UNCHANGED <<top, system_mem>> => HP!Join(p)
    BY ONLY <1>13, Zenon DEF HP!Join
  <2>2. HP!Join(p) => HP!Next BY <1>1, Zenon DEF HP!Next, HP!OnHeld
  <2> QED BY <2>1, <2>2 DEF HeapStep
<1>15. \A nb \in HP!Sizes :
         HP!FreeTail(w, Binned \ {p, n}, p, nb) \/ HP!KeepTail(w, Binned \ {p, n}, p, nb) => HP!Next
  <2> TAKE nb \in HP!Sizes
  <2>1. HP!FreeTail(w, Binned \ {p, n}, p, nb) => HP!JoinFreeTail(p, nb)
    BY ONLY <1>13, Zenon DEF HP!JoinFreeTail
  <2>2. HP!KeepTail(w, Binned \ {p, n}, p, nb) => HP!JoinKeepTail(p, nb)
    BY ONLY <1>13, Zenon DEF HP!JoinKeepTail
  <2>3. HP!JoinFreeTail(p, nb) \/ HP!JoinKeepTail(p, nb) => HP!Next
    BY <1>1, Zenon DEF HP!Next, HP!OnHeld
  <2> QED BY <2>1, <2>2, <2>3
<1>16. JoinedAs(p, n, k, w)
  BY ONLY <1>5, <1>6, <1>9, <1>10, <1>12, <1>14, <1>15, Zenon DEF JoinedAs
<1> QED BY ONLY <1>16, n = Next_(hdr, p), k = Absorb(hdr, p), w = SetInuse(k, p)

(* ReallocRest, of a call that gives up A at S.                            *)
RestOf(t, h, p, size, nb, out, A, S) ==
  /\ ReallocRest(t, h, p, size, nb, out)
  /\ h \in [DOMAIN h -> Header] /\ p \in DOMAIN h /\ h[p].sz = size
  /\ SetInuse(h, p)[p].sz = size /\ Regrown(t, SetInuse(h, p), A, p, out, S)
  /\ nb \in Int /\ nb >= MINSIZE /\ nb <= size
  /\ op[t].al > 0 /\ op[t].pad >= 0 /\ op[t].chain = <<>>
  /\ lock' \in Threads \cup {None} /\ tcache' = tcache

(* Lemma: _int_realloc's cut of what it does not need.                     *)
LEMMA OwnRest ==
  ASSUME OwnInv, NEW t \in Threads, NEW h, NEW p, NEW size, NEW nb, NEW out, NEW A, NEW S,
         RestOf(t, h, p, size, nb, out, A, S)
  PROVE  OwnInv' /\ HeapStep
<1> PICK w : w = SetInuse(h, p) OBVIOUS
<1> PICK c : c = [op[t] EXCEPT !.fn = "realloc", !.pc = "done", !.want = nb, !.p = None,
                               !.old = 0, !.v = p, !.nb = 0] OBVIOUS
<1>1. /\ ReallocRest(t, h, p, size, nb, out)
      /\ h \in [DOMAIN h -> Header] /\ p \in DOMAIN h /\ h[p].sz = size
      /\ w[p].sz = size /\ Regrown(t, w, A, p, out, S)
      /\ nb \in Int /\ nb >= MINSIZE /\ nb <= size
      /\ op[t].al > 0 /\ op[t].pad >= 0 /\ op[t].chain = <<>>
      /\ lock' \in Threads \cup {None} /\ tcache' = tcache
  BY DEF RestOf
<1>2. [h EXCEPT ![p].sz = size] = h
  <2> PICK r : r = h[p] OBVIOUS
  <2>1. r \in Header /\ r.sz = size BY <1>1
  <2>2. [r EXCEPT !.sz = size] = r BY ONLY <2>1 DEF Header
  <2>3. [h EXCEPT ![p].sz = size] = [h EXCEPT ![p] = [r EXCEPT !.sz = size]] OBVIOUS
  <2>4. [h EXCEPT ![p].sz = size] = [h EXCEPT ![p] = h[p]] BY <2>2, <2>3, Zenon
  <2> QED BY ONLY <1>1, <2>4
<1>3. op[t] \in Call_ /\ p \in Int \cup {None} BY <1>1 DEF OwnInv, Shaped, Regrown
<1>4. c \in Call_
  <2> DEFINE d1 == [op[t] EXCEPT !.fn = "realloc"]
             d2 == [d1 EXCEPT !.pc = "done"]
             d3 == [d2 EXCEPT !.want = nb]
             d4 == [d3 EXCEPT !.p = None]
             d5 == [d4 EXCEPT !.old = 0]
             d6 == [d5 EXCEPT !.v = p]
  <2>1. d1 \in Call_ BY <1>3, CallWith, Zenon
  <2> HIDE DEF d1
  <2>2. d2 \in Call_ BY <2>1, CallWith, Zenon DEF LockedPCs
  <2> HIDE DEF d2
  <2>3. d3 \in Call_ BY <1>1, <2>2, CallWith, Zenon
  <2> HIDE DEF d3
  <2>4. d4 \in Call_ BY <2>3, None \in Int \cup {None}, CallWith, Zenon
  <2> HIDE DEF d4
  <2>5. d5 \in Call_ BY <2>4, 0 \in Int, CallWith, Zenon
  <2> HIDE DEF d5
  <2>6. d6 \in Call_ BY <1>3, <2>5, CallWith, Zenon
  <2> HIDE DEF d6
  <2>7. [d6 EXCEPT !.nb = 0] \in Call_ BY <2>6, 0 \in Int, CallWith, Zenon
  <2> QED BY <2>7 DEF d1, d2, d3, d4, d5, d6
<1>5. /\ c.v = p /\ c.p = None /\ c.chain = <<>> /\ c.al > 0 /\ c.pad >= 0
      /\ c.pc = "done" /\ c.want = nb /\ c.fn = "realloc"
  <2>1. c = [op[t] EXCEPT !.fn = "realloc", !.pc = "done", !.want = nb, !.p = None,
                          !.old = 0, !.v = p, !.nb = 0]
    OBVIOUS
  <2>2. op[t].al > 0 /\ op[t].pad >= 0 /\ op[t].chain = <<>> BY <1>1
  <2> QED BY ONLY <1>3, <2>1, <2>2 DEF Call_
<1>6. /\ TooSmall(size - nb) =>
           /\ hdr' = w /\ op' = [op EXCEPT ![t] = c]
           /\ bins' = [i \in BinIndices |-> Unlink(bins[i], out)] /\ unsorted' = Unlink(unsorted, out)
           /\ UNCHANGED <<top, system_mem, fastVars, binmap, last_remainder>>
      /\ ~TooSmall(size - nb) => FreeLocked(t, CutAt(w, p, nb), p + nb, out, c)
  BY <1>1, <1>2, Zenon DEF ReallocRest
<1>7. RestTaking(t, w, A, p, nb, out, S, c)
  BY ONLY <1>1, <1>4, <1>5, <1>6 DEF RestTaking
<1> QED BY ONLY OwnInv, t \in Threads, <1>7, RestTaken

(* Lemma: _int_malloc gave realloc the chunk after its own.                *)
LEMMA OwnReallocJoined ==
  ASSUME OwnInv, NEW t \in Threads, ReallocGot(t), op[t].v # None, op[t].v = Next_(hdr, op[t].p)
  PROVE  OwnInv' /\ HeapStep
<1> PICK p : p = op[t].p OBVIOUS
<1> PICK v : v = op[t].v OBVIOUS
<1> PICK nb : nb = op[t].want OBVIOUS
<1> PICK k : k = Absorb(hdr, p) OBVIOUS
<1> PICK size : size = hdr[p].sz + hdr[v].sz OBVIOUS
<1> PICK S : S = {PPl(t), VPl(t)} BY Zenon
<1>1. op[t] \in Call_ /\ CallSound(op[t], hdr) BY DEF OwnInv, Shaped, CallsInv
<1>2. /\ op[t].pc = "got" /\ op[t].fn = "realloc" /\ ReallocRest(t, k, p, size, nb, None)
      /\ UNCHANGED <<lock, tcache, live>>
  BY DEF ReallocGot, Holds
<1>3. /\ p # None /\ op[t].chain = <<>> /\ op[t].al > 0 /\ op[t].pad >= 0
      /\ Within(hdr[v].sz, nb) /\ nb >= MINSIZE /\ nb \in Int
  <2>1. InSearch(op[t]) BY <1>2 DEF InSearch
  <2>2. Searches(op[t], hdr) BY <1>1, <2>1 DEF CallSound
  <2>3. nb \in Int BY <1>1 DEF Call_
  <2> QED BY <1>1, <1>2, <2>2, <2>3 DEF Searches, CallSound
<1>4. /\ PPl(t) \in Places /\ PPl(t) \notin BinPlaces \cup {TopPl} /\ p \in ChunksAt(PPl(t))
      /\ VPl(t) \in Places /\ VPl(t) \notin BinPlaces \cup {TopPl} /\ v \in ChunksAt(VPl(t))
      /\ LivePl \in Places /\ LivePl # PPl(t) /\ LivePl # VPl(t)
  BY <1>3, PlacesAre, PlacesAt, BinPlacesAre, ChunksAre
<1>5. /\ v \in DOMAIN hdr \ {top} /\ v \notin Binned /\ hdr[v].sz \in Nat
      /\ p \in DOMAIN hdr \ {top} /\ p \notin Binned /\ hdr[p].sz \in Nat /\ p \in Int
  BY <1>4, HeldGood
<1>6. JoinedAs(p, v, k, SetInuse(k, p))
  <2>1. Next_(hdr, p) # top BY <1>5
  <2>2. JoinedAs(p, Next_(hdr, p), Absorb(hdr, p), SetInuse(Absorb(hdr, p), p))
    BY ONLY OwnInv, <1>4, <2>1, JoinedIs
  <2>3. v = Next_(hdr, p) OBVIOUS
  <2> QED BY ONLY <2>2, <2>3, k = Absorb(hdr, p)
<1>7. Reach(t, {p, v}, S)
  <2>1. p \notin DOMAIN live /\ v \notin DOMAIN live BY <1>4, ChunksAre DEF OwnInv, Owned
  <2>2. DOMAIN live' = DOMAIN live \ {p, v} /\ live' \in [DOMAIN live' -> Int] /\ live' = live
    BY <1>2, <2>1, Zenon DEF OwnInv, Shaped
  <2>3. \A x \in {p, v} : \E pl \in BinPlaces \cup S : x \in ChunksAt(pl) BY <1>4
  <2> QED BY <1>3, <2>2, <2>3 DEF Reach
<1>8. Regrown(t, SetInuse(k, p), {p, v}, p, None, S)
  <2>1. None \in {p, v} \cup {None} /\ {p, v} \cap Binned \subseteq {None} BY <1>5
  <2> QED BY ONLY <1>5, <1>6, <1>7, <2>1, Zenon DEF Regrown, JoinedAs
<1>9. RestOf(t, k, p, size, nb, None, {p, v}, S)
  <2>1. nb <= size
    <3>1. nb <= hdr[v].sz BY <1>3 DEF Within
    <3> QED BY <1>3, <1>5, <3>1
  <2>2. lock' \in Threads \cup {None} /\ tcache' = tcache BY <1>2 DEF OwnInv, Shaped
  <2>3. k \in [DOMAIN k -> Header] /\ p \in DOMAIN k /\ k[p].sz = size /\ SetInuse(k, p)[p].sz = size
    BY <1>6 DEF JoinedAs
  <2> QED BY ONLY <1>2, <1>3, <1>8, <2>1, <2>2, <2>3 DEF RestOf
<1> QED BY ONLY OwnInv, t \in Threads, <1>9, OwnRest

(* Lemma: realloc takes the program's chunk, and with it a free one.       *)
LEMMA LiveReach ==
  ASSUME OwnInv, NEW t \in Threads, op[t] = Idle, NEW p \in DOMAIN live, TakesBack(p), NEW A,
         A \subseteq {p} \cup Binned, p \in A
  PROVE  Reach(t, A, {LivePl, VPl(t)}) /\ A \cap Binned = A \ {p}
<1>1. /\ LivePl \in Places /\ LivePl \notin BinPlaces \cup {TopPl} /\ BinPlaces \subseteq Places
      /\ p \in ChunksAt(LivePl) /\ ChunksAt(LivePl) = DOMAIN live
  BY PlacesAre, PlacesAt, BinPlacesAre, ChunksAre DEF BinPlaces
<1>2. Binned = UNION {ChunksAt(pl) : pl \in BinPlaces} BY BinnedIs DEF OwnInv, Shaped
<1>3. p \notin Binned BY <1>1, HeldGood
<1>4. DOMAIN live \cap Binned = {} BY <1>1, <1>2 DEF OwnInv, Owned
<1>5. /\ DOMAIN live' = DOMAIN live \ {p} /\ live' \in [DOMAIN live' -> Int]
      /\ \A x \in DOMAIN live' : live'[x] = live[x]
  BY LiveTakes, Zenon DEF OwnInv
<1>6. DOMAIN live' = DOMAIN live \ A BY <1>4, <1>5
<1>7. \A x \in A : \E pl \in BinPlaces \cup {LivePl, VPl(t)} : x \in ChunksAt(pl) BY <1>1, <1>2
<1>8. op[t].p = None /\ op[t].v = None /\ op[t].chain = <<>> BY IdleSound
<1>9. A \cap Binned = A \ {p} BY <1>3
<1> QED BY <1>5, <1>6, <1>7, <1>8, <1>9, Zenon DEF Reach

(* Lemma: realloc of a chunk that has the size asked for.                  *)
LEMMA OwnReallocSame ==
  ASSUME OwnInv, NEW t \in Threads, NEW p \in DOMAIN live, NEW nb \in Int, hdr[p].sz = nb,
         live' = [live EXCEPT ![p] = nb],
         UNCHANGED <<lock, heapVars, fastVars, binVars, op, tcache>>
  PROVE  OwnInv' /\ HeapStep
<1>1. /\ DOMAIN live' = DOMAIN live /\ live' \in [DOMAIN live' -> Int] /\ live'[p] = nb
      /\ \A x \in DOMAIN live \ {p} : live'[x] = live[x]
  BY DEF OwnInv, Shaped
<1>2. Shaped' BY <1>1 DEF OwnInv, Shaped, fastVars, binVars
<1>3. Only({}) BY <1>1 DEF Only, heapVars, fastVars, binVars
<1>4. CallSound(op'[t], hdr) BY DEF OwnInv, CallsInv
<1>5. \A x \in DOMAIN live' : \/ x \in DOMAIN live /\ live'[x] = live[x]
                              \/ Within(hdr[x].sz, live'[x])
  <2>1. Within(hdr[p].sz, live'[p]) BY <1>1 DEF Within, MINSIZE
  <2> QED BY <1>1, <2>1
<1>6. UNCHANGED <<heapVars, bins, unsorted>> /\ \A u \in Threads \ {t} : op'[u] = op[u]
  BY DEF binVars
<1> QED BY ONLY OwnInv, t \in Threads, <1>2, <1>3, <1>4, <1>5, <1>6, StayKeeps

(* Lemma: realloc of a chunk to a smaller size.                            *)
LEMMA OwnReallocShrinks ==
  ASSUME OwnInv, NEW t \in Threads, op[t] = Idle, NEW p \in DOMAIN live, NEW nb \in Int,
         nb >= MINSIZE, hdr[p].sz > nb, TakesBack(p), ReallocRest(t, hdr, p, hdr[p].sz, nb, None),
         lock' \in Threads \cup {None}, tcache' = tcache
  PROVE  OwnInv' /\ HeapStep
<1> PICK S : S = {LivePl, VPl(t)} BY Zenon
<1>1. LivePl \in Places /\ LivePl \notin BinPlaces \cup {TopPl} /\ p \in ChunksAt(LivePl)
  BY PlacesAre, PlacesAt, BinPlacesAre, ChunksAre
<1>2. p \in DOMAIN hdr \ {top} /\ p \in Int /\ hdr[p].sz \in Nat /\ p \notin Binned
  BY <1>1, HeldGood
<1>3. /\ SetInuse(hdr, p) = hdr /\ Freed(hdr, {p}, {p}, p) /\ {p} \cap Binned = {}
      /\ hdr[p].sz <= HeapLimit
      /\ (hdr' = hdr /\ Binned' = Binned \ {p} /\ UNCHANGED <<top, system_mem>> => HeapStep)
      /\ \A x \in HP!Sizes :
           HP!FreeTail(hdr, Binned \ {p}, p, x) \/ HP!KeepTail(hdr, Binned \ {p}, p, x) => HP!Next
  <2>1. WholeAs(p) BY ONLY OwnInv, <1>1, WholeIs
  <2> QED BY ONLY <2>1 DEF WholeAs
<1>4. Reach(t, {p}, S)
  <2>1. {p} \subseteq {p} \cup Binned /\ p \in {p} OBVIOUS
  <2> QED BY <2>1, LiveReach
<1>5. Regrown(t, hdr, {p}, p, None, S)
  <2>1. None \in {p} \cup {None} /\ {p} \cap Binned \subseteq {None} BY <1>3
  <2> QED BY ONLY <1>2, <1>3, <1>4, <2>1 DEF Regrown
<1>6. hdr \in [DOMAIN hdr -> Header] BY HeapIs DEF OwnInv, HeapFacts
<1>7. op[t].al > 0 /\ op[t].pad >= 0 /\ op[t].chain = <<>> BY DEF Idle
<1>8. RestOf(t, hdr, p, hdr[p].sz, nb, None, {p}, S)
  <2>1. nb <= hdr[p].sz BY <1>2
  <2>2. Regrown(t, SetInuse(hdr, p), {p}, p, None, S) BY <1>3, <1>5
  <2>3. SetInuse(hdr, p)[p].sz = hdr[p].sz BY <1>3
  <2>4. nb \in Int /\ nb >= MINSIZE /\ ReallocRest(t, hdr, p, hdr[p].sz, nb, None)
        /\ lock' \in Threads \cup {None} /\ tcache' = tcache
    OBVIOUS
  <2> QED BY ONLY <1>2, <1>6, <1>7, <2>1, <2>2, <2>3, <2>4 DEF RestOf
<1> QED BY ONLY OwnInv, t \in Threads, <1>8, OwnRest

(* Lemma: realloc of a chunk into the free one after it.                   *)
LEMMA OwnReallocGrows ==
  ASSUME OwnInv, NEW t \in Threads, op[t] = Idle, NEW p \in DOMAIN live, NEW nb \in Int,
         nb >= MINSIZE, TakesBack(p), NEW n, n = Next_(hdr, p), n # top, ~InUseAfter(hdr, n),
         hdr[p].sz + hdr[n].sz >= nb,
         ReallocRest(t, Absorb(hdr, p), p, hdr[p].sz + hdr[n].sz, nb, n),
         lock' \in Threads \cup {None}, tcache' = tcache
  PROVE  OwnInv' /\ HeapStep
<1> PICK S : S = {LivePl, VPl(t)} BY Zenon
<1> PICK k : k = Absorb(hdr, p) OBVIOUS
<1> PICK size : size = hdr[p].sz + hdr[n].sz OBVIOUS
<1>1. LivePl \in Places /\ LivePl \notin BinPlaces \cup {TopPl} /\ p \in ChunksAt(LivePl)
  BY PlacesAre, PlacesAt, BinPlacesAre, ChunksAre
<1>2. p \in DOMAIN hdr \ {top} /\ p \in Int /\ hdr[p].sz \in Nat /\ p \notin Binned
  BY <1>1, HeldGood
<1>3. n \in Binned /\ hdr[n].sz \in Nat
  <2>1. n \in DOMAIN hdr \ {top} BY <1>2, HeapIs DEF OwnInv, HeapFacts
  <2>2. hdr[Next_(hdr, n)].pinuse <=> n \notin Binned BY <2>1, HeapIs DEF OwnInv, HeapFacts
  <2>3. n \in Binned BY <2>2 DEF InUseAfter
  <2> QED BY <2>3, ListedSize
<1>4. /\ Freed(SetInuse(k, p), {p, n}, {p}, p)
      /\ k \in [DOMAIN k -> Header] /\ p \in DOMAIN k /\ k[p].sz = size
      /\ SetInuse(k, p)[p].sz = size /\ SetInuse(k, p)[p].sz <= HeapLimit
      /\ (hdr' = SetInuse(k, p) /\ Binned' = Binned \ {p, n} /\ UNCHANGED <<top, system_mem>>
            => HeapStep)
      /\ \A x \in HP!Sizes : HP!FreeTail(SetInuse(k, p), Binned \ {p, n}, p, x)
                             \/ HP!KeepTail(SetInuse(k, p), Binned \ {p, n}, p, x) => HP!Next
  <2>1. Next_(hdr, p) # top OBVIOUS
  <2>2. JoinedAs(p, Next_(hdr, p), Absorb(hdr, p), SetInuse(Absorb(hdr, p), p))
    BY ONLY OwnInv, <1>1, <2>1, JoinedIs
  <2>3. JoinedAs(p, n, k, SetInuse(k, p)) BY ONLY <2>2, n = Next_(hdr, p), k = Absorb(hdr, p)
  <2> QED BY ONLY <2>3, size = hdr[p].sz + hdr[n].sz, Zenon DEF JoinedAs
<1>5. Reach(t, {p, n}, S) /\ {p, n} \cap Binned = {p, n} \ {p}
  <2>1. {p, n} \subseteq {p} \cup Binned /\ p \in {p, n} BY <1>3
  <2> QED BY <2>1, LiveReach, Zenon
<1>6. Regrown(t, SetInuse(k, p), {p, n}, p, n, S)
  <2>1. n \in {p, n} \cup {None} /\ {p, n} \cap Binned \subseteq {n} BY <1>5
  <2> QED BY ONLY <1>2, <1>4, <1>5, <2>1, Zenon DEF Regrown
<1>7. op[t].al > 0 /\ op[t].pad >= 0 /\ op[t].chain = <<>> BY DEF Idle
<1>8. RestOf(t, k, p, size, nb, n, {p, n}, S)
  <2>1. nb <= size BY <1>2, <1>3
  <2>2. nb \in Int /\ nb >= MINSIZE /\ ReallocRest(t, k, p, size, nb, n)
        /\ lock' \in Threads \cup {None} /\ tcache' = tcache
    OBVIOUS
  <2> QED BY ONLY <1>4, <1>6, <1>7, <2>1, <2>2 DEF RestOf
<1> QED BY ONLY OwnInv, t \in Threads, <1>8, OwnRest

(* Lemma: realloc has to look for another chunk.                           *)
LEMMA OwnReallocMoves ==
  ASSUME OwnInv, NEW t \in Threads, op[t] = Idle, NEW p \in DOMAIN live, NEW nb \in Int,
         nb >= MINSIZE, hdr[p].sz < nb, TakesBack(p),
         op' = [op EXCEPT ![t] = [Idle EXCEPT !.fn = "realloc", !.pc = "int_malloc",
                                              !.want = nb, !.nb = nb, !.p = p, !.old = live[p]]],
         lock' \in Threads \cup {None}, UNCHANGED <<heapVars, fastVars, binVars, tcache>>
  PROVE  OwnInv' /\ HeapStep
<1> PICK o : o = live[p] OBVIOUS
<1> PICK d : d = [Idle EXCEPT !.fn = "realloc", !.pc = "int_malloc", !.want = nb, !.nb = nb,
                              !.p = p, !.old = o] OBVIOUS
<1>1. /\ LivePl \in Places /\ PPl(t) \in Places /\ LivePl # PPl(t) /\ LivePl.at = "live"
      /\ PPl(t).at = "p" /\ PPl(t).t = t
      /\ LivePl \notin BinPlaces \cup {TopPl} /\ PPl(t) \notin BinPlaces /\ p \in ChunksAt(LivePl)
  BY PlacesAre, PlacesAt, BinPlacesAre, ChunksAre
<1>2. p \in DOMAIN hdr \ {top} /\ p \in Int /\ p # None BY <1>1, HeldGood
<1>3. o \in Int /\ Within(hdr[p].sz, o) BY DEF OwnInv, Shaped, LiveFits, Within
<1>4. /\ d \in Call_
      /\ d.fn = "realloc" /\ d.pc = "int_malloc" /\ d.want = nb /\ d.nb = nb /\ d.p = p /\ d.old = o
      /\ d.v = None /\ d.chain = <<>> /\ d.al = 1 /\ d.pad = 0 /\ d.after = "idle" /\ d.k = "idle"
  <2> DEFINE e1 == [Idle EXCEPT !.fn = "realloc"]
             e2 == [e1 EXCEPT !.pc = "int_malloc"]
             e3 == [e2 EXCEPT !.want = nb]
             e4 == [e3 EXCEPT !.nb = nb]
             e5 == [e4 EXCEPT !.p = p]
  <2>1. e1 \in Call_ BY IdleSound, CallWith, Zenon
  <2> HIDE DEF e1
  <2>2. e2 \in Call_ BY <2>1, CallWith, Zenon DEF LockedPCs
  <2> HIDE DEF e2
  <2>3. e3 \in Call_ BY <2>2, CallWith, Zenon
  <2> HIDE DEF e3
  <2>4. e4 \in Call_ BY <2>3, CallWith, Zenon
  <2> HIDE DEF e4
  <2>5. e5 \in Call_ BY <1>2, <2>4, CallWith, Zenon
  <2> HIDE DEF e5
  <2>6. [e5 EXCEPT !.old = o] \in Call_ BY <1>3, <2>5, CallWith, Zenon
  <2>7. d \in Call_ BY <2>6 DEF e1, e2, e3, e4, e5
  <2>8. /\ d.fn = "realloc" /\ d.pc = "int_malloc" /\ d.want = nb /\ d.nb = nb /\ d.p = p
        /\ d.old = o /\ d.v = None /\ d.chain = <<>> /\ d.al = 1 /\ d.pad = 0 /\ d.after = "idle"
        /\ d.k = "idle"
    BY DEF Idle
  <2> QED BY <2>7, <2>8
<1>5. CallSound(d, hdr)
  <2>1. Searches(d, hdr) BY <1>2, <1>3, <1>4 DEF Searches, Outgrown
  <2>2. ~Comes(d, "done") /\ ~Comes(d, "aligned") BY <1>4 DEF Comes
  <2> QED BY <1>4, <2>1, <2>2 DEF CallSound
<1>6. op' = [op EXCEPT ![t] = d] OBVIOUS
<1>7. /\ DOMAIN live' = DOMAIN live \ {p} /\ live' \in [DOMAIN live' -> Int]
      /\ \A x \in DOMAIN live' : x # p /\ x \in DOMAIN live /\ live'[x] = live[x]
  BY LiveTakes, Zenon DEF OwnInv
<1>8. Shaped' BY <1>4, <1>6, <1>7, ShapedBy DEF OwnInv, Shaped, fastVars, binVars
<1>9. op[t].p = None /\ op[t].v = None /\ op[t].chain = <<>> BY IdleSound
<1>10. op'[t] = d BY <1>4, <1>6, CallSet, Zenon DEF OwnInv
<1>11. Leaves(LivePl, p) BY <1>7, LeavesAre
<1>12. Joins(PPl(t), p)
  <2>1. p # None /\ op[t].p = None /\ op'[t].p = p BY <1>2, <1>4, <1>9, <1>10, Zenon
  <2> QED BY ONLY <2>1, JoinsAre
<1>13. OnlyLists({LivePl, PPl(t)}) BY DEF OnlyLists, heapVars, fastVars, binVars
<1>14. UNCHANGED <<heapVars, bins>> BY DEF binVars
<1>15. MayBeAt(PPl(t), hdr[p].sz) BY MayBe
<1>16. \A x \in DOMAIN live' : \/ x # p /\ x \in DOMAIN live /\ live'[x] = live[x]
                               \/ x = p /\ Within(hdr[p].sz, live'[x])
  BY <1>7
<1> PICK from : from = LivePl OBVIOUS
<1> PICK to : to = PPl(t) OBVIOUS
<1>17. /\ d.p = op[t].p \/ PPl(t) \in {from, to}
       /\ d.v = op[t].v \/ VPl(t) \in {from, to}
       /\ d.chain = op[t].chain \/ ChainPl(t) \in {from, to}
  BY <1>4, <1>9
<1>18. /\ from \in Places /\ to \in Places /\ from # to
       /\ from \notin BinPlaces /\ to \notin BinPlaces /\ p \in ChunksAt(from)
       /\ from.at \in {"p", "v"} => from.t = t
       /\ to.at \in {"p", "v"} => to.t = t
  BY <1>1
<1>19. Leaves(from, p) /\ Joins(to, p) /\ OnlyLists({from, to}) /\ MayBeAt(to, hdr[p].sz)
  BY <1>11, <1>12, <1>13, <1>15
<1>20. d \in Call_ BY <1>4
<1> QED BY ONLY OwnInv, t \in Threads, <1>5, <1>6, <1>8, <1>14, <1>16, <1>17, <1>18, <1>19,
  <1>20,
                HandOver, Zenon

(* Lemma: the headers when the chunk before top takes what it needs of it. *)
TopTakenAs(p, nb, e) ==
  /\ e = p + nb /\ e \in Int /\ e # None /\ e # p /\ p \in Int /\ p # None /\ p # top
  /\ e \notin DOMAIN hdr /\ top \in DOMAIN hdr
  /\ DOMAIN hdr' = (DOMAIN hdr \ {p, top}) \cup {p, e} /\ hdr'[p].sz = nb
  /\ \A d \in DOMAIN hdr \ {p, top} : hdr'[d].sz = hdr[d].sz
  /\ nb \in HP!Sizes

(* Lemma: _int_realloc growing a chunk into the top.                       *)
LEMMA TopTaken ==
  ASSUME OwnInv, NEW p \in DOMAIN hdr \ {top}, Next_(hdr, p) = top, NEW nb \in Int,
         nb > hdr[p].sz, hdr[p].sz + hdr[top].sz >= nb + MINSIZE,
         hdr' = CutAt(Absorb(hdr, p), p, nb)
  PROVE  TopTakenAs(p, nb, p + nb)
<1> PICK e : e = p + nb OBVIOUS
<1> PICK n : n = top OBVIOUS
<1> PICK k : k = Absorb(hdr, p) OBVIOUS
<1> PICK y : y = hdr[p].sz OBVIOUS
<1> PICK z : z = hdr[n].sz OBVIOUS
<1>1. AbsorbedAs(p, n, k) BY AbsorbIs
<1>2. /\ p \in Nat /\ y \in Nat /\ n = p + y /\ n \in DOMAIN hdr /\ n > p
      /\ z \in Nat /\ y + z <= HeapLimit
      /\ DOMAIN k = DOMAIN hdr \ {n} /\ p \in DOMAIN k /\ k[p].sz = y + z
      /\ k \in [DOMAIN k -> Header]
      /\ \A a \in DOMAIN hdr \ {n, p} : k[a] = hdr[a]
  BY <1>1 DEF AbsorbedAs
<1>3. HeapLimit \in Nat /\ None \notin Int BY ArenaAssumption, NoneAssumption
<1>4. nb \in Int /\ nb > y /\ y + z >= nb + 2 BY DEF MINSIZE
<1>5. /\ nb \in Nat /\ nb > 0 /\ nb <= y + z /\ nb \in 1 .. HeapLimit /\ e \in Nat /\ e > n
      /\ e # p /\ e # n
  BY ONLY <1>2, <1>3, <1>4, e = p + nb
<1>6. e \notin DOMAIN hdr
  <2>1. \A c \in DOMAIN hdr : c <= n /\ c \in Nat BY HeapIs DEF OwnInv, HeapFacts
  <2>2. n \in Nat BY <1>2, <2>1
  <2> QED BY ONLY <1>5, <2>1, <2>2
<1>7. /\ DOMAIN CutAt(k, p, nb) = DOMAIN k \cup {p + nb}
      /\ CutAt(k, p, nb)[p].sz = nb
      /\ \A d \in DOMAIN k \ {p} : CutAt(k, p, nb)[d] = k[d]
  <2>1. p + nb \notin DOMAIN k BY <1>2, <1>6
  <2>2. nb <= k[p].sz BY <1>2, <1>5, Zenon
  <2>3. k \in [DOMAIN k -> Header] /\ p \in DOMAIN k /\ p \in Nat /\ nb \in Nat /\ nb > 0
    BY <1>2, <1>5
  <2> QED BY ONLY <2>1, <2>2, <2>3, CutShape
<1>8. hdr' = CutAt(k, p, nb) OBVIOUS
<1>9. DOMAIN hdr' = (DOMAIN hdr \ {p, n}) \cup {p, e} BY ONLY <1>2, <1>5, <1>7, <1>8, e = p + nb
<1>10. \A d \in DOMAIN hdr \ {p, n} : hdr'[d].sz = hdr[d].sz BY ONLY <1>2, <1>7, <1>8
<1>11. nb \in HP!Sizes BY <1>5, Zenon DEF HP!Sizes
<1>12. hdr'[p].sz = nb BY <1>7, <1>8
<1>13. p \in Int /\ e \in Int /\ p # None /\ e # None BY <1>2, <1>3, <1>5
<1>14. p # top OBVIOUS
<1>15. TopTakenAs(p, nb, e)
  BY ONLY <1>2, <1>5, <1>6, <1>9, <1>10, <1>11, <1>12, <1>13, <1>14, n = top, e = p + nb
     DEF TopTakenAs
<1> QED BY ONLY <1>15, e = p + nb

(* Lemma: realloc of the chunk before top into top.                        *)
LEMMA OwnReallocTop ==
  ASSUME OwnInv, NEW t \in Threads, op[t] = Idle, NEW p \in DOMAIN live, NEW nb \in Int,
         nb >= MINSIZE, TakesBack(p), Next_(hdr, p) = top, nb > hdr[p].sz,
         hdr[p].sz + hdr[top].sz >= nb + MINSIZE,
         hdr' = CutAt(Absorb(hdr, p), p, nb), top' = p + nb,
         op' = [op EXCEPT ![t] = [Idle EXCEPT !.fn = "realloc", !.pc = "done", !.want = nb, !.v = p]],
         lock' \in Threads \cup {None}, UNCHANGED <<system_mem, fastVars, binVars, tcache>>
  PROVE  OwnInv' /\ HeapStep
<1> PICK e : e = p + nb OBVIOUS
<1> PICK G : G = {p, top} BY Zenon
<1> PICK N : N = {p, e} BY Zenon
<1> PICK dest : dest = [x \in N |-> IF x = p THEN VPl(t) ELSE TopPl] BY Zenon
<1> PICK Q : Q = {LivePl, VPl(t), TopPl} BY Zenon
<1> PICK d : d = [Idle EXCEPT !.fn = "realloc", !.pc = "done", !.want = nb, !.v = p] OBVIOUS
<1>1. /\ LivePl \in Places /\ VPl(t) \in Places /\ TopPl \in Places
      /\ LivePl \notin BinPlaces \cup {TopPl} /\ VPl(t) \notin BinPlaces \cup {TopPl}
      /\ TopPl \notin BinPlaces /\ LivePl # VPl(t)
      /\ p \in ChunksAt(LivePl) /\ ChunksAt(LivePl) = DOMAIN live
  BY PlacesAre, PlacesAt, BinPlacesAre, ChunksAre
<1>2. p \in DOMAIN hdr \ {top} /\ p \in Int /\ p \notin Binned /\ p \in HP!Held
  BY <1>1, HeldGood
<1>3. TopTakenAs(p, nb, e) BY <1>2, TopTaken
<1>4. d \in Call_ /\ d.p = None /\ d.v = p /\ d.chain = <<>> /\ d.pc = "done"
      /\ d.al = 1 /\ d.pad = 0 /\ d.fn = "realloc" /\ d.want = nb
  <2> DEFINE e1 == [Idle EXCEPT !.fn = "realloc"]
             e2 == [e1 EXCEPT !.pc = "done"]
             e3 == [e2 EXCEPT !.want = nb]
  <2>1. e1 \in Call_ BY IdleSound, CallWith, Zenon
  <2> HIDE DEF e1
  <2>2. e2 \in Call_ BY <2>1, CallWith, Zenon DEF LockedPCs
  <2> HIDE DEF e2
  <2>3. e3 \in Call_ BY <2>2, CallWith, Zenon
  <2> HIDE DEF e3
  <2>4. [e3 EXCEPT !.v = p] \in Call_ BY <1>2, <2>3, CallWith, Zenon
  <2>5. d \in Call_ BY <2>4 DEF e1, e2, e3
  <2>6. /\ d.p = None /\ d.v = p /\ d.chain = <<>> /\ d.pc = "done"
        /\ d.al = 1 /\ d.pad = 0 /\ d.fn = "realloc" /\ d.want = nb
    BY DEF Idle
  <2> QED BY <2>5, <2>6
<1>5. op' = [op EXCEPT ![t] = d] OBVIOUS
<1>6. op'[t] = d /\ \A u \in Threads \ {t} : op'[u] = op[u] BY <1>4, <1>5, CallSet,
  Zenon DEF OwnInv
<1>7. /\ DOMAIN live' = DOMAIN live \ {p} /\ live' \in [DOMAIN live' -> Int]
      /\ \A x \in DOMAIN live' : x # p /\ x \in DOMAIN live /\ live'[x] = live[x]
  BY LiveTakes, Zenon DEF OwnInv
<1>8. Shaped' BY <1>4, <1>5, <1>7, ShapedBy DEF OwnInv, Shaped, fastVars, binVars
<1>9. op[t].p = None /\ op[t].v = None /\ op[t].chain = <<>> BY IdleSound
<1>10. dest[p] = VPl(t) /\ dest[e] = TopPl /\ p # e BY <1>3 DEF TopTakenAs
<1>11. /\ {x \in N : dest[x] = VPl(t)} = {p} /\ {x \in N : dest[x] = TopPl} = {e}
       /\ {x \in N : dest[x] = LivePl} = {}
  BY <1>1, <1>10
<1>12. top \notin DOMAIN live BY <1>1, ChunksAre DEF OwnInv, Owned
<1>13. Placing(Q, G, N, dest)
  <2>1. OnlyLists(Q) BY DEF OnlyLists, fastVars, binVars
  <2>2. Only(Q)
    <3>1. d.p = op[t].p /\ d.chain = op[t].chain /\ VPl(t) \in Q BY <1>4, <1>9
    <3>2. Shaped /\ d \in Call_ BY <1>4 DEF OwnInv
    <3> QED BY ONLY t \in Threads, <1>5, <2>1, <3>1, <3>2, OnlyIs, Zenon
  <2>3. ChunksAt(TopPl)' = (ChunksAt(TopPl) \ G) \cup {x \in N : dest[x] = TopPl}
        /\ Once(ListAt(TopPl)')
    BY <1>11, ChunksAre, ChunksAreNext, ListsAtNext, EmptyOnce, Zenon
  <2>4. ChunksAt(VPl(t))' = (ChunksAt(VPl(t)) \ G) \cup {x \in N : dest[x] = VPl(t)}
        /\ Once(ListAt(VPl(t))')
    <3>1. ChunksAt(VPl(t)) = {} BY <1>9, ChunksAre
    <3>2. p # None BY <1>3 DEF TopTakenAs
    <3>3. op'[t].v = p BY <1>4, <1>6, Zenon
    <3>4. ChunksAt(VPl(t))' = {p} BY ONLY <3>2, <3>3, ChunksAreNext
    <3> QED BY <1>11, <3>1, <3>4, ListsAtNext, EmptyOnce, ZenonT(40)
  <2>5. ChunksAt(LivePl)' = (ChunksAt(LivePl) \ G) \cup {x \in N : dest[x] = LivePl}
        /\ Once(ListAt(LivePl)')
    <3>1. ChunksAt(LivePl)' = DOMAIN live' BY ChunksAreNext
    <3> QED BY <1>1, <1>7, <1>11, <1>12, <3>1, ListsAtNext, EmptyOnce
  <2>6. \A pl \in Q : /\ ChunksAt(pl)' = (ChunksAt(pl) \ G) \cup {x \in N : dest[x] = pl}
                      /\ Once(ListAt(pl)')
    <3> TAKE pl \in Q
    <3>1. CASE pl = TopPl BY <2>3, <3>1, Zenon
    <3>2. CASE pl = VPl(t) BY <2>4, <3>2, Zenon
    <3>3. CASE pl = LivePl BY <2>5, <3>3, Zenon
    <3> QED BY <3>1, <3>2, <3>3, Zenon
  <2>7. \A x \in G : \E pl \in Q : x \in ChunksAt(pl)
    <3>1. top \in ChunksAt(TopPl) BY ChunksAre
    <3> QED BY <1>1, <3>1
  <2>8. DOMAIN hdr' = (DOMAIN hdr \ G) \cup N /\ N \cap (DOMAIN hdr \ G) = {}
        /\ \A c \in DOMAIN hdr \ G : hdr'[c].sz = hdr[c].sz
    BY <1>3 DEF TopTakenAs
  <2>9. Q \subseteq Places /\ (\A x \in N : dest[x] \in Q) BY <1>1, <1>10
  <2> QED BY <2>2, <2>6, <2>7, <2>8, <2>9, Zenon DEF Placing
<1>14. HeapStep
  <2>1. Binned' = (Binned \ G) \cup {x \in N : dest[x] \in BinPlaces}
    BY <1>8, <1>13, PlacedBinned DEF OwnInv
  <2>2. {x \in N : dest[x] \in BinPlaces} = {} BY <1>1, <1>10
  <2>3. top \notin Binned BY HeapIs DEF OwnInv, HeapFacts
  <2>4. Binned' = Binned BY <1>2, <2>1, <2>2, <2>3, Zenon
  <2>5. /\ HP!CutAt(HP!Absorb(hdr, p), p, nb) = CutAt(Absorb(hdr, p), p, nb)
        /\ HP!MINSIZE = MINSIZE /\ HP!Next_(hdr, p) = Next_(hdr, p)
    BY SameShape, SameSmall
  <2>6. UNCHANGED <<system_mem, Binned>> BY <2>4
  <2>7. HP!JoinTop(p, nb) BY <2>5, <2>6, Zenon DEF HP!JoinTop
  <2>8. nb \in HP!Sizes BY <1>3 DEF TopTakenAs
  <2>9. HP!Next BY <1>2, <2>7, <2>8, Zenon DEF HP!Next, HP!OnHeld
  <2> QED BY <2>9 DEF HeapStep
<1>15. Leaving(t, Q, G, N, dest)
  <2>1. \A u \in Threads \ {t} : op'[u] = op[u] /\ PPl(u) \notin Q /\ VPl(u) \notin Q
    BY <1>6, PlacesAt
  <2>2. \A x \in N : MayBeAt(dest[x], hdr'[x].sz) BY <1>10, MayBe
  <2>3. CallSound(op'[t], hdr')
    <3>1. hdr'[p].sz = nb BY <1>3 DEF TopTakenAs
    <3>2. Brings(d, hdr') BY <1>4, <3>1 DEF Brings, Within, MINSIZE
    <3>3. CallSound(d, hdr') BY <1>4, <3>2 DEF CallSound, InSearch, Comes
    <3> QED BY <1>6, <3>3
  <2>4. \A x \in DOMAIN live' : x \in DOMAIN live \ G /\ live'[x] = live[x] BY <1>7, <1>12
  <2>5. \A i \in BinIndices : BinPl(i) \notin Q BY PlacesAt
  <2> QED BY <1>8, <1>14, <2>1, <2>2, <2>3, <2>4, <2>5 DEF Leaving
<1> QED BY <1>13, <1>14, <1>15, LeavingKeeps

(* Lemma: realloc.                                                         *)
LEMMA OwnRealloc ==
  ASSUME OwnInv, NEW t \in Threads, NEW p \in DOMAIN live, NEW nb \in ReallocSizes,
         Realloc(t, p, nb)
  PROVE  OwnInv' /\ HeapStep
<1> PICK n : n = Next_(hdr, p) OBVIOUS
<1> PICK sz : sz = hdr[p].sz OBVIOUS
<1> PICK sum : sum = hdr[p].sz + hdr[n].sz OBVIOUS
<1>1. /\ op[t].pc = "idle" /\ tcache' = tcache
      /\ \/ /\ hdr[p].sz = nb
            /\ live' = [live EXCEPT ![p] = nb]
            /\ UNCHANGED <<lock, heapVars, fastVars, binVars, op>>
         \/ /\ hdr[p].sz # nb /\ lock' = t /\ TakesBack(p)
            /\ \/ hdr[p].sz > nb /\ ReallocRest(t, hdr, p, hdr[p].sz, nb, None)
               \/ /\ hdr[p].sz < nb /\ n = top /\ hdr[p].sz + hdr[n].sz >= nb + MINSIZE
                  /\ hdr' = CutAt(Absorb(hdr, p), p, nb)
                  /\ top' = p + nb
                  /\ op' = [op EXCEPT ![t] = [Idle EXCEPT !.fn = "realloc", !.pc = "done",
                                                         !.want = nb, !.v = p]]
                  /\ UNCHANGED <<system_mem, fastVars, binVars>>
               \/ /\ n # top /\ ~InUseAfter(hdr, n) /\ hdr[p].sz + hdr[n].sz >= nb
                  /\ ReallocRest(t, Absorb(hdr, p), p, hdr[p].sz + hdr[n].sz, nb, n)
               \/ /\ hdr[p].sz < nb
                  /\ op' = [op EXCEPT ![t] = [Idle EXCEPT !.fn = "realloc", !.pc = "int_malloc",
                                               !.want = nb, !.nb = nb, !.p = p, !.old = live[p]]]
                  /\ UNCHANGED <<heapVars, fastVars, binVars>>
  BY Zenon DEF Realloc
<1>2. nb \in Int /\ nb >= MINSIZE
  <2>1. nb \in Nat /\ nb >= MINSIZE BY ArenaAssumption
  <2> QED BY <2>1
<1>3. op[t] = Idle BY <1>1, IdleCall
<1>4. CASE /\ hdr[p].sz = nb
           /\ live' = [live EXCEPT ![p] = nb]
           /\ UNCHANGED <<lock, heapVars, fastVars, binVars, op>>
  <2>1. UNCHANGED <<lock, heapVars, fastVars, binVars, op, tcache>> BY <1>1, <1>4
  <2>2. nb \in Int BY <1>2
  <2> QED BY ONLY OwnInv, t \in Threads, p \in DOMAIN live, <1>4, <2>1, <2>2,
    OwnReallocSame, Zenon
<1>5. ASSUME hdr[p].sz # nb, lock' = t, TakesBack(p) PROVE lock' \in Threads \cup {None}
  BY <1>5
<1>6. CASE /\ lock' = t /\ TakesBack(p)
           /\ hdr[p].sz > nb /\ ReallocRest(t, hdr, p, hdr[p].sz, nb, None)
  <2>1. lock' \in Threads \cup {None} /\ tcache' = tcache BY <1>1, <1>6
  <2> QED BY ONLY OwnInv, t \in Threads, p \in DOMAIN live, <1>2, <1>3, <1>6, <2>1, OwnReallocShrinks
<1>7. CASE /\ lock' = t /\ TakesBack(p)
           /\ hdr[p].sz < nb /\ n = top /\ hdr[p].sz + hdr[n].sz >= nb + MINSIZE
           /\ hdr' = CutAt(Absorb(hdr, p), p, nb)
           /\ top' = p + nb
           /\ op' = [op EXCEPT ![t] = [Idle EXCEPT !.fn = "realloc", !.pc = "done",
                                                  !.want = nb, !.v = p]]
           /\ UNCHANGED <<system_mem, fastVars, binVars>>
  <2>1. lock' \in Threads \cup {None} /\ UNCHANGED <<system_mem, fastVars, binVars, tcache>>
    BY <1>1, <1>7
  <2>2. nb > hdr[p].sz
    <3>1. hdr[p].sz \in Int
      <4>1. LivePl \in Places /\ LivePl \notin BinPlaces \cup {TopPl} /\ p \in ChunksAt(LivePl)
        BY PlacesAre, PlacesAt, BinPlacesAre, ChunksAre
      <4>2. hdr[p].sz \in Nat BY <4>1, HeldGood
      <4> QED BY ONLY <4>2
    <3> QED BY <1>2, <1>7, <3>1
  <2>3. Next_(hdr, p) = top /\ hdr[p].sz + hdr[top].sz >= nb + MINSIZE BY <1>7
  <2> QED BY ONLY OwnInv, t \in Threads, p \in DOMAIN live, <1>2, <1>3, <1>7, <2>1, <2>2,
    <2>3,
                  OwnReallocTop, Zenon
<1>8. CASE /\ lock' = t /\ TakesBack(p)
           /\ n # top /\ ~InUseAfter(hdr, n) /\ hdr[p].sz + hdr[n].sz >= nb
           /\ ReallocRest(t, Absorb(hdr, p), p, hdr[p].sz + hdr[n].sz, nb, n)
  <2>1. lock' \in Threads \cup {None} /\ tcache' = tcache BY <1>1, <1>8
  <2> QED BY ONLY OwnInv, t \in Threads, p \in DOMAIN live, n = Next_(hdr, p), <1>2, <1>3, <1>8, <2>1,
                  OwnReallocGrows
<1>9. CASE /\ lock' = t /\ TakesBack(p) /\ hdr[p].sz < nb
           /\ op' = [op EXCEPT ![t] = [Idle EXCEPT !.fn = "realloc", !.pc = "int_malloc",
                                               !.want = nb, !.nb = nb, !.p = p, !.old = live[p]]]
           /\ UNCHANGED <<heapVars, fastVars, binVars>>
  <2>1. lock' \in Threads \cup {None} /\ UNCHANGED <<heapVars, fastVars, binVars, tcache>>
    BY <1>1, <1>9
  <2> QED BY ONLY OwnInv, t \in Threads, p \in DOMAIN live, <1>2, <1>3, <1>9, <2>1,
    OwnReallocMoves, Zenon
<1> QED BY ONLY <1>1, <1>4, <1>6, <1>7, <1>8, <1>9

(* Lemma: _int_malloc gave realloc something or nothing.                   *)
LEMMA OwnReallocGot ==
  ASSUME OwnInv, NEW t \in Threads, ReallocGot(t)
  PROVE  OwnInv' /\ HeapStep
BY OwnReallocNothing, OwnReallocMoved, OwnReallocJoined

(* Lemma: every step of a thread in a call.                                *)
LEMMA OwnStep ==
  ASSUME OwnInv, LockInv, CacheInv, NEW t \in Threads, Step(t)
  PROVE  OwnInv' /\ HeapStep
<1>1. CASE TakeFast(t) \/ StashFast(t) \/ TakeSmall(t) \/ StashSmall(t)
  BY ONLY OwnInv, t \in Threads, <1>1, OwnTakeFast, OwnStashFast, OwnTakeSmall, OwnStashSmall
<1>2. CASE StartSearch(t) \/ UnsortedDone(t) \/ SearchAgain(t)
  BY ONLY OwnInv, t \in Threads, <1>2, OwnSearchGoesOn
<1>3. CASE SplitRemainder(t) \/ ExactFit(t) \/ SortVictim(t) \/ ReturnCached(t)
  BY ONLY OwnInv, CacheInv, t \in Threads, <1>3, OwnSplitRemainder, OwnExactFit, OwnSortVictim,
          OwnReturnCached
<1>4. CASE BestFit(t) \/ ScanBins(t) \/ UseTop(t) \/ SysMalloc(t)
  BY ONLY OwnInv, t \in Threads, <1>4, OwnBestFit, OwnScanBins, OwnUseTop, OwnSysMalloc
<1>5. CASE ConsolidateBegin(t) \/ ConsolidateDetach(t) \/ ConsolidateChunk(t) \/ ConsolidateEnd(t)
  BY ONLY OwnInv, LockInv, t \in Threads, <1>5, OwnConsolidateBegin, OwnConsolidateDetach,
          OwnConsolidateChunk, OwnConsolidateEnd
<1>6. CASE SysTrim(t) \/ FreeFlag(t) \/ FreePush(t) \/ FreeMerge(t) \/ Done(t)
  BY ONLY OwnInv, LockInv, t \in Threads, <1>6, OwnSysTrim, OwnFreeFlag, OwnFreePush,
          OwnFreeMerge, OwnDone
<1>7. CASE MallocGot(t) \/ ReallocGot(t) \/ ReallocRetry(t) \/ RetryGot(t)
  BY ONLY OwnInv, t \in Threads, <1>7, OwnMallocGot, OwnReallocGot, OwnReallocRetry, OwnRetryGot
<1>8. CASE MemalignGot(t) \/ MemalignTail(t)
  BY ONLY OwnInv, t \in Threads, <1>8, OwnMemalignGot, OwnMemalignTail
<1> QED BY ONLY Step(t), <1>1, <1>2, <1>3, <1>4, <1>5, <1>6, <1>7, <1>8 DEF Step

(* Lemma: every call of the program.                                       *)
LEMMA OwnCall ==
  ASSUME OwnInv, NEW t \in Threads, Call(t)
  PROVE  OwnInv' /\ HeapStep
<1>1. ASSUME NEW nb \in MallocSizes, Malloc(t, nb) PROVE OwnInv' /\ HeapStep
  BY ONLY OwnInv, t \in Threads, <1>1, OwnMalloc
<1>2. ASSUME NEW p \in DOMAIN live, Free(t, p) PROVE OwnInv' /\ HeapStep
  BY ONLY OwnInv, t \in Threads, <1>2, OwnFree
<1>3. ASSUME NEW p \in DOMAIN live, NEW nb \in ReallocSizes, Realloc(t, p, nb)
      PROVE OwnInv' /\ HeapStep
  BY ONLY OwnInv, t \in Threads, <1>3, OwnRealloc
<1>4. ASSUME NEW r \in AlignRequests, Memalign(t, r[1], r[2]) PROVE OwnInv' /\ HeapStep
  <2> PICK al : al = r[1] OBVIOUS
  <2> PICK nb : nb = r[2] OBVIOUS
  <2>1. al \in Nat \ {0} /\ nb \in Nat /\ nb >= MINSIZE BY ArenaAssumption
  <2>2. Memalign(t, al, nb) BY <1>4
  <2> QED BY ONLY OwnInv, t \in Threads, <2>1, <2>2, OwnMemalign
<1>5. ASSUME NEW pad \in TrimPads, MallocTrim(t, pad) PROVE OwnInv' /\ HeapStep
  BY ONLY OwnInv, t \in Threads, <1>5, OwnMallocTrim
<1> QED BY ONLY Call(t), <1>1, <1>2, <1>3, <1>4, <1>5 DEF Call

(* Lemma: the invariant holds at the start.                                *)
LEMMA OwnInit == Init => OwnInv
<1> SUFFICES ASSUME Init PROVE OwnInv OBVIOUS
<1>1. /\ lock = None /\ hdr = [a \in {0} |-> [sz |-> 0, pinuse |-> TRUE, psz |-> 0]]
      /\ top = 0 /\ system_mem = 0
      /\ fastbins = [s \in FastSizes |-> <<>>] /\ have_fastchunks = FALSE
      /\ unsorted = <<>> /\ bins = [i \in BinIndices |-> <<>>] /\ binmap = {}
      /\ last_remainder = None
      /\ tcache = [t \in Threads |-> [s \in TcacheSizes |-> <<>>]]
      /\ live = [c \in {} |-> 0] /\ op = [t \in Threads |-> Idle]
  BY DEF Init
<1>2. Idle \in Call_ /\ CallSound(Idle, hdr) BY IdleSound
<1>3. Shaped BY <1>1, <1>2, EmptyOnce, Zenon DEF Shaped, Once
<1>4. \A pl \in Places : ChunksAt(pl) = IF pl = TopPl THEN {0} ELSE {}
  <2> TAKE pl \in Places
  <2>0. ToSet(<<>>) = {} BY ListIs, EmptyOnce, Zenon DEF Once
  <2>1. /\ ChunksAt(TopPl) = {0} /\ ChunksAt(LivePl) = {} /\ ChunksAt(UnsortedPl) = {}
    BY <1>1, <2>0, ChunksAre
  <2>2. \A i \in BinIndices : ChunksAt(BinPl(i)) = {} BY <1>1, <2>0, ChunksAre
  <2>3. \A s \in FastSizes : ChunksAt(FastPl(s)) = {} BY <1>1, <2>0, ChunksAre
  <2>4. \A t \in Threads, s \in TcacheSizes : ChunksAt(CachePl(t, s)) = {} BY <1>1, <2>0, ChunksAre
  <2>5. \A t \in Threads : /\ ChunksAt(PPl(t)) = {} /\ ChunksAt(VPl(t)) = {}
                           /\ ChunksAt(ChainPl(t)) = {}
    <3> TAKE t \in Threads
    <3>1. op[t].p = None /\ op[t].v = None /\ op[t].chain = <<>> BY <1>1 DEF Idle
    <3> QED BY <2>0, <3>1, ChunksAre
  <2> QED BY <2>1, <2>2, <2>3, <2>4, <2>5, PlacesAre, PlacesAt
<1>5. DOMAIN hdr = {0} /\ TopPl \in Places BY <1>1, PlacesAre
<1>6. Owned BY <1>4, <1>5 DEF Owned
<1>7. ListsOnce
  <2>0. Once(<<>>) BY EmptyOnce
  <2>1. \A pl \in Places : ListAt(pl) = <<>>
    <3> TAKE pl \in Places
    <3>1. \A t \in Threads : op[t].chain = <<>> BY <1>1 DEF Idle
    <3>2. ListAt(TopPl) = <<>> /\ ListAt(LivePl) = <<>> /\ ListAt(UnsortedPl) = <<>>
      BY <1>1, ListsAt
    <3>3. /\ \A i \in BinIndices : ListAt(BinPl(i)) = <<>>
          /\ \A s \in FastSizes : ListAt(FastPl(s)) = <<>>
      BY <1>1, ListsAt
    <3>4. /\ \A t \in Threads, s \in TcacheSizes : ListAt(CachePl(t, s)) = <<>>
          /\ \A t \in Threads : /\ ListAt(PPl(t)) = <<>> /\ ListAt(VPl(t)) = <<>>
                               /\ ListAt(ChainPl(t)) = <<>>
      BY <1>1, <3>1, ListsAt
    <3> QED BY ONLY pl \in Places, <3>2, <3>3, <3>4, PlacesAre
  <2> QED BY <2>0, <2>1 DEF ListsOnce
<1>8. SizesInv BY <1>4, MayBe DEF SizesInv
<1>9. CallsInv BY <1>1, <1>2 DEF CallsInv
<1>10. LiveFits BY <1>1 DEF LiveFits
<1>11. Ordered
  <2>1. \A i \in BinIndices : bins[i] = <<>> BY <1>1
  <2> QED BY <2>1, EmptyOnce DEF Ordered, Descends, Before
<1>12. HP!IInv
  <2>1. Binned = {}
    <3>1. BinPlaces \subseteq Places /\ TopPl \notin BinPlaces
      BY BinPlacesAre, PlacesAre DEF BinPlaces
    <3>2. Binned = UNION {ChunksAt(pl) : pl \in BinPlaces} BY <1>1, BinnedIs
    <3> QED BY <1>4, <3>1, <3>2
  <2>2. HP!Init BY <1>1, <2>1, Zenon DEF HP!Init
  <2> QED BY <2>2, Zenon DEF HP!IInv
<1> QED BY <1>3, <1>6, <1>7, <1>8, <1>9, <1>10, <1>11, <1>12 DEF OwnInv

(* Lemma: the invariant is one of the variables.                           *)
LEMMA OwnStays == OwnInv /\ UNCHANGED vars => OwnInv' /\ HeapStep
<1> SUFFICES ASSUME OwnInv, UNCHANGED vars PROVE OwnInv' /\ HeapStep OBVIOUS
<1>1. UNCHANGED <<lock, hdr, top, system_mem, fastbins, have_fastchunks, unsorted, bins, binmap,
                  last_remainder, tcache, live, op>>
  BY DEF vars, heapVars, fastVars, binVars
<1>2. \A pl : ListAt(pl)' = ListAt(pl) /\ ChunksAt(pl)' = ChunksAt(pl) BY <1>1 DEF ListAt, ChunksAt
<1>3. Binned' = Binned BY <1>1 DEF Binned, ListsOf
<1>4. UNCHANGED <<hdr, top, system_mem, Binned>> BY <1>1, <1>3
<1>5. HP!IInv'
  <2>1. HeapLimit \in Nat /\ None \notin Int BY ArenaAssumption, NoneAssumption
  <2>2. UNCHANGED HP!vars BY <1>4, Zenon DEF HP!vars
  <2>3. HP!IInv BY DEF OwnInv
  <2> QED BY ONLY <2>1, <2>2, <2>3, HP!StepIInv, Zenon
<1>6. Shaped' BY <1>1 DEF OwnInv, Shaped
<1>7. Owned' /\ ListsOnce' /\ SizesInv' BY <1>1, <1>2 DEF OwnInv, Owned, ListsOnce, SizesInv
<1>8. CallsInv' BY <1>1 DEF OwnInv, CallsInv
<1>9. LiveFits' BY <1>1 DEF OwnInv, LiveFits
<1>10. Ordered' BY <1>1 DEF OwnInv, Ordered
<1> QED BY <1>4, <1>5, <1>6, <1>7, <1>8, <1>9, <1>10 DEF OwnInv, HeapStep

(* Lemma: every step of the arena keeps the invariant, and does what the   *)
(* heap does or nothing to it.                                             *)
LEMMA OwnNext == OwnInv /\ LockInv /\ CacheInv /\ [Next]_vars => OwnInv' /\ HeapStep
<1> SUFFICES ASSUME OwnInv, LockInv, CacheInv, [Next]_vars PROVE OwnInv' /\ HeapStep OBVIOUS
<1>1. CASE UNCHANGED vars BY <1>1, OwnStays
<1>2. ASSUME NEW t \in Threads, Step(t) PROVE OwnInv' /\ HeapStep
  BY ONLY OwnInv, LockInv, CacheInv, t \in Threads, <1>2, OwnStep
<1>3. ASSUME NEW t \in Threads, Call(t) PROVE OwnInv' /\ HeapStep
  BY ONLY OwnInv, t \in Threads, <1>3, OwnCall
<1> QED BY <1>1, <1>2, <1>3 DEF Next

(* Theorem: the inductive invariant.  Who has which chunk, that every list *)
(* has chunks of its sizes, what the calls under way know of the chunks    *)
(* they work on, and the heap's own invariant, for any MIN_LARGE_SIZE,     *)
(* get_max_fast() below it and tcache_max_bytes, the default among them,   *)
(* while each cached size has a tcache bin of its own.                     *)
THEOREM ArenaInvariant == Spec => []OwnInv
BY OwnInit, OwnNext, LockInit, LockNext, CacheInit, CacheNext, PTL DEF Spec

(* Theorem: every variable has the shape the code gives it, under any      *)
(* schedule of any number of threads.                                      *)
THEOREM ArenaTypeOK == Spec => []TypeOK
<1>1. OwnInv => TypeOK
  <2> SUFFICES ASSUME OwnInv PROVE TypeOK OBVIOUS
  <2>1. /\ DOMAIN hdr \subseteq Nat /\ hdr \in [DOMAIN hdr -> Header] /\ top \in DOMAIN hdr
        /\ system_mem \in Nat
    BY HeapIs DEF OwnInv, HeapFacts
  <2>2. /\ DOMAIN hdr \subseteq Int /\ top \in Int /\ system_mem \in Int BY <2>1
  <2>3. hdr \in [DOMAIN hdr -> [sz : Int, pinuse : BOOLEAN, psz : Int]]
    <3>1. \A a \in DOMAIN hdr : hdr[a] \in [sz : Int, pinuse : BOOLEAN, psz : Int]
      BY <2>1 DEF Header
    <3> QED BY <2>1, <3>1
  <2>4. DOMAIN live \subseteq Int
    <3>1. DOMAIN live \subseteq DOMAIN hdr BY PlacesAre, ChunksAre DEF OwnInv, Owned
    <3> QED BY <2>2, <3>1
  <2> QED BY <2>2, <2>3, <2>4 DEF OwnInv, Shaped, TypeOK, Chunks
<1> QED BY <1>1, ArenaInvariant, PTL

(* Theorem: no chunk is lost and none is in two places, whatever the       *)
(* threads do to it and to its neighbours: each is top, the program's, in  *)
(* one call's hands, or once in one list.                                  *)
THEOREM ArenaOneOwner == Spec => []OneOwner
<1>1. OwnInv => OneOwner
  <2> SUFFICES ASSUME OwnInv PROVE OneOwner OBVIOUS
  <2>1. ASSUME NEW c \in DOMAIN hdr
        PROVE  \E pl \in Places : \A pr \in Places : c \in ChunksAt(pr) <=> pr = pl
    <3>1. PICK pl \in Places : c \in ChunksAt(pl) BY DEF OwnInv, Owned
    <3>2. \A pr \in Places : c \in ChunksAt(pr) <=> pr = pl BY <3>1 DEF OwnInv, Owned
    <3> QED BY <3>2
  <2>2. \A pl \in Places : ChunksAt(pl) \subseteq DOMAIN hdr /\ IsInjective(ListAt(pl))
    BY DEF OwnInv, Owned, ListsOnce, Once
  <2> QED BY <2>1, <2>2 DEF OneOwner
<1> QED BY <1>1, ArenaInvariant, PTL

(* Theorem: the program has what it asked for and less than MINSIZE more,  *)
(* by whichever path of malloc, realloc or memalign the chunk came: from   *)
(* the bins, a fastbin, top, or a tcache bin of one size, small or large.  *)
THEOREM ArenaLiveFits == Spec => []LiveFits
<1>1. OwnInv => LiveFits BY DEF OwnInv
<1> QED BY <1>1, ArenaInvariant, PTL

(* Theorem: every bin and fastbin holds chunks of its size class only, and *)
(* a large bin descends by size.  A tcache bin of one size holds chunks of *)
(* that size.                                                              *)
THEOREM ArenaBinsOrdered == Spec => []BinsOrdered
<1>1. OwnInv => BinsOrdered
  <2> SUFFICES ASSUME OwnInv PROVE BinsOrdered OBVIOUS
  <2>1. ASSUME NEW i \in BinIndices, NEW n \in DOMAIN bins[i]
        PROVE  /\ BinIndex(hdr[bins[i][n]].sz) = i
               /\ n > 1 => hdr[bins[i][n - 1]].sz >= hdr[bins[i][n]].sz
    <3>1. BinPl(i) \in Places /\ ChunksAt(BinPl(i)) = ToSet(bins[i]) BY PlacesAre, ChunksAre
    <3>2. bins[i][n] \in ToSet(bins[i]) BY DEF ToSet
    <3>3. BinIndex(hdr[bins[i][n]].sz) = i BY <3>1, <3>2, MayBe DEF OwnInv, SizesInv
    <3>4. ASSUME n > 1 PROVE hdr[bins[i][n - 1]].sz >= hdr[bins[i][n]].sz
      <4>1. bins[i] \in Seq(Int) BY DEF OwnInv, Shaped
      <4>2. n \in Nat /\ n - 1 \in DOMAIN bins[i] /\ n - 1 < n BY <3>4, <4>1
      <4>3. Before(bins[i], bins[i][n - 1], bins[i][n]) BY <4>2 DEF Before
      <4> QED BY <4>3 DEF OwnInv, Ordered, Descends
    <3> QED BY <3>3, <3>4
  <2>2. ASSUME NEW s \in FastSizes, NEW c \in ToSet(fastbins[s]) PROVE hdr[c].sz = s
    <3>1. FastPl(s) \in Places /\ c \in ChunksAt(FastPl(s)) BY PlacesAre, ChunksAre
    <3> QED BY <3>1, MayBe DEF OwnInv, SizesInv
  <2>3. ASSUME NEW t \in Threads, NEW s \in TcacheSizes, NEW c \in ToSet(tcache[t][s])
        PROVE  hdr[c].sz = s
    <3>1. CachePl(t, s) \in Places /\ c \in ChunksAt(CachePl(t, s)) BY PlacesAre, ChunksAre
    <3> QED BY <3>1, MayBe DEF OwnInv, SizesInv
  <2> QED BY <2>1, <2>2, <2>3 DEF BinsOrdered
<1> QED BY <1>1, ArenaInvariant, PTL

(* Theorem: memory that memalign returns is aligned, also when the call    *)
(* went through a consolidation and a trim after it had cut the chunk.     *)
THEOREM ArenaAlignedResult == Spec => []AlignedResult
<1>1. OwnInv => AlignedResult
  <2> SUFFICES ASSUME OwnInv, NEW t \in Threads, op[t].fn = "memalign", op[t].pc = "done",
                      op[t].v # None
               PROVE  Aligned(op[t].v, op[t].al)
    BY DEF AlignedResult
  <2>1. CallSound(op[t], hdr) BY DEF OwnInv, CallsInv
  <2>2. Brings(op[t], hdr) BY <2>1 DEF CallSound, Comes
  <2> QED BY <2>2 DEF Brings
<1> QED BY <1>1, ArenaInvariant, PTL

-----------------------------------------------------------------------------
(* The heap that the arena implements, `Heap`, is the one that             *)
(* ScallocHeapProofs speaks of.                                            *)

(* Lemma: the operators on headers.                                        *)
LEMMA HeapSmall ==
  /\ Heap!MINSIZE = HP!MINSIZE
  /\ \A n : Heap!TooSmall(n) <=> HP!TooSmall(n)
  /\ \A h, p : Heap!Next_(h, p) = HP!Next_(h, p) /\ Heap!InUseAfter(h, p) = HP!InUseAfter(h, p)
BY Zenon DEF HP!MINSIZE, Heap!MINSIZE, HP!TooSmall, Heap!TooSmall, HP!Next_, Heap!Next_,
             HP!InUseAfter, Heap!InUseAfter

(* Lemma: the abstract heap's shape operators are those of its proof       *)
(* module.                                                                 *)
LEMMA HeapShape ==
  /\ \A h, p : Heap!SetInuse(h, p) = HP!SetInuse(h, p) /\ Heap!Absorb(h, p) = HP!Absorb(h, p)
  /\ \A h, p, n : /\ Heap!CutAt(h, p, n) = HP!CutAt(h, p, n)
                  /\ Heap!SplitFree(h, p, n) = HP!SplitFree(h, p, n)
<1>1. \A h, p : Heap!SetInuse(h, p) = HP!SetInuse(h, p)
  BY Zenon DEF HP!Next_, Heap!Next_, HP!SetInuse, Heap!SetInuse
<1>2. \A h, p : Heap!Absorb(h, p) = HP!Absorb(h, p)
  BY Zenon DEF HP!Next_, Heap!Next_, HP!Absorb, Heap!Absorb
<1>3. \A h, p, n : Heap!CutAt(h, p, n) = HP!CutAt(h, p, n)
  BY Zenon DEF HP!CutAt, Heap!CutAt
<1>4. \A h, p, n : Heap!SplitFree(h, p, n) = HP!SplitFree(h, p, n)
  BY ZenonT(40) DEF HP!SplitFree, Heap!SplitFree, HP!CutAt, Heap!CutAt, HP!Next_, Heap!Next_
<1> QED BY <1>1, <1>2, <1>3, <1>4

(* Lemma: and so are its merge operators.                                  *)
LEMMA HeapMerge ==
  /\ \A h, tp, p, b : Heap!Merge(h, tp, p, b) = HP!Merge(h, tp, p, b)
  /\ \A h, m : Heap!MergedHdr(h, m) = HP!MergedHdr(h, m)
<1>1. \A h, m : Heap!MergedHdr(h, m) = HP!MergedHdr(h, m)
  BY Zenon DEF HP!MergedHdr, Heap!MergedHdr
<1>2. \A h, p : Heap!Backward(h, p) = HP!Backward(h, p)
  BY DEF HP!Backward, Heap!Backward
<1>3. \A h, tp, p, b : Heap!Merge(h, tp, p, b) = HP!Merge(h, tp, p, b)
  BY <1>2, HeapSmall DEF HP!Merge, Heap!Merge
<1> QED BY <1>1, <1>3

(* Lemma: the actions.                                                     *)
LEMMA HeapActions ==
  /\ \A c : Heap!Take(c) <=> HP!Take(c)
  /\ \A c, nb : Heap!TakePart(c, nb) <=> HP!TakePart(c, nb)
  /\ \A brk : Heap!MoveBreak(brk) <=> HP!MoveBreak(brk)
  /\ \A brk, nb : Heap!CutTop(brk, nb) <=> HP!CutTop(brk, nb)
<1>1. \A c : Heap!Take(c) <=> HP!Take(c) BY HeapShape, Zenon DEF HP!Take, Heap!Take
<1>2. \A c, nb : Heap!TakePart(c, nb) <=> HP!TakePart(c, nb)
  BY HeapSmall, HeapShape, Zenon DEF HP!TakePart, Heap!TakePart
<1>3. \A brk : Heap!MoveBreak(brk) <=> HP!MoveBreak(brk)
  BY HeapSmall, Zenon DEF HP!MoveBreak, Heap!MoveBreak, HP!Moved, Heap!Moved
<1>4. \A brk, nb : Heap!CutTop(brk, nb) <=> HP!CutTop(brk, nb)
  BY HeapSmall, HeapShape, Zenon DEF HP!CutTop, Heap!CutTop, HP!Moved, Heap!Moved
<1> QED BY <1>1, <1>2, <1>3, <1>4

(* Lemma: its releases.                                                    *)
LEMMA HeapReleases ==
  /\ \A c : Heap!FreeChunk(c) <=> HP!FreeChunk(c)
  /\ \A c, nb : Heap!FreeLead(c, nb) <=> HP!FreeLead(c, nb)
  /\ \A h, F, c, nb : Heap!FreeTail(h, F, c, nb) <=> HP!FreeTail(h, F, c, nb)
  /\ \A h, F, c, nb : Heap!KeepTail(h, F, c, nb) <=> HP!KeepTail(h, F, c, nb)
<1>1. \A h, F, p, b : Heap!Release(h, F, p, b) <=> HP!Release(h, F, p, b)
  <2> TAKE h, F, p, b
  <2> PICK m : m = HP!Merge(h, top, p, b) OBVIOUS
  <2>1. Heap!Merge(h, top, p, b) = m /\ Heap!MergedHdr(h, m) = HP!MergedHdr(h, m) BY HeapMerge
  <2>2. Heap!Release(h, F, p, b) <=>
          /\ hdr' = HP!MergedHdr(h, m)
          /\ top' = IF m.atTop THEN m.q ELSE top
          /\ Binned' = (F \ {m.prev, m.next}) \cup (IF m.atTop THEN {} ELSE {m.q})
          /\ UNCHANGED system_mem
    BY <2>1 DEF Heap!Release
  <2>3. HP!Release(h, F, p, b) <=>
          /\ hdr' = HP!MergedHdr(h, m)
          /\ top' = IF m.atTop THEN m.q ELSE top
          /\ Binned' = (F \ {m.prev, m.next}) \cup (IF m.atTop THEN {} ELSE {m.q})
          /\ UNCHANGED system_mem
    BY DEF HP!Release
  <2> QED BY <2>2, <2>3
<1>2. \A c : Heap!FreeChunk(c) <=> HP!FreeChunk(c)
  BY <1>1, Zenon DEF HP!FreeChunk, Heap!FreeChunk
<1>3. \A c, nb : Heap!FreeLead(c, nb) <=> HP!FreeLead(c, nb)
  BY <1>1, HeapSmall, HeapShape, Zenon DEF HP!FreeLead, Heap!FreeLead
<1>4. \A h, F, c, nb : Heap!FreeTail(h, F, c, nb) <=> HP!FreeTail(h, F, c, nb)
  BY <1>1, HeapSmall, HeapShape, ZenonT(40) DEF HP!FreeTail, Heap!FreeTail
<1>5. \A h, F, c, nb : Heap!KeepTail(h, F, c, nb) <=> HP!KeepTail(h, F, c, nb)
  BY HeapSmall, HeapShape, Zenon DEF HP!KeepTail, Heap!KeepTail
<1> QED BY <1>2, <1>3, <1>4, <1>5

(* Lemma: and its joins.                                                   *)
LEMMA HeapJoins ==
  /\ \A c : Heap!Join(c) <=> HP!Join(c)
  /\ \A c, nb : /\ Heap!JoinFreeTail(c, nb) <=> HP!JoinFreeTail(c, nb)
                /\ Heap!JoinKeepTail(c, nb) <=> HP!JoinKeepTail(c, nb)
                /\ Heap!JoinTop(c, nb) <=> HP!JoinTop(c, nb)
<1>1. \A c : Heap!Joined(c) = HP!Joined(c) /\ Heap!Rest(c) = HP!Rest(c)
  BY HeapSmall, HeapShape, Zenon DEF HP!Joined, Heap!Joined, HP!Rest, Heap!Rest
<1>2. \A c : Heap!Join(c) <=> HP!Join(c)
  BY <1>1, HeapSmall, Zenon DEF HP!Join, Heap!Join
<1>3. \A c, nb : Heap!JoinFreeTail(c, nb) <=> HP!JoinFreeTail(c, nb)
  BY <1>1, HeapSmall, HeapReleases, Zenon DEF HP!JoinFreeTail, Heap!JoinFreeTail
<1>4. \A c, nb : Heap!JoinKeepTail(c, nb) <=> HP!JoinKeepTail(c, nb)
  BY <1>1, HeapSmall, HeapReleases, Zenon DEF HP!JoinKeepTail, Heap!JoinKeepTail
<1>5. \A c, nb : Heap!JoinTop(c, nb) <=> HP!JoinTop(c, nb)
  BY HeapSmall, HeapShape, Zenon DEF HP!JoinTop, Heap!JoinTop
<1> QED BY <1>2, <1>3, <1>4, <1>5

(* Lemma: a step of the proof module's heap is one of the abstract heap.   *)
LEMMA HeapNext == HP!Next => Heap!Next
<1>1. \A c : HP!OnFree(c) => Heap!OnFree(c)
  BY HeapActions, Zenon DEF HP!OnFree, Heap!OnFree, HP!Sizes, Heap!Sizes
<1>2. HP!OnTop => Heap!OnTop
  BY HeapActions, Zenon DEF HP!OnTop, Heap!OnTop, HP!Sizes, Heap!Sizes, HP!Brks, Heap!Brks
<1>3. \A c : HP!OnHeld(c) => Heap!OnHeld(c)
  BY HeapReleases, HeapJoins, Zenon DEF HP!OnHeld, Heap!OnHeld, HP!Sizes, Heap!Sizes
<1> QED BY <1>1, <1>2, <1>3, Zenon DEF HP!Next, Heap!Next, HP!Held, Heap!Held

(* Theorem: the arena implements the heap: whatever lists, sizes and       *)
(* threads decide, each step does one thing to the headers and the set of  *)
(* free chunks that the heap allows, or nothing.                           *)
THEOREM ArenaImplementsHeap == Spec => ImplementsHeap
<1>1. Init => Heap!Init
  <2> SUFFICES ASSUME Init PROVE Heap!Init OBVIOUS
  <2>1. \A i \in BinIndices : ToSet(bins[i]) = {} BY ListIs, EmptyOnce, Zenon DEF Init, Once
  <2>2. ToSet(unsorted) = {} /\ DOMAIN bins = BinIndices BY ListIs, EmptyOnce, Zenon
    DEF Init, Once
  <2>3. Binned = {} BY <2>1, <2>2 DEF Binned, ListsOf
  <2> QED BY <2>3, Zenon DEF Init, Heap!Init
<1>2. HeapStep => [Heap!Next]_(Heap!vars)
  BY HeapNext, Zenon DEF HeapStep, Heap!vars
<1>3. OwnInv /\ LockInv /\ CacheInv /\ [Next]_vars => [Heap!Next]_(Heap!vars)
  BY <1>2, OwnNext
<1> QED
  BY <1>1, <1>3, OwnInit, OwnNext, LockInit, LockNext, CacheInit, CacheNext, PTL
     DEF Spec, ImplementsHeap, Heap!Spec

(* Theorem: so the arena's chunks tile the heap up to the break, their     *)
(* boundary tags say which of them are free, and no two free chunks        *)
(* border each other or top.                                               *)
THEOREM ArenaHeapSound == Spec => [](Heap!Tiling /\ Heap!BoundaryTags /\ Heap!Coalesced)
<1>1. OwnInv => Heap!Tiling /\ Heap!BoundaryTags /\ Heap!Coalesced
  <2> SUFFICES ASSUME OwnInv PROVE Heap!Tiling /\ Heap!BoundaryTags /\ Heap!Coalesced OBVIOUS
  <2>1. HeapLimit \in Nat /\ None \notin Int BY ArenaAssumption, NoneAssumption
  <2>2. HP!IInv BY DEF OwnInv
  <2>3. HP!Tiling BY ONLY <2>1, <2>2, HP!InvTiled, Zenon
  <2>4. HP!BoundaryTags BY ONLY <2>1, <2>2, HP!InvTagged, Zenon
  <2>5. HP!Coalesced BY ONLY <2>1, <2>2, HP!InvCoalesced, Zenon
  <2>6. Heap!Tiling BY <2>3, HeapSmall, Zenon DEF HP!Tiling, Heap!Tiling
  <2>7. Heap!BoundaryTags BY <2>4, HeapSmall, Zenon DEF HP!BoundaryTags, Heap!BoundaryTags
  <2>8. Heap!Coalesced BY <2>5, HeapSmall, Zenon DEF HP!Coalesced, Heap!Coalesced
  <2> QED BY <2>6, <2>7, <2>8
<1> QED BY <1>1, ArenaInvariant, PTL

-----------------------------------------------------------------------------
(* The search is best fit.  The scan of the larger bins never looks into   *)
(* the bin of a small request itself, since the search began with that bin *)
(* empty.  While it goes on the thread sorts chunks of every other size    *)
(* and merges some away, and the mutex keeps the others from the bins: so  *)
(* the bin is still empty when the scan passes it by.                      *)
PassedBy ==
  \A t \in Threads :
    Searching(op[t]) /\ InSmallbinRange(op[t].nb) => bins[op[t].nb] = <<>>

(* Lemma: only the thread with the mutex, or one that takes it, changes a  *)
(* bin.                                                                    *)
LEMMA BinsGuarded ==
  ASSUME NEW t \in Threads, Step(t) \/ Call(t)
  PROVE  UNCHANGED bins \/ lock \in {None, t}
<1>1. CASE TakeSmall(t) \/ StashSmall(t) \/ SortVictim(t) \/ BestFit(t) \/ ScanBins(t)
           \/ ConsolidateChunk(t)
  BY <1>1, Zenon
    DEF TakeSmall, StashSmall, SortVictim, Unsorted, BestFit, ScanBins, ConsolidateChunk, Holds
<1>2. CASE UseTop(t) \/ SearchAgain(t) \/ SysMalloc(t)
  BY <1>2, Zenon DEF UseTop, SearchAgain, SysMalloc
<1>3. CASE FreeMerge(t) \/ ReallocGot(t) \/ MemalignGot(t) \/ MemalignTail(t)
  BY <1>3, Zenon DEF FreeMerge, ReallocGot, MemalignGot, MemalignTail, Holds
<1>4. CASE \/ TakeFast(t) \/ StashFast(t) \/ StartSearch(t) \/ SplitRemainder(t) \/ ExactFit(t)
           \/ UnsortedDone(t) \/ ReturnCached(t) \/ ConsolidateBegin(t) \/ ConsolidateDetach(t)
           \/ ConsolidateEnd(t) \/ SysTrim(t) \/ FreeFlag(t) \/ FreePush(t) \/ Done(t)
           \/ MallocGot(t) \/ ReallocRetry(t) \/ RetryGot(t)
  BY <1>4, OtherSteps
<1>5. CASE Call(t)
  BY <1>5, ZenonT(40) DEF Call, Malloc, Free, Realloc, Memalign, MallocTrim, binVars
<1> QED BY <1>1, <1>2, <1>3, <1>4, <1>5 DEF Step

(* Lemma: the steps of the search that put nothing into a bin.             *)
LEMMA SearchingBins ==
  ASSUME Shaped, NEW t \in Threads,
         \/ UnsortedDone(t) \/ SearchAgain(t) \/ ConsolidateBegin(t) \/ ConsolidateDetach(t)
         \/ ConsolidateChunk(t) \/ ConsolidateEnd(t)
  PROVE  \A i \in BinIndices : bins[i] = <<>> => bins'[i] = <<>>
<1>1. CASE \/ UnsortedDone(t) \/ SearchAgain(t) \/ ConsolidateBegin(t) \/ ConsolidateDetach(t)
           \/ ConsolidateEnd(t)
  <2>1. UNCHANGED bins
    BY <1>1, Zenon
      DEF UnsortedDone, SearchAgain, ConsolidateBegin, ConsolidateDetach, ConsolidateEnd, binVars
  <2> QED BY <2>1
<1>2. CASE ConsolidateChunk(t)
  <2>1. \E m : bins' = [i \in BinIndices |-> Merged(bins[i], m)]
    BY <1>2, Zenon DEF ConsolidateChunk
  <2> QED BY <2>1, MergedEmpty
<1> QED BY <1>1, <1>2

(* Lemma: the loop over the unsorted list sorts no chunk of the size asked *)
(* for, so none into a small request's own bin.                            *)
LEMMA SortedElsewhere ==
  ASSUME OwnInv, NEW t \in Threads, SortVictim(t), InSmallbinRange(op[t].nb)
  PROVE  bins'[op[t].nb] = bins[op[t].nb]
<1> PICK nb : nb = op[t].nb OBVIOUS
<1> PICK c : c = Last(unsorted) BY Zenon
<1> PICK i : i = BinIndex(hdr[c].sz) BY Zenon
<1>1. op[t].pc = "unsorted" /\ unsorted # <<>> /\ hdr[c].sz # nb
      /\ \E r : bins' = [bins EXCEPT ![i] = r]
  BY Zenon DEF SortVictim, Unsorted, Holds
<1>2. nb \in Int /\ nb >= MINSIZE BY <1>1, SearchFacts DEF InSearch
<1>3. c \in ToSet(unsorted) BY <1>1, LastUnsorted
<1>4. hdr[c].sz \in Nat /\ hdr[c].sz >= MINSIZE
  BY <1>3, InBinned, ListedSize DEF OwnInv
<1>5. i # nb
  <2> SUFFICES ASSUME i = nb PROVE FALSE OBVIOUS
  <2>1. hdr[c].sz = BinIndex(hdr[c].sz) BY <1>4, SmallIs
  <2> QED BY <1>1, <2>1
<1>6. nb \in BinIndices
  <2>1. nb \in Nat BY <1>2 DEF MINSIZE
  <2> QED BY <1>2, <2>1, IndexIs
<1> QED BY <1>1, <1>5, <1>6 DEF OwnInv, Shaped

(* Lemma: the bin of a small request that a step of its thread goes on     *)
(* searching for is empty.                                                 *)
LEMMA SearcherPasses ==
  ASSUME OwnInv, LockInv, PassedBy, NEW t \in Threads, Step(t) \/ Call(t),
         Searching(op'[t]), InSmallbinRange(op'[t].nb)
  PROVE  bins'[op'[t].nb] = <<>>
<1>0. DOMAIN op = Threads /\ DOMAIN op[t] = CallFields BY DEF LockInv, CallOK
<1>1. ~Call(t) BY CallQuiet
<1>2. ~(\/ TakeFast(t) \/ TakeSmall(t) \/ SysTrim(t) \/ FreeFlag(t) \/ FreePush(t)
        \/ FreeMerge(t) \/ Done(t) \/ MallocGot(t) \/ RetryGot(t))
  BY QuietSteps
<1>3. ~(SplitRemainder(t) \/ BestFit(t) \/ ScanBins(t) \/ UseTop(t) \/ SysMalloc(t))
  BY FoundSteps
<1>4. ~(ReallocGot(t) \/ MemalignGot(t) \/ MemalignTail(t)) BY AnsweredSteps
<1>5. ~(StashFast(t) \/ StashSmall(t))
  <2> SUFFICES ASSUME StashFast(t) \/ StashSmall(t) PROVE FALSE OBVIOUS
  <2>1. op[t].pc \in {"stash_fast", "stash_small"} /\ (UNCHANGED op \/ \E v : Got(t, v))
    BY Zenon DEF StashFast, StashSmall, Holds
  <2>2. ~Searching(op[t]) BY <2>1, QuietCall DEF Promising
  <2> QED BY <2>1, <2>2, GotQuiet
<1>6. ~ReturnCached(t)
  <2> SUFFICES ASSUME ReturnCached(t) PROVE FALSE OBVIOUS
  <2>1. \E v : Got(t, v) BY Zenon DEF ReturnCached
  <2> QED BY <2>1, GotQuiet
<1>7. ~ReallocRetry(t)
  <2> SUFFICES ASSUME ReallocRetry(t) PROVE FALSE OBVIOUS
  <2>1. op'[t].pc \in {"free_chunk", "int_malloc"}
    BY <1>0 DEF ReallocRetry, Enter, CallFields
  <2> QED BY <2>1, QuietCall DEF Promising
<1>8. ASSUME op[t].pc # "int_malloc", Searching(op[t]), op'[t].nb = op[t].nb
      PROVE  bins[op'[t].nb] = <<>> /\ op'[t].nb \in BinIndices
  <2>1. bins[op'[t].nb] = <<>> BY <1>8 DEF PassedBy
  <2>2. op[t].nb \in Int /\ op[t].nb >= MINSIZE
    BY <1>8, SearchFacts DEF InSearch, Searching
  <2>3. op[t].nb \in Nat BY <2>2 DEF MINSIZE
  <2> QED BY <1>8, <2>1, <2>2, <2>3, IndexIs
<1>9. CASE StartSearch(t)
  <2>1. UNCHANGED bins BY <1>9, OtherSteps
  <2>2. op'[t].nb = op[t].nb /\ ~HasSmall(op[t].nb) BY <1>9, SearchBegins
  <2> QED BY <2>1, <2>2 DEF HasSmall
<1>10. CASE ExactFit(t)
  <2>1. UNCHANGED bins BY <1>10, OtherSteps
  <2>2. op[t].pc = "unsorted" /\ (op' = [op EXCEPT ![t].cached = TRUE] \/ \E v : Got(t, v))
    BY <1>10, Zenon DEF ExactFit, Unsorted, Holds
  <2>3. op' = [op EXCEPT ![t].cached = TRUE] BY <2>2, GotQuiet
  <2>4. op'[t].nb = op[t].nb BY <1>0, <2>3 DEF CallFields
  <2> QED BY <1>8, <2>1, <2>2, <2>4 DEF Searching
<1>11. CASE SortVictim(t)
  <2>1. op[t].pc = "unsorted" BY <1>11 DEF SortVictim, Unsorted, Holds
  <2> PICK call : call = [op[t] EXCEPT !.iters = @ + 1, !.sorted = @ + 1] BY Zenon
  <2>2. \/ \E v : Got(t, v)
        \/ op' = [op EXCEPT ![t] = [call EXCEPT !.pc = IF call.iters >= MaxIters THEN "fit" ELSE @]]
    BY <1>11, Zenon DEF SortVictim
  <2>3. op' = [op EXCEPT ![t] = [call EXCEPT !.pc = IF call.iters >= MaxIters THEN "fit" ELSE @]]
    BY <2>2, GotQuiet
  <2>4. op'[t] = [call EXCEPT !.pc = IF call.iters >= MaxIters THEN "fit" ELSE @]
    BY <1>0, <2>3, Zenon
  <2>5. op'[t].nb = call.nb /\ call.nb = op[t].nb BY <1>0, <2>4 DEF CallFields
  <2>6. bins[op[t].nb] = <<>> BY <1>8, <2>1, <2>5 DEF Searching
  <2> QED BY <1>11, <2>5, <2>6, SortedElsewhere
<1>12. CASE \/ UnsortedDone(t) \/ SearchAgain(t) \/ ConsolidateBegin(t) \/ ConsolidateDetach(t)
            \/ ConsolidateChunk(t) \/ ConsolidateEnd(t)
  <2>1. op'[t].nb = op[t].nb /\ Searching(op[t]) BY <1>12, SearchingSteps
  <2>2. op[t].pc # "int_malloc" BY <2>1 DEF Searching
  <2>3. bins[op'[t].nb] = <<>> /\ op'[t].nb \in BinIndices BY <1>8, <2>1, <2>2
  <2> QED BY <1>12, <2>3, SearchingBins DEF OwnInv
<1> QED BY <1>1, <1>2, <1>3, <1>4, <1>5, <1>6, <1>7, <1>9, <1>10, <1>11, <1>12 DEF Step

(* Lemma: so every step keeps the small bins that are passed by empty.     *)
LEMMA PassedNext == OwnInv /\ LockInv /\ PassedBy /\ [Next]_vars => PassedBy'
<1> SUFFICES ASSUME OwnInv, LockInv, PassedBy, [Next]_vars PROVE PassedBy' OBVIOUS
<1>1. CASE UNCHANGED vars
  BY <1>1 DEF vars, binVars, PassedBy, Searching, InSmallbinRange
<1>2. ASSUME NEW t \in Threads, Step(t) \/ Call(t) PROVE PassedBy'
  <2>1. \A u \in Threads \ {t} : op'[u] = op[u] BY <1>2, StepMoves DEF Moves, LockInv
  <2>2. ASSUME NEW u \in Threads, Searching(op'[u]), InSmallbinRange(op'[u].nb)
        PROVE  bins'[op'[u].nb] = <<>>
    <3>1. CASE u = t BY <1>2, <2>2, <3>1, SearcherPasses
    <3>2. CASE u # t
      <4>1. op'[u] = op[u] BY <2>1, <3>2
      <4>2. op[u].pc \in LockedPCs BY <2>2, <4>1 DEF Searching, LockedPCs
      <4>3. lock = u BY <4>2 DEF LockInv, LockHeld
      <4>4. lock \notin {None, t} BY <3>2, <4>3, ArenaAssumption
      <4>5. UNCHANGED bins BY <1>2, <4>4, BinsGuarded
      <4> QED BY <2>2, <4>1, <4>5 DEF PassedBy
    <3> QED BY <3>1, <3>2
  <2>3. \A u \in Threads : Searching(op[u])' = Searching(op'[u]) BY DEF Searching
  <2> QED BY <2>2, <2>3 DEF PassedBy, InSmallbinRange
<1> QED BY <1>1, <1>2 DEF Next

(* Lemma: no call is in a search at first.                                 *)
LEMMA PassedInit == Init => PassedBy
<1> SUFFICES ASSUME Init PROVE PassedBy OBVIOUS
<1>1. \A t \in Threads : op[t] = Idle BY DEF Init
<1>2. \A t \in Threads : ~Searching(op[t]) BY <1>1, IdleFields, QuietCall DEF Promising
<1> QED BY <1>2 DEF PassedBy

(* Lemma: of two chunks in one bin the later is no larger.                 *)
LEMMA LaterSmaller ==
  ASSUME OwnInv, NEW i \in BinIndices, NEW m \in DOMAIN bins[i], NEW n \in DOMAIN bins[i],
         m <= n
  PROVE  hdr[bins[i][n]].sz <= hdr[bins[i][m]].sz
<1>1. /\ bins[i] \in Seq(Int) /\ Descends(bins[i], hdr) /\ ToSet(bins[i]) \subseteq DOMAIN hdr
  BY ListsAre DEF Once
<1>2. m \in Nat /\ n \in Nat /\ bins[i][m] \in ToSet(bins[i]) /\ bins[i][n] \in ToSet(bins[i])
  BY <1>1 DEF ToSet
<1>3. hdr[bins[i][m]].sz \in Nat /\ hdr[bins[i][n]].sz \in Nat BY <1>1, <1>2, AddressOf
<1>4. CASE m = n BY <1>3, <1>4
<1>5. CASE m < n
  <2>1. Before(bins[i], bins[i][m], bins[i][n]) BY <1>5 DEF Before
  <2>2. hdr[bins[i][m]].sz >= hdr[bins[i][n]].sz BY <1>1, <2>1 DEF Descends
  <2> QED BY <1>3, <2>2
<1> QED BY <1>2, <1>4, <1>5

(* Lemma: of two chunks in different bins the one in the larger bin is     *)
(* larger.                                                                 *)
LEMMA LargerBin ==
  ASSUME OwnInv, NEW i \in BinIndices, NEW j \in BinIndices, i < j,
         NEW c \in ToSet(bins[i]), NEW d \in ToSet(bins[j])
  PROVE  hdr[c].sz <= hdr[d].sz
<1>1. /\ c \in DOMAIN hdr /\ d \in DOMAIN hdr
      /\ BinIndex(hdr[c].sz) = i /\ BinIndex(hdr[d].sz) = j
  BY ListsAre
<1>2. hdr[c].sz \in Nat /\ hdr[d].sz \in Nat BY <1>1, AddressOf
<1>3. i \in Int /\ j \in Int BY <1>1, <1>2, IndexMono
<1> SUFFICES ASSUME ~(hdr[c].sz <= hdr[d].sz) PROVE FALSE OBVIOUS
<1>4. hdr[d].sz <= hdr[c].sz BY <1>2
<1>5. j <= i BY <1>1, <1>2, <1>4, IndexMono
<1> QED BY <1>3, <1>5

(* Lemma: where a chunk that fits can be: in the bin of a large request,   *)
(* or in a larger one that the binmap marks.                               *)
LEMMA FitsWhere ==
  ASSUME OwnInv, BinmapInv, PassedBy, NEW t \in Threads, op[t].pc = "fit",
         NEW c \in ListsOf(bins), hdr[c].sz >= op[t].nb
  PROVE  \E j \in BinIndices :
           /\ c \in ToSet(bins[j]) /\ BinIndex(op[t].nb) \in BinIndices
           /\ \/ j = BinIndex(op[t].nb) /\ OwnBinFits(op[t].nb)
              \/ j \in Larger(op[t].nb)
<1> PICK nb : nb = op[t].nb OBVIOUS
<1>1. nb \in Int /\ nb >= MINSIZE BY SearchFacts DEF InSearch
<1>2. nb \in Nat BY <1>1 DEF MINSIZE
<1>3. BinIndex(nb) \in BinIndices /\ (InSmallbinRange(nb) => BinIndex(nb) = nb)
  BY <1>1, <1>2, IndexIs
<1>4. PICK j \in BinIndices : c \in ToSet(bins[j]) BY DEF ListsOf, OwnInv, Shaped
<1>5. c \in DOMAIN hdr /\ BinIndex(hdr[c].sz) = j /\ bins[j] \in Seq(Int)
  BY <1>4, ListsAre DEF Once
<1>6. hdr[c].sz \in Nat BY <1>5, AddressOf
<1>7. bins[j] # <<>> BY <1>4, <1>5, ListIs
<1>8. BinIndex(nb) <= j /\ BinIndex(nb) \in Int /\ j \in Int
  BY <1>2, <1>5, <1>6, IndexMono
<1>9. CASE j = BinIndex(nb)
  <2>1. ~InSmallbinRange(nb)
    <3> SUFFICES ASSUME InSmallbinRange(nb) PROVE FALSE OBVIOUS
    <3>1. bins[nb] = <<>> BY DEF PassedBy, Searching
    <3> QED BY <1>3, <1>7, <1>9, <3>1
  <2>2. PICK k \in DOMAIN bins[j] : c = bins[j][k] BY <1>4 DEF ToSet
  <2>3. 1 \in DOMAIN bins[j] /\ 1 <= k /\ Head(bins[j]) = bins[j][1]
    BY <1>5, <1>7, <2>2
  <2>4. hdr[c].sz <= hdr[Head(bins[j])].sz BY <2>2, <2>3, LaterSmaller
  <2>5. bins[j][1] \in ToSet(bins[j]) BY <2>3 DEF ToSet
  <2>6. hdr[Head(bins[j])].sz \in Nat BY <1>4, <2>3, <2>5, ListsAre, AddressOf
  <2>7. hdr[Head(bins[j])].sz >= nb BY <1>1, <1>6, <2>4, <2>6
  <2> QED BY <1>3, <1>4, <1>7, <1>9, <2>1, <2>7 DEF OwnBinFits
<1>10. CASE j > BinIndex(nb)
  <2>1. j \in binmap BY <1>7 DEF BinmapInv, BinmapCovers
  <2>2. j \in Larger(nb) BY <1>7, <1>10, <2>1, SMTT(40) DEF Larger
  <2> QED BY <1>3, <1>4, <2>2
<1> QED BY <1>8, <1>9, <1>10

(* Lemma: the search of a large request's own bin finds the best fit.      *)
LEMMA BestOfOwn ==
  ASSUME OwnInv, BinmapInv, PassedBy, LockInv, NEW t \in Threads, BestFit(t)
  PROVE  LET fits == {c \in ListsOf(bins) : hdr[c].sz >= op[t].nb}
         IN  op'[t].v \in fits /\ \A c \in fits : hdr[op'[t].v].sz <= hdr[c].sz
<1> PICK nb : nb = op[t].nb OBVIOUS
<1> PICK i : i = BinIndex(nb) OBVIOUS
<1> PICK b : b = bins[i] OBVIOUS
<1> PICK n : n = FitPlace(b, nb) OBVIOUS
<1> PICK v : v = b[n] OBVIOUS
<1>0. Holds(t, "fit") /\ OwnBinFits(nb) BY Zenon DEF BestFit
<1>1. op[t].pc = "fit" /\ b # <<>> /\ hdr[Head(b)].sz >= nb
  BY <1>0, Zenon DEF Holds, OwnBinFits
<1>2. TakeFromBin(t, BinIndex(op[t].nb),
                  bins[BinIndex(op[t].nb)][FitPlace(bins[BinIndex(op[t].nb)], op[t].nb)], FALSE)
  BY Zenon DEF BestFit, FitPlace, FitHead, FitSize, FitsIn
<1>3. Got(t, v) BY <1>2, Zenon DEF TakeFromBin
<1>4. op'[t].v = v BY <1>3 DEF Got, LockInv, CallOK, CallFields
<1>5. nb \in Int /\ nb >= MINSIZE BY <1>1, SearchFacts DEF InSearch
<1>6. i \in BinIndices BY <1>5, IndexIs DEF MINSIZE
<1>7. b \in Seq(Int) BY <1>6, ListsAre DEF Once
<1>8. n \in DOMAIN b /\ hdr[v].sz = FitSize(b, nb) BY <1>1, <1>5, <1>7, FitFound
<1>9. PICK m \in FitsIn(b, nb) : hdr[b[m]].sz = FitSize(b, nb) /\ \A k \in FitsIn(b, nb) : k <= m
  BY <1>1, <1>5, <1>7, FitFound, ZenonT(40)
<1>10. m \in DOMAIN b /\ hdr[b[m]].sz >= nb /\ hdr[v].sz = hdr[b[m]].sz
  BY <1>8, <1>9 DEF FitsIn
<1>11. v \in ToSet(bins[i]) /\ hdr[v].sz >= nb BY <1>8, <1>10 DEF ToSet
<1>12. v \in ListsOf(bins) BY <1>6, <1>11 DEF ListsOf, OwnInv, Shaped
<1>13. ASSUME NEW c \in ListsOf(bins), hdr[c].sz >= nb PROVE hdr[v].sz <= hdr[c].sz
  <2>1. PICK j \in BinIndices : c \in ToSet(bins[j]) /\ (j = i \/ j \in Larger(nb))
    BY <1>1, <1>13, FitsWhere
  <2>2. CASE j = i
    <3>1. PICK k \in DOMAIN b : c = b[k] BY <2>1, <2>2 DEF ToSet
    <3>2. k <= m BY <1>9, <1>13, <3>1 DEF FitsIn
    <3> QED BY <1>6, <1>10, <3>1, <3>2, LaterSmaller
  <2>3. CASE j \in Larger(nb)
    <3>1. j > i BY <2>3 DEF Larger
    <3>2. i \in Int /\ j \in Int BY <1>6 DEF BinIndices
    <3>3. i < j BY <3>1, <3>2
    <3> QED BY <1>6, <1>11, <2>1, <3>3, LargerBin
  <2> QED BY <2>1, <2>2, <2>3
<1> QED BY <1>4, <1>11, <1>12, <1>13

(* Lemma: so does the scan of the larger bins, when the own bin has none.  *)
LEMMA BestOfLarger ==
  ASSUME OwnInv, BinmapInv, PassedBy, LockInv, NEW t \in Threads, ScanBins(t)
  PROVE  LET fits == {c \in ListsOf(bins) : hdr[c].sz >= op[t].nb}
         IN  fits # {} => op'[t].v \in fits /\ \A c \in fits : hdr[op'[t].v].sz <= hdr[c].sz
<1> PICK nb : nb = op[t].nb OBVIOUS
<1> PICK L : L = Larger(nb) OBVIOUS
<1> PICK i : i = CHOOSE n \in L : \A m \in L : n <= m OBVIOUS
<1> PICK v : v = Last(bins[i]) BY Zenon
<1>1. /\ op[t].pc = "fit" /\ L # {} /\ ~OwnBinFits(nb)
      /\ \E r : TakeFromBin(t, i, v, r)
  BY DEF ScanBins, Holds
<1>2. Got(t, v) BY <1>1, Zenon DEF TakeFromBin
<1>3. op'[t].v = v BY <1>2 DEF Got, LockInv, CallOK, CallFields
<1>4. nb \in Int /\ nb >= MINSIZE BY <1>1, SearchFacts DEF InSearch
<1>5. nb \in Nat BY <1>4 DEF MINSIZE
<1>6. binmap \subseteq BinIndices /\ BinIndices \subseteq Nat
  BY ArenaAssumption, SMTT(40) DEF OwnInv, Shaped, BinIndices, MINSIZE
<1>7. L \subseteq Nat /\ L \subseteq BinIndices BY <1>6, Zenon DEF Larger
<1>8. i \in L /\ \A m \in L : i <= m BY <1>1, <1>7, LeastNumber
<1>9. i \in BinIndices /\ i > BinIndex(nb) /\ bins[i] # <<>> BY <1>7, <1>8 DEF Larger
<1>10. v \in ToSet(bins[i]) /\ v \in DOMAIN hdr /\ BinIndex(hdr[v].sz) = i
  BY <1>9, LastLists, Zenon
<1>11. hdr[v].sz \in Nat BY <1>10, AddressOf
<1>12. hdr[v].sz >= nb
  <2> SUFFICES ASSUME ~(hdr[v].sz >= nb) PROVE FALSE OBVIOUS
  <2>1. hdr[v].sz <= nb BY <1>5, <1>11
  <2>2. i <= BinIndex(nb) /\ BinIndex(nb) \in Int /\ i \in Int
    BY <1>5, <1>10, <1>11, <2>1, IndexMono
  <2> QED BY ONLY <1>9, <2>2
<1>13. v \in ListsOf(bins) BY <1>9, <1>10 DEF ListsOf, OwnInv, Shaped
<1>14. ASSUME NEW c \in ListsOf(bins), hdr[c].sz >= nb PROVE hdr[v].sz <= hdr[c].sz
  <2>1. PICK j \in BinIndices : c \in ToSet(bins[j]) /\ j \in L
    BY <1>1, <1>14, FitsWhere
  <2>2. i <= j /\ i \in Nat /\ j \in Nat BY <1>7, <1>8, <2>1
  <2>3. CASE i = j
    <3>1. PICK k \in DOMAIN bins[i] : c = bins[i][k] BY <2>1, <2>3 DEF ToSet
    <3>2. bins[i] \in Seq(Int) BY <1>9, ListsAre DEF Once
    <3>3. Len(bins[i]) \in DOMAIN bins[i] /\ k <= Len(bins[i]) BY <1>9, <3>1, <3>2
    <3>4. v = bins[i][Len(bins[i])] BY DEF Last
    <3> QED BY <1>9, <3>1, <3>3, <3>4, LaterSmaller
  <2>4. CASE i < j BY <1>9, <1>10, <2>1, <2>4, LargerBin
  <2> QED BY <2>2, <2>3, <2>4
<1> QED BY <1>3, <1>12, <1>13, <1>14

(* Lemma: only a step of the searching thread answers the search, and when *)
(* a chunk of a bin fits, only by taking one of them.                      *)
LEMMA FitAnswers ==
  ASSUME OwnInv, LockInv, BinmapInv, PassedBy, Next, NEW t \in Threads,
         op[t].pc = "fit", op'[t].pc = "got", ~op[t].cached,
         NEW c \in ListsOf(bins), hdr[c].sz >= op[t].nb
  PROVE  BestFit(t) \/ ScanBins(t)
<1>1. PICK u \in Threads : Step(u) \/ Call(u) BY DEF Next
<1>2. u = t
  <2> SUFFICES ASSUME u # t PROVE FALSE OBVIOUS
  <2>1. op'[t] = op[t] BY <1>1, StepMoves DEF Moves, LockInv
  <2> QED BY <2>1
<1>3. ~NoBinFits(t) BY FitsWhere DEF NoBinFits
<1>4. ~(UseTop(t) \/ SearchAgain(t) \/ SysMalloc(t)) BY <1>3 DEF UseTop, SearchAgain, SysMalloc
<1>5. ~ReturnCached(t) BY DEF ReturnCached
<1>6. ~Call(t)
  <2> SUFFICES ASSUME Call(t) PROVE FALSE OBVIOUS
  <2>1. op[t].pc = "idle" BY Zenon DEF Call, Malloc, Free, Realloc, Memalign, MallocTrim
  <2> QED BY <2>1
<1>7. ~(\/ TakeFast(t) \/ StashFast(t) \/ TakeSmall(t) \/ StashSmall(t) \/ StartSearch(t)
        \/ SplitRemainder(t) \/ ExactFit(t) \/ SortVictim(t) \/ UnsortedDone(t))
  BY Zenon
    DEF TakeFast, StashFast, TakeSmall, StashSmall, StartSearch, SplitRemainder, ExactFit,
        SortVictim, UnsortedDone, Unsorted, Holds
<1>8. ~(\/ ConsolidateBegin(t) \/ ConsolidateDetach(t) \/ ConsolidateChunk(t)
        \/ ConsolidateEnd(t) \/ SysTrim(t) \/ FreeFlag(t) \/ FreePush(t) \/ FreeMerge(t)
        \/ Done(t))
  BY Zenon
    DEF ConsolidateBegin, ConsolidateDetach, ConsolidateChunk, ConsolidateEnd, SysTrim,
        FreeFlag, FreePush, FreeMerge, Done, Holds
<1>9. ~(\/ MallocGot(t) \/ ReallocGot(t) \/ ReallocRetry(t) \/ RetryGot(t)
        \/ MemalignGot(t) \/ MemalignTail(t))
  BY Zenon DEF MallocGot, ReallocGot, ReallocRetry, RetryGot, MemalignGot, MemalignTail, Holds
<1> QED BY <1>1, <1>2, <1>4, <1>5, <1>6, <1>7, <1>8, <1>9 DEF Step

(* Theorem: the search is best fit, for any bins, sizes and threads: when  *)
(* a bin holds a chunk that is large enough, the result is the smallest    *)
(* such chunk, and neither is top split nor the heap grown.                *)
THEOREM ArenaBestFit == Spec => BestFitChosen
<1> DEFINE Body ==
      \A t \in Threads :
        LET fits == {c \in ListsOf(bins) : hdr[c].sz >= op[t].nb}
        IN  op[t].pc = "fit" /\ op'[t].pc = "got" /\ ~op[t].cached /\ fits # {}
              => /\ op'[t].v \in fits
                 /\ \A c \in fits : hdr[op'[t].v].sz <= hdr[c].sz
<1>1. OwnInv /\ LockInv /\ BinmapInv /\ PassedBy /\ [Next]_vars => [Body]_vars
  <2> SUFFICES ASSUME OwnInv, LockInv, BinmapInv, PassedBy, Next PROVE Body OBVIOUS
  <2> SUFFICES ASSUME NEW t \in Threads, op[t].pc = "fit", op'[t].pc = "got", ~op[t].cached,
                      {c \in ListsOf(bins) : hdr[c].sz >= op[t].nb} # {}
               PROVE  LET fits == {c \in ListsOf(bins) : hdr[c].sz >= op[t].nb}
                      IN  op'[t].v \in fits /\ \A c \in fits : hdr[op'[t].v].sz <= hdr[c].sz
    OBVIOUS
  <2>1. PICK c \in ListsOf(bins) : hdr[c].sz >= op[t].nb OBVIOUS
  <2>2. BestFit(t) \/ ScanBins(t) BY <2>1, FitAnswers
  <2> QED BY <2>2, BestOfOwn, BestOfLarger
<1>2. Init /\ [][Next]_vars => []BinmapInv BY BinmapInit, BinmapNext, PTL
<1> QED
  BY <1>1, <1>2, OwnInit, OwnNext, LockInit, LockNext, CacheInit, CacheNext, PassedInit,
     PassedNext, PTL DEF Spec, BestFitChosen
=============================================================================
