------------------------- MODULE ScallocHeapProofs -------------------------
(***************************************************************************)
(* The boundary-tag heap keeps its tiling, its tags and its coalescing,    *)
(* for every heap limit.                                                   *)
(***************************************************************************)
EXTENDS ScallocCalloc, TLAPS

(* The headers of a heap with top chunk tp: Tiling and the typing of the   *)
(* headers as one predicate on values, with the chunk before every chunk   *)
(* named, which stepping backward needs.  The least size is in Sized: the   *)
(* tail that memalign frees may be smaller until it joins its neighbour.   *)
Header == [sz : Nat, pinuse : BOOLEAN, psz : Nat]

Laid(h, tp) ==
  /\ DOMAIN h \subseteq Nat /\ h \in [DOMAIN h -> Header]
  /\ 0 \in DOMAIN h /\ tp \in DOMAIN h
  /\ \A c \in DOMAIN h \ {tp} : h[c].sz > 0 /\ Next_(h, c) \in DOMAIN h
  /\ \A c \in DOMAIN h \ {tp}, d \in DOMAIN h : d <= c \/ Next_(h, c) <= d
  /\ \A d \in DOMAIN h : d <= tp
  /\ \A d \in DOMAIN h \ {0} : \E c \in DOMAIN h \ {tp} : Next_(h, c) = d

(* Which chunks are free, as the tags say it.                              *)
Tagged(h, tp, F) ==
  /\ F \subseteq DOMAIN h \ {tp}
  /\ h[0].pinuse
  /\ \A c \in DOMAIN h : h[c].pinuse => h[c].psz = 0
  /\ \A c \in DOMAIN h \ {tp} :
       /\ h[Next_(h, c)].pinuse <=> c \notin F
       /\ c \in F => h[Next_(h, c)].psz = h[c].sz

Sized(h, tp) == \A c \in DOMAIN h \ {tp} : h[c].sz >= MINSIZE

Apart(h, tp, F) == \A c \in F : Next_(h, c) # tp /\ Next_(h, c) \notin F

(* Lemma: a chunk other than top ends after it starts, and not beyond top. *)
LEMMA NextTyped ==
  ASSUME NEW h, NEW tp, Laid(h, tp), NEW c \in DOMAIN h \ {tp}
  PROVE  /\ c \in Nat /\ tp \in Nat /\ h[c].sz \in Nat /\ Next_(h, c) \in Nat
         /\ c < Next_(h, c) /\ Next_(h, c) <= tp
         /\ Next_(h, c) \in DOMAIN h
BY DEF Laid, Header, Next_

(* Lemma: headers with the same chunks of the same sizes tile alike.       *)
LEMMA SameLaid ==
  ASSUME NEW h, NEW tp, Laid(h, tp), NEW g, g \in [DOMAIN h -> Header],
         \A c \in DOMAIN h : g[c].sz = h[c].sz
  PROVE  Laid(g, tp)
<1>1. DOMAIN g = DOMAIN h
  OBVIOUS
<1>2. \A c \in DOMAIN h : Next_(g, c) = Next_(h, c)
  BY DEF Next_
<1> QED
  BY <1>1, <1>2 DEF Laid

(* Lemma: a chunk cut in two; if it was top, the second part is the new    *)
(* top.                                                                    *)
LEMMA CutLaid ==
  ASSUME NEW h, NEW tp, Laid(h, tp), NEW c \in DOMAIN h, NEW nb \in Nat,
         nb > 0, h[c].sz > nb,
         NEW g, g \in [DOMAIN h \cup {c + nb} -> Header],
         g[c].sz = nb, g[c + nb].sz = h[c].sz - nb,
         \A d \in DOMAIN h \ {c} : g[d].sz = h[d].sz
  PROVE  /\ c + nb \notin DOMAIN h
         /\ Laid(g, IF c = tp THEN c + nb ELSE tp)
<1> DEFINE tq == IF c = tp THEN c + nb ELSE tp
<1>1. /\ DOMAIN g = DOMAIN h \cup {c + nb} /\ DOMAIN h \subseteq Nat
      /\ c \in Nat /\ tp \in Nat /\ 0 \in DOMAIN h /\ tp \in DOMAIN h
      /\ \A d \in DOMAIN h : h[d].sz \in Nat
  BY DEF Laid, Header
<1>2. c + nb \notin DOMAIN h
  BY <1>1 DEF Laid, Header, Next_
<1>3. /\ Next_(g, c) = c + nb /\ (c # tp => Next_(g, c + nb) = Next_(h, c))
      /\ \A d \in DOMAIN h \ {c} : Next_(g, d) = Next_(h, d)
  BY <1>1, <1>2 DEF Next_
<1>4. \A d \in DOMAIN g \ {tq} : g[d].sz > 0 /\ Next_(g, d) \in DOMAIN g
  BY <1>1, <1>2, <1>3 DEF Laid
<1>5. \A d \in DOMAIN g \ {tq}, e \in DOMAIN g : e <= d \/ Next_(g, d) <= e
  BY <1>1, <1>2, <1>3 DEF Laid, Next_
<1>6. \A d \in DOMAIN g : d <= tq
  BY <1>1, <1>2 DEF Laid, Next_
<1>7. \A d \in DOMAIN g \ {0} : \E e \in DOMAIN g \ {tq} : Next_(g, e) = d
  <2> TAKE d \in DOMAIN g \ {0}
  <2>1. CASE d = c + nb
    BY <2>1, <1>1, <1>2, <1>3
  <2>2. CASE d # c + nb
    <3>1. PICK e \in DOMAIN h \ {tp} : Next_(h, e) = d
      BY <2>2, <1>1 DEF Laid
    <3>2. CASE e = c
      BY <3>1, <3>2, <1>1, <1>2, <1>3
    <3>3. CASE e # c
      BY <3>1, <3>3, <1>1, <1>2, <1>3
    <3> QED
      BY <3>2, <3>3
  <2> QED
    BY <2>1, <2>2
<1>8. tq \in DOMAIN g /\ 0 \in DOMAIN g /\ DOMAIN g \subseteq Nat
  BY <1>1
<1> QED
  BY <1>1, <1>2, <1>4, <1>5, <1>6, <1>7, <1>8 DEF Laid

(* Lemma: a chunk joined with the one after it; if that was top, the       *)
(* result is the new top.                                                  *)
Fused(h, c, n, g) ==
  /\ n = Next_(h, c)
  /\ g \in [DOMAIN h \ {n} -> Header]
  /\ g[c].sz = h[c].sz + h[n].sz
  /\ \A d \in DOMAIN h \ {c, n} : g[d].sz = h[d].sz

(* Lemma: joining two chunks keeps the tiling, and joining a chunk with    *)
(* top makes it top.                                                       *)
LEMMA FuseLaid ==
  ASSUME NEW h, NEW tp, Laid(h, tp), NEW c \in DOMAIN h \ {tp}, NEW n, NEW g, Fused(h, c, n, g)
  PROVE  Laid(g, IF n = tp THEN c ELSE tp)
<1> DEFINE tq == IF n = tp THEN c ELSE tp
<1>1. /\ DOMAIN g = DOMAIN h \ {n} /\ DOMAIN h \subseteq Nat
      /\ c \in Nat /\ tp \in Nat /\ 0 \in DOMAIN h /\ tp \in DOMAIN h
      /\ \A d \in DOMAIN h : h[d].sz \in Nat
      /\ n \in DOMAIN h /\ n \in Nat /\ c < n /\ c # n
  BY NextTyped DEF Laid, Header, Fused
<1>2. /\ n # tp => Next_(g, c) = Next_(h, n) /\ Next_(h, n) # n
      /\ \A d \in DOMAIN h \ {c, n} : Next_(g, d) = Next_(h, d)
      /\ \A d \in DOMAIN h \ {c, n, tp} : Next_(h, d) # n
  <2>1. n # tp => Next_(g, c) = Next_(h, n) /\ Next_(h, n) # n
    BY <1>1 DEF Next_, Laid, Fused
  <2>2. \A d \in DOMAIN h \ {c, n} : Next_(g, d) = Next_(h, d)
    BY <1>1 DEF Next_, Fused
  <2>3. \A d \in DOMAIN h \ {c, n, tp} : Next_(h, d) # n
    BY <1>1 DEF Next_, Laid, Fused
  <2> QED
    BY <2>1, <2>2, <2>3
<1>4. \A d \in DOMAIN g \ {tq} : g[d].sz > 0 /\ Next_(g, d) \in DOMAIN g
  BY <1>1, <1>2 DEF Laid, Fused
<1>5. \A d \in DOMAIN g \ {tq}, e \in DOMAIN g : e <= d \/ Next_(g, d) <= e
  BY <1>1, <1>2 DEF Laid, Next_, Fused
<1>6. \A d \in DOMAIN g : d <= tq
  BY <1>1 DEF Laid, Next_, Fused
<1>7. \A d \in DOMAIN g \ {0} : \E e \in DOMAIN g \ {tq} : Next_(g, e) = d
  <2> TAKE d \in DOMAIN g \ {0}
  <2>1. PICK e \in DOMAIN h \ {tp} : Next_(h, e) = d
    BY <1>1 DEF Laid
  <2>2. CASE e = n
    BY <2>1, <2>2, <1>1, <1>2
  <2>3. CASE e # n
    BY <2>1, <2>3, <1>1, <1>2 DEF Fused
  <2> QED
    BY <2>2, <2>3
<1>8. tq \in DOMAIN g /\ 0 \in DOMAIN g /\ DOMAIN g \subseteq Nat
  BY <1>1
<1> QED
  BY <1>1, <1>4, <1>5, <1>6, <1>7, <1>8 DEF Laid, Fused
Good(h, tp, F) == Laid(h, tp) /\ Tagged(h, tp, F) /\ Apart(h, tp, F)

(* Lemma: two chunks have different ends.                                  *)
LEMMA EndsDiffer ==
  ASSUME NEW h, NEW tp, Laid(h, tp), NEW c \in DOMAIN h \ {tp}, NEW d \in DOMAIN h \ {tp},
         Next_(h, c) = Next_(h, d)
  PROVE  c = d
BY DEF Laid, Header, Next_

(* Lemma: what SetInuse does to the headers.                               *)
LEMMA SetInuseShape ==
  ASSUME NEW h, h \in [DOMAIN h -> Header], NEW c, Next_(h, c) \in DOMAIN h
  PROVE  /\ SetInuse(h, c) \in [DOMAIN h -> Header] /\ DOMAIN SetInuse(h, c) = DOMAIN h
         /\ SetInuse(h, c)[Next_(h, c)].pinuse /\ SetInuse(h, c)[Next_(h, c)].psz = 0
         /\ \A d \in DOMAIN h : /\ SetInuse(h, c)[d].sz = h[d].sz
                                /\ d # Next_(h, c) => SetInuse(h, c)[d] = h[d]
BY DEF SetInuse, Header

(* Lemma: a free chunk taken whole.                                        *)
LEMMA TakeGood ==
  ASSUME NEW h, NEW tp, NEW F, Good(h, tp, F), NEW c \in F
  PROVE  /\ Good(SetInuse(h, c), tp, F \ {c})
         /\ Sized(h, tp) => Sized(SetInuse(h, c), tp)
<1> DEFINE g == SetInuse(h, c)  n == Next_(h, c)
<1>1. /\ c \in DOMAIN h \ {tp} /\ n \in DOMAIN h /\ h \in [DOMAIN h -> Header]
  BY NextTyped DEF Good, Tagged, Laid
<1>2. /\ g \in [DOMAIN h -> Header] /\ DOMAIN g = DOMAIN h
      /\ g[n].pinuse /\ g[n].psz = 0 
      /\ \A d \in DOMAIN h : g[d].sz = h[d].sz /\ (d # n => g[d] = h[d])
  BY <1>1 DEF SetInuse, Header
<1>3. \A d \in DOMAIN h : Next_(g, d) = Next_(h, d)
  BY <1>2 DEF Next_
<1>4. Laid(g, tp)
  BY <1>2, SameLaid DEF Good
<1>5. n # 0 /\ \A d \in DOMAIN h \ {tp} : Next_(h, d) = n => d = c
  BY <1>1, NextTyped, EndsDiffer DEF Good
<1>6. Tagged(g, tp, F \ {c})
  <2>1. g[0].pinuse /\ \A d \in DOMAIN g : g[d].pinuse => g[d].psz = 0
    BY <1>1, <1>2, <1>5 DEF Good, Tagged, Laid
  <2>2. ASSUME NEW d \in DOMAIN g \ {tp}
        PROVE  /\ g[Next_(g, d)].pinuse <=> d \notin F \ {c}
               /\ d \in F \ {c} => g[Next_(g, d)].psz = g[d].sz
    <3>1. Next_(h, d) \in DOMAIN h /\ d \in DOMAIN h \ {tp}
      BY <1>2, NextTyped DEF Good
    <3>2. CASE d = c
      BY <3>2, <1>1, <1>2, <1>3
    <3>3. CASE d # c
      <4>1. g[Next_(h, d)] = h[Next_(h, d)]
        BY <3>1, <3>3, <1>2, <1>5
      <4> QED
        BY <3>1, <3>3, <4>1, <1>2, <1>3 DEF Good, Tagged
    <3> QED
      BY <3>2, <3>3
  <2> QED
    BY <2>1, <2>2, <1>2 DEF Good, Tagged
<1>7. Apart(g, tp, F \ {c})
  BY <1>1, <1>2, <1>3 DEF Good, Tagged, Apart
<1> QED
  BY <1>2, <1>4, <1>6, <1>7 DEF Good, Sized

(* Lemma: a chunk that is not free cut in two, both in use.                *)
LEMMA CutTagged ==
  ASSUME NEW h, NEW tp, NEW F, Laid(h, tp), Tagged(h, tp, F), NEW c \in DOMAIN h, c \notin F,
         NEW nb \in Nat, nb > 0, h[c].sz > nb
  PROVE  /\ c + nb \notin DOMAIN h
         /\ Laid(CutAt(h, c, nb), IF c = tp THEN c + nb ELSE tp)
         /\ Tagged(CutAt(h, c, nb), IF c = tp THEN c + nb ELSE tp, F)
         /\ \A d \in F : Next_(CutAt(h, c, nb), d) = Next_(h, d)
<1> DEFINE g == CutAt(h, c, nb)  tq == IF c = tp THEN c + nb ELSE tp
<1>1. /\ h \in [DOMAIN h -> Header] /\ DOMAIN h \subseteq Nat /\ c \in Nat /\ h[c].sz \in Nat
      /\ h[c] \in Header
  BY DEF Laid, Header
<1>2. /\ DOMAIN g = DOMAIN h \cup {c + nb}
      /\ g[c] = [h[c] EXCEPT !.sz = nb]
      /\ \A d \in DOMAIN h \ {c, c + nb} : g[d] = h[d]
      /\ g[c + nb] = [sz |-> h[c].sz - nb, pinuse |-> TRUE, psz |-> 0]
  BY <1>1 DEF CutAt
<1>3. h[c].sz - nb \in Nat /\ c + nb \in Nat
  BY <1>1
<1>4. g \in [DOMAIN h \cup {c + nb} -> Header]
  <2> SUFFICES ASSUME NEW d \in DOMAIN h \cup {c + nb} PROVE g[d] \in Header
    BY DEF CutAt
  <2>1. CASE d = c
    BY <2>1, <1>1, <1>2 DEF Header
  <2>2. CASE d = c + nb
    BY <2>2, <1>1, <1>2, <1>3 DEF Header
  <2>3. CASE d \in DOMAIN h \ {c, c + nb}
    BY <2>3, <1>1, <1>2
  <2> QED
    BY <2>1, <2>2, <2>3
<1>5. c + nb \notin DOMAIN h
  BY <1>1 DEF Laid, Next_
<1>6. g[c].sz = nb /\ g[c].pinuse = h[c].pinuse /\ g[c].psz = h[c].psz
  BY <1>1, <1>2 DEF Header
<1>7. Laid(g, tq)
  <2>1. g[c + nb].sz = h[c].sz - nb /\ \A d \in DOMAIN h \ {c} : g[d].sz = h[d].sz
    BY <1>2, <1>5
  <2> HIDE DEF g
  <2> QED
    BY <2>1, <1>4, <1>6, CutLaid
<1>8. /\ Next_(g, c) = c + nb /\ Next_(g, c + nb) = Next_(h, c)
      /\ \A d \in DOMAIN h \ {c} : Next_(g, d) = Next_(h, d)
  BY <1>1, <1>2, <1>5, <1>6 DEF Next_
<1>9. F \subseteq DOMAIN h \ {tp} /\ c + nb \notin F /\ F \subseteq DOMAIN g \ {tq}
  BY <1>2, <1>5 DEF Tagged
<1>10. Tagged(g, tq, F)
  <2>1. g[0].pinuse /\ \A d \in DOMAIN g : g[d].pinuse => g[d].psz = 0
    <3>1. ASSUME NEW d \in DOMAIN h PROVE g[d].pinuse = h[d].pinuse /\ g[d].psz = h[d].psz
      <4>1. CASE d = c
        BY <4>1, <1>6
      <4>2. CASE d # c
        BY <4>2, <1>2, <1>5
      <4> QED
        BY <4>1, <4>2
    <3>2. g[c + nb].psz = 0
      BY <1>2
    <3>3. 0 \in DOMAIN h
      BY DEF Laid
    <3> QED
      BY <3>1, <3>2, <3>3, <1>2 DEF Tagged
  <2>2. ASSUME NEW d \in DOMAIN g \ {tq}
        PROVE  /\ g[Next_(g, d)].pinuse <=> d \notin F
               /\ d \in F => g[Next_(g, d)].psz = g[d].sz
    <3>1. CASE d = c
      BY <3>1, <1>2, <1>8
    <3>2. CASE d = c + nb
      <4>1. c # tp /\ Next_(h, c) \in DOMAIN h /\ Next_(h, c) # c
        BY <2>2, <3>2, NextTyped
      <4>2. Next_(h, c) # c + nb
        BY <4>1, <1>5
      <4> QED
        BY <3>2, <4>1, <4>2, <1>2, <1>8, <1>9 DEF Tagged
    <3>3. CASE d \in DOMAIN h \ {c, tp}
      <4>1. Next_(h, d) \in DOMAIN h
        BY <3>3, NextTyped
      <4>2. g[Next_(h, d)].pinuse = h[Next_(h, d)].pinuse /\ g[Next_(h, d)].psz = h[Next_(h, d)].psz
        BY <4>1, <1>2, <1>5, <1>6
      <4>3. g[d] = h[d]
        BY <3>3, <1>2, <1>5
      <4> QED
        BY <3>3, <4>2, <4>3, <1>8 DEF Tagged
    <3> QED
      BY <2>2, <3>1, <3>2, <3>3, <1>2
  <2> QED
    BY <2>1, <2>2, <1>9 DEF Tagged
<1> QED
  BY <1>5, <1>7, <1>8, <1>9, <1>10

(* Lemma: cutting a chunk that is not free (CutAt: the split of an         *)
(* allocated chunk or of top) keeps tiling, tags and coalescing; the       *)
(* second part is new.                                                     *)
LEMMA CutGood ==
  ASSUME NEW h, NEW tp, NEW F, Good(h, tp, F), NEW c \in DOMAIN h, c \notin F,
         NEW nb \in Nat, nb > 0, h[c].sz > nb
  PROVE  /\ c + nb \notin DOMAIN h
         /\ Good(CutAt(h, c, nb), IF c = tp THEN c + nb ELSE tp, F)
<1>1. /\ c + nb \notin DOMAIN h
      /\ Laid(CutAt(h, c, nb), IF c = tp THEN c + nb ELSE tp)
      /\ Tagged(CutAt(h, c, nb), IF c = tp THEN c + nb ELSE tp, F)
      /\ \A d \in F : Next_(CutAt(h, c, nb), d) = Next_(h, d)
  BY CutTagged DEF Good
<1>2. \A d \in F : Next_(h, d) \in DOMAIN h
  BY NextTyped DEF Good, Tagged
<1>3. Apart(CutAt(h, c, nb), IF c = tp THEN c + nb ELSE tp, F)
  BY <1>1, <1>2 DEF Good, Apart
<1> QED
  BY <1>1, <1>3 DEF Good

(* Lemma: a free chunk split, the rest staying free.                       *)
LEMMA SplitGood ==
  ASSUME NEW h, NEW tp, NEW F, Good(h, tp, F), NEW c \in F, NEW nb \in Nat,
         nb >= MINSIZE, h[c].sz - nb >= MINSIZE
  PROVE  /\ Good(SplitFree(h, c, nb), tp, (F \ {c}) \cup {c + nb})
         /\ Sized(h, tp) => Sized(SplitFree(h, c, nb), tp)
<1> DEFINE t == SetInuse(h, c)  k == CutAt(t, c, nb)  g == SplitFree(h, c, nb)
           n == Next_(h, c)  E == F \ {c}
<1>1. Good(t, tp, E) /\ (Sized(h, tp) => Sized(t, tp))
  BY TakeGood
<1>2. /\ c \in DOMAIN h \ {tp} /\ h \in [DOMAIN h -> Header]
      /\ n \in DOMAIN h /\ c \in Nat /\ h[c].sz \in Nat /\ n \in Nat /\ n = c + h[c].sz
  <2>1. c \in DOMAIN h \ {tp} /\ h \in [DOMAIN h -> Header]
    BY DEF Good, Tagged, Laid
  <2> QED
    BY <2>1, NextTyped DEF Good, Next_
<1>3. n # c /\ n # c + nb
  BY <1>2 DEF MINSIZE
<1>4. /\ t[c] = h[c] /\ t[n].sz = h[n].sz
      /\ \A d \in DOMAIN h : d # n => t[d] = h[d]
      /\ DOMAIN t = DOMAIN h
  BY <1>2, <1>3 DEF SetInuse, Header
<1> HIDE DEF t
<1>5. /\ c + nb \notin DOMAIN h /\ Good(k, tp, E)
      /\ k[c + nb] = [sz |-> h[c].sz - nb, pinuse |-> TRUE, psz |-> 0]
      /\ k[c] = [h[c] EXCEPT !.sz = nb] /\ k[c].sz = nb
      /\ \A d \in DOMAIN h \ {c} : k[d] = t[d]
      /\ DOMAIN k = DOMAIN h \cup {c + nb}
  <2>1. t[c].sz > nb /\ c \notin E /\ c \in DOMAIN t /\ nb > 0
    BY <1>2, <1>4 DEF MINSIZE
  <2> HIDE DEF E
  <2>2. c + nb \notin DOMAIN t /\ Good(CutAt(t, c, nb), IF c = tp THEN c + nb ELSE tp, E)
    BY <1>1, <2>1, CutGood
  <2>3. /\ k[c + nb] = [sz |-> t[c].sz - nb, pinuse |-> TRUE, psz |-> 0]
        /\ k[c] = [t[c] EXCEPT !.sz = nb]
        /\ \A d \in DOMAIN t \ {c} : k[d] = t[d]
        /\ DOMAIN k = DOMAIN t \cup {c + nb}
    BY <2>1, <2>2, <1>2 DEF CutAt, MINSIZE
  <2>4. h[c] \in Header
    BY <1>2
  <2> QED
    BY <2>2, <2>3, <2>4, <1>2, <1>4 DEF Header
<1>6. /\ DOMAIN g = DOMAIN k
      /\ g[n] = [h[n] EXCEPT !.psz = h[c].sz - nb]
      /\ g[c] = [h[c] EXCEPT !.sz = nb]
      /\ g[c + nb] = [sz |-> h[c].sz - nb, pinuse |-> TRUE, psz |-> 0]
      /\ \A d \in DOMAIN h \ {c, n} : g[d] = h[d]
  BY <1>2, <1>3, <1>5 DEF SplitFree, CutAt
<1>7. g = [d \in DOMAIN k |-> g[d]]
  BY <1>6 DEF SplitFree
<1> HIDE DEF g, k
<1>8. h[n].pinuse = FALSE /\ h[n] \in Header /\ h[c] \in Header /\ h[c].sz - nb \in Nat
  <2>1. h[n] \in Header /\ h[c] \in Header
    BY <1>2
  <2>2. ~h[n].pinuse
    BY <1>2 DEF Good, Tagged
  <2> QED
    BY <1>2, <2>1, <2>2 DEF Header, MINSIZE
<1>9. g[n] \in Header /\ g[n].pinuse = FALSE /\ g[n].psz = h[c].sz - nb /\ g[n].sz = k[n].sz
  <2>1. k[n].sz = h[n].sz
    BY <1>2, <1>3, <1>4, <1>5
  <2> QED
    BY <2>1, <1>6, <1>8 DEF Header
<1>10. /\ g[c] \in Header /\ g[c].pinuse = h[c].pinuse /\ g[c].psz = h[c].psz
       /\ g[c].sz = nb /\ g[c + nb] \in Header
  BY <1>6, <1>8 DEF Header
<1>11. \A d \in DOMAIN k : g[d] \in Header /\ g[d].sz = k[d].sz
  BY <1>2, <1>3, <1>4, <1>5, <1>6, <1>9, <1>10, ZenonT(40)
<1>12. \A d \in DOMAIN k : Next_(g, d) = Next_(k, d)
  BY <1>11 DEF Next_
<1>13. Laid(g, tp)
  <2>1. g \in [DOMAIN k -> Header]
    BY <1>7, <1>11
  <2> QED
    BY <2>1, <1>5, <1>11, SameLaid DEF Good
<1>14. Next_(k, c + nb) = n /\ Next_(k, c) = c + nb
  BY <1>2, <1>5 DEF Next_
<1>15. \A d \in DOMAIN k \ {n} : g[d].pinuse = k[d].pinuse /\ g[d].psz = k[d].psz
  BY <1>2, <1>3, <1>4, <1>5, <1>6, <1>10
<1>16. /\ n # 0 /\ c + nb # tp
       /\ \A d \in DOMAIN k \ {tp} : Next_(k, d) = n => d = c + nb
  <2>1. c + nb \in DOMAIN k \ {tp}
    BY <1>2, <1>5 DEF Good, Laid
  <2> QED
    BY <2>1, <1>2, <1>3, <1>5, <1>14, EndsDiffer DEF Good
<1>17. Tagged(g, tp, E \cup {c + nb})
  <2>1. E \cup {c + nb} \subseteq DOMAIN g \ {tp}
    BY <1>5, <1>6, <1>16 DEF Good, Tagged
  <2>2. g[0].pinuse /\ \A d \in DOMAIN g : g[d].pinuse => g[d].psz = 0
    BY <1>5, <1>6, <1>9, <1>15, <1>16, ZenonT(40) DEF Good, Tagged, Laid
  <2>3. ASSUME NEW d \in DOMAIN g \ {tp}
        PROVE  /\ g[Next_(g, d)].pinuse <=> d \notin E \cup {c + nb}
               /\ d \in E \cup {c + nb} => g[Next_(g, d)].psz = g[d].sz
    <3>1. CASE d = c + nb
      <4>1. Next_(g, c + nb) = n
        BY <1>5, <1>12, <1>14
      <4>2. g[c + nb].sz = h[c].sz - nb
        BY <1>6
      <4>3. ~g[Next_(g, d)].pinuse /\ g[Next_(g, d)].psz = g[d].sz
        BY <3>1, <4>1, <4>2, <1>9
      <4> QED
        BY <3>1, <4>3
    <3>2. CASE d # c + nb
      <4>1. d \in DOMAIN k \ {tp} /\ Next_(k, d) \in DOMAIN k /\ Next_(k, d) # n
        BY <3>2, <1>5, <1>6, <1>16, NextTyped DEF Good
      <4> QED
        BY <3>2, <4>1, <1>5, <1>11, <1>12, <1>15 DEF Good, Tagged
    <3> QED
      BY <3>1, <3>2
  <2> QED
    BY <2>1, <2>2, <2>3 DEF Tagged
<1>18. Apart(g, tp, E \cup {c + nb})
  <2>1. n # tp /\ n \notin F
    BY DEF Good, Apart
  <2>2. ASSUME NEW d \in E PROVE Next_(g, d) # tp /\ Next_(g, d) \notin E \cup {c + nb}
    <3>1. d \in DOMAIN k \ {tp} /\ d \in DOMAIN h \ {tp} /\ d # c
      BY <1>5 DEF Good, Tagged
    <3>2. Next_(k, d) # c + nb
      BY <3>1, <1>2, <1>5, <1>14, EndsDiffer DEF Good
    <3> QED
      BY <3>1, <3>2, <1>5, <1>12 DEF Good, Apart
  <2>3. Next_(g, c + nb) # tp /\ Next_(g, c + nb) \notin E \cup {c + nb}
    BY <2>1, <1>2, <1>3, <1>5, <1>12, <1>14
  <2> QED
    BY <2>2, <2>3 DEF Apart
<1>19. Sized(h, tp) => Sized(g, tp)
  <2> SUFFICES ASSUME Sized(h, tp), NEW d \in DOMAIN g \ {tp} PROVE g[d].sz >= MINSIZE
    BY DEF Sized
  <2>1. CASE d = c + nb
    BY <2>1, <1>6
  <2>2. CASE d = c
    BY <2>2, <1>6, <1>10
  <2>3. CASE d \notin {c, c + nb}
    BY <2>3, <1>1, <1>4, <1>5, <1>6, <1>11 DEF Sized
  <2> QED
    BY <2>1, <2>2, <2>3
<1> QED
  BY <1>13, <1>17, <1>18, <1>19 DEF Good, g, E

(* Lemma: what Absorb does to the headers, and that the tiling survives.   *)
Absorbed(h, tp, c, n, g) ==
  /\ DOMAIN g = DOMAIN h \ {n} /\ g \in [DOMAIN h \ {n} -> Header]
  /\ g[c].sz = h[c].sz + h[n].sz
  /\ g[c].pinuse = h[c].pinuse /\ g[c].psz = h[c].psz
  /\ \A d \in DOMAIN h \ {c, n} : g[d] = h[d]
  /\ Laid(g, IF n = tp THEN c ELSE tp)
  /\ c # n /\ Next_(g, c) = Next_(h, n)

(* Lemma: Absorb, _int_realloc's growth into the next chunk, has the       *)
(* effect named above.                                                     *)
LEMMA AbsorbLaid ==
  ASSUME NEW h, NEW tp, Laid(h, tp), NEW c \in DOMAIN h \ {tp}
  PROVE  Absorbed(h, tp, c, Next_(h, c), Absorb(h, c))
<1> DEFINE n == Next_(h, c)
<1> DEFINE g == Absorb(h, c)
<1>1. /\ n \in DOMAIN h \ {c} /\ h \in [DOMAIN h -> Header] /\ c \in Nat
      /\ h[c] \in Header /\ h[n] \in Header /\ h[c].sz \in Nat /\ h[n].sz \in Nat
      /\ n = c + h[c].sz
  BY NextTyped DEF Laid, Header, Next_
<1>2. /\ DOMAIN g = DOMAIN h \ {n}
      /\ g[c] = [h[c] EXCEPT !.sz = h[c].sz + h[n].sz]
      /\ \A d \in DOMAIN h \ {c, n} : g[d] = h[d]
      /\ g = [d \in DOMAIN h \ {n} |-> g[d]]
  BY <1>1 DEF Absorb
<1> HIDE DEF g
<1>3. /\ g[c] \in Header /\ g[c].sz = h[c].sz + h[n].sz
      /\ g[c].pinuse = h[c].pinuse /\ g[c].psz = h[c].psz
  BY <1>1, <1>2 DEF Header
<1>4. g \in [DOMAIN h \ {n} -> Header]
  BY <1>1, <1>2, <1>3
<1>5. Laid(g, IF n = tp THEN c ELSE tp)
  <2>1. Fused(h, c, n, g)
    BY <1>2, <1>3, <1>4 DEF Fused
  <2> QED
    BY <2>1, FuseLaid
<1>6. Next_(g, c) = Next_(h, n)
  BY <1>1, <1>3 DEF Next_
<1> QED
  BY <1>1, <1>2, <1>3, <1>4, <1>5, <1>6 DEF g, Absorbed

(* Lemma: _int_realloc joins the chunk after c, which is not top; c keeps  *)
(* its tags.                                                               *)
JoinedWith(h, tp, F, n, g) ==
  /\ Good(g, tp, F \ {n}) /\ DOMAIN g = DOMAIN h \ {n}
  /\ Sized(h, tp) => Sized(g, tp)

(* Lemma: growth into a neighbour that is not top keeps tiling, tags and   *)
(* coalescing, once the bit after it is set.                               *)
LEMMA JoinGood ==
  ASSUME NEW h, NEW tp, NEW F, Good(h, tp, F), NEW c \in DOMAIN h \ {tp}, c \notin F,
         NEW n, n = Next_(h, c), n # tp, NEW g, g = SetInuse(Absorb(h, c), c)
  PROVE  JoinedWith(h, tp, F, n, g)
<1> DEFINE k == Absorb(h, c)  e == Next_(h, n)
<1>1. /\ DOMAIN k = DOMAIN h \ {n} /\ k \in [DOMAIN h \ {n} -> Header]
      /\ k[c].sz = h[c].sz + h[n].sz
      /\ k[c].pinuse = h[c].pinuse /\ k[c].psz = h[c].psz
      /\ \A d \in DOMAIN h \ {c, n} : k[d] = h[d]
      /\ Laid(k, tp) /\ c # n /\ Next_(k, c) = e
  <2>1. Absorbed(h, tp, c, n, k)
    BY AbsorbLaid DEF Good
  <2> QED
    BY <2>1 DEF Absorbed
<1> HIDE DEF k
<1>2. /\ n \in DOMAIN h \ {tp} /\ e \in DOMAIN h /\ c < n /\ n < e /\ c \in Nat /\ n \in Nat /\ e \in Nat
  BY NextTyped DEF Good
<1>3. /\ DOMAIN g = DOMAIN k /\ g[e].pinuse /\ g[e].psz = 0
      /\ \A d \in DOMAIN k : g[d].sz = k[d].sz /\ (d # e => g[d] = k[d])
      /\ g \in [DOMAIN k -> Header]
  <2>1. g = SetInuse(k, c)
    BY DEF k
  <2> HIDE DEF e
  <2>2. Next_(k, c) = e /\ e \in DOMAIN k /\ k \in [DOMAIN k -> Header]
    BY <1>1, <1>2
  <2> QED
    BY <2>1, <2>2, <1>1, SetInuseShape
<1>4. Laid(g, tp)
  BY <1>1, <1>3, SameLaid
<1>5. \A d \in DOMAIN k : Next_(g, d) = Next_(k, d)
  BY <1>3 DEF Next_
<1>6. \A d \in DOMAIN h \ {c, n} : Next_(k, d) = Next_(h, d)
  BY <1>1 DEF Next_
<1>7. \A d \in DOMAIN h \ {c, n, tp} : Next_(h, d) # e /\ Next_(h, d) # n /\ Next_(h, d) \in DOMAIN h
  BY <1>2, EndsDiffer, NextTyped DEF Good
<1>8. Tagged(g, tp, F \ {n})
  <2>1. F \ {n} \subseteq DOMAIN g \ {tp}
    BY <1>1, <1>3 DEF Good, Tagged
  <2>2. g[0].pinuse /\ \A d \in DOMAIN g : g[d].pinuse => g[d].psz = 0
    <3>1. 0 \in DOMAIN h /\ 0 # n /\ 0 # e
      BY <1>2 DEF Good, Laid
    <3>2. \A d \in DOMAIN g : d # e => g[d].pinuse = h[d].pinuse /\ g[d].psz = h[d].psz
      BY <1>1, <1>3
    <3> QED
      BY <3>1, <3>2, <1>1, <1>3 DEF Good, Tagged
  <2>3. ASSUME NEW d \in DOMAIN g \ {tp}
        PROVE  /\ g[Next_(g, d)].pinuse <=> d \notin F \ {n}
               /\ d \in F \ {n} => g[Next_(g, d)].psz = g[d].sz
    <3>1. CASE d = c
      BY <3>1, <1>1, <1>3, <1>5
    <3>2. CASE d # c
      <4>1. d \in DOMAIN h \ {c, n, tp} /\ d \in DOMAIN k
        BY <3>2, <1>1, <1>3
      <4>2. Next_(g, d) = Next_(h, d) /\ Next_(h, d) \in DOMAIN k /\ Next_(h, d) # e
        BY <4>1, <1>1, <1>5, <1>6, <1>7
      <4>3. /\ g[Next_(h, d)].pinuse = h[Next_(h, d)].pinuse
            /\ g[Next_(h, d)].psz = h[Next_(h, d)].psz
        BY <4>2, <1>1, <1>3
      <4>4. g[d].sz = h[d].sz
        BY <4>1, <1>1, <1>3
      <4> QED
        BY <4>1, <4>2, <4>3, <4>4 DEF Good, Tagged
    <3> QED
      BY <3>1, <3>2
  <2> QED
    BY <2>1, <2>2, <2>3 DEF Tagged
<1>9. Apart(g, tp, F \ {n})
  <2> SUFFICES ASSUME NEW d \in F \ {n} PROVE Next_(g, d) # tp /\ Next_(g, d) \notin F \ {n}
    BY DEF Apart
  <2>1. d \in DOMAIN h \ {c, n, tp} /\ d \in DOMAIN k
    BY <1>1 DEF Good, Tagged
  <2>2. Next_(g, d) = Next_(h, d)
    BY <2>1, <1>5, <1>6
  <2> QED
    BY <2>2 DEF Good, Apart
<1>10. Sized(h, tp) => Sized(g, tp)
  <2> SUFFICES ASSUME Sized(h, tp), NEW d \in DOMAIN g \ {tp} PROVE g[d].sz >= MINSIZE
    BY DEF Sized
  <2>1. CASE d = c
    <3>1. h[c].sz \in Nat /\ h[n].sz \in Nat
      BY <1>2 DEF Good, Laid, Header
    <3> QED
      BY <2>1, <3>1, <1>1, <1>3 DEF Sized, MINSIZE
  <2>2. CASE d # c
    BY <2>2, <1>1, <1>3 DEF Sized
  <2> QED
    BY <2>1, <2>2
<1> QED
  BY <1>1, <1>3, <1>4, <1>8, <1>9, <1>10 DEF Good, JoinedWith

(* Lemma: which chunk Merge starts at and where it ends.  Stepping back    *)
(* from a chunk whose predecessor is free finds that chunk.                *)
LEMMA MergeReach ==
  ASSUME NEW h, NEW tp, NEW F, Good(h, tp, F), NEW p \in DOMAIN h \ {tp}, p \notin F,
         NEW b \in BOOLEAN, b \/ h[p].pinuse, NEW m, m = Merge(h, tp, p, b),
         NEW n, n = Next_(h, p)
  PROVE  /\ m.q \in DOMAIN h \ {tp}
         /\ \/ m.q = p /\ h[p].pinuse /\ m.prev = None
            \/ m.q # p /\ m.q \in F /\ Next_(h, m.q) = p /\ m.prev = m.q
         /\ n \in DOMAIN h \ {p, m.q} /\ (n = tp => m.atTop) /\ (n # tp => ~m.atTop)
         /\ \/ /\ n = tp \/ n \in F
               /\ m.sz = Next_(h, n) - m.q /\ m.gone = ({p} \ {m.q}) \cup {n}
            \/ /\ n # tp /\ n \notin F
               /\ m.sz = n - m.q /\ m.gone = {p} \ {m.q}
         /\ m.next = IF n \in F THEN n ELSE None
<1>1. /\ p \in Nat /\ h[p] \in Header /\ n \in DOMAIN h /\ p < n /\ n \in Nat /\ tp \notin F
      /\ h \in [DOMAIN h -> Header]
  BY NextTyped DEF Good, Laid, Tagged
<1>2. m.q = IF b THEN Backward(h, p) ELSE p
  BY DEF Merge
<1>3. /\ m.prev = (IF m.q = p THEN None ELSE m.q)
      /\ m.next = (IF n # tp /\ ~InUseAfter(h, n) THEN n ELSE None)
      /\ m.sz = (IF n = tp \/ (n # tp /\ ~InUseAfter(h, n)) THEN Next_(h, n) ELSE n) - m.q
      /\ m.gone = ({p} \ {m.q}) \cup (IF n = tp \/ (n # tp /\ ~InUseAfter(h, n)) THEN {n} ELSE {})
  BY DEF Merge
<1>4. n # tp => (~InUseAfter(h, n) <=> n \in F)
  BY <1>1 DEF Good, Tagged, InUseAfter
<1>5. /\ m.q \in DOMAIN h \ {tp} /\ n # m.q
      /\ \/ m.q = p /\ h[p].pinuse
         \/ m.q # p /\ m.q \in F /\ Next_(h, m.q) = p
  <2>1. CASE h[p].pinuse
    <3>1. m.q = p
      BY <2>1, <1>2 DEF Backward
    <3> QED
      BY <2>1, <3>1, <1>1
  <2>2. CASE ~h[p].pinuse
    <3>1. p # 0
      BY <2>2 DEF Good, Tagged
    <3>2. PICK c \in DOMAIN h \ {tp} : Next_(h, c) = p
      BY <3>1 DEF Good, Laid
    <3>3. c \in F /\ h[p].psz = h[c].sz
      BY <2>2, <3>2 DEF Good, Tagged
    <3>4. c \in Nat /\ h[c].sz \in Nat /\ c < p /\ p = c + h[c].sz
      BY <3>2, NextTyped DEF Good, Next_
    <3>5. m.q = c
      BY <2>2, <3>3, <3>4, <1>1, <1>2 DEF Backward
    <3> QED
      BY <3>2, <3>3, <3>4, <3>5, <1>1
  <2> QED
    BY <2>1, <2>2, <1>1 DEF Header
<1>6. n \in DOMAIN h \ {p, m.q} /\ (n = tp => m.atTop) /\ (n # tp => ~m.atTop)
  <2>1. n = tp => m.atTop
    BY DEF Merge
  <2>2. n # tp => ~m.atTop
    BY DEF Merge
  <2> QED
    BY <2>1, <2>2, <1>1, <1>5
<1>7. n = tp \/ (n # tp /\ ~InUseAfter(h, n)) <=> n = tp \/ n \in F
  BY <1>4
<1>8. \/ /\ n = tp \/ n \in F
         /\ m.sz = Next_(h, n) - m.q /\ m.gone = ({p} \ {m.q}) \cup {n}
      \/ /\ n # tp /\ n \notin F
         /\ m.sz = n - m.q /\ m.gone = {p} \ {m.q}
  <2>1. CASE n = tp \/ n \in F
    BY <2>1, <1>3, <1>7
  <2>2. CASE ~(n = tp \/ n \in F)
    BY <2>2, <1>3, <1>7
  <2> QED
    BY <2>1, <2>2
<1>9. m.next = IF n \in F THEN n ELSE None
  BY <1>1, <1>3, <1>4
<1> QED
  BY <1>3, <1>5, <1>6, <1>8, <1>9

(* Lemma: what a merge does to the headers; they still tile the heap.      *)
Coalescing(h, tp, F, p, n, m, g) ==
  /\ DOMAIN g = DOMAIN h \ m.gone
  /\ Laid(g, IF n = tp THEN m.q ELSE tp)
  /\ m.q \in DOMAIN g /\ g[m.q] = [sz |-> m.sz, pinuse |-> TRUE, psz |-> 0]
  /\ n # tp => /\ m.q + m.sz \in DOMAIN g /\ m.q < m.q + m.sz
               /\ g[m.q + m.sz].pinuse = FALSE /\ g[m.q + m.sz].psz = m.sz
  /\ \A d \in DOMAIN g \ {m.q} : /\ n = tp \/ d # m.q + m.sz => g[d] = h[d]
                                 /\ g[d].sz = h[d].sz
  /\ m.sz >= h[p].sz /\ (n = tp \/ n \in F => m.sz >= h[n].sz) /\ m.sz \in Nat

(* Lemma: the merge of _int_free_merge_chunk and _int_free_create_chunk    *)
(* has the effect named above, whichever neighbours are free.              *)
LEMMA MergeLaid ==
  ASSUME NEW h, NEW tp, NEW F, Good(h, tp, F), NEW p \in DOMAIN h \ {tp}, p \notin F,
         NEW b \in BOOLEAN, b \/ h[p].pinuse, NEW m, m = Merge(h, tp, p, b),
         NEW n, n = Next_(h, p), NEW g, g = MergedHdr(h, m)
  PROVE  Coalescing(h, tp, F, p, n, m, g)
<1> DEFINE q == m.q  fwd == n = tp \/ n \in F  tq == IF n = tp THEN q ELSE tp  e == q + m.sz
<1>1. /\ q \in DOMAIN h \ {tp}
      /\ \/ q = p /\ h[p].pinuse /\ m.prev = None
         \/ q # p /\ q \in F /\ Next_(h, q) = p /\ m.prev = q
      /\ n \in DOMAIN h \ {p, q} /\ (n = tp => m.atTop) /\ (n # tp => ~m.atTop)
      /\ \/ fwd /\ m.sz = Next_(h, n) - q /\ m.gone = ({p} \ {q}) \cup {n}
         \/ ~fwd /\ m.sz = n - q /\ m.gone = {p} \ {q}
  BY MergeReach
<1>2. /\ h \in [DOMAIN h -> Header] /\ DOMAIN h \subseteq Nat /\ \A d \in DOMAIN h : h[d].sz \in Nat
      /\ p < n /\ n = p + h[p].sz /\ Laid(h, tp) /\ q <= p
  <2>1. /\ h \in [DOMAIN h -> Header] /\ DOMAIN h \subseteq Nat /\ \A d \in DOMAIN h : h[d].sz \in Nat
        /\ p < n /\ n = p + h[p].sz /\ Laid(h, tp)
    BY NextTyped DEF Good, Laid, Header, Next_
  <2>2. q <= p
    BY <2>1, <1>1 DEF Next_
  <2> QED
    BY <2>1, <2>2
<1>3. PICK A : /\ Laid(A, tp) /\ DOMAIN A = DOMAIN h \ ({p} \ {q})
               /\ A \in [DOMAIN A -> Header]
               /\ A[q].sz = n - q /\ Next_(A, q) = n
               /\ \A d \in DOMAIN A \ {q} : A[d] = h[d]
  <2>1. CASE q = p
    <3>1. h[q].sz = n - q
      BY <2>1, <1>2
    <3>2. DOMAIN h = DOMAIN h \ ({p} \ {q})
      BY <2>1
    <3> QED
      BY <2>1, <3>1, <3>2, <1>1, <1>2
  <2>2. CASE q # p
    <3>1. q \in DOMAIN h \ {tp} /\ p = Next_(h, q) /\ p # tp
      BY <2>2, <1>1
    <3>2. PICK A : A = Absorb(h, q)
      OBVIOUS
    <3>3. /\ DOMAIN A = DOMAIN h \ {p} /\ A \in [DOMAIN h \ {p} -> Header]
          /\ A[q].sz = h[q].sz + h[p].sz
          /\ \A d \in DOMAIN h \ {q, p} : A[d] = h[d]
          /\ Laid(A, IF p = tp THEN q ELSE tp)
          /\ q # p /\ Next_(A, q) = Next_(h, p)
      <4>1. Absorbed(h, tp, q, p, A)
        BY <3>1, <3>2, <1>2, AbsorbLaid
      <4> QED
        BY <4>1 DEF Absorbed
    <3>4. A[q].sz = n - q
      <4>1. p = q + h[q].sz
        BY <3>1 DEF Next_
      <4>2. q \in Nat /\ p \in Nat /\ h[q].sz \in Nat /\ h[p].sz \in Nat /\ n = p + h[p].sz
        BY <1>1, <1>2
      <4>3. A[q].sz = h[q].sz + h[p].sz
        BY <3>3
      <4> QED
        BY <4>1, <4>2, <4>3
    <3>5. Laid(A, tp) /\ Next_(A, q) = n /\ DOMAIN A = DOMAIN h \ ({p} \ {q})
      BY <2>2, <3>1, <3>3
    <3> QED
      BY <3>3, <3>4, <3>5
  <2> QED
    BY <2>1, <2>2
<1>4. PICK B : /\ Laid(B, tq) /\ DOMAIN B = DOMAIN h \ m.gone
               /\ B \in [DOMAIN B -> Header]
               /\ q \in DOMAIN B /\ B[q].sz = m.sz
               /\ \A d \in DOMAIN B \ {q} : B[d] = h[d]
  <2>1. CASE ~fwd
    <3>1. m.sz = n - q /\ m.gone = {p} \ {q} /\ tq = tp
      BY <2>1, <1>1
    <3> QED
      BY <3>1, <1>1, <1>3
  <2>2. CASE fwd
    <3>1. q \in DOMAIN A \ {tp} /\ n = Next_(A, q) /\ n \in DOMAIN A /\ n # q
      BY <1>1, <1>3
    <3>2. PICK B : B = Absorb(A, q)
      OBVIOUS
    <3>3. /\ DOMAIN B = DOMAIN A \ {n} /\ B \in [DOMAIN A \ {n} -> Header]
          /\ B[q].sz = A[q].sz + A[n].sz
          /\ \A d \in DOMAIN A \ {q, n} : B[d] = A[d]
          /\ Laid(B, tq)
      <4>1. Absorbed(A, tp, q, n, B)
        BY <3>1, <3>2, <1>3, AbsorbLaid
      <4> QED
        BY <4>1 DEF Absorbed
    <3>4. m.sz = Next_(h, n) - q /\ m.gone = ({p} \ {q}) \cup {n}
      BY <2>2, <1>1
    <3>5. A[n] = h[n] /\ A[q].sz = n - q
      BY <3>1, <1>3
    <3>6. B[q].sz = m.sz
      BY <3>3, <3>4, <3>5, <1>1, <1>2 DEF Next_
    <3> QED
      BY <3>1, <3>3, <3>4, <3>6, <1>1, <1>3
  <2> QED
    BY <2>1, <2>2
<1>5. m.sz \in Nat /\ m.sz >= h[p].sz /\ (fwd => m.sz >= h[n].sz)
  <2>1. CASE fwd
    BY <2>1, <1>1, <1>2 DEF Next_
  <2>2. CASE ~fwd
    BY <2>2, <1>1, <1>2
  <2> QED
    BY <2>1, <2>2
<1>6. n # tp => q # tq /\ e = Next_(B, q) /\ e \in DOMAIN B /\ q < e
  BY <1>1, <1>4, NextTyped DEF Next_
<1>7. /\ g = [a \in DOMAIN B |-> g[a]]
      /\ g[q] = [sz |-> m.sz, pinuse |-> TRUE, psz |-> 0]
      /\ n # tp => g[e] = [h[e] EXCEPT !.pinuse = FALSE, !.psz = m.sz]
      /\ \A d \in DOMAIN B \ {q} : n = tp \/ d # e => g[d] = h[d]
  <2>1. g = [a \in DOMAIN B |->
               IF a = q THEN [sz |-> m.sz, pinuse |-> TRUE, psz |-> 0]
               ELSE IF a = e /\ ~m.atTop THEN [h[a] EXCEPT !.pinuse = FALSE, !.psz = m.sz]
               ELSE h[a]]
    BY <1>4 DEF MergedHdr
  <2>2. n # tp => e \in DOMAIN B \ {q}
    BY <1>1, <1>2, <1>5, <1>6
  <2> QED
    BY <2>1, <2>2, <1>1, <1>4, ZenonT(40)
<1>8. n # tp => /\ g[e] \in Header /\ g[e].sz = h[e].sz
                /\ g[e].pinuse = FALSE /\ g[e].psz = m.sz
  <2> SUFFICES ASSUME n # tp PROVE /\ g[e] \in Header /\ g[e].sz = h[e].sz
                                   /\ g[e].pinuse = FALSE /\ g[e].psz = m.sz
    OBVIOUS
  <2>1. h[e] \in Header
    BY <1>2, <1>4, <1>6
  <2> QED
    BY <2>1, <1>5, <1>7 DEF Header
<1>9. g[q] \in Header /\ g[q].sz = m.sz
  <2>1. g[q] = [sz |-> m.sz, pinuse |-> TRUE, psz |-> 0] /\ m.sz \in Nat
    BY <1>5, <1>7
  <2> QED
    BY <2>1 DEF Header
<1>10. \A d \in DOMAIN B : g[d] \in Header /\ g[d].sz = B[d].sz
  <2> SUFFICES ASSUME NEW d \in DOMAIN B PROVE g[d] \in Header /\ g[d].sz = B[d].sz
    OBVIOUS
  <2>1. CASE d = q
    BY <2>1, <1>4, <1>9
  <2>2. CASE n # tp /\ d = e /\ d # q
    BY <2>2, <1>4, <1>8
  <2>3. CASE d # q /\ (n = tp \/ d # e)
    BY <2>3, <1>4, <1>7
  <2> QED
    BY <2>1, <2>2, <2>3
<1>11. g \in [DOMAIN B -> Header] /\ DOMAIN g = DOMAIN B
  BY <1>7, <1>10
<1>12. Laid(g, tq)
  BY <1>4, <1>10, <1>11, SameLaid
<1> QED
  BY <1>4, <1>5, <1>6, <1>7, <1>8, <1>10, <1>11, <1>12, ZenonT(40) DEF Coalescing

(* Lemma: a merge keeps tiling, tags and coalescing, of everything but the *)
(* tail that it starts from, which may be small.                           *)
LEMMA MergeGood ==
  ASSUME NEW h, NEW tp, NEW F, Good(h, tp, F), NEW p \in DOMAIN h \ {tp}, p \notin F,
         NEW b \in BOOLEAN, b \/ h[p].pinuse, NEW m, m = Merge(h, tp, p, b),
         NEW n, n = Next_(h, p), NEW g, g = MergedHdr(h, m),
         NEW tq, tq = IF n = tp THEN m.q ELSE tp,
         NEW G, G = (F \ {m.prev, m.next}) \cup (IF n = tp THEN {} ELSE {m.q})
  PROVE  /\ Good(g, tq, G)
         /\ (\A d \in DOMAIN h \ {tp, p} : h[d].sz >= MINSIZE)
              /\ (h[p].sz >= MINSIZE \/ n = tp \/ n \in F) => Sized(g, tq)
         /\ g[tq].sz >= h[tp].sz /\ Next_(g, tq) = Next_(h, tp)
<1> DEFINE q == m.q  e == q + m.sz
<1>1. /\ q \in DOMAIN h \ {tp}
      /\ \/ q = p /\ h[p].pinuse /\ m.prev = None
         \/ q # p /\ q \in F /\ Next_(h, q) = p /\ m.prev = q
      /\ n \in DOMAIN h \ {p, q} /\ (n = tp => m.atTop) /\ (n # tp => ~m.atTop)
      /\ \/ /\ n = tp \/ n \in F
            /\ m.sz = Next_(h, n) - q /\ m.gone = ({p} \ {q}) \cup {n}
         \/ /\ n # tp /\ n \notin F
            /\ m.sz = n - q /\ m.gone = {p} \ {q}
      /\ m.next = IF n \in F THEN n ELSE None
  BY MergeReach
<1>2. /\ DOMAIN g = DOMAIN h \ m.gone
      /\ Laid(g, tq)
      /\ q \in DOMAIN g /\ g[q] = [sz |-> m.sz, pinuse |-> TRUE, psz |-> 0]
      /\ n # tp => /\ e \in DOMAIN g /\ q < e
                   /\ g[e].pinuse = FALSE /\ g[e].psz = m.sz
      /\ \A d \in DOMAIN g \ {q} : (n = tp \/ d # e => g[d] = h[d]) /\ g[d].sz = h[d].sz
      /\ m.sz >= h[p].sz /\ (n = tp \/ n \in F => m.sz >= h[n].sz) /\ m.sz \in Nat
  <2>1. Coalescing(h, tp, F, p, n, m, g)
    BY MergeLaid
  <2> QED
    BY <2>1 DEF Coalescing
<1>3. /\ h \in [DOMAIN h -> Header] /\ DOMAIN h \subseteq Nat /\ Laid(h, tp)
      /\ F \subseteq DOMAIN h \ {tp} /\ None \notin DOMAIN h
  BY NoneAssumption DEF Good, Laid, Tagged
<1>4. /\ g[q].sz = m.sz /\ g[q].pinuse /\ g[q].psz = 0 /\ Next_(g, q) = e
  BY <1>2 DEF Next_
<1>5. /\ n # tp => /\ tq = tp /\ q \notin F \ {m.prev, m.next}
                   /\ G = (F \ {m.prev, m.next}) \cup {q}
      /\ n = tp => tq = q /\ G = F \ {m.prev, m.next}
      /\ q \in {p, m.prev} /\ p \notin F \ {m.prev, m.next} /\ n \notin F \ {m.prev, m.next}
  BY <1>1, <1>3
<1>6. /\ G \ {q} \subseteq F /\ \A d \in F : d \in G \/ d \in {q, m.next}
      /\ F \ {m.prev, m.next} \subseteq DOMAIN g \ {q}
      /\ DOMAIN g \ {q} \subseteq DOMAIN h \ {p, q}
  BY <1>1, <1>2, <1>3, <1>5
<1>7. \A d \in DOMAIN g \ {q} : Next_(g, d) = Next_(h, d)
  BY <1>2 DEF Next_
<1>8. G \subseteq DOMAIN g \ {tq}
  BY <1>1, <1>2, <1>3, <1>5, <1>6
<1>9. n # tp => e \notin {q, 0} /\ e \notin F /\ e # p
  <2> SUFFICES ASSUME n # tp PROVE e \notin {q, 0} /\ e \notin F /\ e # p
    OBVIOUS
  <2>1. e # q /\ e # 0
    BY <1>1, <1>2, <1>3
  <2>2. CASE n \in F
    <3>1. e = Next_(h, n) /\ n \in DOMAIN h \ {tp} /\ p < n /\ n < Next_(h, n)
      BY <2>2, <1>1, <1>2, <1>3, NextTyped
    <3> QED
      BY <2>1, <2>2, <3>1, <1>3 DEF Good, Apart
  <2>3. CASE n \notin F
    <3>1. e = n
      BY <2>3, <1>1, <1>2, <1>3
    <3> QED
      BY <2>1, <2>3, <3>1, <1>1
  <2> QED
    BY <2>2, <2>3
<1>10. Tagged(g, tq, G)
  <2>1. g[0].pinuse /\ \A d \in DOMAIN g : g[d].pinuse => g[d].psz = 0
    <3>1. 0 \in DOMAIN g
      BY <1>2 DEF Laid
    <3> QED
      BY <3>1, <1>2, <1>4, <1>6, <1>9 DEF Good, Tagged
  <2>2. ASSUME NEW d \in DOMAIN g \ {tq}, d # q
        PROVE  /\ g[Next_(g, d)].pinuse <=> d \notin G
               /\ d \in G => g[Next_(g, d)].psz = g[d].sz
    <3>1. d \in DOMAIN h \ {tp, p, q} /\ Next_(g, d) = Next_(h, d) /\ Next_(h, d) \in DOMAIN g
      <4>1. d \in DOMAIN h \ {p, q} /\ Next_(g, d) = Next_(h, d) /\ Next_(g, d) \in DOMAIN g
        BY <2>2, <1>2, <1>6, <1>7, NextTyped
      <4>2. d # tp
        BY <2>2, <1>1, <1>2, <1>5
      <4> QED
        BY <4>1, <4>2
    <3>2. h[Next_(h, d)].pinuse <=> d \notin F
      BY <3>1 DEF Good, Tagged
    <3>3. CASE Next_(h, d) = q
      <4>1. d \notin F
        <5>1. CASE q = p
          BY <3>2, <3>3, <5>1, <1>1, <1>3
        <5>2. CASE q # p
          BY <3>3, <5>2, <1>1 DEF Good, Apart
        <5> QED
          BY <5>1, <5>2
      <4> QED
        BY <2>2, <3>1, <3>3, <4>1, <1>4, <1>6
    <3>4. CASE Next_(h, d) # q
      <4>1. n = tp \/ Next_(h, d) # e
        <5> SUFFICES ASSUME n # tp, Next_(g, d) = Next_(g, q) PROVE FALSE
          BY <3>1, <1>4
        <5>1. q \in DOMAIN g \ {tq} /\ Laid(g, tq)
          BY <1>1, <1>2, <1>5
        <5> QED
          BY <2>2, <5>1, EndsDiffer
      <4>2. g[Next_(h, d)] = h[Next_(h, d)] /\ g[d].sz = h[d].sz
        BY <2>2, <3>1, <3>4, <4>1, <1>2
      <4>3. d \in F <=> d \in G
        <5>1. d # m.next
          BY <2>2, <1>1, <1>2, <1>3
        <5> QED
          BY <2>2, <5>1, <1>6
      <4> QED
        BY <3>1, <3>2, <4>2, <4>3 DEF Good, Tagged
    <3> QED
      BY <3>3, <3>4
  <2>3. ASSUME q # tq
        PROVE  /\ g[Next_(g, q)].pinuse <=> q \notin G
               /\ q \in G => g[Next_(g, q)].psz = g[q].sz
    <3>1. n # tp /\ q \in G
      BY <2>3, <1>5
    <3> QED
      BY <3>1, <1>2, <1>4
  <2> QED
    BY <2>1, <2>2, <2>3, <1>8 DEF Tagged
<1>11. Apart(g, tq, G)
  <2>1. ASSUME NEW d \in G, d # q PROVE Next_(g, d) # tq /\ Next_(g, d) \notin G
    <3>1. d \in F /\ d \in DOMAIN g \ {q} /\ Next_(g, d) = Next_(h, d)
      BY <2>1, <1>6, <1>7, <1>8
    <3>2. Next_(h, d) # tp /\ Next_(h, d) \notin F /\ Next_(h, d) # p
      <4>1. Next_(h, d) # tp /\ Next_(h, d) \notin F
        BY <3>1 DEF Good, Apart
      <4>2. ASSUME Next_(h, d) = p PROVE FALSE
        <5>1. d \in DOMAIN h \ {tp} /\ ~h[p].pinuse
          BY <3>1, <4>2, <1>3 DEF Good, Tagged
        <5> QED
          BY <2>1, <4>2, <5>1, <1>1, <1>3, EndsDiffer
      <4> QED
        BY <4>1, <4>2
    <3>3. Next_(h, d) # q
      BY <2>1, <3>1, <3>2, <1>1
    <3> QED
      BY <2>1, <3>1, <3>2, <3>3, <1>5, <1>6
  <2>2. ASSUME q \in G PROVE Next_(g, q) # tq /\ Next_(g, q) \notin G
    <3>1. n # tp
      BY <2>2, <1>5
    <3>2. e # tp
      <4>1. CASE n \in F
        <5>1. e = Next_(h, n)
          BY <4>1, <1>1, <1>2, <1>3, NextTyped
        <5> QED
          BY <4>1, <5>1 DEF Good, Apart
      <4>2. CASE n \notin F
        BY <3>1, <4>2, <1>1, <1>2, <1>3
      <4> QED
        BY <4>1, <4>2
    <3> QED
      BY <3>1, <3>2, <1>4, <1>5, <1>6, <1>9
  <2> QED
    BY <2>1, <2>2 DEF Apart
<1>12. ASSUME \A d \in DOMAIN h \ {tp, p} : h[d].sz >= MINSIZE,
              h[p].sz >= MINSIZE \/ n = tp \/ n \in F
       PROVE  Sized(g, tq)
  <2> SUFFICES ASSUME NEW d \in DOMAIN g \ {tq} PROVE g[d].sz >= MINSIZE
    BY DEF Sized
  <2>1. CASE d # q
    <3>1. d \in DOMAIN h \ {tp, p} /\ g[d].sz = h[d].sz
      BY <2>1, <1>1, <1>2, <1>5, <1>6
    <3> QED
      BY <3>1, <1>12
  <2>2. CASE d = q
    <3>1. n # tp
      BY <2>2, <1>5
    <3>2. n \in DOMAIN h \ {tp, p} /\ h[n].sz \in Nat /\ h[p].sz \in Nat
      BY <3>1, <1>1, <1>3 DEF Header
    <3>3. CASE n \in F
      BY <2>2, <3>2, <3>3, <1>2, <1>4, <1>12 DEF MINSIZE
    <3>4. CASE n \notin F
      BY <2>2, <3>1, <3>2, <3>4, <1>2, <1>4, <1>12 DEF MINSIZE
    <3> QED
      BY <3>3, <3>4
  <2> QED
    BY <2>1, <2>2
<1>13. g[tq].sz >= h[tp].sz /\ Next_(g, tq) = Next_(h, tp)
  <2>1. CASE n = tp
    <3>1. Next_(h, n) \in Nat
      BY <2>1, <1>1, <1>3 DEF Next_, Header
    <3> QED
      BY <2>1, <3>1, <1>1, <1>2, <1>3, <1>4, <1>5
  <2>2. CASE n # tp
    <3>1. tp \in DOMAIN g \ {q} /\ h[tp].sz \in Nat
      BY <2>2, <1>1, <1>2, <1>3, <1>5 DEF Laid, Header
    <3> QED
      BY <2>2, <3>1, <1>2, <1>5, <1>6, <1>7
  <2> QED
    BY <2>1, <2>2
<1> QED
  BY <1>2, <1>10, <1>11, <1>12, <1>13 DEF Good

(* Lemma: top may have any size.                                           *)
TopResized(h, tp, x, g) == g = [h EXCEPT ![tp].sz = x]

(* Lemma: a moved break (sysmalloc, systrim) disturbs neither tiling nor   *)
(* tags.                                                                   *)
LEMMA MovedGood ==
  ASSUME NEW h, NEW tp, NEW F, Good(h, tp, F), NEW x \in Nat, NEW g, TopResized(h, tp, x, g)
  PROVE  Good(g, tp, F) /\ (Sized(h, tp) => Sized(g, tp)) /\ g[tp].sz = x /\ DOMAIN g = DOMAIN h
<1>1. /\ h \in [DOMAIN h -> Header] /\ tp \in DOMAIN h /\ Laid(h, tp)
      /\ \A d \in DOMAIN h \ {tp} : Next_(h, d) \in DOMAIN h
  BY DEF Good, Laid
<1>2. /\ g \in [DOMAIN h -> Header] /\ DOMAIN g = DOMAIN h /\ g[tp].sz = x
      /\ \A d \in DOMAIN h \ {tp} : g[d] = h[d]
      /\ \A d \in DOMAIN h : g[d].pinuse = h[d].pinuse /\ g[d].psz = h[d].psz
  BY <1>1 DEF Header, TopResized
<1>3. \A d \in DOMAIN h \ {tp} : Next_(g, d) = Next_(h, d)
  BY <1>2 DEF Next_
<1>4. Laid(g, tp)
  BY <1>1, <1>2, <1>3 DEF Laid
<1>5. Tagged(g, tp, F)
  <2>1. g[0].pinuse /\ F \subseteq DOMAIN g \ {tp}
        /\ \A d \in DOMAIN g : g[d].pinuse => g[d].psz = 0
    BY <1>2 DEF Good, Tagged, Laid
  <2>2. ASSUME NEW d \in DOMAIN g \ {tp}
        PROVE  /\ g[Next_(g, d)].pinuse <=> d \notin F
               /\ d \in F => g[Next_(g, d)].psz = g[d].sz
    <3>1. /\ d \in DOMAIN h \ {tp} /\ Next_(g, d) = Next_(h, d) /\ Next_(h, d) \in DOMAIN h
          /\ g[d].sz = h[d].sz
      BY <2>2, <1>1, <1>2, <1>3
    <3>2. /\ g[Next_(g, d)].pinuse = h[Next_(h, d)].pinuse
          /\ g[Next_(g, d)].psz = h[Next_(h, d)].psz
      BY <3>1, <1>2
    <3> QED
      BY <3>1, <3>2 DEF Good, Tagged
  <2> QED
    BY <2>1, <2>2 DEF Tagged
<1>6. Apart(g, tp, F)
  BY <1>3 DEF Good, Tagged, Apart
<1> QED
  BY <1>2, <1>4, <1>5, <1>6 DEF Good, Sized

(* Lemma: a chunk that is not free takes the whole of top after it.        *)
LEMMA JoinTopTagged ==
  ASSUME NEW h, NEW tp, NEW F, Good(h, tp, F), NEW c \in DOMAIN h \ {tp}, c \notin F,
         Next_(h, c) = tp, NEW g, g = Absorb(h, c)
  PROVE  /\ Laid(g, c) /\ Tagged(g, c, F) /\ (Sized(h, tp) => Sized(g, c)) /\ DOMAIN g = DOMAIN h \ {tp}
         /\ \A d \in F : Next_(g, d) = Next_(h, d)
         /\ g[c].sz = h[c].sz + h[tp].sz /\ Next_(g, c) = Next_(h, tp)
<1>1. Absorbed(h, tp, c, tp, g)
  BY AbsorbLaid DEF Good
<1>2. /\ DOMAIN g = DOMAIN h \ {tp} /\ Laid(g, c) /\ Next_(g, c) = Next_(h, tp)
      /\ g[c].sz = h[c].sz + h[tp].sz /\ g[c].pinuse = h[c].pinuse /\ g[c].psz = h[c].psz
      /\ \A d \in DOMAIN h \ {c, tp} : g[d] = h[d]
  BY <1>1 DEF Absorbed
<1>3. \A d \in DOMAIN g \ {c} : Next_(g, d) = Next_(h, d) /\ Next_(g, d) \in DOMAIN g
  BY <1>2, NextTyped DEF Next_
<1>4. Tagged(g, c, F)
  <2>1. F \subseteq DOMAIN g \ {c} /\ 0 \in DOMAIN g
    BY <1>2 DEF Good, Tagged, Laid
  <2>2. \A d \in DOMAIN g : g[d].pinuse = h[d].pinuse /\ g[d].psz = h[d].psz
    BY <1>2
  <2>3. \A d \in DOMAIN g \ {c} : g[d].sz = h[d].sz
    BY <1>2
  <2> QED
    BY <2>1, <2>2, <2>3, <1>2, <1>3 DEF Good, Tagged
<1> QED
  BY <1>2, <1>3, <1>4 DEF Tagged, Sized

-----------------------------------------------------------------------------
(* The inductive invariant.  Before the first request top is an empty      *)
(* chunk; from then on the heap is whole.                                  *)
Whole(h, tp, F, brk) ==
  Good(h, tp, F) /\ Sized(h, tp) /\ h[tp].sz >= MINSIZE /\ Next_(h, tp) = brk

IInv == Init \/ (Whole(hdr, top, free, system_mem) /\ system_mem \in Brks)

(* Lemma: an empty heap is laid out.                                       *)
LEMMA InitGood == Init => Good(hdr, top, free) /\ Sized(hdr, top)
BY DEF Init, Good, Laid, Tagged, Apart, Sized, Header, Next_

(* Lemma: a cut keeps the heap whole if both parts are large enough.       *)
LEMMA CutWhole ==
  ASSUME NEW h, NEW tp, NEW F, NEW brk, Whole(h, tp, F, brk), NEW c \in DOMAIN h, c \notin F,
         NEW nb \in Nat, nb >= MINSIZE, h[c].sz - nb >= MINSIZE
  PROVE  Whole(CutAt(h, c, nb), IF c = tp THEN c + nb ELSE tp, F, brk)
<1>1. h \in [DOMAIN h -> Header] /\ c \in Nat /\ h[c].sz \in Nat /\ h[c] \in Header
      /\ h[c].sz > nb /\ nb > 0 /\ tp \in DOMAIN h
  BY DEF Whole, Good, Laid, Header, MINSIZE
<1> PICK g : g = CutAt(h, c, nb)
  OBVIOUS
<1> PICK tq : tq = IF c = tp THEN c + nb ELSE tp
  OBVIOUS
<1>2. c + nb \notin DOMAIN h /\ Good(g, tq, F)
  <2>1. Good(h, tp, F)
    BY DEF Whole
  <2>2. c + nb \notin DOMAIN h /\ Good(CutAt(h, c, nb), IF c = tp THEN c + nb ELSE tp, F)
    BY <2>1, <1>1, CutGood
  <2> QED
    BY <2>2
<1>3. /\ DOMAIN g = DOMAIN h \cup {c + nb}
      /\ g[c] = [h[c] EXCEPT !.sz = nb]
      /\ g[c + nb] = [sz |-> h[c].sz - nb, pinuse |-> TRUE, psz |-> 0]
      /\ \A d \in DOMAIN h \ {c} : g[d] = h[d]
  BY <1>1, <1>2 DEF CutAt
<1>4. g[c].sz = nb /\ g[c + nb].sz = h[c].sz - nb
  BY <1>1, <1>3 DEF Header
<1>5. Sized(g, tq)
  BY <1>3, <1>4, ZenonT(40) DEF Whole, Sized
<1>6. g[tq].sz >= MINSIZE /\ Next_(g, tq) = brk
  <2>1. CASE c = tp
    BY <2>1, <1>1, <1>4 DEF Whole, Next_
  <2>2. CASE c # tp
    BY <2>2, <1>1, <1>3 DEF Whole, Next_
  <2> QED
    BY <2>1, <2>2
<1> QED
  BY <1>2, <1>5, <1>6 DEF Whole

(* Lemma: a release keeps the heap whole, of a chunk that is large enough  *)
(* or borders top or a free chunk.                                         *)
LEMMA ReleaseWhole ==
  ASSUME NEW h, NEW F, NEW brk, Good(h, top, F), Next_(h, top) = brk, h[top].sz >= MINSIZE,
         NEW p \in DOMAIN h \ {top}, p \notin F, NEW b \in BOOLEAN, b \/ h[p].pinuse,
         \A d \in DOMAIN h \ {top, p} : h[d].sz >= MINSIZE,
         h[p].sz >= MINSIZE \/ Next_(h, p) = top \/ Next_(h, p) \in F,
         Release(h, F, p, b)
  PROVE  Whole(hdr', top', free', brk)
<1> PICK m : m = Merge(h, top, p, b)
  OBVIOUS
<1> PICK n : n = Next_(h, p)
  OBVIOUS
<1>1. m.atTop = (n = top)
  BY DEF Merge
<1>2. /\ hdr' = MergedHdr(h, m)
      /\ top' = IF n = top THEN m.q ELSE top
      /\ free' = (F \ {m.prev, m.next}) \cup (IF n = top THEN {} ELSE {m.q})
  BY <1>1 DEF Release
<1>3. /\ Good(hdr', top', free')
      /\ (\A d \in DOMAIN h \ {top, p} : h[d].sz >= MINSIZE)
           /\ (h[p].sz >= MINSIZE \/ n = top \/ n \in F) => Sized(hdr', top')
      /\ hdr'[top'].sz >= h[top].sz /\ Next_(hdr', top') = Next_(h, top)
  BY <1>2, MergeGood
<1>4. hdr'[top'].sz >= MINSIZE
  <2>1. h[top].sz \in Nat /\ hdr'[top'].sz \in Nat
    BY <1>3 DEF Good, Laid, Header
  <2> QED
    BY <2>1, <1>3 DEF MINSIZE
<1> QED
  BY <1>3, <1>4 DEF Whole

(* Lemma: freeing what follows the first nb units of a chunk in use.       *)
LEMMA FreeTailWhole ==
  ASSUME NEW h, NEW F, NEW brk, Whole(h, top, F, brk), NEW c \in DOMAIN h \ {top}, c \notin F,
         NEW nb \in Nat, FreeTail(h, F, c, nb)
  PROVE  Whole(hdr', top', free', brk)
<1> PICK g : g = CutAt(h, c, nb)
  OBVIOUS
<1>1. /\ h \in [DOMAIN h -> Header] /\ c \in Nat /\ h[c].sz \in Nat /\ h[c] \in Header
      /\ top \in DOMAIN h /\ Next_(h, c) \in DOMAIN h /\ Good(h, top, F)
  BY NextTyped DEF Whole, Good, Laid, Header
<1>2. /\ nb >= MINSIZE /\ h[c].sz - nb > 0 /\ nb > 0 /\ h[c].sz > nb
      /\ Release(g, F, c + nb, FALSE)
      /\ h[c].sz - nb >= MINSIZE \/ Next_(h, c) = top \/ ~InUseAfter(h, Next_(h, c))
  <2>1. /\ nb >= MINSIZE /\ h[c].sz - nb > 0
        /\ TooSmall(h[c].sz - nb) /\ Next_(h, c) # top => ~InUseAfter(h, Next_(h, c))
        /\ Release(g, F, c + nb, FALSE)
    BY DEF FreeTail
  <2>2. nb > 0 /\ h[c].sz > nb
    BY <1>1, <2>1 DEF MINSIZE
  <2>3. TooSmall(h[c].sz - nb) \/ h[c].sz - nb >= MINSIZE
    BY <1>1 DEF TooSmall, MINSIZE
  <2> QED
    BY <2>1, <2>2, <2>3
<1>3. c + nb \notin DOMAIN h /\ Good(g, top, F)
  <2>1. c + nb \notin DOMAIN h /\ Good(CutAt(h, c, nb), IF c = top THEN c + nb ELSE top, F)
    BY <1>1, <1>2, CutGood
  <2> QED
    BY <2>1
<1>4. /\ DOMAIN g = DOMAIN h \cup {c + nb}
      /\ g[c] = [h[c] EXCEPT !.sz = nb]
      /\ g[c + nb] = [sz |-> h[c].sz - nb, pinuse |-> TRUE, psz |-> 0]
      /\ \A d \in DOMAIN h \ {c} : g[d] = h[d]
  BY <1>1, <1>2, <1>3 DEF CutAt
<1>5. /\ g[c].sz = nb /\ g[c + nb].sz = h[c].sz - nb /\ g[c + nb].pinuse
      /\ Next_(g, c + nb) = Next_(h, c)
  BY <1>1, <1>4 DEF Header, Next_
<1>6. c + nb \in DOMAIN g \ {top} /\ c + nb \notin F
  BY <1>1, <1>3, <1>4 DEF Good, Tagged
<1>7. Next_(g, top) = brk /\ g[top].sz >= MINSIZE
  BY <1>1, <1>4 DEF Whole, Next_
<1>8. \A d \in DOMAIN g \ {top, c + nb} : g[d].sz >= MINSIZE
  BY <1>2, <1>4, <1>5 DEF Whole, Sized
<1>9. g[c + nb].sz >= MINSIZE \/ Next_(g, c + nb) = top \/ Next_(g, c + nb) \in F
  BY <1>1, <1>2, <1>5 DEF Good, Tagged, InUseAfter
<1> QED
  BY <1>2, <1>3, <1>5, <1>6, <1>7, <1>8, <1>9, ReleaseWhole

(* Lemma: the heap is whole once top has been grown or trimmed, whether or *)
(* not it existed before.                                                  *)
LEMMA MovedWhole ==
  ASSUME IInv, NEW brk \in Brks, hdr[top].sz + (brk - system_mem) >= MINSIZE
  PROVE  Whole(Moved(brk), top, free, brk)
<1> PICK x : x = hdr[top].sz + (brk - system_mem)
  OBVIOUS
<1>1. Good(hdr, top, free) /\ Sized(hdr, top) /\ Next_(hdr, top) = system_mem
      /\ system_mem \in Brks
  <2>1. CASE Init
    <3>1. Next_(hdr, top) = system_mem /\ system_mem \in Brks
      BY <2>1, HeapAssumption DEF Init, Next_, Brks
    <3> QED
      BY <2>1, <3>1, InitGood
  <2>2. CASE ~Init
    BY <2>2 DEF IInv, Whole
  <2> QED
    BY <2>1, <2>2
<1>2. hdr \in [DOMAIN hdr -> Header] /\ top \in DOMAIN hdr /\ top \in Nat /\ hdr[top].sz \in Nat
      /\ brk \in Int /\ system_mem \in Int
  BY <1>1, HeapAssumption DEF Good, Laid, Header, Brks
<1>3. x \in Nat /\ x >= MINSIZE /\ top + x = brk
  BY <1>1, <1>2 DEF Next_, MINSIZE
<1>4. Moved(brk) = [hdr EXCEPT ![top].sz = x]
  BY DEF Moved
<1> PICK g : g = Moved(brk)
  OBVIOUS
<1>5. Good(g, top, free) /\ Sized(g, top) /\ g[top].sz = x
  <2>1. TopResized(hdr, top, x, g) /\ x \in Nat /\ Good(hdr, top, free) /\ Sized(hdr, top)
    BY <1>1, <1>3, <1>4 DEF TopResized
  <2> QED
    BY <2>1, MovedGood
<1>6. Next_(g, top) = brk
  BY <1>3, <1>5 DEF Next_
<1> QED
  BY <1>3, <1>5, <1>6 DEF Whole

(* Lemma: the growth of a chunk into top.                                  *)
LEMMA JoinTopWhole ==
  ASSUME NEW h, NEW tp, NEW F, NEW brk, Whole(h, tp, F, brk), NEW c \in DOMAIN h \ {tp}, c \notin F,
         Next_(h, c) = tp, NEW nb \in Nat, nb > h[c].sz, h[c].sz + h[tp].sz >= nb + MINSIZE
  PROVE  Whole(CutAt(Absorb(h, c), c, nb), c + nb, F, brk)
<1> PICK g : g = Absorb(h, c)
  OBVIOUS
<1> PICK r : r = CutAt(g, c, nb)
  OBVIOUS
<1>1. /\ Good(h, tp, F) /\ Sized(h, tp) /\ Next_(h, tp) = brk
      /\ h[c].sz >= MINSIZE /\ h[c].sz \in Nat /\ h[tp].sz \in Nat
      /\ c \in Nat /\ tp \in Nat
  BY DEF Whole, Good, Laid, Header, Sized
<1>2. /\ Laid(g, c) /\ Tagged(g, c, F) /\ Sized(g, c) /\ DOMAIN g = DOMAIN h \ {tp}
      /\ \A d \in F : Next_(g, d) = Next_(h, d)
      /\ g[c].sz = h[c].sz + h[tp].sz /\ Next_(g, c) = Next_(h, tp)
  <2>1. Good(h, tp, F) /\ Sized(h, tp) /\ Next_(h, c) = tp /\ g = Absorb(h, c) BY <1>1
  <2> QED BY ONLY <2>1, c \in DOMAIN h \ {tp}, c \notin F, JoinTopTagged
<1>3. nb > 0 /\ g[c].sz > nb /\ nb >= MINSIZE /\ g[c].sz - nb >= MINSIZE
  BY <1>1, <1>2 DEF MINSIZE
<1>4. c \in DOMAIN g /\ c \notin F
  BY <1>2 DEF Laid
<1>5. /\ c + nb \notin DOMAIN g
      /\ Laid(r, c + nb) /\ Tagged(r, c + nb, F)
      /\ \A d \in F : Next_(r, d) = Next_(g, d)
  <2>1. /\ c + nb \notin DOMAIN g
        /\ Laid(CutAt(g, c, nb), IF c = c THEN c + nb ELSE c)
        /\ Tagged(CutAt(g, c, nb), IF c = c THEN c + nb ELSE c, F)
        /\ \A d \in F : Next_(CutAt(g, c, nb), d) = Next_(g, d)
    BY <1>2, <1>3, <1>4, CutTagged
  <2> QED
    BY <2>1
<1>6. Apart(r, c + nb, F)
  <2>1. ASSUME NEW d \in F PROVE Next_(r, d) # c + nb /\ Next_(r, d) \notin F
    <3>1. d \in DOMAIN h \ {tp} /\ d # c /\ Next_(h, d) \in DOMAIN h
      BY <1>1 DEF Good, Tagged, Laid
    <3>2. Next_(h, d) # tp
      BY <1>1, <3>1, EndsDiffer DEF Good
    <3>3. Next_(h, d) \in DOMAIN g
      BY <1>2, <3>1, <3>2
    <3>4. Next_(r, d) = Next_(h, d) /\ Next_(h, d) \notin F
      BY <1>1, <1>2, <1>5 DEF Good, Apart
    <3> QED
      BY <1>5, <3>3, <3>4
  <2> QED
    BY <2>1 DEF Apart
<1>7. /\ DOMAIN r = DOMAIN g \cup {c + nb}
      /\ r[c] = [g[c] EXCEPT !.sz = nb]
      /\ r[c + nb] = [sz |-> g[c].sz - nb, pinuse |-> TRUE, psz |-> 0]
      /\ \A d \in DOMAIN g \ {c} : r[d] = g[d]
  BY <1>4, <1>5 DEF CutAt
<1>8. r[c].sz = nb /\ r[c + nb].sz = g[c].sz - nb
  <2>1. g[c] \in Header
    BY <1>2, <1>4 DEF Laid
  <2> QED
    BY <1>7, <2>1 DEF Header
<1>9. Sized(r, c + nb)
  BY <1>2, <1>3, <1>7, <1>8, ZenonT(40) DEF Sized
<1>10. r[c + nb].sz >= MINSIZE /\ Next_(r, c + nb) = brk
  <2>1. c + g[c].sz = brk /\ g[c].sz \in Nat
    BY <1>1, <1>2 DEF Next_
  <2> QED
    BY <1>1, <1>3, <1>8, <2>1 DEF Next_
<1> QED
  BY <1>5, <1>6, <1>9, <1>10 DEF Whole, Good

-----------------------------------------------------------------------------
(* Every action keeps the heap whole.                                      *)
LEMMA FreeStep ==
  ASSUME Whole(hdr, top, free, system_mem), NEW c \in free, OnFree(c)
  PROVE  Whole(hdr', top', free', system_mem) /\ UNCHANGED system_mem
<1>1. /\ Good(hdr, top, free) /\ Sized(hdr, top) /\ hdr[top].sz >= MINSIZE
      /\ Next_(hdr, top) = system_mem /\ top \in DOMAIN hdr
  BY DEF Whole, Good, Laid
<1>2. CASE Take(c)
  <2>1. hdr' = SetInuse(hdr, c) /\ free' = free \ {c} /\ UNCHANGED <<top, system_mem>>
    BY <1>2 DEF Take
  <2>2. Good(hdr', top, free') /\ Sized(hdr', top)
    BY <1>1, <2>1, TakeGood
  <2>3. hdr'[top].sz = hdr[top].sz
    <3>1. hdr \in [DOMAIN hdr -> Header] /\ Next_(hdr, c) \in DOMAIN hdr
      BY <1>1 DEF Good, Tagged, Laid
    <3> QED
      BY <1>1, <2>1, <3>1, SetInuseShape
  <2> QED
    BY <1>1, <2>1, <2>2, <2>3 DEF Whole, Next_
<1>3. CASE \E nb \in Sizes : TakePart(c, nb)
  <2>1. PICK nb \in Sizes : TakePart(c, nb)
    BY <1>3
  <2>2. /\ nb >= MINSIZE /\ ~TooSmall(hdr[c].sz - nb) /\ hdr' = SplitFree(hdr, c, nb)
        /\ free' = (free \ {c}) \cup {c + nb} /\ UNCHANGED <<top, system_mem>>
    BY <2>1 DEF TakePart
  <2>3. c \in DOMAIN hdr \ {top} /\ c \in Nat /\ hdr[c].sz \in Nat /\ nb \in Nat
    BY <1>1, HeapAssumption DEF Good, Tagged, Laid, Header, Sizes
  <2>4. hdr[c].sz - nb >= MINSIZE
    BY <2>2, <2>3 DEF TooSmall, MINSIZE
  <2>5. Good(hdr', top, free') /\ Sized(hdr', top)
    BY <1>1, <2>2, <2>3, <2>4, SplitGood
  <2>6. hdr'[top].sz = hdr[top].sz
    <3>1. top # c + nb /\ top # c
      <4>1. c + hdr[c].sz <= top /\ top \in Nat
        BY <1>1, <2>3, NextTyped DEF Good, Next_
      <4> QED
        BY <2>3, <2>4, <4>1 DEF MINSIZE
    <3>2. /\ top \in DOMAIN CutAt(hdr, c, nb)
          /\ CutAt(hdr, c, nb)[top] = hdr[top]
      BY <1>1, <3>1 DEF CutAt
    <3>3. hdr[top] \in Header
      BY <1>1 DEF Good, Laid
    <3>4. SplitFree(hdr, c, nb)[top].sz = CutAt(hdr, c, nb)[top].sz
      BY <3>2, <3>3 DEF SplitFree, Header
    <3> QED
      BY <2>2, <3>2, <3>4
  <2> QED
    BY <1>1, <2>2, <2>5, <2>6 DEF Whole, Next_
<1> QED
  BY <1>2, <1>3 DEF OnFree

(* Lemma: what sysmalloc and systrim do to top keeps the heap whole.       *)
LEMMA TopStep ==
  ASSUME IInv, OnTop
  PROVE  Whole(hdr', top', free', system_mem') /\ system_mem' \in Brks
<1>1. PICK brk \in Brks : MoveBreak(brk) \/ \E nb \in Sizes : CutTop(brk, nb)
  BY DEF OnTop
<1>2. CASE MoveBreak(brk)
  BY <1>2, MovedWhole DEF MoveBreak
<1>3. CASE \E nb \in Sizes : CutTop(brk, nb)
  <2>1. PICK nb \in Sizes : CutTop(brk, nb)
    BY <1>3
  <2> PICK g : g = Moved(brk)
    OBVIOUS
  <2> PICK x : x = hdr[top].sz + (brk - system_mem)
    OBVIOUS
  <2>2. /\ nb >= MINSIZE /\ x >= nb + MINSIZE
        /\ hdr' = CutAt(g, top, nb) /\ top' = top + nb /\ system_mem' = brk /\ free' = free
    BY <2>1 DEF CutTop
  <2>3. hdr \in [DOMAIN hdr -> Header] /\ top \in DOMAIN hdr
        /\ system_mem \in Int /\ brk \in Int /\ nb \in Nat
    <3>1. CASE Init
      BY <3>1, InitGood, HeapAssumption DEF Init, Good, Laid, Brks, Sizes
    <3>2. CASE ~Init
      BY <3>2, HeapAssumption DEF IInv, Whole, Good, Laid, Brks, Sizes
    <3> QED
      BY <3>1, <3>2
  <2>4. hdr[top].sz \in Nat /\ x \in Int
    BY <2>3 DEF Header
  <2>5. x >= MINSIZE /\ x - nb >= MINSIZE
    BY <2>2, <2>3, <2>4 DEF MINSIZE
  <2>6. Whole(g, top, free, brk)
    BY <2>5, MovedWhole
  <2>7. g[top].sz = x /\ top \in DOMAIN g /\ top \notin free
    <3>1. g[top].sz = x /\ top \in DOMAIN g
      BY <2>3 DEF Moved, Header
    <3> QED
      BY <2>6, <3>1 DEF Whole, Good, Tagged
  <2>8. Whole(CutAt(g, top, nb), top + nb, free, brk)
    <3>1. Whole(CutAt(g, top, nb), IF top = top THEN top + nb ELSE top, free, brk)
      BY <2>2, <2>3, <2>5, <2>6, <2>7, CutWhole
    <3> QED
      BY <3>1
  <2> QED
    BY <2>2, <2>8
<1> QED
  BY <1>1, <1>2, <1>3

(* Lemma: a chunk that somebody holds, with its next chunk, in a whole     *)
(* heap.                                                                   *)
LEMMA HeldTyped ==
  ASSUME Whole(hdr, top, free, system_mem), NEW c \in Held
  PROVE  /\ c \in DOMAIN hdr \ {top} /\ c \notin free /\ Good(hdr, top, free)
         /\ c \in Nat /\ hdr[c].sz \in Nat /\ hdr[c].sz >= MINSIZE
         /\ \A nb \in Sizes : nb \in Nat
BY HeapAssumption DEF Whole, Good, Laid, Header, Sized, Held, Sizes

(* Lemma: the part of a chunk that memalign frees before the aligned       *)
(* place.                                                                  *)
LEMMA FreeLeadStep ==
  ASSUME Whole(hdr, top, free, system_mem), NEW c \in Held, NEW nb \in Sizes, FreeLead(c, nb)
  PROVE  Whole(hdr', top', free', system_mem) /\ UNCHANGED system_mem
<1> PICK g : g = CutAt(hdr, c, nb)
  OBVIOUS
<1>1. /\ nb >= MINSIZE /\ ~TooSmall(hdr[c].sz - nb) /\ Release(g, free, c, TRUE)
      /\ UNCHANGED system_mem
  BY DEF FreeLead, Release
<1>2. /\ c \in DOMAIN hdr \ {top} /\ c \notin free /\ nb \in Nat /\ hdr[c].sz \in Nat
      /\ hdr[c].sz - nb >= MINSIZE
  BY <1>1, HeldTyped DEF TooSmall, MINSIZE
<1>3. Whole(g, top, free, system_mem)
  <2>1. Whole(CutAt(hdr, c, nb), IF c = top THEN c + nb ELSE top, free, system_mem)
    BY <1>1, <1>2, CutWhole
  <2> QED
    BY <1>2, <2>1
<1>4. c \in DOMAIN g \ {top}
  BY <1>2 DEF CutAt
<1>5. /\ Good(g, top, free) /\ Next_(g, top) = system_mem /\ g[top].sz >= MINSIZE
      /\ \A d \in DOMAIN g \ {top} : g[d].sz >= MINSIZE
  BY <1>3 DEF Whole, Sized
<1> QED
  BY <1>1, <1>2, <1>4, <1>5, ReleaseWhole

(* Lemma: a chunk freed or consolidated, whatever its neighbours.          *)
LEMMA FreeChunkStep ==
  ASSUME Whole(hdr, top, free, system_mem), NEW c \in Held, FreeChunk(c)
  PROVE  Whole(hdr', top', free', system_mem) /\ UNCHANGED system_mem
<1>1. Release(hdr, free, c, TRUE) /\ UNCHANGED system_mem
  BY DEF FreeChunk, Release
<1>2. /\ Good(hdr, top, free) /\ Next_(hdr, top) = system_mem /\ hdr[top].sz >= MINSIZE
      /\ \A d \in DOMAIN hdr \ {top} : hdr[d].sz >= MINSIZE
  BY DEF Whole, Sized
<1>3. c \in DOMAIN hdr \ {top} /\ c \notin free
  BY HeldTyped
<1> QED
  BY <1>1, <1>2, <1>3, ReleaseWhole

(* Lemma: realloc's tail that goes to a fastbin stays a chunk in use.      *)
LEMMA KeepTailWhole ==
  ASSUME NEW h, NEW F, Whole(h, top, F, system_mem), NEW c \in DOMAIN h \ {top}, c \notin F,
         NEW nb \in Nat, KeepTail(h, F, c, nb)
  PROVE  Whole(hdr', top', free', system_mem) /\ UNCHANGED system_mem
<1>1. /\ nb >= MINSIZE /\ ~TooSmall(h[c].sz - nb) /\ hdr' = CutAt(h, c, nb) /\ free' = F
      /\ UNCHANGED <<top, system_mem>>
  BY DEF KeepTail
<1>2. h[c].sz \in Nat /\ h[c].sz - nb >= MINSIZE
  BY <1>1 DEF Whole, Good, Laid, Header, TooSmall, MINSIZE
<1>3. Whole(CutAt(h, c, nb), IF c = top THEN c + nb ELSE top, F, system_mem)
  BY <1>1, <1>2, CutWhole
<1> QED
  BY <1>1, <1>3

(* Lemma: the heap is whole after a chunk has taken the one after it.      *)
LEMMA JoinedWhole ==
  ASSUME Whole(hdr, top, free, system_mem), NEW c \in Held, Next_(hdr, c) # top
  PROVE  /\ Whole(Joined(c), top, Rest(c), system_mem)
         /\ c \in DOMAIN Joined(c) \ {top} /\ c \notin Rest(c)
<1> PICK g : g = Joined(c)
  OBVIOUS
<1> PICK n : n = Next_(hdr, c)
  OBVIOUS
<1>1. /\ Good(hdr, top, free) /\ Sized(hdr, top) /\ hdr[top].sz >= MINSIZE
      /\ Next_(hdr, top) = system_mem /\ c \in DOMAIN hdr \ {top} /\ c \notin free
      /\ g = SetInuse(Absorb(hdr, c), c) /\ Rest(c) = free \ {n}
  BY HeldTyped DEF Whole, Joined, Rest
<1>2. Good(g, top, free \ {n}) /\ DOMAIN g = DOMAIN hdr \ {n} /\ Sized(g, top)
  <2>1. JoinedWith(hdr, top, free, n, g)
    BY <1>1, JoinGood
  <2> QED
    BY <1>1, <2>1 DEF JoinedWith
<1>3. c # n /\ top # c
  BY <1>1, NextTyped DEF Good
<1>4. g[top].sz = hdr[top].sz
  <2>1. Absorbed(hdr, top, c, n, Absorb(hdr, c))
    BY <1>1, AbsorbLaid DEF Good
  <2> PICK a : a = Absorb(hdr, c)
    OBVIOUS
  <2>2. /\ a \in [DOMAIN a -> Header] /\ a[top].sz = hdr[top].sz /\ top \in DOMAIN a
        /\ c \in DOMAIN a \ {top} /\ Laid(a, top)
    <3>1. top \in DOMAIN hdr \ {c, n} /\ n # top
      BY <1>1, <1>3 DEF Good, Laid
    <3> QED
      BY <1>1, <1>3, <2>1, <3>1 DEF Absorbed
  <2>3. Next_(a, c) \in DOMAIN a
    BY <2>2, NextTyped
  <2> QED
    BY <1>1, <2>2, <2>3, SetInuseShape
<1> QED
  BY <1>1, <1>2, <1>3, <1>4 DEF Whole, Next_

(* Lemma: every action on a chunk that is neither free nor top keeps the   *)
(* heap whole.                                                             *)
LEMMA HeldStep ==
  ASSUME Whole(hdr, top, free, system_mem), NEW c \in Held, OnHeld(c)
  PROVE  Whole(hdr', top', free', system_mem) /\ UNCHANGED system_mem
<1>1. c \in DOMAIN hdr \ {top} /\ c \notin free /\ \A nb \in Sizes : nb \in Nat
  BY HeldTyped
<1>2. CASE FreeChunk(c)
  BY <1>2, FreeChunkStep
<1>3. CASE Join(c)
  BY <1>3, JoinedWhole DEF Join
<1>4. ASSUME NEW nb \in Sizes, FreeLead(c, nb)
      PROVE  Whole(hdr', top', free', system_mem) /\ UNCHANGED system_mem
  BY <1>4, FreeLeadStep
<1>5. ASSUME NEW nb \in Sizes, FreeTail(hdr, free, c, nb)
      PROVE  Whole(hdr', top', free', system_mem) /\ UNCHANGED system_mem
  <2>1. Whole(hdr', top', free', system_mem)
    BY <1>1, <1>5, FreeTailWhole
  <2> QED
    BY <1>5, <2>1 DEF FreeTail, Release
<1>6. ASSUME NEW nb \in Sizes, KeepTail(hdr, free, c, nb)
      PROVE  Whole(hdr', top', free', system_mem) /\ UNCHANGED system_mem
  BY <1>1, <1>6, KeepTailWhole
<1>7. ASSUME NEW nb \in Sizes, JoinFreeTail(c, nb)
      PROVE  Whole(hdr', top', free', system_mem) /\ UNCHANGED system_mem
  <2>1. Next_(hdr, c) # top /\ FreeTail(Joined(c), Rest(c), c, nb)
    BY <1>7 DEF JoinFreeTail
  <2>2. /\ Whole(Joined(c), top, Rest(c), system_mem)
        /\ c \in DOMAIN Joined(c) \ {top} /\ c \notin Rest(c)
    BY <2>1, JoinedWhole
  <2>3. Whole(hdr', top', free', system_mem)
    BY <1>1, <2>1, <2>2, FreeTailWhole
  <2> QED
    BY <2>1, <2>3 DEF FreeTail, Release
<1>8. ASSUME NEW nb \in Sizes, JoinKeepTail(c, nb)
      PROVE  Whole(hdr', top', free', system_mem) /\ UNCHANGED system_mem
  <2>1. Next_(hdr, c) # top /\ KeepTail(Joined(c), Rest(c), c, nb)
    BY <1>8 DEF JoinKeepTail
  <2>2. /\ Whole(Joined(c), top, Rest(c), system_mem)
        /\ c \in DOMAIN Joined(c) \ {top} /\ c \notin Rest(c)
    BY <2>1, JoinedWhole
  <2> QED
    BY <1>1, <2>1, <2>2, KeepTailWhole
<1>9. ASSUME NEW nb \in Sizes, JoinTop(c, nb)
      PROVE  Whole(hdr', top', free', system_mem) /\ UNCHANGED system_mem
  <2>1. /\ Next_(hdr, c) = top /\ nb > hdr[c].sz /\ hdr[c].sz + hdr[top].sz >= nb + MINSIZE
        /\ hdr' = CutAt(Absorb(hdr, c), c, nb) /\ top' = c + nb /\ UNCHANGED <<system_mem, free>>
    BY <1>9 DEF JoinTop
  <2>2. Whole(CutAt(Absorb(hdr, c), c, nb), c + nb, free, system_mem)
    BY <1>1, <2>1, JoinTopWhole
  <2> QED
    BY <2>1, <2>2
<1> QED
  BY <1>2, <1>3, <1>4, <1>5, <1>6, <1>7, <1>8, <1>9 DEF OnHeld

(* Lemma: the invariant is inductive.                                      *)
LEMMA StepIInv == IInv /\ [Next]_vars => IInv'
<1> SUFFICES ASSUME IInv, [Next]_vars
             PROVE  \/ Whole(hdr, top, free, system_mem)' /\ system_mem' \in Brks
                    \/ Init'
  BY DEF IInv
<1>1. CASE OnTop
  BY <1>1, TopStep DEF Whole
<1>2. ASSUME Init PROVE free = {} /\ Held = {}
  BY <1>2 DEF Init, Held
<1>3. ASSUME NEW c \in free, OnFree(c)
      PROVE  Whole(hdr, top, free, system_mem)' /\ system_mem' \in Brks
  BY <1>2, <1>3, FreeStep DEF IInv
<1>4. ASSUME NEW c \in Held, OnHeld(c)
      PROVE  Whole(hdr, top, free, system_mem)' /\ system_mem' \in Brks
  BY <1>2, <1>4, HeldStep DEF IInv
<1>5. CASE UNCHANGED vars
  BY <1>5 DEF vars, IInv, Init
<1> QED
  BY <1>1, <1>3, <1>4, <1>5 DEF Next

(* Theorem: whatever is split, merged, joined, grown or trimmed, for every *)
(* heap limit, the heap is whole: it is tiled, tagged and coalesced.       *)
THEOREM HeapInvariant == Spec => []IInv
<1>1. Init => IInv
  BY DEF IInv
<1> QED
  BY <1>1, StepIInv, PTL DEF Spec

-----------------------------------------------------------------------------
(* Lemma: what the invariant says in the words of the properties.          *)
LEMMA InvTyped == IInv => TypeOK
<1>1. ASSUME Init PROVE TypeOK
  BY <1>1, HeapAssumption DEF Init, TypeOK, Brks
<1>2. ASSUME Whole(hdr, top, free, system_mem), system_mem \in Brks PROVE TypeOK
  BY <1>2 DEF Whole, Good, Laid, Tagged, TypeOK, Header
<1> QED
  BY <1>1, <1>2 DEF IInv

(* Lemma: the inductive invariant gives the tiling; top's PREV_INUSE       *)
(* follows from the chunk before top not being free.                       *)
LEMMA InvTiled == IInv => Tiling
<1>1. ASSUME Init PROVE Tiling
  BY <1>1 DEF Init, Tiling, Next_
<1>2. ASSUME Whole(hdr, top, free, system_mem) PROVE Tiling
  <2>1. hdr[top].pinuse
    <3>1. CASE top = 0
      BY <1>2, <3>1 DEF Whole, Good, Tagged
    <3>2. CASE top # 0
      <4>1. PICK c \in DOMAIN hdr \ {top} : Next_(hdr, c) = top
        BY <1>2, <3>2 DEF Whole, Good, Laid
      <4>2. c \notin free
        BY <1>2, <4>1 DEF Whole, Good, Apart
      <4> QED
        BY <1>2, <4>1, <4>2 DEF Whole, Good, Tagged
    <3> QED
      BY <3>1, <3>2
  <2> QED
    BY <1>2, <2>1 DEF Whole, Good, Laid, Sized, Tiling
<1> QED
  BY <1>1, <1>2 DEF IInv

(* Lemma: the inductive invariant gives the boundary tags.                 *)
LEMMA InvTagged == IInv => BoundaryTags
BY DEF IInv, Init, Whole, Good, Tagged, BoundaryTags

(* Lemma: the inductive invariant gives the coalescing.                    *)
LEMMA InvCoalesced == IInv => Coalesced
BY DEF IInv, Init, Whole, Good, Apart, Coalesced

(* Theorem: headers are chunk headers and the bins hold chunks, not top.   *)
THEOREM HeapTyped == Spec => []TypeOK
<1> QED
  BY HeapInvariant, InvTyped, PTL

(* Theorem: the chunks tile the heap up to the break.                      *)
THEOREM HeapTiling == Spec => []Tiling
<1> QED
  BY HeapInvariant, InvTiled, PTL

(* Theorem: the header after a chunk tells whether it is free, and how     *)
(* large it then is.                                                       *)
THEOREM HeapBoundaryTags == Spec => []BoundaryTags
<1> QED
  BY HeapInvariant, InvTagged, PTL

(* Theorem: no binned chunk borders another one or top.                    *)
THEOREM HeapCoalesced == Spec => []Coalesced
<1> QED
  BY HeapInvariant, InvCoalesced, PTL

-----------------------------------------------------------------------------
(* calloc.                                                                 *)

(* Lemma: whatever calloc and the calls around it do is something that the *)
(* heap does.                                                              *)
LEMMA CallocStepsHeap ==
  ASSUME CallocNext, InCalloc => call.nb \in Sizes
  PROVE  [Next]_vars
<1>1. CASE Policy BY <1>1 DEF Policy, Next
<1>2. ASSUME NEW brk \in Brks, Trim(brk) \/ \E nb \in Sizes : Top(brk, nb) PROVE Next
  BY <1>2 DEF Trim, Top, Next, OnTop
<1>3. ASSUME NEW nb, Calloc(nb) PROVE UNCHANGED vars BY <1>3 DEF Calloc
<1>4. ASSUME NEW c \in Held, CallocConsolidate(c) PROVE Next
  BY <1>4 DEF CallocConsolidate, Next, OnHeld
<1>5. ASSUME NEW c, CallocFast(c) PROVE UNCHANGED vars BY <1>5 DEF CallocFast
<1>6. ASSUME NEW c \in free, CallocBin(c) PROVE Next
  BY <1>6 DEF CallocBin, Next, OnFree
<1>7. ASSUME NEW brk \in Brks, CallocTop(brk) PROVE Next
  BY <1>7 DEF CallocTop, Next, OnTop
<1>8. CASE CallocFails BY <1>8 DEF CallocFails
<1> QED BY <1>1, <1>2, <1>3, <1>4, <1>5, <1>6, <1>7, <1>8 DEF CallocNext

(* Memory that may not be clear is below the largest size that sysmalloc   *)
(* has seen (but for top's first header), and what calloc remembers of top *)
(* reaches that far.                                                       *)
CallOK ==
  InCalloc => /\ call.nb \in Sizes
              /\ call.oldtop # None => /\ call.oldtop \in Nat /\ call.oldtopsize \in Int
                                       /\ call.oldtopsize >= max_system_mem - call.oldtop
                                       /\ overgrown \/ max_system_mem > 0
CallocInv ==
  /\ max_system_mem \in Nat /\ garbage \in Nat
  /\ ~overgrown => /\ system_mem <= max_system_mem
                   /\ garbage <= Larger(2, 2 * max_system_mem)
                   /\ stale = {}
  /\ CallOK

(* Top's memory starts below the break.                                    *)
TopBelow ==
  /\ system_mem \in Nat /\ top \in Nat /\ hdr[top].sz \in Nat
  /\ system_mem = top + hdr[top].sz /\ (system_mem > 0 => hdr[top].sz >= MINSIZE)

(* The size of top follows from the tiling of the heap.                    *)
LEMMA TopBelowBreak == IInv => TopBelow
<1> SUFFICES ASSUME IInv PROVE TopBelow OBVIOUS
<1>1. TypeOK /\ Tiling BY InvTyped, InvTiled
<1> QED BY <1>1, HeapAssumption DEF TypeOK, Tiling, Next_, Brks, TopBelow

(* Lemma: the larger of two numbers.                                       *)
LEMMA LargerBounds ==
  ASSUME NEW m \in Nat, NEW n \in Nat
  PROVE  Larger(m, n) \in Nat /\ Larger(m, n) \in {m, n} /\ Larger(m, n) >= m /\ Larger(m, n) >= n
BY DEF Larger

(* Lemma: the mark after a step is a number: s and g are the break and the *)
(* mark before it, s1 and t1 the break and top after it.                   *)
LEMMA DirtyNumber ==
  ASSUME NEW s \in Nat, NEW g \in Nat, NEW s1 \in Nat, NEW t1 \in Nat
  PROVE  Larger(g, Larger(2 * t1 + 2, IF s1 < s THEN 2 * s ELSE 0)) \in Nat
BY DEF Larger

(* Lemma: what a step of the heap may dirty stays below the mark.          *)
LEMMA DirtiedBelow ==
  ASSUME IInv, IInv', CallocInv, Dirtied, max_system_mem' \in Nat,
         ~overgrown' => ~overgrown /\ max_system_mem' >= Larger(max_system_mem, system_mem')
  PROVE  /\ garbage' \in Nat
         /\ ~overgrown' => garbage' <= Larger(2, 2 * max_system_mem')
                           /\ system_mem' <= max_system_mem'
<1>1. TopBelow /\ TopBelow' BY TopBelowBreak, PTL
<1>2. PICK s, m, g, s1, m1, t1, z1 :
        /\ s = system_mem /\ m = max_system_mem /\ g = garbage
        /\ s1 = system_mem' /\ m1 = max_system_mem' /\ t1 = top' /\ z1 = hdr'[top'].sz
  OBVIOUS
<1>3. s \in Nat /\ m \in Nat /\ g \in Nat /\ m1 \in Nat BY <1>1, <1>2 DEF CallocInv, TopBelow
<1>4. /\ s1 \in Nat /\ t1 \in Nat /\ z1 \in Nat
      /\ s1 = t1 + z1 /\ (s1 > 0 => z1 >= MINSIZE)
  BY <1>1, <1>2 DEF TopBelow
<1>5. garbage' = Larger(g, Larger(2 * t1 + 2, IF s1 < s THEN 2 * s ELSE 0))
  BY <1>2 DEF Dirtied
<1>6. Larger(g, Larger(2 * t1 + 2, IF s1 < s THEN 2 * s ELSE 0)) \in Nat
  BY ONLY <1>3, <1>4, DirtyNumber
<1>7. ASSUME ~overgrown'
      PROVE  garbage' <= Larger(2, 2 * max_system_mem') /\ system_mem' <= max_system_mem'
  <2>1. s <= m /\ g <= Larger(2, 2 * m) /\ m1 >= Larger(m, s1)
    BY <1>2, <1>7 DEF CallocInv
  <2>2. /\ Larger(g, Larger(2 * t1 + 2, IF s1 < s THEN 2 * s ELSE 0)) <= Larger(2, 2 * m1)
        /\ s1 <= m1
    <3> DEFINE mark == Larger(2, 2 * m1)
    <3>1. m1 >= m /\ m1 >= s1 BY ONLY <1>3, <1>4, <2>1 DEF Larger
    <3>2. mark \in Nat /\ mark >= 2 /\ mark >= 2 * m1 BY ONLY <1>3 DEF Larger
    <3>3. g <= mark BY ONLY <1>3, <2>1, <3>1 DEF Larger
    <3> HIDE DEF mark
    <3>4. 2 * t1 + 2 <= mark BY ONLY <1>3, <1>4, <3>1, <3>2 DEF MINSIZE
    <3>5. (IF s1 < s THEN 2 * s ELSE 0) <= mark BY ONLY <1>3, <1>4, <2>1, <3>1, <3>2
    <3> QED BY ONLY <1>3, <1>4, <3>1, <3>2, <3>3, <3>4, <3>5 DEF Larger, mark
  <2> QED BY <1>2, <1>5, <2>2
<1> QED BY <1>5, <1>6, <1>7

(* Lemma: what calloc leaves uncleared lies above the mark.                *)
LEMMA UnclearedFresh ==
  ASSUME CallocInv, InCalloc, NEW p \in Nat, NEW csz \in Nat, ~overgrown
  PROVE  {w \in Uncleared(p, csz) : w < garbage} = {}
<1> DEFINE clear == IF p = call.oldtop /\ csz > call.oldtopsize THEN call.oldtopsize ELSE csz
<1>1. max_system_mem \in Nat /\ garbage \in Nat /\ garbage <= Larger(2, 2 * max_system_mem)
  BY DEF CallocInv
<1>2. SUFFICES ASSUME NEW w \in Uncleared(p, csz), w < garbage PROVE FALSE
  OBVIOUS
<1>3. Uncleared(p, csz) = (2 * p + 2 .. 2 * (p + csz)) \ (2 * p + 2 .. 2 * p + 2 + (2 * clear - 1) - 1)
  BY DEF Uncleared
<1> HIDE DEF clear
<1>4. /\ w \in (2 * p + 2 .. 2 * (p + csz))
      /\ w \notin (2 * p + 2 .. 2 * p + 2 + (2 * clear - 1) - 1)
  BY <1>2, <1>3
<1>5. w \in Int /\ 2 * p + 2 <= w /\ w <= 2 * (p + csz)
  BY <1>4
<1>6. CASE p = call.oldtop /\ csz > call.oldtopsize
  <2>1. clear = call.oldtopsize BY <1>6 DEF clear
  <2>2. call.oldtop # None BY <1>6, NoneAssumption
  <2>3. /\ call.oldtopsize \in Int /\ call.oldtopsize >= max_system_mem - call.oldtop
        /\ max_system_mem > 0
    BY <2>2 DEF CallocInv, CallOK
  <2>4. w > 2 * p + 2 + (2 * clear - 1) - 1 BY <1>4, <1>5, <2>1, <2>3
  <2>5. garbage <= 2 * max_system_mem BY <1>1, <2>3 DEF Larger
  <2> QED BY <1>1, <1>2, <1>5, <1>6, <2>1, <2>3, <2>4, <2>5
<1>7. CASE ~(p = call.oldtop /\ csz > call.oldtopsize)
  <2>1. clear = csz BY <1>7 DEF clear
  <2> QED BY <1>4, <1>5, <2>1
<1> QED BY <1>6, <1>7

(* Lemma: every step keeps the mark.                                       *)
LEMMA CallocInvStep ==
  ASSUME IInv, IInv', CallocInv, CallocNext
  PROVE  CallocInv'
<1> USE DEF CallocInv
<1>0. /\ system_mem \in Nat /\ top \in Nat /\ hdr[top].sz \in Nat
      /\ system_mem' \in Nat
  <2>1. TopBelow /\ TopBelow' BY TopBelowBreak, PTL
  <2> QED BY <2>1 DEF TopBelow
<1>1. ASSUME Dirtied, UNCHANGED <<max_system_mem, overgrown>>, system_mem' = system_mem
      PROVE  /\ max_system_mem' \in Nat /\ garbage' \in Nat
             /\ ~overgrown' => /\ system_mem' <= max_system_mem'
                               /\ garbage' <= Larger(2, 2 * max_system_mem')
  BY <1>0, <1>1, DirtiedBelow DEF Larger
<1>2. ASSUME Dirtied, Sysmalloced(system_mem'), UNCHANGED overgrown, system_mem' >= system_mem
      PROVE  /\ max_system_mem' \in Nat /\ garbage' \in Nat
             /\ ~overgrown' => /\ system_mem' <= max_system_mem'
                               /\ garbage' <= Larger(2, 2 * max_system_mem')
  <2>1. max_system_mem' \in Nat /\ (~overgrown => max_system_mem' >= Larger(max_system_mem, system_mem'))
    BY <1>0, <1>2 DEF Sysmalloced, Larger
  <2> QED BY <1>2, <2>1, DirtiedBelow
<1>3. CASE Policy
  <2>1. ASSUME NEW c \in free, OnFree(c) PROVE system_mem' = system_mem
    BY <2>1 DEF OnFree, Take, TakePart
  <2>2. ASSUME NEW c \in Held, OnHeld(c) PROVE system_mem' = system_mem
    BY <2>2 DEF OnHeld, FreeChunk, Join, FreeLead, FreeTail, KeepTail, JoinFreeTail, JoinKeepTail,
         JoinTop, Release
  <2> QED BY <1>1, <1>3, <2>1, <2>2 DEF Policy, CallOK, InCalloc
<1>4. ASSUME NEW brk \in Brks, Trim(brk) PROVE CallocInv'
  <2>1. system_mem' = brk BY <1>4 DEF Trim, MoveBreak
  <2>2. ~overgrown' => ~overgrown /\ max_system_mem' >= Larger(max_system_mem, system_mem')
    <3>1. overgrown' = (overgrown \/ brk > max_system_mem) /\ max_system_mem' = max_system_mem
      BY <1>4 DEF Trim
    <3>2. max_system_mem \in Nat /\ brk \in Nat BY <1>0, <2>1
    <3>3. ASSUME ~overgrown' PROVE ~overgrown /\ ~(brk > max_system_mem) BY <3>1, <3>3
    <3>4. ~(brk > max_system_mem) => max_system_mem >= Larger(max_system_mem, brk)
      BY ONLY <3>2 DEF Larger
    <3> QED BY <2>1, <3>1, <3>3, <3>4
  <2>3. /\ garbage' \in Nat
        /\ ~overgrown' => garbage' <= Larger(2, 2 * max_system_mem')
                          /\ system_mem' <= max_system_mem'
    BY <1>4, <2>2, DirtiedBelow DEF Trim
  <2> QED BY <1>4, <2>3 DEF Trim, CallOK, InCalloc
<1>5. ASSUME NEW brk \in Brks, NEW nb \in Sizes, Top(brk, nb) PROVE CallocInv'
  <2>1. system_mem' = brk /\ brk >= system_mem BY <1>5 DEF Top, CutTop
  <2> QED BY <1>2, <1>5, <2>1 DEF Top, CallOK, InCalloc
<1>6. ASSUME NEW nb \in Sizes, Calloc(nb) PROVE CallocInv'
  <2>1. UNCHANGED <<hdr, top, system_mem, max_system_mem, garbage, overgrown>> /\ stale' = {}
        /\ call' = [nb |-> nb, oldtop |-> IF system_mem = 0 THEN None ELSE top,
                    oldtopsize |-> OldTopSize]
    BY <1>6 DEF Calloc, vars
  <2>2. OldTopSize \in Int /\ OldTopSize >= max_system_mem - top
    BY <1>0 DEF OldTopSize, Larger
  <2>3. CallOK' BY <1>0, <2>1, <2>2 DEF CallOK
  <2> QED BY <2>1, <2>3
<1>7. ASSUME NEW c, CallocConsolidate(c) PROVE CallocInv'
  <2>1. system_mem' = system_mem BY <1>7 DEF CallocConsolidate, FreeChunk, Release
  <2> QED BY <1>1, <1>7, <2>1 DEF CallocConsolidate, CallOK, InCalloc
<1>8. ASSUME NEW p, InCalloc, p \in DOMAIN hdr', Returns(p)
      PROVE  (~overgrown' => stale' = {}) /\ CallOK' /\ Dirtied /\ UNCHANGED overgrown
  <2>1. p \in Nat /\ hdr'[p].sz \in Nat
    <3>1. TypeOK' BY InvTyped, PTL
    <3> QED BY <1>8, <3>1 DEF TypeOK
  <2>2. ~overgrown => {w \in Uncleared(p, hdr'[p].sz) : w < garbage} = {}
    BY <1>8, <2>1, UnclearedFresh
  <2> QED BY <1>8, <2>2 DEF Returns, CallOK, InCalloc
<1>9. ASSUME NEW c \in free, CallocBin(c) PROVE CallocInv'
  <2>1. TypeOK BY InvTyped
  <2>2. c \in DOMAIN hdr' /\ system_mem' = system_mem
    BY <1>9, <2>1 DEF CallocBin, Take, TakePart, SetInuse, SplitFree, CutAt, TypeOK
  <2> QED BY <1>1, <1>8, <1>9, <2>2 DEF CallocBin
<1>10. ASSUME NEW c \in Held, CallocFast(c) PROVE CallocInv'
  <2>1. c \in DOMAIN hdr' /\ system_mem' = system_mem BY <1>10 DEF CallocFast, vars, Held
  <2> QED BY <1>1, <1>8, <1>10, <2>1 DEF CallocFast
<1>11. ASSUME NEW brk \in Brks, CallocTop(brk) PROVE CallocInv'
  <2>1. TypeOK BY InvTyped
  <2>2. top \in DOMAIN hdr' /\ system_mem' = brk /\ brk >= system_mem
    BY <1>11, <2>1 DEF CallocTop, CutTop, CutAt, Moved, TypeOK
  <2> QED BY <1>2, <1>8, <1>11, <2>2 DEF CallocTop
<1>12. CASE CallocFails
  BY <1>12 DEF CallocFails, CallOK, InCalloc, vars
<1> QED BY <1>3, <1>4, <1>5, <1>6, <1>7, <1>9, <1>10, <1>11, <1>12 DEF CallocNext

(* Theorem: the heap under calloc is the heap of ScallocHeap.              *)
THEOREM CallocHeap == CallocSpec => Spec
<1> DEFINE NbOK == InCalloc => call.nb \in Sizes
<1>1. CallocInit => Init /\ NbOK BY DEF CallocInit, InCalloc
<1>2. NbOK /\ [CallocNext]_<<vars, callocVars>> => [Next]_vars /\ NbOK'
  <2> SUFFICES ASSUME NbOK, [CallocNext]_<<vars, callocVars>> PROVE [Next]_vars /\ NbOK'
    OBVIOUS
  <2>1. [Next]_vars BY CallocStepsHeap
  <2>2. call' = call \/ call' = NoCall \/ \E nb \in Sizes : call'.nb = nb
    BY DEF CallocNext, Policy, Trim, Top, Calloc, CallocConsolidate, CallocFast, CallocBin, CallocTop,
       CallocFails, Returns, callocVars
  <2> QED BY <2>1, <2>2 DEF InCalloc
<1> QED BY <1>1, <1>2, PTL DEF CallocSpec, Spec

(* Theorem: what calloc returns is clear, although it clears only a part   *)
(* of what it cuts from top; unless systrim made the heap larger than      *)
(* max_system_mem knows.                                                   *)
THEOREM CallocReturnsClear == CallocSpec => []CallocClears
<1>1. CallocInit => CallocInv
  BY DEF CallocInit, CallocInv, CallOK, InCalloc, Init, Larger
<1>2. IInv /\ IInv' /\ CallocInv /\ [CallocNext]_<<vars, callocVars>> => CallocInv'
  <2> SUFFICES ASSUME IInv, IInv', CallocInv, [CallocNext]_<<vars, callocVars>> PROVE CallocInv'
    OBVIOUS
  <2>1. CASE UNCHANGED <<vars, callocVars>>
    BY <2>1 DEF CallocInv, CallOK, InCalloc, vars, callocVars
  <2> QED BY <2>1, CallocInvStep
<1>3. CallocInv => CallocClears BY DEF CallocInv, CallocClears
<1>4. CallocSpec => []IInv BY CallocHeap, HeapInvariant, PTL
<1> QED BY <1>1, <1>2, <1>3, <1>4, PTL DEF CallocSpec
=============================================================================
